----------------------------- MODULE Encodings ------------------------------
(***************************************************************************)
(* What LevelDB puts into a record of its log and of its descriptor, and   *)
(* how it is read back: leveldb/util/coding.cc (varints, length-prefixed   *)
(* slices), leveldb/db/write_batch.cc and leveldb/db/version_edit.cc.      *)
(*                                                                         *)
(* A byte is a number below 2 * Base, and the bit of weight Base says that *)
(* more bytes of the varint follow (Base is 128 in the code, and a varint  *)
(* has at most 5 or 10 bytes).  The header of a write batch is one byte of *)
(* sequence number and one of count.  The record is written by one         *)
(* process, may be cut short or have a byte altered, and is read back one  *)
(* entry a step, into a new edit or into the memtable.                     *)
(***************************************************************************)
EXTENDS Naturals, Sequences, SequencesExt, FiniteSets

CONSTANTS
  Base,          \* weight of the continuation bit
  Bits32, Digits32,  \* width of a 32-bit number, and the most bytes it takes
  Bits64, Digits64,  \* the same of a 64-bit number
  EncLevels,     \* config::kNumLevels
  Numbers,       \* the 64-bit numbers written
  Slices,        \* the keys, values and names written
  AlteredTo,     \* the values an altered byte takes
  MaxEntries     \* bound on the entries of a record

VARIABLES
  format,        \* "edit" or "batch": what the record holds
  built,         \* what the writer was asked to put into it, in order
  record,        \* its bytes, <<>> until it is written
  harm,          \* "none", or what happened to the bytes: "cut" or "altered"
  phase,         \* "build", "written", "read" or "done"
  input,         \* the bytes not read yet
  decoded,       \* the entries read so far
  msg            \* did the reader report corruption

encVars == <<format, built, record, harm, phase, input, decoded, msg>>

-----------------------------------------------------------------------------
(* coding.cc *)

\* VarintLength, for the widths in use.
VarintLength(v) == CHOOSE n \in 1 .. Digits64 : v < Base ^ n /\ (n = 1 \/ v >= Base ^ (n - 1))

\* EncodeVarint32 and EncodeVarint64 write the same bytes: the low digits first.
EncodeVarint(v) ==
  LET n == VarintLength(v)
  IN  [i \in 1 .. n |-> ((v \div Base ^ (i - 1)) % Base) + (IF i < n THEN Base ELSE 0)]

\* A failed read, and a read that leaves rest.
NotRead == [ok |-> FALSE]
ReadValue(v, rest) == [ok |-> TRUE, value |-> v, rest |-> rest]

\* GetVarint32 and GetVarint64: at most digits bytes, the bits past the width are lost.
GetVarint(in, digits, bits) ==
  LET ends == {n \in 1 .. digits : n <= Len(in) /\ in[n] < Base}
      Sum(n) == FoldLeft(LAMBDA acc, i : acc + (in[i] % Base) * Base ^ (i - 1), 0, [i \in 1 .. n |-> i])
      Upto(n) == ReadValue(Sum(n) % (2 ^ bits), SubSeq(in, n + 1, Len(in)))
  IN  IF ends = {} THEN NotRead ELSE Upto(CHOOSE k \in ends : \A j \in ends : k <= j)

PutLengthPrefixedSlice(s) == EncodeVarint(Len(s)) \o s

GetLengthPrefixedSlice(in) ==
  LET After(len) ==
        IF ~len.ok \/ Len(len.rest) < len.value THEN NotRead
        ELSE ReadValue(SubSeq(len.rest, 1, len.value), SubSeq(len.rest, len.value + 1, Len(len.rest)))
  IN  After(GetVarint(in, Digits32, Bits32))

-----------------------------------------------------------------------------
(* version_edit.cc *)

\* GetLevel: a 32-bit number that is a level.
GetLevel(in) ==
  LET Checked(v) == IF v.ok /\ v.value < EncLevels THEN v ELSE NotRead
  IN  Checked(GetVarint(in, Digits32, Bits32))

\* The fields that follow each tag.
EditFields ==
  [comparator |-> <<"slice">>, logNumber |-> <<"number">>, prevLogNumber |-> <<"number">>,
   nextFileNumber |-> <<"number">>, lastSequence |-> <<"number">>,
   compactPointer |-> <<"level", "slice">>, deletedFile |-> <<"level", "number">>,
   newFile |-> <<"level", "number", "number", "slice", "slice">>]
EditTag ==
  [comparator |-> 1, logNumber |-> 2, nextFileNumber |-> 3, lastSequence |-> 4,
   compactPointer |-> 5, deletedFile |-> 6, newFile |-> 7, prevLogNumber |-> 9]

\* EncodeTo writes the kinds of entries in this order.
EncodeOrder == <<"comparator", "logNumber", "prevLogNumber", "nextFileNumber", "lastSequence",
                 "compactPointer", "deletedFile", "newFile">>
Single == {"comparator", "logNumber", "prevLogNumber", "nextFileNumber", "lastSequence"}

PutField(kind, x) == IF kind = "slice" THEN PutLengthPrefixedSlice(x) ELSE EncodeVarint(x)
GetField(kind, in) ==
  CASE kind = "slice"  -> GetLengthPrefixedSlice(in)
    [] kind = "level"  -> GetLevel(in)
    [] kind = "number" -> GetVarint(in, Digits64, Bits64)

PutFields(kinds, xs) == FoldLeft(LAMBDA out, i : out \o PutField(kinds[i], xs[i]), <<>>, [i \in DOMAIN xs |-> i])
GetFields(kinds, in) ==
  LET More(got, x) == IF x.ok THEN ReadValue(Append(got.value, x.value), x.rest) ELSE NotRead
  IN  FoldLeft(LAMBDA got, kind : IF got.ok THEN More(got, GetField(kind, got.rest)) ELSE got,
               ReadValue(<<>>, in), kinds)

\* deleted_files_ is a set, written in the order of level and number.
EarlierFile(a, b) == a[1] < b[1] \/ (a[1] = b[1] /\ a[2] < b[2])

\* The entries of an edit in the order EncodeTo writes them: the last value set
\* of a single field, the files deleted as a set, the others as they were added.
InOrder(es) ==
  LET Of(k)      == SelectSeq(es, LAMBDA e : e.kind = k)
      Deleted    == {Of("deletedFile")[i].fields : i \in DOMAIN Of("deletedFile")}
      Written(k) ==
        IF k \in Single THEN IF Of(k) = <<>> THEN <<>> ELSE <<Of(k)[Len(Of(k))]>>
        ELSE IF k = "deletedFile"
             THEN LET s == SetToSortSeq(Deleted, EarlierFile)
                  IN  [i \in DOMAIN s |-> [kind |-> k, fields |-> s[i]]]
             ELSE Of(k)
  IN  FoldLeft(LAMBDA out, k : out \o Written(k), <<>>, EncodeOrder)

EncodeTo(es) ==
  FoldLeft(LAMBDA out, e : out \o EncodeVarint(EditTag[e.kind]) \o PutFields(EditFields[e.kind], e.fields),
           <<>>, InOrder(es))

-----------------------------------------------------------------------------
(* write_batch.cc *)

BatchFields == [put |-> <<"slice", "slice">>, delete |-> <<"slice">>]
BatchTag == [delete |-> 0, put |-> 1]
kHeader == 2

\* WriteBatch::Put, WriteBatch::Delete and WriteBatchInternal::Append count what they add.
BatchRep(seq, es) ==
  <<seq, Len(es)>> \o
  FoldLeft(LAMBDA out, e : out \o <<BatchTag[e.kind]>> \o PutFields(BatchFields[e.kind], e.fields), <<>>, es)
FirstSequence == 5
BatchCount == record[2]
BatchSequence == record[1]

-----------------------------------------------------------------------------
EncInit ==
  /\ format \in {"edit", "batch"}
  /\ built = <<>> /\ record = <<>> /\ harm = "none" /\ phase = "build"
  /\ input = <<>> /\ decoded = <<>> /\ msg = FALSE

\* The values given to an entry with these fields; both numbers and both keys of a
\* new file are the same.
EntryValues(kinds) ==
  LET levels == 0 .. EncLevels - 1
  IN  CASE kinds = <<"slice">>           -> {<<s>> : s \in Slices}
        [] kinds = <<"number">>          -> {<<n>> : n \in Numbers}
        [] kinds = <<"slice", "slice">>  -> Slices \X Slices
        [] kinds = <<"level", "slice">>  -> levels \X Slices
        [] kinds = <<"level", "number">> -> levels \X Numbers
        [] OTHER -> {<<l, n, n, s, s>> : l \in levels, n \in Numbers, s \in Slices}

\* A setter of the edit, or Put and Delete on the batch.
BuildEntry ==
  /\ phase = "build" /\ Len(built) < MaxEntries
  /\ \E k \in DOMAIN (IF format = "edit" THEN EditFields ELSE BatchFields) :
       \E xs \in EntryValues(IF format = "edit" THEN EditFields[k] ELSE BatchFields[k]) :
         built' = Append(built, [kind |-> k, fields |-> xs])
  /\ UNCHANGED <<format, record, harm, phase, input, decoded, msg>>

\* The writer adds the encoded entries to the file as one record.
WriteRecord ==
  /\ phase = "build"
  /\ record' = IF format = "edit" THEN EncodeTo(built) ELSE BatchRep(FirstSequence, built)
  /\ phase' = "written"
  /\ UNCHANGED <<format, built, harm, input, decoded, msg>>

\* The bytes that the reader is given: all, a beginning, or some that were altered.
\* DecodeFrom starts with Clear(), Iterate with the bytes after the header.
OpenRecord(bytes) ==
  /\ record' = bytes
  /\ decoded' = <<>>
  /\ IF format = "edit" THEN input' = bytes /\ msg' = FALSE /\ phase' = "read"
     ELSE IF Len(bytes) < kHeader THEN input' = <<>> /\ msg' = TRUE /\ phase' = "done"
     ELSE input' = SubSeq(bytes, kHeader + 1, Len(bytes)) /\ msg' = FALSE /\ phase' = "read"
  /\ UNCHANGED <<format, built>>

GiveRecord == phase = "written" /\ harm' = "none" /\ OpenRecord(record)
CutRecord == phase = "written" /\ harm' = "cut" /\ \E n \in 0 .. Len(record) - 1 : OpenRecord(SubSeq(record, 1, n))
AlterRecord ==
  /\ phase = "written" /\ harm' = "altered"
  /\ \E i \in DOMAIN record, b \in AlteredTo :
       record[i] # b /\ OpenRecord([record EXCEPT ![i] = b])

-----------------------------------------------------------------------------
(* Reading *)

Finish(corrupt) == phase' = "done" /\ msg' = corrupt /\ UNCHANGED <<input, decoded>>

\* The entry at the head of the input, after its tag: [ok, value = the entry, rest].
EntryAfter(k, kinds, in) ==
  LET Entry(xs) == IF xs.ok THEN ReadValue([kind |-> k, fields |-> xs.value], xs.rest) ELSE NotRead
  IN  Entry(GetFields(kinds, in))

\* One turn of DecodeFrom's loop.  A tag that cannot be read ends it, and then only
\* an empty input is no corruption.
DecodeFrom ==
  /\ phase = "read" /\ format = "edit"
  /\ \E tag \in {GetVarint(input, Digits32, Bits32)} :
       IF ~tag.ok THEN Finish(input # <<>>)
       ELSE \/ tag.value \notin {EditTag[k] : k \in DOMAIN EditTag} /\ Finish(TRUE)
            \/ \E k \in {x \in DOMAIN EditTag : EditTag[x] = tag.value} :
                 \E e \in {EntryAfter(k, EditFields[k], tag.rest)} :
                   IF e.ok THEN input' = e.rest /\ decoded' = Append(decoded, e.value) /\ UNCHANGED <<phase, msg>>
                   ELSE Finish(TRUE)
  /\ UNCHANGED <<format, built, record, harm>>

\* The end of Iterate.
BatchDone == Finish(Len(decoded) # BatchCount)

IterateEnd ==
  /\ phase = "read" /\ format = "batch" /\ input = <<>>
  /\ BatchDone
  /\ UNCHANGED <<format, built, record, harm>>

\* What MemTableInserter adds for an entry: sequence_ grows by one with each.
Numbered(e, n) == [kind |-> e.kind, fields |-> e.fields, seq |-> n]

\* One turn of Iterate's loop; the entry is in the memtable at once.
Iterate ==
  /\ phase = "read" /\ format = "batch" /\ input # <<>>
  /\ \/ input[1] \notin {BatchTag[k] : k \in DOMAIN BatchTag} /\ Finish(TRUE)
     \/ \E k \in {x \in DOMAIN BatchTag : BatchTag[x] = input[1]} :
          \E e \in {EntryAfter(k, BatchFields[k], Tail(input))} :
            IF e.ok THEN /\ input' = e.rest
                         /\ decoded' = Append(decoded, Numbered(e.value, BatchSequence + Len(decoded)))
                         /\ UNCHANGED <<phase, msg>>
            ELSE Finish(TRUE)
  /\ UNCHANGED <<format, built, record, harm>>

EncNext ==
  \/ BuildEntry \/ WriteRecord
  \/ GiveRecord \/ CutRecord \/ AlterRecord
  \/ DecodeFrom \/ Iterate \/ IterateEnd

-----------------------------------------------------------------------------
\* What the writer put into the record, as a reader should see it.
AsWritten ==
  IF format = "edit" THEN InOrder(built)
  ELSE [i \in DOMAIN built |-> Numbered(built[i], FirstSequence + i - 1)]

\* A record that arrives whole is read back as it was written.  Of one that was cut
\* short only entries that were written are taken, in their order: a batch that
\* lost anything is reported (write_batch.cc, "WriteBatch has wrong count"), and an
\* edit is accepted only if the cut fell between two entries.  Whatever the bytes, no
\* edit names a level outside the version's array of levels.
EncodingsExact ==
  /\ harm = "none" /\ phase = "done" => ~msg /\ decoded = AsWritten
  /\ harm = "cut" => IsPrefix(decoded, AsWritten)
  /\ harm = "cut" /\ phase = "done" /\ ~msg => format = "edit" /\ record = EncodeTo(decoded)
  /\ format = "edit" =>
       \A i \in DOMAIN decoded :
         EditFields[decoded[i].kind][1] = "level" => decoded[i].fields[1] < EncLevels
=============================================================================
