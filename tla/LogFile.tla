------------------------------- MODULE LogFile -------------------------------
(***************************************************************************)
(* The log format of LevelDB (src/leveldb/db/log_writer.cc and             *)
(* log_reader.cc): records cut into fragments that never cross a block, a  *)
(* file that a crash leaves truncated or filled with zeros, or that was    *)
(* damaged, and the reader that recovers it, from an offset on.            *)
(*                                                                         *)
(* The file is a sequence of bytes; a byte is a pair: the fragment it      *)
(* belongs to (0: a zero byte) and whether it is as it was written.  The   *)
(* checksum finds every damaged byte.                                      *)
(***************************************************************************)
EXTENDS Integers, Sequences, FiniteSets, SequencesExt

CONSTANTS kBlockSize, kHeaderSize,
          RecordSizes, MaxRecords,     \* bound: records appended
          InitialOffsets

ASSUME LogFileAssumption == kHeaderSize \in Nat \ {0} /\ kBlockSize > kHeaderSize

VARIABLES bytes,         \* the file
          fragments,     \* fragments[f]: its type, length, record, and where it starts
          starts,        \* starts[r]: the offset of record r
          left,          \* the bytes of the record being added that are not written; -1: none
          mode,          \* "write", "read", "done"
          initial_offset,
          place,         \* the reader's place in the file: end_of_buffer_offset_ - buffer_.size()
          bufferEnd, eof,
          scratch,       \* fragments of the record being read; <<0>>: not in a fragmented record
          records,       \* what ReadRecord returned: sequences of fragments
          cut            \* the length of the file that the crash left

logVars == <<bytes, fragments, starts, left, mode, initial_offset, place, bufferEnd, eof, scratch,
             records, cut>>

NotFragmented == <<0>>

LogInit ==
    /\ bytes = <<>> /\ fragments = <<>> /\ starts = <<>> /\ left = -1 /\ mode = "write"
    /\ initial_offset \in InitialOffsets /\ place = 0 /\ bufferEnd = 0 /\ eof = FALSE
    /\ scratch = NotFragmented /\ records = <<>> /\ cut = 0

readVars == <<initial_offset, place, bufferEnd, eof, scratch, records, cut>>
----------------------------------------------------------------------------
(* Writer::AddRecord.                                                      *)

AddRecord(n) ==
    /\ mode = "write" /\ left = -1 /\ Len(starts) < MaxRecords
    /\ left' = n /\ starts' = Append(starts, -1)
    /\ UNCHANGED <<bytes, fragments, mode, readVars>>

\* Variant: the trailer of a block is not filled.
EmitUnfilled ==
    /\ mode = "write" /\ left >= 0
    /\ LET at == Len(bytes)
           avail == kBlockSize - (at % kBlockSize) - kHeaderSize
           n == IF avail < 0 THEN 0 ELSE IF left < avail THEN left ELSE avail
           begin == starts[Len(starts)] = -1
           end == left = n
           f == Len(fragments) + 1
       IN  /\ bytes' = bytes \o [i \in 1 .. kHeaderSize + n |-> <<f, TRUE>>]
           /\ fragments' = Append(fragments,
                [type |-> IF begin /\ end THEN "full" ELSE IF begin THEN "first"
                          ELSE IF end THEN "last" ELSE "middle",
                 len |-> n, rec |-> Len(starts), at |-> at])
           /\ starts' = IF begin THEN [starts EXCEPT ![Len(starts)] = at] ELSE starts
           /\ left' = IF end THEN -1 ELSE left - n
    /\ UNCHANGED <<mode, readVars>>

\* One turn of the loop: a trailer too short for a header is filled, then a fragment is emitted.
EmitPhysicalRecord ==
    /\ mode = "write" /\ left >= 0
    /\ LET room == kBlockSize - (Len(bytes) % kBlockSize)
           fill == IF room < kHeaderSize THEN room ELSE 0
           at == Len(bytes) + fill
           avail == kBlockSize - (at % kBlockSize) - kHeaderSize
           n == IF left < avail THEN left ELSE avail
           begin == starts[Len(starts)] = -1
           end == left = n
           f == Len(fragments) + 1
       IN  /\ bytes' = bytes \o [i \in 1 .. fill |-> <<0, TRUE>>]
                             \o [i \in 1 .. kHeaderSize + n |-> <<f, TRUE>>]
           /\ fragments' = Append(fragments,
                [type |-> IF begin /\ end THEN "full" ELSE IF begin THEN "first"
                          ELSE IF end THEN "last" ELSE "middle",
                 len |-> n, rec |-> Len(starts), at |-> at])
           /\ starts' = IF begin THEN [starts EXCEPT ![Len(starts)] = at] ELSE starts
           /\ left' = IF end THEN -1 ELSE left - n
    /\ UNCHANGED <<mode, readVars>>

\* The process ends: the file is there up to some byte, perhaps followed by zeros up to the end
\* of the block (the mapped file of env_posix.cc), or whole with one damaged byte.
Reopen ==
    /\ mode = "write" /\ mode' = "read"
    /\ \/ \E n \in 0 .. Len(bytes), zeros \in BOOLEAN :
            /\ cut' = n
            /\ LET pad == IF zeros THEN (kBlockSize - (n % kBlockSize)) % kBlockSize ELSE 0
               IN  bytes' = SubSeq(bytes, 1, n) \o [i \in 1 .. pad |-> <<0, TRUE>>]
       \/ \E i \in DOMAIN bytes :
            /\ bytes[i][1] # 0
            /\ bytes' = [bytes EXCEPT ![i][2] = FALSE] /\ cut' = -1
    /\ LET inBlock == initial_offset % kBlockSize
           block == initial_offset - inBlock
           start == IF inBlock > kBlockSize - (kHeaderSize - 1) THEN block + kBlockSize ELSE block
       IN  /\ place' = start /\ bufferEnd' = start                       \* SkipToInitialBlock
           /\ UNCHANGED <<eof, initial_offset>>
    /\ UNCHANGED <<fragments, starts, left, scratch, records>>
----------------------------------------------------------------------------
(* Reader::ReadPhysicalRecord and the switch of ReadRecord.                *)

DropBuffer == place' = bufferEnd

\* What a kBadRecord and an unknown type do to the record being read.
Bad == scratch' = NotFragmented /\ UNCHANGED records

\* The next block; a short one is the last.  A shorter rest than a header is dropped.
ReadBlock ==
    /\ mode = "read" /\ bufferEnd - place < kHeaderSize
    /\ IF ~eof
       THEN LET rest == Len(bytes) - bufferEnd
                n == IF rest < 0 THEN 0 ELSE IF rest < kBlockSize THEN rest ELSE kBlockSize
            IN  /\ place' = bufferEnd /\ bufferEnd' = bufferEnd + n
                /\ eof' = (n < kBlockSize) /\ UNCHANGED mode
       ELSE mode' = "done" /\ UNCHANGED <<place, bufferEnd, eof>>
    /\ UNCHANGED <<bytes, fragments, starts, left, initial_offset, scratch, records, cut>>

Intact(f, at) == \A i \in 1 .. kHeaderSize + fragments[f].len : bytes[at + i] = <<f, TRUE>>

\* A header is there.  Its fragment may be too long for the buffer, of zeros, or damaged: the
\* rest of the buffer is dropped.  It may start before the initial offset.
ReadFragment ==
    /\ mode = "read" /\ bufferEnd - place >= kHeaderSize
    /\ LET f == bytes[place + 1][1]
           size == kHeaderSize + fragments[f].len
       IN  IF f = 0 THEN DropBuffer /\ Bad
           ELSE IF place + size > bufferEnd \/ ~Intact(f, place) THEN DropBuffer /\ Bad
           ELSE /\ place' = place + size
                /\ IF place < initial_offset THEN Bad
                   ELSE CASE fragments[f].type = "full" ->
                               records' = Append(records, <<f>>) /\ scratch' = NotFragmented
                          [] fragments[f].type = "first" ->
                               scratch' = <<f>> /\ UNCHANGED records
                          [] fragments[f].type = "middle" ->
                               /\ scratch' = IF scratch = NotFragmented THEN scratch
                                             ELSE Append(scratch, f)
                               /\ UNCHANGED records
                          [] OTHER ->
                               /\ scratch' = NotFragmented
                               /\ records' = IF scratch = NotFragmented THEN records
                                             ELSE Append(records, Append(scratch, f))
    /\ UNCHANGED <<bytes, fragments, starts, left, mode, initial_offset, bufferEnd, eof, cut>>

LogNext ==
    \/ \E n \in RecordSizes : AddRecord(n)
    \/ EmitPhysicalRecord \/ Reopen \/ ReadBlock \/ ReadFragment
----------------------------------------------------------------------------
\* The fragments of record r, and the bytes that it takes.
Whole(r) == SelectSeq([f \in DOMAIN fragments |-> f], LAMBDA f : fragments[f].rec = r)
EndOf(r) == LET f == Last(Whole(r)) IN fragments[f].at + kHeaderSize + fragments[f].len
Complete(r) == Whole(r) # <<>> /\ fragments[Last(Whole(r))].type \in {"full", "last"}

\* What is read back are whole records, each as it was written and in the order they were
\* written.  After a crash they are all the records that are completely in the file and start
\* at or after the initial offset, wherever it is cut and whether zeros follow; a damaged byte
\* loses some, and never makes one up.
RecordsRecovered ==
    /\ \A i \in DOMAIN records : \E r \in DOMAIN starts : Complete(r) /\ records[i] = Whole(r)
    /\ \A i \in 1 .. Len(records) - 1 : Head(records[i]) < Head(records[i + 1])
    /\ mode = "done" /\ cut >= 0 =>
         \A r \in DOMAIN starts :
             (Complete(r) /\ starts[r] >= initial_offset /\ EndOf(r) <= cut)
                 => \E i \in DOMAIN records : records[i] = Whole(r)
=============================================================================
