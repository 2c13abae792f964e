--------------------------- MODULE LevelStoreProofs ---------------------------
(***************************************************************************)
(* TLAPS proofs about LevelStore, for any number of writers, sequence      *)
(* numbers and files: CrashSafe and ReadsComplete follow from StoreInv,    *)
(* which every step preserves. After them those about TableCache, for any  *)
(* number of threads and files: CacheSound follows from CacheInv, and      *)
(* about DbIter, for any history and any number of keys and late writes:   *)
(* CursorExact follows from IterInv.                                       *)
(***************************************************************************)
EXTENDS LevelStore, TableCache, DbIter, SequenceTheorems, FiniteSetTheorems, NumberFacts, TLAPS

EditSet == [tables : SUBSET Nat, log : Nat, next : Nat, last : Nat]
Bounded(S) == \E b \in Nat : \A s \in S : s <= b
LogSet == {l \in [recs : Seq(SUBSET Nat), synced : Nat] :
              l.synced <= Len(l.recs) /\ Bounded(RecordsOf(l.recs))}
ManifestSet == {m \in [edits : Seq(EditSet), synced : Nat] : m.synced \in 1 .. Len(m.edits)}
GroupSet == [n : Nat, seqs : SUBSET Nat, logged : BOOLEAN]
FlushSet == [num : Nat, edit : {<<>>} \cup {<<e>> : e \in EditSet},
             stage : {"build", "manifest", "sync", "install"}]
MergeSet == [inputs : SUBSET Nat, version : SUBSET Nat, out : Nat,
             edit : {<<>>} \cup {<<e>> : e \in EditSet}, stage : {"run", "sync", "install"}]

DiskType ==
    /\ DOMAIN logs \subseteq Nat /\ logs \in [DOMAIN logs -> LogSet]
    /\ DOMAIN tables \subseteq Nat /\ tables \in [DOMAIN tables -> SUBSET Nat]
    /\ DOMAIN manifests \subseteq Nat /\ manifests \in [DOMAIN manifests -> ManifestSet]
    /\ currentFile \in Nat
MemoryType ==
    /\ phase \in {"closed", "replay", "manifest", "current", "install", "open"}
    /\ mem \in SUBSET Nat
    /\ imm \in {<<>>} \cup {<<m>> : m \in SUBSET Nat}
    /\ lastSeq \in Nat /\ nextNumber \in Nat /\ logfileNumber \in Nat /\ versionLog \in Nat
    /\ manifestNumber \in Nat
    /\ current \in SUBSET Nat /\ toReplay \in SUBSET Nat
    /\ iterPins \in SUBSET SUBSET Nat /\ pendingOutputs \in SUBSET Nat
    /\ writersQ \in Seq([id : DBWriters, sync : BOOLEAN, batch : BOOLEAN])
    /\ group \in {<<>>} \cup {<<g>> : g \in GroupSet}
    /\ flush \in {<<>>} \cup {<<f>> : f \in FlushSet}
    /\ merge \in {<<>>} \cup {<<m>> : m \in MergeSet}
    /\ acked \in SUBSET Nat /\ ackedSync \in SUBSET Nat

\* What a crash leaves of a log.
Durable(l) == RecordsOf(SubSeq(l.recs, 1, l.synced))
InTables(s, V) == \E t \in V : s \in tables[t]
InLogs(s, k) == \E n \in DOMAIN logs : n >= k /\ s \in Durable(logs[n])

\* An edit that a recovery may start from.
Recoverable(e) ==
    /\ e.tables \subseteq DOMAIN tables
    /\ e.log < e.next
    /\ \A t \in e.tables : t < e.next /\ \A s \in tables[t] : s <= e.last
    /\ \A s \in ackedSync : InTables(s, e.tables) \/ InLogs(s, e.log)

Live(m) == m.synced .. Len(m.edits)
ManifestInv ==
    IF currentFile = 0 THEN ackedSync = {} /\ phase = "closed"
    ELSE /\ currentFile \in DOMAIN manifests
         /\ LET m == manifests[currentFile]
            IN  /\ \A i \in Live(m) : Recoverable(m.edits[i]) /\ currentFile < m.edits[i].next
                /\ \A i, j \in Live(m) : i <= j => \A t \in m.edits[i].tables : t < m.edits[j].next

\* Until the database is open there is nothing in memory but what Open reads.
IdleInv ==
    phase # "open" =>
        /\ mem = {} /\ imm = <<>> /\ iterPins = {} /\ pendingOutputs = {}
        /\ writersQ = <<>> /\ group = <<>> /\ flush = <<>> /\ merge = <<>>

\* DB::Open: the old manifest stays recoverable until CURRENT names the new one.
OpeningInv ==
    phase \in {"replay", "manifest", "current", "install"} =>
        /\ current \subseteq DOMAIN tables /\ manifestNumber < nextNumber
        /\ \A t \in current : t < nextNumber /\ \A s \in tables[t] : s <= lastSeq
OldManifestInv ==
    phase \in {"replay", "manifest", "current"} =>
        /\ currentFile < manifestNumber
        /\ LET m == manifests[currentFile]
           IN  \A i \in Live(m) : \A t \in m.edits[i].tables : t < nextNumber
ReplayInv ==
    phase = "replay" =>
        /\ toReplay \subseteq DOMAIN logs
        /\ \A n \in DOMAIN logs \ toReplay : n < nextNumber
        /\ \A s \in ackedSync : InTables(s, current) \/ \E n \in toReplay : s \in Durable(logs[n])
ReplayedInv ==
    phase \in {"manifest", "current", "install"} =>
        /\ \A n \in DOMAIN logs : n < nextNumber
        /\ logfileNumber \in DOMAIN logs /\ logs[logfileNumber] = [recs |-> <<>>, synced |-> 0]
        /\ \A s \in ackedSync : InTables(s, current)
        /\ phase # "manifest" =>
             /\ manifestNumber \in DOMAIN manifests
             /\ manifests[manifestNumber] =
                  [edits |-> <<Edit(current, logfileNumber, nextNumber, lastSeq)>>, synced |-> 1]
        /\ phase = "install" => currentFile = manifestNumber

\* The open database.  The edit of the installed version is the last one, but
\* while an edit is written (Pending) that one follows it.
Pending(stage) ==
    \/ flush # <<>> /\ flush[1].stage = stage
    \/ merge # <<>> /\ merge[1].stage = stage
FilesInv ==
    /\ currentFile = manifestNumber /\ manifestNumber < nextNumber
    /\ \A t \in DOMAIN tables : t < nextNumber
    /\ \A n \in DOMAIN logs : n < nextNumber
    /\ logfileNumber \in DOMAIN logs /\ versionLog <= logfileNumber
    /\ current \subseteq DOMAIN tables /\ \A v \in iterPins : v \subseteq DOMAIN tables
VersionInv ==
    LET m == manifests[manifestNumber]
    IN  /\ m.synced = IF Pending("sync") THEN Len(m.edits) - 1 ELSE Len(m.edits)
        /\ ~ Pending("install") =>
             m.edits[m.synced].tables = current /\ m.edits[m.synced].log = versionLog
ContentsInv ==
    /\ \A s \in ackedSync :
          \/ InTables(s, current) \/ s \in Imm
          \/ s \in mem /\ s \in Durable(logs[logfileNumber])
    /\ \A s \in acked : InTables(s, current) \/ s \in Imm \/ s \in mem
    /\ \A s \in mem \cup Imm : s <= lastSeq
    /\ \A t \in current : \A s \in tables[t] : s <= lastSeq

\* An edit not installed yet names tables V, a log, and has sound counters.
EditInv(e, V, log) ==
    /\ e.tables = V /\ e.log = log /\ log < e.next /\ manifestNumber < e.next
    /\ \A t \in current \cup V : t < e.next
    /\ \A t \in V : \A s \in tables[t] : s <= e.last
PendingEdit(f) ==
    LET m == manifests[manifestNumber]
    IN  f.stage \in {"sync", "install"} => m.edits[Len(m.edits)] = f.edit[1]
FlushInv ==
    flush # <<>> =>
        LET f == flush[1]
            new == IF Imm = {} THEN {} ELSE {f.num}
        IN  /\ imm # <<>> /\ f.num < nextNumber
            /\ merge # <<>> => merge[1].stage = "run" /\ merge[1].out # f.num
            /\ f.stage = "build" => f.num \notin DOMAIN tables
            /\ f.stage # "build" =>
                 /\ Len(f.edit) = 1 /\ new \subseteq DOMAIN tables
                 /\ Imm # {} => tables[f.num] = Imm
                 /\ EditInv(f.edit[1], current \cup new, logfileNumber)
            /\ PendingEdit(f)
MergeInv ==
    merge # <<>> =>
        LET m == merge[1]
        IN  /\ m.inputs \subseteq m.version /\ m.version \subseteq DOMAIN tables
            /\ m.inputs \subseteq current
            /\ m.out # 0 => /\ m.out \in DOMAIN tables /\ m.out \in pendingOutputs
                            /\ tables[m.out] = TablesOf(m.inputs)
            /\ m.stage # "run" =>
                 /\ m.out # 0 /\ Len(m.edit) = 1 /\ flush = <<>>
                 /\ EditInv(m.edit[1], (current \ m.inputs) \cup {m.out}, versionLog)
            /\ PendingEdit(m)
GroupInv ==
    group # <<>> =>
        LET g == group[1]
            l == logs[logfileNumber]
        IN  /\ g.n \in 1 .. Len(writersQ) /\ writersQ[1].batch
            /\ \A i \in 1 .. g.n : writersQ[i].sync => writersQ[1].sync
            /\ g.seqs = lastSeq + 1 .. lastSeq + Cardinality({i \in 1 .. g.n : writersQ[i].batch})
            /\ g.logged => Len(l.recs) > 0 /\ l.recs[Len(l.recs)] = g.seqs
OpenInv ==
    phase = "open" => /\ FilesInv /\ VersionInv /\ ContentsInv
                      /\ FlushInv /\ MergeInv /\ GroupInv

\* The inductive invariant.
StoreInv ==
    /\ DiskType /\ MemoryType
    /\ ManifestInv /\ IdleInv /\ OpeningInv /\ OldManifestInv /\ ReplayInv /\ ReplayedInv
    /\ OpenInv

-----------------------------------------------------------------------------
(* The records of a log, and those that a crash leaves. *)

LEMMA RecordsFact ==
    ASSUME NEW recs \in Seq(SUBSET Nat)
    PROVE  RecordsOf(recs) = {s \in Nat : \E i \in 1 .. Len(recs) : s \in recs[i]}
BY DEF RecordsOf, ToSet

LEMMA DurableFact ==
    ASSUME NEW l \in LogSet
    PROVE  Durable(l) = {s \in Nat : \E i \in 1 .. l.synced : s \in l.recs[i]}
<1> DEFINE recs == SubSeq(l.recs, 1, l.synced)
<1>1. /\ l.recs \in Seq(SUBSET Nat) /\ l.synced \in Nat /\ l.synced <= Len(l.recs)
  BY DEF LogSet
<1>2. recs \in Seq(SUBSET Nat) /\ Len(recs) = l.synced /\ \A i \in 1 .. l.synced : recs[i] = l.recs[i]
  BY <1>1, SubSeqProperties
<1> HIDE DEF recs
<1>3. RecordsOf(recs) = {s \in Nat : \E i \in 1 .. Len(recs) : s \in recs[i]}
  BY <1>2, RecordsFact
<1>4. RecordsOf(recs) = {s \in Nat : \E i \in 1 .. l.synced : s \in l.recs[i]}
  BY <1>1, <1>2, <1>3
<1> QED BY <1>4 DEF Durable, recs

LEMMA DurableAll ==
    ASSUME NEW l \in LogSet
    PROVE  Durable(l) \subseteq RecordsOf(l.recs) /\ RecordsOf(l.recs) \subseteq Nat
<1>1. l.recs \in Seq(SUBSET Nat) /\ l.synced \in Nat /\ l.synced <= Len(l.recs)
  BY DEF LogSet
<1> QED BY <1>1, DurableFact, RecordsFact

LEMMA ImmOf ==
    /\ UNION ToSet(<<>>) = {}
    /\ \A m : UNION ToSet(<<m>>) = m
<1>1. ToSet(<<>>) = {}
  BY DEF ToSet
<1>2. ASSUME NEW m PROVE ToSet(<<m>>) = {m}
  <2>1. DOMAIN <<m>> = {1} /\ <<m>>[1] = m
    OBVIOUS
  <2> QED BY <2>1 DEF ToSet
<1> QED BY <1>1, <1>2

LEMMA DurableEmpty ==
    /\ [recs |-> <<>>, synced |-> 0] \in LogSet
    /\ Durable([recs |-> <<>>, synced |-> 0]) = {}
<1>1. RecordsOf(<<>>) = {}
  BY ImmOf DEF RecordsOf
<1>2. [recs |-> <<>>, synced |-> 0] \in LogSet
  BY <1>1 DEF LogSet, Bounded
<1> QED BY <1>2, DurableFact

\* AddRecord: nothing of the new record is durable yet.
LEMMA DurableAppend ==
    ASSUME NEW l \in LogSet, NEW r \in SUBSET Nat, Bounded(r)
    PROVE  LET k == [l EXCEPT !.recs = Append(@, r)]
           IN  /\ k \in LogSet /\ Durable(k) = Durable(l)
               /\ Len(k.recs) > 0 /\ k.recs[Len(k.recs)] = r
<1> DEFINE k == [l EXCEPT !.recs = Append(@, r)]
<1>1. l.recs \in Seq(SUBSET Nat) /\ l.synced \in Nat /\ l.synced <= Len(l.recs)
  BY DEF LogSet
<1>2. k.recs = Append(l.recs, r) /\ k.synced = l.synced /\ k \in [recs : Seq(SUBSET Nat), synced : Nat]
  <2>1. Append(l.recs, r) \in Seq(SUBSET Nat)
    BY <1>1, AppendProperties
  <2> QED BY <1>1, <2>1 DEF LogSet
<1>3. /\ Len(k.recs) = Len(l.recs) + 1 /\ k.recs[Len(k.recs)] = r
      /\ \A i \in 1 .. Len(l.recs) : k.recs[i] = l.recs[i]
  BY <1>1, <1>2, AppendProperties
<1>4. k \in LogSet
  <2>1. RecordsOf(k.recs) \subseteq RecordsOf(l.recs) \cup r
    <3>1. ASSUME NEW s \in RecordsOf(k.recs) PROVE s \in RecordsOf(l.recs) \cup r
      <4>1. PICK i \in 1 .. Len(k.recs) : s \in k.recs[i] /\ s \in Nat
        BY <1>2, <3>1, RecordsFact
      <4>2. CASE i \in 1 .. Len(l.recs)
        BY <1>1, <1>3, <4>1, <4>2, RecordsFact
      <4>3. CASE i = Len(k.recs)
        BY <1>3, <4>1, <4>3
      <4> QED BY <1>1, <1>3, <4>1, <4>2, <4>3
    <3> QED BY <3>1
  <2>2. PICK b \in Nat, c \in Nat : (\A s \in RecordsOf(l.recs) : s <= b) /\ \A s \in r : s <= c
    <3>1. Bounded(RecordsOf(l.recs))
      BY DEF LogSet
    <3> QED BY <3>1 DEF Bounded
  <2>3. RecordsOf(l.recs) \subseteq Nat
    BY <1>1, RecordsFact
  <2>4. \A s \in RecordsOf(l.recs) \cup r : s <= b + c
    <3>1. \A s \in Nat : (s <= b \/ s <= c) => s <= b + c
      OBVIOUS
    <3> QED BY <2>2, <2>3, <3>1
  <2>5. b + c \in Nat /\ \A s \in RecordsOf(k.recs) : s <= b + c
    BY <2>1, <2>2, <2>4
  <2>6. Bounded(RecordsOf(k.recs))
    BY <2>5 DEF Bounded
  <2>7. k.synced <= Len(k.recs)
    BY <1>1, <1>2, <1>3
  <2> HIDE DEF k
  <2> QED BY <1>2, <2>6, <2>7 DEF LogSet
<1> HIDE DEF k
<1>5. Durable(k) = Durable(l)
  <2>1. \A i \in 1 .. l.synced : k.recs[i] = l.recs[i]
    BY <1>1, <1>3
  <2>2. Durable(k) = {s \in Nat : \E i \in 1 .. l.synced : s \in k.recs[i]}
    BY <1>2, <1>4, DurableFact
  <2> QED BY <2>1, <2>2, DurableFact
<1> QED BY <1>1, <1>3, <1>4, <1>5 DEF k

\* Sync: every record of the log is durable.
LEMMA DurableSync ==
    ASSUME NEW l \in LogSet
    PROVE  LET k == [l EXCEPT !.synced = Len(l.recs)]
           IN  /\ k \in LogSet /\ k.recs = l.recs /\ Durable(l) \subseteq Durable(k)
               /\ Len(l.recs) > 0 => l.recs[Len(l.recs)] \subseteq Durable(k)
<1> DEFINE k == [l EXCEPT !.synced = Len(l.recs)]
<1>1. l.recs \in Seq(SUBSET Nat) /\ l.synced \in Nat /\ l.synced <= Len(l.recs)
  BY DEF LogSet
<1>2. k.recs = l.recs /\ k.synced = Len(l.recs) /\ k \in LogSet
  BY <1>1 DEF LogSet
<1> HIDE DEF k
<1>3. Durable(l) \subseteq Durable(k)
  BY <1>1, <1>2, DurableFact
<1>4. Len(l.recs) > 0 => l.recs[Len(l.recs)] \subseteq Durable(k)
  <2> SUFFICES ASSUME Len(l.recs) > 0, NEW s \in l.recs[Len(l.recs)] PROVE s \in Durable(k)
    OBVIOUS
  <2>1. Len(l.recs) \in 1 .. k.synced /\ s \in k.recs[Len(l.recs)] /\ s \in Nat
    BY <1>1, <1>2
  <2> QED BY <2>1, <1>2, DurableFact
<1> QED BY <1>2, <1>3, <1>4 DEF k

\* A crash keeps what is durable.
LEMMA DurableCrash ==
    ASSUME NEW l \in LogSet
    PROVE  LET k == [recs |-> SubSeq(l.recs, 1, l.synced), synced |-> l.synced]
           IN  k \in LogSet /\ Durable(k) = Durable(l)
<1> DEFINE k == [recs |-> SubSeq(l.recs, 1, l.synced), synced |-> l.synced]
<1>1. l.recs \in Seq(SUBSET Nat) /\ l.synced \in Nat /\ l.synced <= Len(l.recs)
  BY DEF LogSet
<1>2. /\ SubSeq(l.recs, 1, l.synced) \in Seq(SUBSET Nat)
      /\ Len(SubSeq(l.recs, 1, l.synced)) = l.synced
      /\ \A i \in 1 .. l.synced : SubSeq(l.recs, 1, l.synced)[i] = l.recs[i]
  BY <1>1, SubSeqProperties
<1>3. k \in LogSet /\ k.synced = l.synced /\ \A i \in 1 .. l.synced : k.recs[i] = l.recs[i]
  <2>1. Durable(l) \subseteq RecordsOf(l.recs)
    BY DurableAll
  <2>2. RecordsOf(k.recs) = Durable(l) /\ Bounded(RecordsOf(l.recs))
    BY DEF Durable, LogSet
  <2>3. Bounded(RecordsOf(k.recs))
    BY <2>1, <2>2 DEF Bounded
  <2>4. k \in [recs : Seq(SUBSET Nat), synced : Nat] /\ k.synced <= Len(k.recs)
        /\ k.synced = l.synced /\ k.recs = SubSeq(l.recs, 1, l.synced)
    BY <1>1, <1>2
  <2> HIDE DEF k
  <2> QED BY <1>2, <2>3, <2>4 DEF LogSet
<1> HIDE DEF k
<1>4. Durable(k) = Durable(l)
  BY <1>1, <1>3, DurableFact
<1> QED BY <1>3, <1>4 DEF k

LEMMA ImmFact ==
    ASSUME MemoryType
    PROVE  Imm \in SUBSET Nat /\ (imm = <<>> => Imm = {})
<1>1. CASE imm = <<>>
  BY <1>1, ImmOf DEF Imm
<1>2. CASE imm # <<>>
  <2>1. PICK m \in SUBSET Nat : imm = <<m>>
    BY <1>2 DEF MemoryType
  <2> QED BY <2>1, <1>2, ImmOf DEF Imm
<1> QED BY <1>1, <1>2

-----------------------------------------------------------------------------
(* Frames *)

LEMMA StaysOpen ==
    ASSUME phase' = "open"
    PROVE  IdleInv' /\ OpeningInv' /\ OldManifestInv' /\ ReplayInv' /\ ReplayedInv'
BY DEF IdleInv, OpeningInv, OldManifestInv, ReplayInv, ReplayedInv

LEMMA SameDisk ==
    ASSUME DiskType, ManifestInv, UNCHANGED <<diskVars, phase, ackedSync>>
    PROVE  DiskType' /\ ManifestInv'
BY DEF DiskType, ManifestInv, diskVars, Recoverable, InTables, InLogs, Live

LEMMA SameFiles ==
    ASSUME FilesInv, UNCHANGED <<logs, tables, currentFile, manifestNumber, logfileNumber, versionLog, current>>,
           UNCHANGED <<nextNumber, iterPins>>
    PROVE  FilesInv'
BY DEF FilesInv

LEMMA SameVersion ==
    ASSUME VersionInv, UNCHANGED <<manifests, manifestNumber, versionLog, current>>,
           Pending("sync")' = Pending("sync"), Pending("install")' = Pending("install")
    PROVE  VersionInv'
BY DEF VersionInv

LEMMA SameContents ==
    ASSUME ContentsInv, UNCHANGED <<logs, tables, logfileNumber, current, mem, imm, lastSeq, ghostVars>>
    PROVE  ContentsInv'
BY DEF ContentsInv, InTables, Imm, ghostVars

LEMMA SameFlush ==
    ASSUME FlushInv, UNCHANGED <<tables, manifests, manifestNumber, logfileNumber, current, imm, nextNumber,
                      flush, merge>>
    PROVE  FlushInv'
BY DEF FlushInv, EditInv, PendingEdit, Imm

LEMMA SameMerge ==
    ASSUME MergeInv, UNCHANGED <<tables, manifests, manifestNumber, versionLog, current, pendingOutputs,
                      flush, merge>>
    PROVE  MergeInv'
BY DEF MergeInv, EditInv, PendingEdit, TablesOf

LEMMA SameGroup ==
    ASSUME GroupInv, UNCHANGED <<logs, logfileNumber, lastSeq, writersQ, group>>
    PROVE  GroupInv'
BY DEF GroupInv

\* A group's writers keep their places while others join the queue.
LEMMA EnqueueStep ==
    ASSUME StoreInv, NEW w \in DBWriters, NEW sync \in BOOLEAN, NEW batch \in BOOLEAN,
           WriteEnqueue(w, sync, batch)
    PROVE  StoreInv'
<1> USE DEF WriteEnqueue
<1> DEFINE x == [id |-> w, sync |-> sync, batch |-> batch]
           W == [id : DBWriters, sync : BOOLEAN, batch : BOOLEAN]
<1>1. phase = "open" /\ phase' = "open" /\ FilesInv /\ VersionInv /\ ContentsInv
      /\ FlushInv /\ MergeInv /\ GroupInv /\ MemoryType
  BY DEF StoreInv, OpenInv
<1>2. DiskType' /\ ManifestInv'
  BY SameDisk DEF StoreInv, diskVars, ghostVars
<1>3. /\ writersQ' \in Seq(W) /\ Len(writersQ') = Len(writersQ) + 1
      /\ \A i \in 1 .. Len(writersQ) : writersQ'[i] = writersQ[i]
  <2>1. x \in W /\ writersQ \in Seq(W) /\ writersQ' = Append(writersQ, x)
    BY <1>1 DEF MemoryType
  <2> HIDE DEF x, W
  <2> QED BY <2>1, AppendProperties
<1>4. MemoryType'
  BY <1>1, <1>3 DEF MemoryType, numberVars, bgVars, ghostVars
<1>5. FilesInv' /\ ContentsInv' /\ VersionInv' /\ FlushInv' /\ MergeInv'
  BY <1>1, SameFiles, SameContents, SameVersion, SameFlush, SameMerge DEF diskVars, numberVars, bgVars, ghostVars, Pending
<1>6. GroupInv'
  <2> SUFFICES ASSUME group # <<>> PROVE GroupInv'
    BY DEF GroupInv
  <2> DEFINE g == group[1]
  <2>1. g.n \in 1 .. Len(writersQ) /\ Len(writersQ) \in Nat
    BY <1>1 DEF GroupInv, MemoryType
  <2>2. \A i \in 1 .. g.n : writersQ'[i] = writersQ[i]
    BY <1>3, <2>1
  <2>3. {i \in 1 .. g.n : writersQ'[i].batch} = {i \in 1 .. g.n : writersQ[i].batch}
    BY <2>2
  <2>4. 1 \in 1 .. g.n
    BY <2>1
  <2>5. g.n \in 1 .. Len(writersQ') /\ writersQ'[1].batch
    BY <1>1, <1>3, <2>1, <2>2, <2>4 DEF GroupInv
  <2>6. \A i \in 1 .. g.n : writersQ'[i].sync => writersQ'[1].sync
    BY <1>1, <2>2, <2>4 DEF GroupInv
  <2>7. g.seqs = lastSeq + 1 .. lastSeq + Cardinality({i \in 1 .. g.n : writersQ'[i].batch})
    BY <1>1, <2>3 DEF GroupInv
  <2> QED BY <1>1, <2>5, <2>6, <2>7 DEF GroupInv, diskVars, numberVars
<1> QED BY <1>1, <1>2, <1>4, <1>5, <1>6, StaysOpen DEF StoreInv, OpenInv

\* Adding a file with a new number, and keeping some files.
LEMMA AddFileFact ==
    ASSUME NEW f, NEW n, NEW v
    PROVE  /\ DOMAIN AddFile(f, n, v) = DOMAIN f \cup {n}
           /\ AddFile(f, n, v)[n] = v
           /\ \A m \in DOMAIN f : m # n => AddFile(f, n, v)[m] = f[m]
BY DEF AddFile

LEMMA AddFileType ==
    ASSUME NEW f, NEW S, NEW n \in Nat, NEW v \in S, DOMAIN f \subseteq Nat, f \in [DOMAIN f -> S]
    PROVE  /\ DOMAIN AddFile(f, n, v) \subseteq Nat
           /\ AddFile(f, n, v) \in [DOMAIN AddFile(f, n, v) -> S]
BY DEF AddFile

LEMMA KeepFact ==
    ASSUME NEW f, NEW S
    PROVE  /\ DOMAIN Keep(f, S) = DOMAIN f \cap S
           /\ \A m \in DOMAIN f \cap S : Keep(f, S)[m] = f[m]
           /\ \A T : f \in [DOMAIN f -> T] => Keep(f, S) \in [DOMAIN Keep(f, S) -> T]
BY DEF Keep

LEMMA Opened ==
    ASSUME StoreInv, phase = "open"
    PROVE  /\ currentFile # 0 /\ currentFile \in DOMAIN manifests /\ currentFile = manifestNumber
           /\ DiskType /\ MemoryType /\ ManifestInv /\ FilesInv /\ VersionInv /\ ContentsInv
           /\ FlushInv /\ MergeInv /\ GroupInv
BY DEF StoreInv, OpenInv, ManifestInv, FilesInv

LEMMA StoreOpen ==
    ASSUME phase' = "open", DiskType', MemoryType', ManifestInv', FilesInv', VersionInv', ContentsInv',
           FlushInv', MergeInv', GroupInv'
    PROVE  StoreInv'
BY StaysOpen DEF StoreInv, OpenInv

\* The edits that a crash may leave last are the installed version's and the
\* pending one.
LEMMA LiveEdits ==
    ASSUME StoreInv, phase = "open", NEW i \in Live(manifests[currentFile])
    PROVE  LET e == manifests[currentFile].edits[i]
           IN  /\ currentFile \in DOMAIN manifests /\ e \in EditSet /\ Recoverable(e)
               /\ \/ ~ Pending("install") /\ e.tables = current /\ e.log = versionLog
                  \/ flush # <<>> /\ flush[1].stage \in {"sync", "install"} /\ e = flush[1].edit[1]
                  \/ merge # <<>> /\ merge[1].stage \in {"sync", "install"} /\ e = merge[1].edit[1]
               /\ e.log = versionLog \/ e.log = logfileNumber
               /\ e.log <= logfileNumber
<1> DEFINE m == manifests[currentFile]
           e == m.edits[i]
<1>1. /\ DiskType /\ MemoryType /\ ManifestInv /\ FilesInv /\ VersionInv /\ FlushInv /\ MergeInv
  BY Opened
<1>2. currentFile # 0 /\ currentFile = manifestNumber /\ currentFile \in DOMAIN manifests
  BY <1>1 DEF ManifestInv, FilesInv
<1>3. m.edits \in Seq(EditSet) /\ m.synced \in 1 .. Len(m.edits) /\ Len(m.edits) \in Nat
  BY <1>1, <1>2 DEF DiskType, ManifestSet
<1>4. i \in m.synced .. Len(m.edits) /\ i \in 1 .. Len(m.edits)
  BY <1>3 DEF Live
<1>5. e \in EditSet /\ Recoverable(e)
  BY <1>1, <1>2, <1>3, <1>4 DEF ManifestInv
<1>6. \/ ~ Pending("install") /\ e.tables = current /\ e.log = versionLog
      \/ flush # <<>> /\ flush[1].stage \in {"sync", "install"} /\ e = flush[1].edit[1]
      \/ merge # <<>> /\ merge[1].stage \in {"sync", "install"} /\ e = merge[1].edit[1]
  <2>1. CASE i = m.synced /\ ~ Pending("install")
    BY <1>1, <1>2, <2>1 DEF VersionInv
  <2>2. CASE i # m.synced \/ Pending("install")
    <3> ~ (Pending("sync") /\ Pending("install"))
      BY <1>1 DEF Pending, FlushInv
    <3>1. i = Len(m.edits) /\ (Pending("sync") \/ Pending("install"))
      BY <1>1, <1>2, <1>3, <1>4, <2>2 DEF VersionInv
    <3>2. CASE flush # <<>> /\ flush[1].stage \in {"sync", "install"}
      BY <1>1, <1>2, <3>1, <3>2 DEF FlushInv, PendingEdit
    <3>3. CASE merge # <<>> /\ merge[1].stage \in {"sync", "install"}
      BY <1>1, <1>2, <3>1, <3>3 DEF MergeInv, PendingEdit
    <3> QED BY <3>1, <3>2, <3>3 DEF Pending
  <2> QED BY <2>1, <2>2
<1>7. e.log = versionLog \/ e.log = logfileNumber
  BY <1>1, <1>6 DEF FlushInv, MergeInv, EditInv
<1>8. e.log <= logfileNumber
  BY <1>1, <1>7 DEF FilesInv, MemoryType
<1> QED BY <1>2, <1>5, <1>6, <1>7, <1>8

\* The manifest stays recoverable when its tables stay and every synced write
\* that was in the logs, or is new, is in the logs.
LEMMA ManifestStep ==
    ASSUME DiskType, ManifestInv, currentFile # 0, UNCHANGED currentFile,
           currentFile \in DOMAIN manifests', manifests'[currentFile] = manifests[currentFile],
           \A i \in Live(manifests[currentFile]) :
              LET e == manifests[currentFile].edits[i]
              IN  /\ \A t \in e.tables : t \in DOMAIN tables' /\ tables'[t] = tables[t]
                  /\ \A s \in ackedSync' :
                        \/ s \in ackedSync /\ InTables(s, e.tables)
                        \/ \E n \in DOMAIN logs' : n >= e.log /\ s \in Durable(logs'[n])
    PROVE  ManifestInv'
BY DEF ManifestInv, Recoverable, InTables, InLogs, Live

-----------------------------------------------------------------------------
(* Writers *)

LEMMA HeadTail ==
    ASSUME MemoryType, writersQ # <<>>
    PROVE  /\ Len(writersQ) \in Nat /\ Len(writersQ) > 0
           /\ Head(writersQ) = writersQ[1]
           /\ Tail(writersQ) \in Seq([id : DBWriters, sync : BOOLEAN, batch : BOOLEAN])
           /\ \A i \in 1 .. Len(writersQ) : writersQ[i] \in [id : DBWriters, sync : BOOLEAN, batch : BOOLEAN]
<1> DEFINE W == [id : DBWriters, sync : BOOLEAN, batch : BOOLEAN]
<1>1. writersQ \in Seq(W)
  BY DEF MemoryType
<1> HIDE DEF W
<1>2. /\ Len(writersQ) \in Nat /\ Len(writersQ) > 0
      /\ Head(writersQ) = writersQ[1]
      /\ Tail(writersQ) \in Seq(W)
      /\ \A i \in 1 .. Len(writersQ) : writersQ[i] \in W
  BY <1>1, EmptySeq, HeadTailProperties, ElementOfSeq
<1> QED BY <1>2 DEF W

LEMMA SwitchStep ==
    ASSUME StoreInv, SwitchMemTable
    PROVE  StoreInv'
<1> USE DEF SwitchMemTable, diskVars, numberVars, bgVars, ghostVars
<1>0. phase = "open" /\ phase' = "open"
  BY DEF StoreInv, IdleInv
<1>1. /\ DiskType /\ MemoryType /\ ManifestInv /\ FilesInv /\ VersionInv /\ ContentsInv
      /\ FlushInv /\ MergeInv /\ GroupInv
  BY <1>0, Opened
<1> DEFINE empty == [recs |-> <<>>, synced |-> 0]
<1>2. /\ nextNumber \in Nat /\ nextNumber \notin DOMAIN logs /\ nextNumber \notin DOMAIN tables
      /\ flush = <<>>
  BY <1>1 DEF FilesInv, MemoryType, DiskType, FlushInv
<1>3. /\ DOMAIN logs' = DOMAIN logs \cup {nextNumber} /\ logs'[nextNumber] = empty
      /\ \A n \in DOMAIN logs : logs'[n] = logs[n]
  BY <1>2 DEF AddFile
<1>4. DiskType'
  <2>1. empty \in LogSet
    BY DurableEmpty
  <2> HIDE DEF empty
  <2>2. DOMAIN logs' \subseteq Nat /\ logs' \in [DOMAIN logs' -> LogSet]
    BY <1>1, <1>2, <2>1, AddFileType DEF DiskType, empty
  <2> QED BY <1>1, <2>2 DEF DiskType
<1>5. MemoryType'
  <2>1. mem' \in SUBSET Nat /\ imm' \in {<<>>} \cup {<<m>> : m \in SUBSET Nat}
    BY <1>1 DEF MemoryType
  <2>2. writersQ' \in Seq([id : DBWriters, sync : BOOLEAN, batch : BOOLEAN])
    BY <1>1, HeadTail DEF MemoryType
  <2> QED BY <1>0, <1>1, <2>1, <2>2 DEF MemoryType
<1>6. ManifestInv'
  <2>1. \A s, k : InLogs(s, k) => InLogs(s, k)'
    BY <1>3 DEF InLogs
  <2>2. \A i \in Live(manifests[currentFile]) : Recoverable(manifests[currentFile].edits[i])
    BY <1>0, LiveEdits
  <2> QED BY <1>0, <1>1, <2>1, <2>2, ManifestStep, Opened DEF Recoverable, InLogs
<1>7. FilesInv'
  <2>1. /\ versionLog \in Nat /\ logfileNumber \in Nat /\ manifestNumber \in Nat
        /\ DOMAIN logs \subseteq Nat /\ DOMAIN tables \subseteq Nat
    BY <1>1 DEF MemoryType, DiskType
  <2>2. \A n \in DOMAIN logs' : n < nextNumber'
    BY <1>1, <1>2, <1>3, <2>1 DEF FilesInv
  <2>3. \A t \in DOMAIN tables' : t < nextNumber'
    BY <1>1, <1>2, <2>1 DEF FilesInv
  <2> QED BY <1>1, <1>2, <1>3, <2>1, <2>2, <2>3 DEF FilesInv
<1>8. Imm' = mem /\ Imm = {}
  BY ImmOf DEF Imm
<1>9. VersionInv' /\ FlushInv' /\ GroupInv'
  BY <1>1, <1>2, SameVersion DEF Pending, FlushInv, GroupInv
<1>10. MergeInv'
  BY <1>1, SameMerge
<1>11. ContentsInv'
  BY <1>1, <1>8 DEF ContentsInv, InTables
<1> QED BY <1>0, <1>4, <1>5, <1>6, <1>7, <1>9, <1>10, <1>11, StoreOpen

LEMMA MakeRoomFailsStep ==
    ASSUME StoreInv, MakeRoomFails
    PROVE  StoreInv'
<1> USE DEF MakeRoomFails, diskVars, numberVars, bgVars, ghostVars
<1>0. phase = "open" /\ phase' = "open"
  BY DEF StoreInv, IdleInv
<1>1. /\ DiskType /\ MemoryType /\ ManifestInv /\ FilesInv /\ VersionInv /\ ContentsInv
      /\ FlushInv /\ MergeInv /\ GroupInv
  BY <1>0, Opened
<1>2. DiskType' /\ ManifestInv'
  BY <1>1, SameDisk
<1>3. MemoryType'
  BY <1>1, HeadTail DEF MemoryType
<1>4. FilesInv' /\ ContentsInv' /\ VersionInv' /\ FlushInv' /\ MergeInv'
  BY <1>1, SameFiles, SameContents, SameVersion, SameFlush, SameMerge DEF Pending
<1>5. GroupInv'
  BY DEF GroupInv
<1> QED BY <1>0, <1>2, <1>3, <1>4, <1>5, StoreOpen

\* A group holds no sync write unless its first writer asked for sync.
LEMMA GroupLengthFact ==
    ASSUME MemoryType, writersQ # <<>>, NEW n \in 1 .. GroupLength(writersQ)
    PROVE  /\ n \in 1 .. Len(writersQ)
           /\ \A i \in 1 .. n : writersQ[i].sync => writersQ[1].sync
<1> DEFINE stop == {i \in DOMAIN writersQ : writersQ[i].sync /\ ~ writersQ[1].sync}
<1>1. Len(writersQ) \in Nat /\ Len(writersQ) > 0 /\ DOMAIN writersQ = 1 .. Len(writersQ)
  BY HeadTail DEF MemoryType
<1>2. CASE stop = {}
  <2>1. GroupLength(writersQ) = Len(writersQ)
    BY <1>2 DEF GroupLength
  <2> QED BY <1>1, <1>2, <2>1
<1>3. CASE stop # {}
  <2>1. GroupLength(writersQ) = Min(stop) - 1
    BY <1>3 DEF GroupLength
  <2>2. stop \subseteq 1 .. Len(writersQ)
    BY <1>1
  <2> HIDE DEF stop
  <2>3. \E x \in stop : \A y \in stop : x <= y
    BY <1>1, <1>3, <2>2, LeastNumber
  <2>4. Min(stop) \in stop /\ \A y \in stop : Min(stop) <= y
    BY <2>3 DEF Min
  <2> DEFINE k == Min(stop)
  <2>5. /\ k \in 1 .. Len(writersQ) /\ n \in 1 .. k - 1 /\ \A y \in stop : k <= y
    BY <2>1, <2>2, <2>4
  <2> HIDE DEF k
  <2>6. n \in 1 .. Len(writersQ) /\ \A i \in 1 .. n : i \notin stop
    BY <1>1, <2>5
  <2> QED BY <1>1, <2>6 DEF stop
<1> QED BY <1>2, <1>3

\* How many writers of a group have a batch.
LEMMA CountFact ==
    ASSUME NEW n \in Nat
    PROVE  LET B == {i \in 1 .. n : writersQ[i].batch}
           IN  /\ IsFiniteSet(B) /\ Cardinality(B) \in Nat
               /\ \A i \in B : Cardinality({j \in 1 .. i - 1 : writersQ[j].batch}) \in 0 .. Cardinality(B) - 1
<1> DEFINE B == {i \in 1 .. n : writersQ[i].batch}
<1>1. IsFiniteSet(1 .. n)
  BY FS_Interval
<1>2. IsFiniteSet(B) /\ Cardinality(B) \in Nat
  BY <1>1, FS_Subset, FS_CardinalityType
<1>3. ASSUME NEW i \in B
      PROVE  Cardinality({j \in 1 .. i - 1 : writersQ[j].batch}) \in 0 .. Cardinality(B) - 1
  <2> DEFINE A == {j \in 1 .. i - 1 : writersQ[j].batch}
  <2>1. A \subseteq B /\ i \notin A /\ A # B
    BY <1>3
  <2> HIDE DEF A, B
  <2>2. IsFiniteSet(A) /\ Cardinality(A) \in Nat /\ Cardinality(A) < Cardinality(B)
    BY <1>2, <2>1, FS_Subset, FS_CardinalityType
  <2>3. Cardinality(A) \in 0 .. Cardinality(B) - 1
    BY <1>2, <2>2
  <2> QED BY <2>3 DEF A, B
<1> HIDE DEF B
<1>4. \A i \in B : Cardinality({j \in 1 .. i - 1 : writersQ[j].batch}) \in 0 .. Cardinality(B) - 1
  BY <1>3
<1> QED BY <1>2, <1>4 DEF B

LEMMA MinMaxInterval ==
    ASSUME NEW a \in Nat, NEW b \in Nat, a <= b
    PROVE  Min(a .. b) = a /\ Max(a .. b) = b
<1>1. \A x \in a .. b : (\A y \in a .. b : x <= y) <=> x = a
  OBVIOUS
<1>2. \A x \in a .. b : (\A y \in a .. b : x >= y) <=> x = b
  OBVIOUS
<1>3. a \in a .. b /\ b \in a .. b
  OBVIOUS
<1> QED BY <1>1, <1>2, <1>3 DEF Min, Max

LEMMA BeginGroupStep ==
    ASSUME StoreInv, BeginGroup
    PROVE  StoreInv'
<1> USE DEF diskVars, numberVars, bgVars, ghostVars
<1>0. phase = "open" /\ phase' = "open"
  BY DEF StoreInv, IdleInv, BeginGroup
<1>1. /\ DiskType /\ MemoryType /\ ManifestInv /\ FilesInv /\ VersionInv /\ ContentsInv
      /\ FlushInv /\ MergeInv /\ GroupInv
  BY <1>0, Opened
<1>2. DiskType' /\ ManifestInv'
  BY <1>1, SameDisk DEF BeginGroup
<1>3. FilesInv' /\ ContentsInv' /\ VersionInv' /\ FlushInv' /\ MergeInv'
  BY <1>1, SameFiles, SameContents, SameVersion, SameFlush, SameMerge DEF Pending, BeginGroup
<1>4. PICK n \in 1 .. GroupLength(writersQ) :
        group' = <<[n |-> n, logged |-> FALSE,
                    seqs |-> lastSeq + 1 .. lastSeq + Cardinality({i \in 1 .. n : writersQ[i].batch})]>>
  BY DEF BeginGroup
<1> DEFINE count == Cardinality({i \in 1 .. n : writersQ[i].batch})
<1>5. /\ n \in 1 .. Len(writersQ) /\ n \in Nat /\ writersQ[1].batch
      /\ \A i \in 1 .. n : writersQ[i].sync => writersQ[1].sync
  BY <1>1, GroupLengthFact, HeadTail DEF BeginGroup
<1>6. count \in Nat
  BY <1>5, CountFact
<1> HIDE DEF count
<1>7. MemoryType'
  <2>1. (lastSeq + 1 .. lastSeq + count) \in SUBSET Nat
    BY <1>1, <1>6 DEF MemoryType
  <2> DEFINE x == [n |-> n, logged |-> FALSE, seqs |-> lastSeq + 1 .. lastSeq + count]
  <2>2. x \in GroupSet
    BY <1>5, <2>1 DEF GroupSet
  <2>3. group' = <<x>>
    BY <1>4 DEF count
  <2> HIDE DEF x
  <2>4. group' \in {<<g>> : g \in GroupSet}
    BY <2>2, <2>3
  <2> QED BY <1>1, <2>4 DEF MemoryType, BeginGroup
<1>8. GroupInv'
  <2>1. /\ group'[1].n = n /\ ~ group'[1].logged /\ group'[1].seqs = lastSeq + 1 .. lastSeq + count
    BY <1>4 DEF count
  <2>2. UNCHANGED <<writersQ, lastSeq>>
    BY DEF BeginGroup
  <2> QED BY <1>5, <2>1, <2>2 DEF GroupInv, count
<1> QED BY <1>0, <1>2, <1>3, <1>7, <1>8, StoreOpen

LEMMA GroupFact ==
    ASSUME StoreInv, group # <<>>
    PROVE  /\ phase = "open" /\ group[1] \in GroupSet /\ group = <<group[1]>>
           /\ logfileNumber \in DOMAIN logs /\ logs[logfileNumber] \in LogSet
BY DEF StoreInv, IdleInv, MemoryType, OpenInv, FilesInv, DiskType

\* The group's writes follow the last sequence number; those that asked for
\* sync are among them, and then the first writer asked too.
LEMMA GroupSeqs ==
    ASSUME StoreInv, group # <<>>
    PROVE  /\ Max(group[1].seqs) \in Nat /\ lastSeq < Max(group[1].seqs)
           /\ \A s \in group[1].seqs : s \in Nat /\ s <= Max(group[1].seqs)
           /\ SyncSeqs(group[1]) \subseteq group[1].seqs
           /\ SyncSeqs(group[1]) # {} => writersQ[1].sync
<1> DEFINE g == group[1]
           B == {i \in 1 .. g.n : writersQ[i].batch}
           c == Cardinality(B)
<1>1. phase = "open" /\ GroupInv /\ MemoryType /\ g \in GroupSet
  BY GroupFact, Opened
<1>2. lastSeq \in Nat /\ g.n \in Nat /\ g.n >= 1 /\ writersQ[1].batch /\ Len(writersQ) \in Nat
  BY <1>1 DEF GroupInv, MemoryType, GroupSet
<1>3. c \in Nat /\ \A i \in B : Cardinality({j \in 1 .. i - 1 : writersQ[j].batch}) \in 0 .. c - 1
  BY <1>2, CountFact
<1>4. g.seqs = lastSeq + 1 .. lastSeq + c
  BY <1>1 DEF GroupInv
<1>5. 1 \in B
  BY <1>2
<1>6. c >= 1
  <2>1. Cardinality({j \in 1 .. 1 - 1 : writersQ[j].batch}) \in 0 .. c - 1
    BY <1>3, <1>5
  <2> QED BY <1>3, <2>1
<1>7. SyncSeqs(g) = {Min(g.seqs) + Cardinality({j \in 1 .. i - 1 : writersQ[j].batch}) :
                        i \in {j \in 1 .. g.n : writersQ[j].batch /\ writersQ[j].sync}}
  BY DEF SyncSeqs
<1> HIDE DEF c
<1>8. Min(g.seqs) = lastSeq + 1 /\ Max(g.seqs) = lastSeq + c
  BY <1>2, <1>3, <1>4, <1>6, MinMaxInterval
<1>9. ASSUME NEW s \in SyncSeqs(g)
      PROVE  s \in g.seqs /\ writersQ[1].sync
  <2>1. PICK i \in {j \in 1 .. g.n : writersQ[j].batch /\ writersQ[j].sync} :
          s = Min(g.seqs) + Cardinality({j \in 1 .. i - 1 : writersQ[j].batch})
    BY <1>7, <1>9
  <2>2. i \in B /\ writersQ[1].sync
    BY <1>1 DEF GroupInv
  <2> DEFINE d == Cardinality({j \in 1 .. i - 1 : writersQ[j].batch})
  <2>3. d \in 0 .. c - 1 /\ s = lastSeq + 1 + d
    BY <1>3, <1>8, <2>1, <2>2
  <2> HIDE DEF d
  <2> QED BY <1>2, <1>3, <1>4, <2>2, <2>3
<1> QED BY <1>2, <1>3, <1>4, <1>6, <1>8, <1>9

LEMMA AddRecordStep ==
    ASSUME StoreInv, AddRecord
    PROVE  StoreInv'
<1> USE DEF diskVars, numberVars, bgVars, ghostVars
<1>0. phase = "open" /\ phase' = "open" /\ group # <<>>
  BY GroupFact DEF AddRecord
<1>1. /\ DiskType /\ MemoryType /\ ManifestInv /\ FilesInv /\ VersionInv /\ ContentsInv
      /\ FlushInv /\ MergeInv /\ GroupInv
  BY <1>0, Opened
<1> DEFINE l == logs[logfileNumber]
           g == group[1]
           k == [l EXCEPT !.recs = Append(@, g.seqs)]
<1>2. /\ g \in GroupSet /\ logfileNumber \in DOMAIN logs /\ l \in LogSet /\ g.seqs \in SUBSET Nat
  BY <1>0, GroupFact DEF GroupSet
<1>3. DOMAIN logs' = DOMAIN logs /\ logs' = [logs EXCEPT ![logfileNumber] = k]
  BY DEF AddRecord
<1>4. k \in LogSet /\ Durable(k) = Durable(l) /\ Len(k.recs) > 0 /\ k.recs[Len(k.recs)] = g.seqs
  <2>1. Bounded(g.seqs)
    BY <1>0, GroupSeqs DEF Bounded
  <2> QED BY <1>2, <2>1, DurableAppend
<1> HIDE DEF k
<1>5. DiskType'
  BY <1>1, <1>3, <1>4 DEF DiskType, AddRecord
<1>6. logs'[logfileNumber] = k /\ \A n \in DOMAIN logs : Durable(logs'[n]) = Durable(logs[n])
  BY <1>2, <1>3, <1>4
<1>7. ManifestInv'
  <2>1. \A s, j : InLogs(s, j) => InLogs(s, j)'
    BY <1>3, <1>6 DEF InLogs
  <2>2. \A i \in Live(manifests[currentFile]) : Recoverable(manifests[currentFile].edits[i])
    BY <1>0, LiveEdits
  <2> QED BY <1>0, <1>1, <2>1, <2>2, ManifestStep, Opened DEF Recoverable, InLogs, AddRecord
<1>8. MemoryType'
  <2>1. [g EXCEPT !.logged = TRUE] \in GroupSet
    BY <1>2 DEF GroupSet
  <2> QED BY <1>1, <2>1 DEF MemoryType, AddRecord
<1>9. FilesInv' /\ VersionInv' /\ FlushInv' /\ MergeInv'
  BY <1>1, <1>3, SameVersion, SameFlush, SameMerge DEF Pending, AddRecord, FilesInv
<1>10. ContentsInv'
  BY <1>1, <1>2, <1>6 DEF ContentsInv, InTables, Imm, AddRecord
<1>11. GroupInv'
  <2>1. group' = <<[g EXCEPT !.logged = TRUE]>> /\ UNCHANGED <<logfileNumber, writersQ, lastSeq>>
    BY DEF AddRecord
  <2>2. group'[1].n = g.n /\ group'[1].seqs = g.seqs
    BY <1>2, <2>1 DEF GroupSet
  <2>3. logs'[logfileNumber'] = k
    BY <1>6, <2>1
  <2> QED BY <1>0, <1>1, <1>4, <2>1, <2>2, <2>3 DEF GroupInv
<1> QED BY <1>0, <1>5, <1>7, <1>8, <1>9, <1>10, <1>11, StoreOpen

LEMMA FinishGroupStep ==
    ASSUME StoreInv, NEW ok \in BOOLEAN, FinishGroup(ok)
    PROVE  StoreInv'
<1> USE DEF diskVars, numberVars, bgVars, ghostVars
<1>0. phase = "open" /\ phase' = "open" /\ group # <<>>
  BY GroupFact DEF FinishGroup
<1>1. /\ DiskType /\ MemoryType /\ ManifestInv /\ FilesInv /\ VersionInv /\ ContentsInv
      /\ FlushInv /\ MergeInv /\ GroupInv
  BY <1>0, Opened
<1> DEFINE l == logs[logfileNumber]
           g == group[1]
           k == [l EXCEPT !.synced = Len(l.recs)]
<1>2. /\ g \in GroupSet /\ logfileNumber \in DOMAIN logs /\ l \in LogSet /\ g.seqs \in SUBSET Nat
      /\ g.n \in 1 .. Len(writersQ) /\ Len(writersQ) \in Nat
      /\ writersQ # <<>> /\ Head(writersQ) = writersQ[1]
  <2>1. /\ g \in GroupSet /\ logfileNumber \in DOMAIN logs /\ l \in LogSet /\ g.seqs \in SUBSET Nat
        /\ g.n \in 1 .. Len(writersQ)
    BY <1>0, <1>1, GroupFact DEF GroupInv, GroupSet
  <2>2. writersQ # <<>> /\ Len(writersQ) \in Nat
    BY <1>1, <2>1 DEF MemoryType
  <2> QED BY <1>1, <2>1, <2>2, HeadTail
<1>3. /\ k \in LogSet /\ Durable(l) \subseteq Durable(k)
      /\ Len(l.recs) > 0 => l.recs[Len(l.recs)] \subseteq Durable(k)
  BY <1>2, DurableSync
<1>4. \/ logs' = logs /\ ~ (ok /\ writersQ[1].sync)
      \/ logs' = [logs EXCEPT ![logfileNumber] = k] /\ ok /\ writersQ[1].sync
  BY <1>2 DEF FinishGroup
<1> HIDE DEF k
<1>5. /\ DOMAIN logs' = DOMAIN logs
      /\ \A n \in DOMAIN logs : Durable(logs[n]) \subseteq Durable(logs'[n])
      /\ (ok /\ writersQ[1].sync) => g.seqs \subseteq Durable(logs'[logfileNumber])
  <2>1. ok => Len(l.recs) > 0 /\ l.recs[Len(l.recs)] = g.seqs
    BY <1>0, <1>1 DEF GroupInv, FinishGroup
  <2> QED BY <1>2, <1>3, <1>4, <2>1
<1>6. DiskType'
  BY <1>1, <1>3, <1>4 DEF DiskType, FinishGroup
<1>7. /\ lastSeq' \in Nat /\ lastSeq < lastSeq' /\ lastSeq \in Nat
      /\ \A s \in g.seqs : s \in Nat /\ s <= lastSeq'
      /\ SyncSeqs(g) \subseteq g.seqs
      /\ SyncSeqs(g) # {} => writersQ[1].sync
  BY <1>0, <1>1, GroupSeqs DEF FinishGroup, MemoryType
<1>8. /\ mem' = IF ok THEN mem \cup g.seqs ELSE mem
      /\ acked' = IF ok THEN acked \cup g.seqs ELSE acked
      /\ ackedSync' = IF ok THEN ackedSync \cup SyncSeqs(g) ELSE ackedSync
      /\ group' = <<>> /\ writersQ' = SubSeq(writersQ, g.n + 1, Len(writersQ))
      /\ UNCHANGED <<tables, manifests, currentFile, phase, imm, nextNumber, logfileNumber,
                     versionLog, manifestNumber, current, iterPins, pendingOutputs, flush, merge, toReplay>>
  BY DEF FinishGroup
<1>9. MemoryType'
  <2> DEFINE W == [id : DBWriters, sync : BOOLEAN, batch : BOOLEAN]
  <2>1. writersQ \in Seq(W)
    BY <1>1 DEF MemoryType
  <2> HIDE DEF W
  <2>2. writersQ' \in Seq(W)
    BY <1>2, <1>8, <2>1, SubSeqProperties
  <2> QED BY <1>1, <1>2, <1>7, <1>8, <2>2 DEF MemoryType, W
<1>10. ManifestInv'
  <2> SUFFICES ASSUME NEW i \in Live(manifests[currentFile])
               PROVE  LET e == manifests[currentFile].edits[i]
                      IN  \A s \in ackedSync' :
                            \/ s \in ackedSync /\ InTables(s, e.tables)
                            \/ \E n \in DOMAIN logs' : n >= e.log /\ s \in Durable(logs'[n])
    <3>1. \A i \in Live(manifests[currentFile]) : Recoverable(manifests[currentFile].edits[i])
      BY <1>0, LiveEdits
    <3> QED BY <1>0, <1>1, <1>8, <3>1, ManifestStep, Opened DEF Recoverable
  <2> DEFINE e == manifests[currentFile].edits[i]
  <2>1. Recoverable(e) /\ e.log <= logfileNumber
    BY <1>0, LiveEdits
  <2> HIDE DEF e
  <2>2. ASSUME NEW s \in ackedSync
        PROVE  InTables(s, e.tables) \/ \E n \in DOMAIN logs' : n >= e.log /\ s \in Durable(logs'[n])
    BY <1>5, <2>1 DEF Recoverable, InLogs
  <2>3. ASSUME NEW s \in SyncSeqs(g), ok
        PROVE  \E n \in DOMAIN logs' : n >= e.log /\ s \in Durable(logs'[n])
    <3>1. s \in Durable(logs'[logfileNumber]) /\ logfileNumber \in DOMAIN logs'
      BY <1>2, <1>5, <1>7, <2>3
    <3>2. e.log \in Nat /\ logfileNumber \in Nat
      BY <1>0, <1>1, LiveEdits DEF e, EditSet, MemoryType
    <3> QED BY <2>1, <3>1, <3>2
  <2> QED BY <1>8, <2>2, <2>3 DEF e
<1>11. FilesInv' /\ VersionInv' /\ FlushInv' /\ MergeInv' /\ GroupInv'
  BY <1>1, <1>5, <1>8, SameVersion, SameFlush, SameMerge DEF Pending, FilesInv, GroupInv
<1>12. ContentsInv'
  <2>1. Imm' = Imm /\ Imm \subseteq Nat /\ mem \subseteq Nat
    BY <1>1, <1>8, ImmFact DEF Imm, MemoryType
  <2>2. \A s \in ackedSync' :
          \/ InTables(s, current) \/ s \in Imm
          \/ s \in mem' /\ s \in Durable(logs'[logfileNumber])
    BY <1>1, <1>2, <1>5, <1>7, <1>8 DEF ContentsInv
  <2>3. \A s \in mem' \cup Imm : s <= lastSeq'
    <3>1. \A s \in mem \cup Imm : s \in Nat /\ s <= lastSeq
      BY <1>1, <2>1 DEF ContentsInv
    <3>2. \A s \in mem \cup Imm : s <= lastSeq'
      BY <1>7, <3>1
    <3> QED BY <1>7, <1>8, <3>2
  <2>4. \A t \in current : \A s \in tables[t] : s \in Nat /\ s <= lastSeq'
    BY <1>1, <1>7 DEF ContentsInv, FilesInv, DiskType
  <2>5. \A s \in acked' : InTables(s, current) \/ s \in Imm \/ s \in mem'
    BY <1>1, <1>8 DEF ContentsInv
  <2> QED BY <1>8, <2>1, <2>2, <2>3, <2>4, <2>5 DEF ContentsInv, InTables
<1> QED BY <1>0, <1>6, <1>9, <1>10, <1>11, <1>12, StoreOpen

-----------------------------------------------------------------------------
(* The manifest *)

\* LogAndApply appends an edit that a recovery may start from.
LEMMA AppendEditStep ==
    ASSUME StoreInv, phase = "open", NEW e \in EditSet, Recoverable(e), manifestNumber < e.next,
           ~ Pending("sync"), ~ Pending("install"), \A t \in current : t < e.next,
           AppendEdit(e), UNCHANGED <<logs, tables, currentFile, phase, ackedSync>>
    PROVE  LET m == manifests[manifestNumber]
               k == manifests'[manifestNumber]
           IN  /\ DiskType' /\ ManifestInv'
               /\ k.synced = Len(k.edits) - 1 /\ k.edits[k.synced] = m.edits[m.synced]
               /\ k.edits[Len(k.edits)] = e
<1> DEFINE m == manifests[manifestNumber]
           k == [edits |-> Append(m.edits, e), synced |-> m.synced]
<1>1. /\ currentFile # 0 /\ currentFile \in DOMAIN manifests /\ currentFile = manifestNumber
      /\ DiskType /\ ManifestInv /\ VersionInv
  BY Opened
<1>2. m.edits \in Seq(EditSet) /\ Len(m.edits) \in Nat /\ m.synced \in Nat
      /\ m.synced \in 1 .. Len(m.edits) /\ m.synced = Len(m.edits) /\ m.edits[m.synced].tables = current
  BY <1>1 DEF DiskType, ManifestSet, VersionInv
<1>3. /\ Append(m.edits, e) \in Seq(EditSet) /\ Len(Append(m.edits, e)) = Len(m.edits) + 1
      /\ Append(m.edits, e)[Len(m.edits) + 1] = e
      /\ \A i \in 1 .. Len(m.edits) : Append(m.edits, e)[i] = m.edits[i]
  BY <1>2, AppendProperties
<1>4. k \in ManifestSet /\ Len(k.edits) = Len(m.edits) + 1 /\ k.synced = Len(m.edits)
      /\ k.edits[Len(m.edits)] = m.edits[Len(m.edits)] /\ k.edits[Len(m.edits) + 1] = e
  BY <1>2, <1>3 DEF ManifestSet
<1>5. manifests' = [manifests EXCEPT ![manifestNumber] = k]
  BY DEF AppendEdit
<1> HIDE DEF k
<1>6. DiskType'
  BY <1>1, <1>4, <1>5 DEF DiskType
<1>7. manifests'[manifestNumber] = k /\ currentFile' \in DOMAIN manifests'
  BY <1>1, <1>5
<1>8. \A i \in Live(k) : i = Len(m.edits) \/ i = Len(m.edits) + 1
  BY <1>2, <1>4 DEF Live
<1>9. Len(m.edits) \in Live(m)
  BY <1>2 DEF Live
<1>10. /\ Recoverable(m.edits[Len(m.edits)]) /\ currentFile < m.edits[Len(m.edits)].next
       /\ \A t \in current : t < m.edits[Len(m.edits)].next
  BY <1>1, <1>2, <1>9 DEF ManifestInv, Recoverable
<1>11. ASSUME NEW i \in Live(k) PROVE Recoverable(k.edits[i]) /\ currentFile < k.edits[i].next
  BY <1>1, <1>4, <1>8, <1>10
<1>12. ASSUME NEW i \in Live(k), NEW j \in Live(k), i <= j, NEW t \in k.edits[i].tables
       PROVE  t < k.edits[j].next
  <2>1. CASE i = Len(m.edits)
    BY <1>2, <1>4, <1>8, <1>10, <2>1
  <2>2. CASE i = Len(m.edits) + 1
    <3>1. j = Len(m.edits) + 1
      BY <1>2, <1>8, <1>12, <2>2
    <3> QED BY <1>4, <2>2, <3>1 DEF Recoverable
  <2> QED BY <1>8, <2>1, <2>2
<1>13. ManifestInv'
  <2>1. \A x : Recoverable(x) => Recoverable(x)'
    BY DEF Recoverable, InTables, InLogs
  <2>2. manifests'[currentFile'] = k
    BY <1>1, <1>7
  <2> QED BY <1>1, <1>7, <1>11, <1>12, <2>1, <2>2 DEF ManifestInv, Recoverable, InTables, InLogs, Live
<1> QED BY <1>2, <1>4, <1>6, <1>7, <1>13

\* and syncs it: then it is the only one.
LEMMA SyncEditStep ==
    ASSUME StoreInv, phase = "open", SyncEdit,
           UNCHANGED <<logs, tables, currentFile, phase, ackedSync>>
    PROVE  LET m == manifests[manifestNumber]
               k == manifests'[manifestNumber]
           IN  /\ DiskType' /\ ManifestInv'
               /\ k.edits = m.edits /\ k.synced = Len(k.edits)
<1> DEFINE m == manifests[manifestNumber]
           k == [m EXCEPT !.synced = Len(m.edits)]
<1>1. /\ currentFile # 0 /\ currentFile \in DOMAIN manifests /\ currentFile = manifestNumber
      /\ DiskType /\ ManifestInv
  BY Opened
<1>2. m \in ManifestSet /\ m.edits \in Seq(EditSet) /\ Len(m.edits) \in Nat /\ m.synced \in 1 .. Len(m.edits)
  BY <1>1 DEF DiskType, ManifestSet
<1>3. k \in ManifestSet /\ k.edits = m.edits /\ k.synced = Len(m.edits)
  BY <1>2 DEF ManifestSet
<1>4. manifests' = [manifests EXCEPT ![manifestNumber] = k]
  BY <1>1, <1>2 DEF SyncEdit, ManifestSet
<1> HIDE DEF k
<1>5. DiskType'
  BY <1>1, <1>3, <1>4 DEF DiskType
<1>6. manifests'[currentFile'] = k /\ currentFile' \in DOMAIN manifests' /\ manifests'[manifestNumber] = k
  BY <1>1, <1>4
<1>7. \A i \in Live(k) : i \in Live(m)
  BY <1>2, <1>3 DEF Live
<1>8. ManifestInv'
  <2>1. \A i \in Live(k) : Recoverable(k.edits[i]) /\ currentFile < k.edits[i].next
    BY <1>1, <1>3, <1>7 DEF ManifestInv
  <2>2. \A i, j \in Live(k) : i <= j => \A t \in k.edits[i].tables : t < k.edits[j].next
    BY <1>1, <1>3, <1>7 DEF ManifestInv
  <2> QED BY <1>1, <1>6, <2>1, <2>2 DEF ManifestInv, Recoverable, InTables, InLogs, Live
<1> QED BY <1>3, <1>5, <1>6, <1>8

-----------------------------------------------------------------------------
(* The background thread: CompactMemTable *)

LEMMA BgFact ==
    ASSUME StoreInv
    PROVE  /\ flush # <<>> => /\ phase = "open" /\ flush[1] \in FlushSet /\ flush = <<flush[1]>>
                              /\ imm # <<>> /\ (merge # <<>> => merge[1].stage = "run")
           /\ merge # <<>> => /\ phase = "open" /\ merge[1] \in MergeSet /\ merge = <<merge[1]>>
                              /\ DOMAIN merge = {1}
<1>1. MemoryType /\ IdleInv /\ OpenInv
  BY DEF StoreInv
<1>2. flush # <<>> => flush[1] \in FlushSet /\ flush = <<flush[1]>>
  BY <1>1 DEF MemoryType
<1>3. merge # <<>> => merge[1] \in MergeSet /\ merge = <<merge[1]>>
  BY <1>1 DEF MemoryType
<1>4. merge # <<>> => DOMAIN merge = {1}
  BY <1>3
<1>5. /\ flush # <<>> => phase = "open"
      /\ merge # <<>> => phase = "open"
  BY <1>1 DEF IdleInv
<1>6. flush # <<>> => imm # <<>> /\ (merge # <<>> => merge[1].stage = "run")
  BY <1>1, <1>5 DEF OpenInv, FlushInv
<1> QED BY <1>2, <1>3, <1>4, <1>5, <1>6

LEMMA FlushBeginStep ==
    ASSUME StoreInv, FlushBegin
    PROVE  StoreInv'
<1> USE DEF diskVars, numberVars, bgVars, ghostVars
<1>0. phase = "open" /\ phase' = "open" /\ flush = <<>> /\ imm # <<>>
      /\ (merge # <<>> => merge[1].stage = "run")
  BY BgFact DEF FlushBegin
<1>1. /\ DiskType /\ MemoryType /\ ManifestInv /\ FilesInv /\ VersionInv /\ ContentsInv
      /\ FlushInv /\ MergeInv /\ GroupInv
  BY <1>0, Opened
<1>2. /\ flush' = <<[num |-> nextNumber, edit |-> <<>>, stage |-> "build"]>>
      /\ nextNumber' = nextNumber + 1 /\ pendingOutputs' = pendingOutputs \cup {nextNumber}
      /\ UNCHANGED <<logs, tables, manifests, currentFile, mem, imm, lastSeq, logfileNumber, versionLog,
                     manifestNumber, current, iterPins, writersQ, group, merge, acked, ackedSync, toReplay>>
  BY DEF FlushBegin, NewNumber, PendingWithOutput
<1>3. /\ nextNumber \in Nat /\ nextNumber \notin DOMAIN tables
      /\ merge # <<>> => merge[1].out # nextNumber
  BY <1>1, BgFact DEF MemoryType, DiskType, FilesInv, MergeInv, MergeSet
<1>4. DiskType' /\ ManifestInv'
  BY <1>0, <1>1, <1>2, SameDisk
<1>5. MemoryType'
  <2>1. [num |-> nextNumber, edit |-> <<>>, stage |-> "build"] \in FlushSet
    BY <1>3 DEF FlushSet
  <2> QED BY <1>0, <1>1, <1>2, <1>3, <2>1 DEF MemoryType
<1>6. FilesInv'
  BY <1>1, <1>2, <1>3 DEF FilesInv, DiskType, MemoryType
<1>7. flush'[1].stage = "build" /\ flush'[1].num = nextNumber
  BY <1>2
<1>8. VersionInv'
  BY <1>0, <1>1, <1>2, <1>7, SameVersion DEF Pending
<1>9. ContentsInv' /\ GroupInv'
  BY <1>1, <1>2, SameContents, SameGroup
<1>10. FlushInv'
  BY <1>0, <1>1, <1>2, <1>3, <1>7 DEF FlushInv, PendingEdit, Imm
<1>11. MergeInv'
  BY <1>0, <1>1, <1>2 DEF MergeInv, PendingEdit, TablesOf
<1> QED BY <1>0, <1>4, <1>5, <1>6, <1>8, <1>9, <1>10, <1>11, StoreOpen

\* The contents of tables that stay.
LEMMA TablesFrame ==
    ASSUME NEW V, \A t \in V : tables'[t] = tables[t]
    PROVE  TablesOf(V)' = TablesOf(V) /\ \A s : InTables(s, V)' = InTables(s, V)
BY DEF TablesOf, InTables

LEMMA FlushBuiltStep ==
    ASSUME StoreInv, FlushBuilt
    PROVE  StoreInv'
<1> USE DEF diskVars, numberVars, bgVars, ghostVars
<1> DEFINE f == flush[1]
           new == IF Imm = {} THEN {} ELSE {f.num}
           e == Edit(current \cup new, logfileNumber, nextNumber, lastSeq)
<1>0. phase = "open" /\ phase' = "open" /\ flush # <<>> /\ f.stage = "build" /\ imm # <<>>
      /\ f \in FlushSet /\ (merge # <<>> => merge[1].stage = "run")
  BY BgFact DEF FlushBuilt
<1>1. /\ DiskType /\ MemoryType /\ ManifestInv /\ FilesInv /\ VersionInv /\ ContentsInv
      /\ FlushInv /\ MergeInv /\ GroupInv
  BY <1>0, Opened
<1>2. /\ flush' = <<[f EXCEPT !.stage = "manifest", !.edit = <<e>>]>>
      /\ pendingOutputs' = pendingOutputs \ {f.num}
      /\ tables' = IF Imm = {} THEN tables ELSE AddFile(tables, f.num, Imm)
      /\ UNCHANGED <<logs, manifests, currentFile, mem, imm, lastSeq, nextNumber, logfileNumber, versionLog,
                     manifestNumber, current, iterPins, writersQ, group, merge, acked, ackedSync, toReplay>>
  BY DEF FlushBuilt, EditLog
<1>3. /\ nextNumber \in Nat /\ f.num \in Nat /\ f.num \notin DOMAIN tables /\ f.num < nextNumber
      /\ Imm \in SUBSET Nat /\ lastSeq \in Nat /\ logfileNumber \in Nat /\ current \in SUBSET Nat
      /\ merge # <<>> => merge[1].out # f.num
  BY <1>0, <1>1, ImmFact DEF MemoryType, FlushInv, FlushSet
<1>4. /\ DOMAIN tables' = DOMAIN tables \cup new
      /\ \A t \in DOMAIN tables : tables'[t] = tables[t]
      /\ Imm # {} => tables'[f.num] = Imm
  BY <1>2, <1>3 DEF AddFile
<1>5. e \in EditSet /\ e.tables = current \cup new /\ e.log = logfileNumber /\ e.next = nextNumber
      /\ e.last = lastSeq
  BY <1>3 DEF EditSet, Edit
<1> HIDE DEF e
<1>6. /\ flush' # <<>> /\ flush'[1] \in FlushSet /\ flush'[1].stage = "manifest" /\ flush'[1].num = f.num
      /\ flush'[1].edit = <<e>> /\ flush' = <<flush'[1]>>
  BY <1>0, <1>2, <1>5 DEF FlushSet
<1>7. DiskType'
  <2>1. CASE Imm = {}
    BY <1>1, <1>2, <2>1 DEF DiskType
  <2>2. CASE Imm # {}
    <3>1. DOMAIN tables' \subseteq Nat /\ tables' \in [DOMAIN tables' -> SUBSET Nat]
      BY <1>1, <1>2, <1>3, <2>2, AddFileType DEF DiskType
    <3> QED BY <1>1, <1>2, <3>1 DEF DiskType
  <2> QED BY <2>1, <2>2
<1>8. MemoryType'
  <2>1. flush' \in {<<x>> : x \in FlushSet}
    BY <1>6
  <2> QED BY <1>0, <1>1, <1>2, <2>1 DEF MemoryType
<1>9. ManifestInv'
  <2>1. \A i \in Live(manifests[currentFile]) : Recoverable(manifests[currentFile].edits[i])
    BY <1>0, LiveEdits
  <2> QED BY <1>0, <1>1, <1>2, <1>4, <2>1, ManifestStep, Opened DEF Recoverable, InLogs
<1>10. FilesInv'
  BY <1>1, <1>2, <1>3, <1>4 DEF FilesInv, DiskType, MemoryType
<1>11. VersionInv'
  BY <1>0, <1>1, <1>2, <1>6, SameVersion DEF Pending
<1>12. current \subseteq DOMAIN tables /\ \A t \in current : tables'[t] = tables[t]
  BY <1>1, <1>4 DEF FilesInv
<1>13. ContentsInv' /\ GroupInv'
  BY <1>1, <1>2, <1>12, SameGroup DEF ContentsInv, InTables, Imm
<1>14. FlushInv'
  <2>1. Imm' = Imm
    BY <1>2 DEF Imm
  <2>2. \A t \in current \cup new : t < nextNumber /\ \A s \in tables'[t] : s <= lastSeq
    BY <1>1, <1>3, <1>4, <1>12 DEF FilesInv, ContentsInv
  <2>3. logfileNumber < nextNumber /\ manifestNumber < nextNumber
    BY <1>1 DEF FilesInv
  <2> QED BY <1>0, <1>2, <1>3, <1>4, <1>5, <1>6, <2>1, <2>2, <2>3 DEF FlushInv, PendingEdit, EditInv
<1>15. MergeInv'
  <2> SUFFICES ASSUME merge # <<>> PROVE MergeInv'
    BY <1>2 DEF MergeInv
  <2> DEFINE m == merge[1]
  <2>1. m.inputs \subseteq DOMAIN tables /\ m.stage = "run"
    BY <1>0, <1>1 DEF MergeInv
  <2>2. TablesOf(m.inputs)' = TablesOf(m.inputs)
    BY <1>2, <1>4, <2>1 DEF TablesOf
  <2> QED BY <1>0, <1>1, <1>2, <1>3, <1>4, <2>1, <2>2 DEF MergeInv, PendingEdit
<1> QED BY <1>0, <1>7, <1>8, <1>9, <1>10, <1>11, <1>13, <1>14, <1>15, StoreOpen

LEMMA FlushFailsStep ==
    ASSUME StoreInv, FlushFails
    PROVE  StoreInv'
<1> USE DEF diskVars, numberVars, bgVars, ghostVars
<1>0. phase = "open" /\ phase' = "open" /\ flush # <<>> /\ flush[1].stage \in {"build", "manifest"}
      /\ flush' = <<>> /\ (merge # <<>> => merge[1].stage = "run")
  BY BgFact DEF FlushFails
<1>1. /\ DiskType /\ MemoryType /\ ManifestInv /\ FilesInv /\ VersionInv /\ ContentsInv
      /\ FlushInv /\ MergeInv /\ GroupInv
  BY <1>0, Opened
<1>2. /\ pendingOutputs' = pendingOutputs \ {flush[1].num}
      /\ UNCHANGED <<logs, tables, manifests, currentFile, mem, imm, lastSeq, nextNumber, logfileNumber,
                     versionLog, manifestNumber, current, iterPins, writersQ, group, merge, acked, ackedSync,
                     toReplay>>
  BY DEF FlushFails
<1>3. DiskType' /\ ManifestInv'
  BY <1>0, <1>1, <1>2, SameDisk
<1>4. MemoryType'
  BY <1>0, <1>1, <1>2 DEF MemoryType
<1>5. FilesInv' /\ VersionInv' /\ ContentsInv' /\ GroupInv'
  BY <1>0, <1>1, <1>2, SameFiles, SameVersion, SameContents, SameGroup DEF Pending
<1>6. FlushInv'
  BY <1>0 DEF FlushInv
<1>7. MergeInv'
  BY <1>0, <1>1, <1>2 DEF MergeInv, FlushInv, PendingEdit, TablesOf
<1> QED BY <1>0, <1>3, <1>4, <1>5, <1>6, <1>7, StoreOpen

LEMMA FlushLoggedStep ==
    ASSUME StoreInv, FlushLogged
    PROVE  StoreInv'
<1> USE DEF diskVars, numberVars, bgVars, ghostVars
<1> DEFINE f == flush[1]
           e == f.edit[1]
           new == IF Imm = {} THEN {} ELSE {f.num}
           m == manifests[manifestNumber]
           k == manifests'[manifestNumber]
<1>0. phase = "open" /\ phase' = "open" /\ flush # <<>> /\ f.stage = "manifest" /\ imm # <<>>
      /\ f \in FlushSet /\ (merge # <<>> => merge[1].stage = "run")
  BY BgFact DEF FlushLogged
<1>1. /\ DiskType /\ MemoryType /\ ManifestInv /\ FilesInv /\ VersionInv /\ ContentsInv
      /\ FlushInv /\ MergeInv /\ GroupInv
  BY <1>0, Opened
<1>2. /\ flush' = <<[f EXCEPT !.stage = "sync"]>> /\ AppendEdit(e)
      /\ UNCHANGED <<logs, tables, currentFile, mem, imm, lastSeq, nextNumber, logfileNumber, versionLog,
                     manifestNumber, current, iterPins, pendingOutputs, writersQ, group, merge, acked,
                     ackedSync, toReplay>>
  BY DEF FlushLogged
<1>3. /\ Len(f.edit) = 1 /\ new \subseteq DOMAIN tables /\ (Imm # {} => tables[f.num] = Imm)
      /\ EditInv(e, current \cup new, logfileNumber)
  BY <1>0, <1>1 DEF FlushInv
<1>4. e \in EditSet
  BY <1>0, <1>3 DEF FlushSet
<1>5. Recoverable(e)
  <2>1. /\ e.tables = current \cup new /\ e.log = logfileNumber /\ e.log < e.next
        /\ \A t \in e.tables : t < e.next /\ \A s \in tables[t] : s <= e.last
    BY <1>3 DEF EditInv
  <2>2. e.tables \subseteq DOMAIN tables
    BY <1>1, <1>3, <2>1 DEF FilesInv
  <2>3. ASSUME NEW s \in ackedSync PROVE InTables(s, e.tables) \/ InLogs(s, e.log)
    <3>1. CASE InTables(s, current)
      BY <2>1, <3>1 DEF InTables
    <3>2. CASE s \in Imm
      <4>1. f.num \in e.tables /\ s \in tables[f.num]
        BY <1>3, <2>1, <3>2
      <4> QED BY <4>1 DEF InTables
    <3>3. CASE s \in Durable(logs[logfileNumber])
      BY <1>1, <2>1, <3>3 DEF InLogs, FilesInv, MemoryType
    <3> QED BY <1>1, <3>1, <3>2, <3>3 DEF ContentsInv
  <2> HIDE DEF e
  <2> QED BY <2>1, <2>2, <2>3 DEF Recoverable
<1>6. /\ manifestNumber < e.next /\ ~ Pending("sync") /\ ~ Pending("install")
      /\ \A t \in current : t < e.next
  BY <1>0, <1>3 DEF EditInv, Pending
<1>7. /\ DiskType' /\ ManifestInv'
      /\ k.synced = Len(k.edits) - 1 /\ k.edits[k.synced] = m.edits[m.synced]
      /\ k.edits[Len(k.edits)] = e
  <2> HIDE DEF e
  <2> QED BY <1>0, <1>2, <1>4, <1>5, <1>6, AppendEditStep
<1>8. /\ flush' # <<>> /\ flush'[1] \in FlushSet /\ flush'[1].stage = "sync" /\ flush'[1].num = f.num
      /\ flush'[1].edit = f.edit /\ flush' = <<flush'[1]>>
  BY <1>0, <1>2 DEF FlushSet
<1>9. MemoryType'
  <2>1. flush' \in {<<x>> : x \in FlushSet}
    BY <1>8
  <2> QED BY <1>0, <1>1, <1>2, <2>1 DEF MemoryType
<1>10. FilesInv' /\ ContentsInv' /\ GroupInv'
  BY <1>1, <1>2, SameFiles, SameContents, SameGroup
<1>11. VersionInv'
  BY <1>0, <1>1, <1>2, <1>6, <1>7, <1>8 DEF VersionInv, Pending
<1>12. FlushInv'
  <2>1. Imm' = Imm /\ k.edits[Len(k.edits)] = flush'[1].edit[1] /\ manifests'[manifestNumber'] = k
    BY <1>2, <1>7, <1>8 DEF Imm
  <2> HIDE DEF k
  <2> QED BY <1>0, <1>1, <1>2, <1>8, <2>1 DEF FlushInv, PendingEdit, EditInv
<1>13. MergeInv'
  BY <1>0, <1>1, <1>2 DEF MergeInv, PendingEdit, TablesOf
<1> QED BY <1>0, <1>7, <1>9, <1>10, <1>11, <1>12, <1>13, StoreOpen

LEMMA FlushSyncedStep ==
    ASSUME StoreInv, FlushSynced
    PROVE  StoreInv'
<1> USE DEF diskVars, numberVars, bgVars, ghostVars
<1> DEFINE f == flush[1]
           m == manifests[manifestNumber]
           k == manifests'[manifestNumber]
<1>0. phase = "open" /\ phase' = "open" /\ flush # <<>> /\ f.stage = "sync" /\ imm # <<>>
      /\ f \in FlushSet /\ (merge # <<>> => merge[1].stage = "run")
  BY BgFact DEF FlushSynced
<1>1. /\ DiskType /\ MemoryType /\ ManifestInv /\ FilesInv /\ VersionInv /\ ContentsInv
      /\ FlushInv /\ MergeInv /\ GroupInv
  BY <1>0, Opened
<1>2. /\ flush' = <<[f EXCEPT !.stage = "install"]>> /\ SyncEdit
      /\ UNCHANGED <<logs, tables, currentFile, mem, imm, lastSeq, nextNumber, logfileNumber, versionLog,
                     manifestNumber, current, iterPins, pendingOutputs, writersQ, group, merge, acked,
                     ackedSync, toReplay>>
  BY DEF FlushSynced
<1>3. DiskType' /\ ManifestInv' /\ k.edits = m.edits /\ k.synced = Len(k.edits)
  BY <1>0, <1>2, SyncEditStep
<1>4. /\ flush' # <<>> /\ flush'[1] \in FlushSet /\ flush'[1].stage = "install" /\ flush'[1].num = f.num
      /\ flush'[1].edit = f.edit /\ flush' = <<flush'[1]>>
  BY <1>0, <1>2 DEF FlushSet
<1>5. MemoryType'
  <2>1. flush' \in {<<x>> : x \in FlushSet}
    BY <1>4
  <2> QED BY <1>0, <1>1, <1>2, <2>1 DEF MemoryType
<1>6. FilesInv' /\ ContentsInv' /\ GroupInv'
  BY <1>1, <1>2, SameFiles, SameContents, SameGroup
<1>7. VersionInv'
  BY <1>0, <1>2, <1>3, <1>4 DEF VersionInv, Pending
<1>8. FlushInv'
  <2>1. Imm' = Imm /\ k.edits[Len(k.edits)] = flush'[1].edit[1] /\ manifests'[manifestNumber'] = k
    BY <1>0, <1>1, <1>2, <1>3, <1>4 DEF Imm, FlushInv, PendingEdit
  <2> HIDE DEF k
  <2> QED BY <1>0, <1>1, <1>2, <1>4, <2>1 DEF FlushInv, PendingEdit, EditInv
<1>9. MergeInv'
  BY <1>0, <1>1, <1>2 DEF MergeInv, PendingEdit, TablesOf
<1> QED BY <1>0, <1>3, <1>5, <1>6, <1>7, <1>8, <1>9, StoreOpen

LEMMA DeleteFact ==
    ASSUME NEW live, NEW log, NEW man, DeleteObsoleteFiles(live, log, man)
    PROVE  /\ DOMAIN tables' = DOMAIN tables \cap live
           /\ \A n : n \in DOMAIN logs' <=> n \in DOMAIN logs /\ n >= log
           /\ \A n : n \in DOMAIN manifests' <=> n \in DOMAIN manifests /\ n >= man
           /\ \A t \in DOMAIN tables' : tables'[t] = tables[t]
           /\ \A n \in DOMAIN logs' : logs'[n] = logs[n]
           /\ \A n \in DOMAIN manifests' : manifests'[n] = manifests[n]
           /\ (DiskType /\ currentFile' = currentFile) => DiskType'
<1> DEFINE LG == {n \in DOMAIN logs : n >= log}
           MN == {n \in DOMAIN manifests : n >= man}
<1>1. tables' = Keep(tables, live) /\ logs' = Keep(logs, LG) /\ manifests' = Keep(manifests, MN)
  BY DEF DeleteObsoleteFiles
<1>2. DOMAIN logs \cap LG = LG /\ DOMAIN manifests \cap MN = MN
  OBVIOUS
<1> HIDE DEF LG, MN
<1>3. /\ DOMAIN tables' = DOMAIN tables \cap live
      /\ DOMAIN logs' = LG
      /\ DOMAIN manifests' = MN
      /\ \A t \in DOMAIN tables' : tables'[t] = tables[t]
      /\ \A n \in DOMAIN logs' : logs'[n] = logs[n]
      /\ \A n \in DOMAIN manifests' : manifests'[n] = manifests[n]
  BY <1>1, <1>2 DEF Keep
<1>4. ASSUME DiskType, currentFile' = currentFile PROVE DiskType'
  <2>1. tables' \in [DOMAIN tables' -> SUBSET Nat]
    BY <1>1, <1>4, KeepFact DEF DiskType
  <2>2. logs' \in [DOMAIN logs' -> LogSet]
    BY <1>1, <1>4, KeepFact DEF DiskType
  <2>3. manifests' \in [DOMAIN manifests' -> ManifestSet]
    BY <1>1, <1>4, KeepFact DEF DiskType
  <2> QED BY <1>2, <1>3, <1>4, <2>1, <2>2, <2>3 DEF DiskType, LG, MN
<1> QED BY <1>3, <1>4 DEF LG, MN

LEMMA LiveFact ==
    ASSUME NEW cur, NEW pins, NEW pend, NEW m
    PROVE  LET live == LiveTables(cur, pins, pend, m)
           IN  /\ cur \subseteq live /\ pend \subseteq live /\ \A v \in pins : v \subseteq live
               /\ \A i \in DOMAIN m : m[i].version \subseteq live
<1> DEFINE L == LiveTables(cur, pins, pend, m)
<1>1. ASSUME NEW x PROVE (x \in pend \/ x \in cur \/ \E v \in pins : x \in v) => x \in L
  BY DEF LiveTables
<1>2. ASSUME NEW i \in DOMAIN m, NEW x \in m[i].version PROVE x \in L
  <2>1. x \in UNION {m[j].version : j \in DOMAIN m}
    BY <1>2
  <2> QED BY <2>1 DEF LiveTables
<1> HIDE DEF L
<1>3. /\ cur \subseteq L /\ pend \subseteq L /\ \A v \in pins : v \subseteq L
      /\ \A i \in DOMAIN m : m[i].version \subseteq L
  BY <1>1, <1>2
<1> QED BY <1>3 DEF L

LEMMA FlushInstallStep ==
    ASSUME StoreInv, FlushInstall
    PROVE  StoreInv'
<1> USE DEF diskVars, numberVars, bgVars, ghostVars
<1> DEFINE f == flush[1]
           e == f.edit[1]
           new == IF Imm = {} THEN {} ELSE {f.num}
           live == LiveTables(e.tables, iterPins, pendingOutputs, merge)
<1>0. phase = "open" /\ phase' = "open" /\ flush # <<>> /\ f.stage = "install" /\ imm # <<>>
      /\ f \in FlushSet /\ (merge # <<>> => merge[1].stage = "run")
  BY BgFact DEF FlushInstall
<1>1. /\ DiskType /\ MemoryType /\ ManifestInv /\ FilesInv /\ VersionInv /\ ContentsInv
      /\ FlushInv /\ MergeInv /\ GroupInv
      /\ currentFile # 0 /\ currentFile \in DOMAIN manifests /\ currentFile = manifestNumber
  BY <1>0, Opened
<1>2. /\ current' = e.tables /\ versionLog' = e.log /\ imm' = <<>> /\ flush' = <<>>
      /\ DeleteObsoleteFiles(live, e.log, manifestNumber)
      /\ UNCHANGED <<currentFile, mem, lastSeq, nextNumber, logfileNumber, manifestNumber,
                     iterPins, pendingOutputs, writersQ, group, merge, acked, ackedSync, toReplay>>
  BY DEF FlushInstall
<1>3. /\ Len(f.edit) = 1 /\ new \subseteq DOMAIN tables /\ (Imm # {} => tables[f.num] = Imm)
      /\ EditInv(e, current \cup new, logfileNumber)
  BY <1>0, <1>1 DEF FlushInv
<1>4. e \in EditSet /\ e.tables = current \cup new /\ e.log = logfileNumber
      /\ \A t \in e.tables : \A s \in tables[t] : s <= e.last
  BY <1>0, <1>3 DEF FlushSet, EditInv
<1> HIDE DEF e
<1>5. /\ e.tables \subseteq live /\ pendingOutputs \subseteq live /\ \A v \in iterPins : v \subseteq live
      /\ merge # <<>> => merge[1].version \subseteq live
  BY BgFact, LiveFact
<1> HIDE DEF live
<1>6. /\ DOMAIN tables' = DOMAIN tables \cap live
      /\ \A n : n \in DOMAIN logs' <=> n \in DOMAIN logs /\ n >= e.log
      /\ \A n : n \in DOMAIN manifests' <=> n \in DOMAIN manifests /\ n >= manifestNumber
      /\ \A t \in DOMAIN tables' : tables'[t] = tables[t]
      /\ \A n \in DOMAIN logs' : logs'[n] = logs[n]
      /\ \A n \in DOMAIN manifests' : manifests'[n] = manifests[n]
      /\ DiskType'
  BY <1>1, <1>2, DeleteFact
<1>7. MemoryType'
  BY <1>0, <1>1, <1>2, <1>4 DEF MemoryType, EditSet
<1>8. logfileNumber \in DOMAIN logs' /\ logs'[logfileNumber] = logs[logfileNumber]
  BY <1>1, <1>4, <1>6 DEF FilesInv, MemoryType
<1>9. currentFile \in DOMAIN manifests' /\ manifests'[currentFile] = manifests[currentFile]
  BY <1>1, <1>6 DEF MemoryType
<1>10. ASSUME NEW i \in Live(manifests[currentFile])
       PROVE  manifests[currentFile].edits[i] = e /\ Recoverable(e)
  <2>1. Pending("install") /\ (merge = <<>> \/ merge[1].stage = "run")
    BY <1>0 DEF Pending
  <2> QED BY <1>0, <2>1, LiveEdits DEF e
<1>11. ManifestInv'
  <2>1. ASSUME Recoverable(e), NEW s \in ackedSync
        PROVE  InTables(s, e.tables) \/ \E n \in DOMAIN logs' : n >= e.log /\ s \in Durable(logs'[n])
    BY <1>6, <2>1 DEF Recoverable, InLogs
  <2>2. ASSUME Recoverable(e), NEW t \in e.tables
        PROVE  t \in DOMAIN tables' /\ tables'[t] = tables[t]
    BY <1>5, <1>6, <2>2 DEF Recoverable
  <2> QED BY <1>0, <1>1, <1>2, <1>9, <1>10, <2>1, <2>2, ManifestStep
<1>12. \A t \in e.tables : t \in DOMAIN tables' /\ tables'[t] = tables[t]
  BY <1>1, <1>3, <1>4, <1>5, <1>6 DEF FilesInv
<1>13. FilesInv'
  <2>1. \A v \in iterPins : v \subseteq DOMAIN tables'
    BY <1>1, <1>5, <1>6 DEF FilesInv
  <2>2. versionLog' <= logfileNumber
    BY <1>1, <1>2, <1>4 DEF MemoryType
  <2> QED BY <1>1, <1>2, <1>6, <1>8, <1>12, <2>1, <2>2 DEF FilesInv
<1>14. VersionInv'
  <2> DEFINE m == manifests[manifestNumber]
  <2>1. m.synced = Len(m.edits) /\ m.edits[Len(m.edits)] = e
    BY <1>0, <1>1 DEF VersionInv, FlushInv, PendingEdit, Pending, e
  <2>2. manifests'[manifestNumber'] = m
    BY <1>1, <1>2, <1>9
  <2> HIDE DEF m
  <2> QED BY <1>0, <1>2, <2>1, <2>2 DEF VersionInv, Pending
<1>15. ContentsInv'
  <2>1. Imm' = {} /\ Imm \subseteq Nat
    BY <1>1, <1>2, ImmOf, ImmFact DEF Imm
  <2>2. ASSUME NEW s, InTables(s, current) \/ s \in Imm PROVE InTables(s, current)'
    <3>1. CASE InTables(s, current)
      BY <1>2, <1>4, <1>12, <3>1 DEF InTables
    <3>2. CASE s \in Imm
      <4>1. f.num \in e.tables /\ s \in tables[f.num]
        BY <1>3, <1>4, <3>2
      <4> QED BY <1>2, <1>12, <4>1 DEF InTables
    <3> QED BY <2>2, <3>1, <3>2
  <2>3. \A t \in current' : \A s \in tables'[t] : s <= lastSeq
    <3> SUFFICES ASSUME NEW t \in e.tables, NEW s \in tables[t] PROVE s <= lastSeq
      BY <1>2, <1>12
    <3>1. CASE t \in current
      BY <1>1, <3>1 DEF ContentsInv
    <3>2. CASE t \notin current
      <4>1. t \in new /\ s \in Imm
        BY <1>3, <1>4, <3>2
      <4> QED BY <1>1, <4>1 DEF ContentsInv
    <3> QED BY <3>1, <3>2
  <2> QED BY <1>1, <1>2, <1>8, <2>1, <2>2, <2>3 DEF ContentsInv
<1>16. FlushInv' /\ GroupInv'
  BY <1>1, <1>2, <1>8 DEF FlushInv, GroupInv
<1>17. MergeInv'
  <2> SUFFICES ASSUME merge # <<>> PROVE MergeInv'
    BY <1>2 DEF MergeInv
  <2> DEFINE m == merge[1]
  <2>1. m.inputs \subseteq m.version /\ m.version \subseteq DOMAIN tables' /\ m.stage = "run"
        /\ m.inputs \subseteq current'
    BY <1>0, <1>1, <1>2, <1>4, <1>5, <1>6 DEF MergeInv
  <2>2. TablesOf(m.inputs)' = TablesOf(m.inputs)
    BY <1>2, <1>6, <2>1 DEF TablesOf
  <2>3. m.out # 0 => /\ m.out \in DOMAIN tables' /\ m.out \in pendingOutputs
                     /\ tables'[m.out] = TablesOf(m.inputs)'
    BY <1>1, <1>2, <1>5, <1>6, <2>2 DEF MergeInv
  <2> QED BY <1>2, <2>1, <2>3 DEF MergeInv, PendingEdit
<1> QED BY <1>0, <1>6, <1>7, <1>11, <1>13, <1>14, <1>15, <1>16, <1>17, StoreOpen

-----------------------------------------------------------------------------
(* The background thread: a table compaction *)

LEMMA MergeBeginStep ==
    ASSUME StoreInv, MergeBegin
    PROVE  StoreInv'
<1> USE DEF diskVars, numberVars, bgVars, ghostVars
<1>0. phase = "open" /\ phase' = "open" /\ flush = <<>> /\ merge = <<>>
  BY DEF MergeBegin
<1>1. /\ DiskType /\ MemoryType /\ ManifestInv /\ FilesInv /\ VersionInv /\ ContentsInv
      /\ FlushInv /\ MergeInv /\ GroupInv
  BY <1>0, Opened
<1>2. PICK S \in SUBSET current :
        merge' = <<[inputs |-> S, version |-> current, out |-> 0, edit |-> <<>>, stage |-> "run"]>>
  BY DEF MergeBegin
<1>3. UNCHANGED <<logs, tables, manifests, currentFile, mem, imm, lastSeq, nextNumber, logfileNumber, versionLog,
                  manifestNumber, current, iterPins, pendingOutputs, writersQ, group, flush, acked,
                  ackedSync, toReplay>>
  BY DEF MergeBegin
<1>4. /\ merge' # <<>> /\ merge'[1].stage = "run" /\ merge'[1].out = 0 /\ merge'[1].inputs = S
      /\ merge'[1].version = current
  BY <1>2
<1>5. MemoryType'
  <2> DEFINE x == [inputs |-> S, version |-> current, out |-> 0, edit |-> <<>>, stage |-> "run"]
  <2>1. x \in MergeSet
    BY <1>1 DEF MergeSet, MemoryType
  <2>2. merge' = <<x>>
    BY <1>2
  <2> HIDE DEF x
  <2>3. merge' \in {<<m>> : m \in MergeSet}
    BY <2>1, <2>2
  <2> QED BY <1>0, <1>1, <1>3, <2>3 DEF MemoryType
<1>6. DiskType' /\ ManifestInv'
  BY <1>0, <1>1, <1>3, SameDisk
<1>7. FilesInv' /\ VersionInv' /\ ContentsInv' /\ GroupInv'
  BY <1>0, <1>1, <1>3, <1>4, SameFiles, SameVersion, SameContents, SameGroup DEF Pending
<1>8. FlushInv' /\ MergeInv'
  BY <1>0, <1>1, <1>3, <1>4 DEF FlushInv, MergeInv, FilesInv, PendingEdit
<1> QED BY <1>0, <1>5, <1>6, <1>7, <1>8, StoreOpen

LEMMA MergeOutputStep ==
    ASSUME StoreInv, MergeOutput
    PROVE  StoreInv'
<1> USE DEF diskVars, numberVars, bgVars, ghostVars
<1> DEFINE m == merge[1]
<1>0. phase = "open" /\ phase' = "open" /\ flush = <<>> /\ merge # <<>> /\ m.stage = "run" /\ m.out = 0
      /\ m \in MergeSet
  BY BgFact DEF MergeOutput
<1>1. /\ DiskType /\ MemoryType /\ ManifestInv /\ FilesInv /\ VersionInv /\ ContentsInv
      /\ FlushInv /\ MergeInv /\ GroupInv
  BY <1>0, Opened
<1>2. /\ merge' = <<[m EXCEPT !.out = nextNumber]>> /\ nextNumber' = nextNumber + 1
      /\ pendingOutputs' = pendingOutputs \cup {nextNumber}
      /\ tables' = AddFile(tables, nextNumber, TablesOf(m.inputs))
      /\ UNCHANGED <<logs, manifests, currentFile, mem, imm, lastSeq, logfileNumber, versionLog,
                     manifestNumber, current, iterPins, writersQ, group, flush, acked, ackedSync, toReplay>>
  BY DEF MergeOutput, NewNumber, PendingWithOutput
<1>3. /\ nextNumber \in Nat /\ nextNumber # 0 /\ nextNumber \notin DOMAIN tables
  BY <1>1 DEF MemoryType, DiskType, FilesInv
<1>4. m.inputs \subseteq m.version /\ m.version \subseteq DOMAIN tables /\ m.inputs \subseteq current
  BY <1>0, <1>1 DEF MergeInv
<1>5. TablesOf(m.inputs) \in SUBSET Nat
  BY <1>1, <1>4 DEF TablesOf, DiskType
<1>6. /\ DOMAIN tables' = DOMAIN tables \cup {nextNumber}
      /\ \A t \in DOMAIN tables : tables'[t] = tables[t]
      /\ tables'[nextNumber] = TablesOf(m.inputs)
  BY <1>2, <1>3 DEF AddFile
<1>7. /\ merge' # <<>> /\ merge'[1] \in MergeSet /\ merge' = <<merge'[1]>> /\ merge'[1].stage = "run"
      /\ merge'[1].out = nextNumber /\ merge'[1].inputs = m.inputs /\ merge'[1].version = m.version
  BY <1>0, <1>2, <1>3 DEF MergeSet
<1>8. DiskType'
  <2>1. DOMAIN tables' \subseteq Nat /\ tables' \in [DOMAIN tables' -> SUBSET Nat]
    BY <1>1, <1>2, <1>3, <1>5, AddFileType DEF DiskType
  <2> QED BY <1>1, <1>2, <2>1 DEF DiskType
<1>9. MemoryType'
  <2>1. merge' \in {<<x>> : x \in MergeSet}
    BY <1>7
  <2> QED BY <1>0, <1>1, <1>2, <1>3, <2>1 DEF MemoryType
<1>10. ManifestInv'
  <2>1. \A i \in Live(manifests[currentFile]) : Recoverable(manifests[currentFile].edits[i])
    BY <1>0, LiveEdits
  <2> QED BY <1>0, <1>1, <1>2, <1>6, <2>1, ManifestStep, Opened DEF Recoverable, InLogs
<1>11. FilesInv'
  BY <1>1, <1>2, <1>3, <1>6 DEF FilesInv, DiskType, MemoryType
<1>12. VersionInv'
  BY <1>0, <1>1, <1>2, <1>7, SameVersion DEF Pending
<1>13. ContentsInv' /\ GroupInv'
  <2>1. current \subseteq DOMAIN tables /\ \A t \in current : tables'[t] = tables[t]
    BY <1>1, <1>6 DEF FilesInv
  <2> QED BY <1>1, <1>2, <2>1, SameGroup DEF ContentsInv, InTables, Imm
<1>14. FlushInv'
  BY <1>0, <1>2 DEF FlushInv
<1>15. MergeInv'
  <2>1. UNION {tables'[n] : n \in m.inputs} = TablesOf(m.inputs)
    BY <1>4, <1>6 DEF TablesOf
  <2>2. /\ nextNumber \in DOMAIN tables' /\ nextNumber \in pendingOutputs'
        /\ tables'[nextNumber] = UNION {tables'[n] : n \in merge'[1].inputs}
    BY <1>2, <1>6, <1>7, <2>1
  <2>3. /\ merge'[1].inputs \subseteq merge'[1].version /\ merge'[1].version \subseteq DOMAIN tables'
        /\ merge'[1].inputs \subseteq current'
    BY <1>2, <1>4, <1>6, <1>7
  <2> QED BY <1>7, <2>2, <2>3 DEF MergeInv, PendingEdit, TablesOf
<1> QED BY <1>0, <1>8, <1>9, <1>10, <1>11, <1>12, <1>13, <1>14, <1>15, StoreOpen

\* The merged version holds the writes of the version it replaces.
LEMMA MergedTables ==
    ASSUME StoreInv, merge # <<>>, merge[1].out # 0
    PROVE  LET V == (current \ merge[1].inputs) \cup {merge[1].out}
           IN  /\ V \subseteq DOMAIN tables
               /\ \A s : InTables(s, current) => InTables(s, V)
               /\ \A t \in V : \A s \in tables[t] : s <= lastSeq
<1> DEFINE m == merge[1]
           V == (current \ m.inputs) \cup {m.out}
<1>1. FilesInv /\ MergeInv /\ ContentsInv
  BY BgFact, Opened
<1>2. /\ current \subseteq DOMAIN tables /\ m.out \in DOMAIN tables /\ m.inputs \subseteq current
      /\ tables[m.out] = TablesOf(m.inputs)
  BY <1>1 DEF FilesInv, MergeInv
<1>3. ASSUME NEW s, InTables(s, current) PROVE InTables(s, V)
  <2>1. PICK t \in current : s \in tables[t]
    BY <1>3 DEF InTables
  <2>2. CASE t \in m.inputs
    <3>1. s \in tables[m.out]
      BY <1>2, <2>1, <2>2 DEF TablesOf
    <3> QED BY <3>1 DEF InTables
  <2>3. CASE t \notin m.inputs
    BY <2>1, <2>3 DEF InTables
  <2> QED BY <2>2, <2>3
<1>4. ASSUME NEW t \in V, NEW s \in tables[t] PROVE s <= lastSeq
  <2>1. CASE t = m.out
    BY <1>1, <1>2, <1>4, <2>1 DEF TablesOf, ContentsInv
  <2> QED BY <1>1, <1>4, <2>1 DEF ContentsInv
<1> QED BY <1>2, <1>3, <1>4

LEMMA MergeLoggedStep ==
    ASSUME StoreInv, MergeLogged
    PROVE  StoreInv'
<1> USE DEF diskVars, numberVars, bgVars, ghostVars
<1> DEFINE x == merge[1]
           V == (current \ x.inputs) \cup {x.out}
           e == Edit(V, versionLog, nextNumber, lastSeq)
           m == manifests[manifestNumber]
           k == manifests'[manifestNumber]
<1>0. phase = "open" /\ phase' = "open" /\ flush = <<>> /\ merge # <<>> /\ x.stage = "run" /\ x.out # 0
      /\ x \in MergeSet
  BY BgFact DEF MergeLogged
<1>1. /\ DiskType /\ MemoryType /\ ManifestInv /\ FilesInv /\ VersionInv /\ ContentsInv
      /\ FlushInv /\ MergeInv /\ GroupInv
      /\ currentFile # 0 /\ currentFile \in DOMAIN manifests /\ currentFile = manifestNumber
  BY <1>0, Opened
<1>2. /\ merge' = <<[x EXCEPT !.stage = "sync", !.edit = <<e>>]>> /\ AppendEdit(e)
      /\ UNCHANGED <<logs, tables, currentFile, mem, imm, lastSeq, nextNumber, logfileNumber, versionLog,
                     manifestNumber, current, iterPins, pendingOutputs, writersQ, group, flush, acked,
                     ackedSync, toReplay>>
  BY DEF MergeLogged
<1>3. /\ V \subseteq DOMAIN tables
      /\ \A s : InTables(s, current) => InTables(s, V)
      /\ \A t \in V : \A s \in tables[t] : s <= lastSeq
  BY <1>0, MergedTables
<1>4. /\ nextNumber \in Nat /\ lastSeq \in Nat /\ versionLog \in Nat /\ logfileNumber \in Nat
      /\ V \in SUBSET Nat
  BY <1>0, <1>1 DEF MemoryType, MergeSet
<1> HIDE DEF V
<1>5. /\ e \in EditSet /\ e.tables = V /\ e.log = versionLog /\ e.next = nextNumber /\ e.last = lastSeq
  BY <1>4 DEF EditSet, Edit
<1> HIDE DEF e
<1>6. /\ versionLog < nextNumber /\ manifestNumber < nextNumber /\ \A t \in DOMAIN tables : t < nextNumber
  BY <1>1, <1>4 DEF FilesInv
<1>7. ~ Pending("sync") /\ ~ Pending("install")
  BY <1>0 DEF Pending
<1>8. \A s \in ackedSync : InTables(s, current) \/ InLogs(s, versionLog)
  <2>1. m.synced \in Live(m) /\ m.edits[m.synced].tables = current /\ m.edits[m.synced].log = versionLog
    BY <1>1, <1>7 DEF VersionInv, DiskType, ManifestSet, Live
  <2>2. Recoverable(m.edits[m.synced])
    BY <1>0, <1>1, <2>1, LiveEdits
  <2> QED BY <2>1, <2>2 DEF Recoverable
<1>9. Recoverable(e)
  BY <1>3, <1>5, <1>6, <1>8 DEF Recoverable
<1>10. /\ DiskType' /\ ManifestInv'
       /\ k.synced = Len(k.edits) - 1 /\ k.edits[k.synced] = m.edits[m.synced]
       /\ k.edits[Len(k.edits)] = e
  <2>1. \A t \in current : t < e.next
    BY <1>1, <1>5, <1>6 DEF FilesInv
  <2> QED BY <1>0, <1>2, <1>5, <1>6, <1>7, <1>9, <2>1, AppendEditStep
<1>11. /\ merge' # <<>> /\ merge'[1] \in MergeSet /\ merge' = <<merge'[1]>> /\ merge'[1].stage = "sync"
       /\ merge'[1].out = x.out /\ merge'[1].inputs = x.inputs /\ merge'[1].version = x.version
       /\ merge'[1].edit = <<e>>
  BY <1>0, <1>2, <1>5 DEF MergeSet
<1>12. MemoryType'
  <2>1. merge' \in {<<y>> : y \in MergeSet}
    BY <1>11
  <2> QED BY <1>0, <1>1, <1>2, <2>1 DEF MemoryType
<1>13. FilesInv' /\ ContentsInv' /\ GroupInv'
  BY <1>1, <1>2, SameFiles, SameContents, SameGroup
<1>14. VersionInv'
  BY <1>0, <1>1, <1>2, <1>7, <1>10, <1>11 DEF VersionInv, Pending
<1>15. FlushInv'
  BY <1>0, <1>2 DEF FlushInv
<1>16. MergeInv'
  <2>1. \A t \in current \cup V : t < nextNumber
    BY <1>1, <1>3, <1>6 DEF FilesInv
  <2>2. EditInv(e, V, versionLog)
    BY <1>3, <1>5, <1>6, <2>1 DEF EditInv
  <2>3. k.edits[Len(k.edits)] = merge'[1].edit[1] /\ manifests'[manifestNumber'] = k
    BY <1>2, <1>10, <1>11
  <2> HIDE DEF k
  <2> QED BY <1>0, <1>1, <1>2, <1>11, <2>2, <2>3 DEF MergeInv, PendingEdit, EditInv, TablesOf, V
<1> QED BY <1>0, <1>10, <1>12, <1>13, <1>14, <1>15, <1>16, StoreOpen

LEMMA MergeSyncedStep ==
    ASSUME StoreInv, MergeSynced
    PROVE  StoreInv'
<1> USE DEF diskVars, numberVars, bgVars, ghostVars
<1> DEFINE x == merge[1]
           m == manifests[manifestNumber]
           k == manifests'[manifestNumber]
<1>0. phase = "open" /\ phase' = "open" /\ merge # <<>> /\ x.stage = "sync" /\ x \in MergeSet
  BY BgFact DEF MergeSynced
<1>1. /\ DiskType /\ MemoryType /\ ManifestInv /\ FilesInv /\ VersionInv /\ ContentsInv
      /\ FlushInv /\ MergeInv /\ GroupInv
  BY <1>0, Opened
<1>2. /\ merge' = <<[x EXCEPT !.stage = "install"]>> /\ SyncEdit
      /\ UNCHANGED <<logs, tables, currentFile, mem, imm, lastSeq, nextNumber, logfileNumber, versionLog,
                     manifestNumber, current, iterPins, pendingOutputs, writersQ, group, flush, acked,
                     ackedSync, toReplay>>
  BY DEF MergeSynced
<1>3. DiskType' /\ ManifestInv' /\ k.edits = m.edits /\ k.synced = Len(k.edits)
  BY <1>0, <1>2, SyncEditStep
<1>4. flush = <<>> /\ m.edits[Len(m.edits)] = x.edit[1]
  BY <1>0, <1>1 DEF MergeInv, PendingEdit
<1>5. /\ merge' # <<>> /\ merge'[1] \in MergeSet /\ merge' = <<merge'[1]>> /\ merge'[1].stage = "install"
      /\ merge'[1].out = x.out /\ merge'[1].inputs = x.inputs /\ merge'[1].version = x.version
      /\ merge'[1].edit = x.edit
  BY <1>0, <1>2 DEF MergeSet
<1>6. MemoryType'
  <2>1. merge' \in {<<y>> : y \in MergeSet}
    BY <1>5
  <2> QED BY <1>0, <1>1, <1>2, <2>1 DEF MemoryType
<1>7. FilesInv' /\ ContentsInv' /\ GroupInv'
  BY <1>1, <1>2, SameFiles, SameContents, SameGroup
<1>8. VersionInv' /\ FlushInv'
  BY <1>2, <1>3, <1>4, <1>5 DEF VersionInv, FlushInv, Pending
<1>9. MergeInv'
  <2>1. k.edits[Len(k.edits)] = merge'[1].edit[1] /\ manifests'[manifestNumber'] = k
    BY <1>2, <1>3, <1>4, <1>5
  <2> HIDE DEF k
  <2> QED BY <1>0, <1>1, <1>2, <1>5, <2>1 DEF MergeInv, PendingEdit, EditInv, TablesOf
<1> QED BY <1>0, <1>3, <1>6, <1>7, <1>8, <1>9, StoreOpen

LEMMA MergeEndStep ==
    ASSUME StoreInv, MergeEnd
    PROVE  StoreInv'
<1> USE DEF diskVars, numberVars, bgVars, ghostVars
<1> DEFINE x == merge[1]
           live == LiveTables(current', iterPins, pendingOutputs', <<>>)
           V == (current \ x.inputs) \cup {x.out}
           m == manifests[manifestNumber]
<1>0. phase = "open" /\ phase' = "open" /\ flush = <<>> /\ merge # <<>> /\ x.stage \in {"run", "install"}
      /\ x \in MergeSet /\ merge' = <<>>
  BY BgFact DEF MergeEnd
<1>1. /\ DiskType /\ MemoryType /\ ManifestInv /\ FilesInv /\ VersionInv /\ ContentsInv
      /\ FlushInv /\ MergeInv /\ GroupInv
      /\ currentFile # 0 /\ currentFile \in DOMAIN manifests /\ currentFile = manifestNumber
  BY <1>0, Opened
<1>2. /\ current' = IF x.stage = "install" THEN x.edit[1].tables ELSE current
      /\ pendingOutputs' = pendingOutputs \ {x.out}
      /\ DeleteObsoleteFiles(live, versionLog, manifestNumber)
      /\ UNCHANGED <<currentFile, mem, imm, lastSeq, nextNumber, logfileNumber, versionLog, manifestNumber,
                     iterPins, writersQ, group, flush, acked, ackedSync, toReplay>>
  BY DEF MergeEnd
<1>3. /\ x.stage = "install" => x.out # 0 /\ x.edit[1].tables = V /\ x.edit[1].log = versionLog
                                /\ m.edits[Len(m.edits)] = x.edit[1]
      /\ x.inputs \subseteq current
  BY <1>0, <1>1 DEF MergeInv, EditInv, PendingEdit
<1>4. /\ current' \subseteq DOMAIN tables
      /\ \A s : InTables(s, current) => InTables(s, current')
      /\ \A t \in current' : \A s \in tables[t] : s <= lastSeq
  <2>1. CASE x.stage = "run"
    BY <1>1, <1>2, <2>1 DEF FilesInv, ContentsInv
  <2>2. CASE x.stage = "install"
    BY <1>0, <1>2, <1>3, <2>2, MergedTables
  <2> QED BY <1>0, <2>1, <2>2
<1>5. current' \in SUBSET Nat
  BY <1>1, <1>4 DEF DiskType
<1>6. current' \subseteq live /\ \A v \in iterPins : v \subseteq live
  BY LiveFact
<1> HIDE DEF live
<1>7. /\ DOMAIN tables' = DOMAIN tables \cap live
      /\ \A n : n \in DOMAIN logs' <=> n \in DOMAIN logs /\ n >= versionLog
      /\ \A n : n \in DOMAIN manifests' <=> n \in DOMAIN manifests /\ n >= manifestNumber
      /\ \A t \in DOMAIN tables' : tables'[t] = tables[t]
      /\ \A n \in DOMAIN logs' : logs'[n] = logs[n]
      /\ \A n \in DOMAIN manifests' : manifests'[n] = manifests[n]
      /\ DiskType'
  BY <1>1, <1>2, DeleteFact
<1>8. MemoryType'
  BY <1>0, <1>1, <1>2, <1>5 DEF MemoryType
<1>9. logfileNumber \in DOMAIN logs' /\ logs'[logfileNumber] = logs[logfileNumber]
  BY <1>1, <1>7 DEF FilesInv, MemoryType
<1>10. currentFile \in DOMAIN manifests' /\ manifests'[currentFile] = manifests[currentFile]
  BY <1>1, <1>7 DEF MemoryType
<1>11. \A t \in current' : t \in DOMAIN tables' /\ tables'[t] = tables[t]
  BY <1>4, <1>6, <1>7
<1>12. ASSUME NEW i \in Live(manifests[currentFile])
       PROVE  LET e == manifests[currentFile].edits[i]
              IN  Recoverable(e) /\ e.tables = current' /\ e.log = versionLog
  <2> DEFINE e == manifests[currentFile].edits[i]
  <2>1. /\ Recoverable(e)
        /\ \/ ~ Pending("install") /\ e.tables = current /\ e.log = versionLog
           \/ x.stage = "install" /\ e = x.edit[1]
    BY <1>0, LiveEdits
  <2>2. x.stage = "install" <=> Pending("install")
    BY <1>0 DEF Pending
  <2> HIDE DEF e
  <2>3. e.tables = current' /\ e.log = versionLog
    BY <1>2, <1>3, <2>1, <2>2
  <2> QED BY <2>1, <2>3 DEF e
<1>13. ManifestInv'
  <2> SUFFICES ASSUME NEW i \in Live(manifests[currentFile])
               PROVE  LET e == manifests[currentFile].edits[i]
                      IN  /\ \A t \in e.tables : t \in DOMAIN tables' /\ tables'[t] = tables[t]
                          /\ \A s \in ackedSync :
                               \/ InTables(s, e.tables)
                               \/ \E n \in DOMAIN logs' : n >= e.log /\ s \in Durable(logs'[n])
    BY <1>0, <1>1, <1>2, <1>10, ManifestStep
  <2> DEFINE e == manifests[currentFile].edits[i]
  <2>1. Recoverable(e) /\ e.tables = current' /\ e.log = versionLog
    BY <1>12
  <2> HIDE DEF e
  <2>2. ASSUME NEW s \in ackedSync
        PROVE  InTables(s, e.tables) \/ \E n \in DOMAIN logs' : n >= e.log /\ s \in Durable(logs'[n])
    BY <1>7, <2>1 DEF Recoverable, InLogs
  <2> QED BY <1>11, <2>1, <2>2 DEF e
<1>14. FilesInv'
  <2>1. \A v \in iterPins : v \subseteq DOMAIN tables'
    BY <1>1, <1>6, <1>7 DEF FilesInv
  <2> QED BY <1>1, <1>2, <1>7, <1>9, <1>11, <2>1 DEF FilesInv
<1>15. VersionInv'
  <2>1. m.synced = Len(m.edits)
    BY <1>0, <1>1 DEF VersionInv, Pending
  <2>2. m.edits[m.synced].tables = current' /\ m.edits[m.synced].log = versionLog
    <3>1. CASE x.stage = "run"
      BY <1>0, <1>1, <1>2, <3>1 DEF VersionInv, Pending
    <3>2. CASE x.stage = "install"
      BY <1>2, <1>3, <2>1, <3>2
    <3> QED BY <1>0, <3>1, <3>2
  <2>3. manifests'[manifestNumber] = m
    BY <1>1, <1>10
  <2> HIDE DEF m
  <2> QED BY <1>0, <1>2, <2>1, <2>2, <2>3 DEF VersionInv, Pending
<1>16. ContentsInv'
  <2>1. Imm' = Imm
    BY <1>2 DEF Imm
  <2>2. \A s : InTables(s, current) => InTables(s, current)'
    BY <1>4, <1>11 DEF InTables
  <2> QED BY <1>1, <1>2, <1>4, <1>9, <1>11, <2>1, <2>2 DEF ContentsInv
<1>17. FlushInv' /\ MergeInv' /\ GroupInv'
  BY <1>0, <1>1, <1>2, <1>9 DEF FlushInv, MergeInv, GroupInv
<1> QED BY <1>0, <1>7, <1>8, <1>13, <1>14, <1>15, <1>16, <1>17, StoreOpen

LEMMA IteratorStep ==
    ASSUME StoreInv, NewIterator \/ \E v \in iterPins : DeleteIterator(v)
    PROVE  StoreInv'
<1> USE DEF diskVars, numberVars, bgVars, ghostVars
<1>0. phase = "open" /\ phase' = "open"
  BY DEF StoreInv, IdleInv, NewIterator, DeleteIterator
<1>1. /\ DiskType /\ MemoryType /\ ManifestInv /\ FilesInv /\ VersionInv /\ ContentsInv
      /\ FlushInv /\ MergeInv /\ GroupInv
  BY <1>0, Opened
<1>2. /\ \A v \in iterPins' : v \in iterPins \/ v = current
      /\ UNCHANGED <<logs, tables, manifests, currentFile, mem, imm, lastSeq, nextNumber, logfileNumber,
                     versionLog, manifestNumber, current, pendingOutputs, writersQ, group, flush, merge,
                     acked, ackedSync, toReplay>>
  BY DEF NewIterator, DeleteIterator
<1>3. DiskType' /\ ManifestInv'
  BY <1>0, <1>1, <1>2, SameDisk
<1>4. MemoryType'
  BY <1>0, <1>1, <1>2 DEF MemoryType
<1>5. FilesInv'
  BY <1>1, <1>2 DEF FilesInv
<1>6. VersionInv' /\ ContentsInv' /\ FlushInv' /\ MergeInv' /\ GroupInv'
  BY <1>1, <1>2, SameVersion, SameContents, SameGroup DEF Pending, FlushInv, MergeInv, EditInv, PendingEdit,
     Imm, TablesOf
<1> QED BY <1>0, <1>3, <1>4, <1>5, <1>6, StoreOpen

-----------------------------------------------------------------------------
(* Crash and DB::Open *)

\* What a crash leaves of a manifest: at least the edits that were synced.
LEMMA ManifestCrash ==
    ASSUME NEW m \in ManifestSet
    PROVE  LET k == [edits |-> SubSeq(m.edits, 1, m.synced), synced |-> m.synced]
           IN  /\ k \in ManifestSet /\ Live(k) = {m.synced} /\ k.edits[m.synced] = m.edits[m.synced]
               /\ m.synced \in Live(m)
<1>1. m.edits \in Seq(EditSet) /\ m.synced \in Nat /\ m.synced \in 1 .. Len(m.edits) /\ Len(m.edits) \in Nat
  BY DEF ManifestSet
<1> DEFINE sub == SubSeq(m.edits, 1, m.synced)
<1>2. sub \in Seq(EditSet) /\ Len(sub) = m.synced /\ \A i \in 1 .. m.synced : sub[i] = m.edits[i]
  BY <1>1, SubSeqProperties
<1> HIDE DEF sub
<1>3. [edits |-> sub, synced |-> m.synced] \in ManifestSet
  BY <1>1, <1>2 DEF ManifestSet
<1>4. m.synced .. Len(sub) = {m.synced}
  BY <1>1, <1>2
<1>5. m.synced \in m.synced .. Len(m.edits)
  BY <1>1
<1> QED BY <1>1, <1>2, <1>3, <1>4, <1>5 DEF Live, sub

LEMMA CrashStep ==
    ASSUME StoreInv, Crash
    PROVE  StoreInv'
<1>1. /\ DiskType /\ MemoryType /\ ManifestInv
  BY DEF StoreInv
<1>2. PICK keepAll \in BOOLEAN :
         /\ logs' = [n \in DOMAIN logs |->
                IF keepAll THEN logs[n]
                ELSE [recs |-> SubSeq(logs[n].recs, 1, logs[n].synced), synced |-> logs[n].synced]]
         /\ manifests' = [n \in DOMAIN manifests |->
                IF keepAll THEN manifests[n]
                ELSE [edits |-> SubSeq(manifests[n].edits, 1, manifests[n].synced),
                      synced |-> manifests[n].synced]]
  BY DEF Crash
<1>3. phase' = "closed" /\ NoMemory /\ phase # "closed" /\ UNCHANGED <<tables, currentFile, acked, ackedSync>>
  BY DEF Crash, ghostVars
<1>4. \A n \in DOMAIN logs : logs'[n] \in LogSet /\ Durable(logs'[n]) = Durable(logs[n])
  <2> TAKE n \in DOMAIN logs
  <2>1. logs[n] \in LogSet
    BY <1>1 DEF DiskType
  <2>2. logs'[n] = IF keepAll THEN logs[n]
                   ELSE [recs |-> SubSeq(logs[n].recs, 1, logs[n].synced), synced |-> logs[n].synced]
    BY <1>2
  <2> QED BY <2>1, <2>2, DurableCrash
<1>5. \A n \in DOMAIN manifests :
         /\ manifests'[n] \in ManifestSet
         /\ \A i \in Live(manifests'[n]) : i \in Live(manifests[n]) /\ manifests'[n].edits[i] = manifests[n].edits[i]
  <2> TAKE n \in DOMAIN manifests
  <2>1. manifests[n] \in ManifestSet
    BY <1>1 DEF DiskType
  <2>2. manifests'[n] = IF keepAll THEN manifests[n]
                   ELSE [edits |-> SubSeq(manifests[n].edits, 1, manifests[n].synced),
                         synced |-> manifests[n].synced]
    BY <1>2
  <2>3. CASE keepAll
    BY <2>1, <2>2, <2>3
  <2>4. CASE ~ keepAll
    <3> DEFINE m == manifests[n]
               k == [edits |-> SubSeq(m.edits, 1, m.synced), synced |-> m.synced]
    <3>1. k \in ManifestSet /\ Live(k) = {m.synced} /\ k.edits[m.synced] = m.edits[m.synced] /\ m.synced \in Live(m)
      BY <2>1, ManifestCrash
    <3>2. manifests'[n] = k
      BY <2>2, <2>4
    <3> HIDE DEF k
    <3> QED BY <3>1, <3>2
  <2> QED BY <2>3, <2>4
<1>6. DiskType'
  BY <1>1, <1>2, <1>3, <1>4, <1>5 DEF DiskType
<1>7. MemoryType'
  <2>1. <<>> \in Seq([id : DBWriters, sync : BOOLEAN, batch : BOOLEAN])
    BY EmptySeq
  <2> QED BY <1>1, <1>3, <2>1 DEF MemoryType, NoMemory
<1>8. ManifestInv'
  <2>1. currentFile # 0
    BY <1>1, <1>3 DEF ManifestInv
  <2> DEFINE m == manifests[currentFile]
             k == manifests'[currentFile]
  <2>2. currentFile \in DOMAIN manifests /\ currentFile \in DOMAIN manifests'
    BY <1>1, <1>2, <2>1 DEF ManifestInv
  <2>3. \A i \in Live(k) : i \in Live(m) /\ k.edits[i] = m.edits[i]
    BY <1>5, <2>2
  <2> HIDE DEF k
  <2>4. \A i \in Live(k) : Recoverable(k.edits[i]) /\ currentFile < k.edits[i].next
    BY <1>1, <2>1, <2>3 DEF ManifestInv
  <2>5. \A i, j \in Live(k) : i <= j => \A t \in k.edits[i].tables : t < k.edits[j].next
    BY <1>1, <2>1, <2>3 DEF ManifestInv
  <2>6. \A n \in DOMAIN logs : n \in DOMAIN logs' /\ Durable(logs'[n]) = Durable(logs[n])
    BY <1>2, <1>4
  <2>7. \A i \in Live(k) :
           LET e == k.edits[i]
           IN  /\ e.tables \subseteq DOMAIN tables' /\ e.log < e.next
               /\ \A t \in e.tables : t < e.next /\ \A s \in tables'[t] : s <= e.last
               /\ \A s \in ackedSync' : \/ \E t \in e.tables : s \in tables'[t]
                                        \/ \E n \in DOMAIN logs' : n >= e.log /\ s \in Durable(logs'[n])
    BY <1>3, <2>4, <2>6 DEF Recoverable, InTables, InLogs
  <2> QED BY <1>3, <2>1, <2>2, <2>4, <2>5, <2>7 DEF ManifestInv, Recoverable, InTables, InLogs, k
<1>9. IdleInv' /\ OpeningInv' /\ OldManifestInv' /\ ReplayInv' /\ ReplayedInv' /\ OpenInv'
  BY <1>3 DEF NoMemory, IdleInv, OpeningInv, OldManifestInv, ReplayInv, ReplayedInv, OpenInv
<1> QED BY <1>6, <1>7, <1>8, <1>9 DEF StoreInv

LEMMA NewManifest ==
    ASSUME NEW e \in EditSet
    PROVE  LET k == [edits |-> <<e>>, synced |-> 1]
           IN  k \in ManifestSet /\ Live(k) = {1} /\ k.edits[1] = e
<1>1. <<e>> \in Seq(EditSet) /\ Len(<<e>>) = 1 /\ <<e>>[1] = e
  OBVIOUS
<1>2. 1 .. 1 = {1}
  OBVIOUS
<1> QED BY <1>1, <1>2 DEF ManifestSet, Live

LEMMA NewDBStep ==
    ASSUME StoreInv, NewDB
    PROVE  StoreInv'
<1> USE DEF numberVars, bgVars, ghostVars
<1> DEFINE e == Edit({}, 0, 2, 0)
           k == [edits |-> <<e>>, synced |-> 1]
<1>1. DiskType /\ MemoryType /\ IdleInv /\ ackedSync = {}
  BY DEF StoreInv, ManifestInv, NewDB
<1>2. e \in EditSet /\ e.tables = {} /\ e.log = 0 /\ e.next = 2 /\ e.last = 0
  BY DEF EditSet, Edit
<1> HIDE DEF e
<1>3. k \in ManifestSet /\ Live(k) = {1} /\ k.edits[1] = e
  BY <1>2, NewManifest
<1>4. manifests' = AddFile(manifests, 1, k) /\ currentFile' = 1 /\ phase = "closed"
      /\ UNCHANGED <<logs, tables, phase, mem, imm, lastSeq, nextNumber, logfileNumber, versionLog,
                     manifestNumber, current, iterPins, pendingOutputs, writersQ, group, flush, merge,
                     acked, ackedSync, toReplay>>
  BY DEF NewDB, e
<1> HIDE DEF k
<1>5. 1 \in DOMAIN manifests' /\ manifests'[1] = k
  BY <1>4 DEF AddFile
<1>6. DiskType'
  <2>1. DOMAIN manifests' \subseteq Nat /\ manifests' \in [DOMAIN manifests' -> ManifestSet]
    BY <1>1, <1>3, <1>4, AddFileType DEF DiskType
  <2> QED BY <1>1, <1>4, <2>1 DEF DiskType
<1>7. MemoryType' /\ IdleInv'
  BY <1>1, <1>4 DEF MemoryType, IdleInv
<1>8. ManifestInv'
  <2>1. manifests'[currentFile'] = k /\ currentFile' = 1 /\ ackedSync' = {}
    BY <1>1, <1>4, <1>5
  <2> QED BY <1>2, <1>3, <1>5, <2>1 DEF ManifestInv, Recoverable, InTables, InLogs
<1>9. OpeningInv' /\ OldManifestInv' /\ ReplayInv' /\ ReplayedInv' /\ OpenInv'
  BY <1>4 DEF OpeningInv, OldManifestInv, ReplayInv, ReplayedInv, OpenInv
<1> QED BY <1>6, <1>7, <1>8, <1>9 DEF StoreInv

LEMMA OpenRecoverStep ==
    ASSUME StoreInv, OpenRecover
    PROVE  StoreInv'
<1> USE DEF diskVars, bgVars, ghostVars
<1> DEFINE m == manifests[currentFile]
           e == Last(m.edits)
<1>1. DiskType /\ MemoryType /\ ManifestInv /\ IdleInv
  BY DEF StoreInv
<1>2. /\ phase = "closed" /\ currentFile # 0 /\ phase' = "replay"
      /\ current' = e.tables /\ lastSeq' = e.last /\ versionLog' = e.log
      /\ manifestNumber' = e.next /\ nextNumber' = e.next + 1
      /\ toReplay' = {n \in DOMAIN logs : n >= e.log}
      /\ UNCHANGED <<logs, tables, manifests, currentFile, mem, imm, logfileNumber, iterPins, pendingOutputs,
                     writersQ, group, flush, merge, acked, ackedSync>>
  BY DEF OpenRecover
<1>3. currentFile \in DOMAIN manifests /\ m \in ManifestSet
  BY <1>1, <1>2 DEF ManifestInv, DiskType
<1>4. m.edits \in Seq(EditSet) /\ Len(m.edits) \in Nat /\ m.synced \in 1 .. Len(m.edits) /\ m.synced \in Nat
  BY <1>3 DEF ManifestSet
<1>5. e = m.edits[Len(m.edits)] /\ Len(m.edits) \in Live(m) /\ e \in EditSet
  BY <1>4 DEF Last, Live
<1>6. Recoverable(e) /\ currentFile < e.next
  BY <1>1, <1>2, <1>5 DEF ManifestInv
<1>7. \A i \in Live(m) : \A t \in m.edits[i].tables : t < e.next
  <2>1. \A i \in Live(m) : i <= Len(m.edits)
    BY <1>4 DEF Live
  <2> QED BY <1>1, <1>2, <1>5, <2>1 DEF ManifestInv
<1> HIDE DEF e
<1>8. e.log \in Nat /\ e.next \in Nat /\ e.last \in Nat /\ e.tables \in SUBSET Nat
  BY <1>5 DEF EditSet
<1>9. DiskType' /\ MemoryType' /\ IdleInv'
  <2>1. toReplay' \in SUBSET Nat
    BY <1>1, <1>2 DEF DiskType
  <2>2. DiskType' /\ IdleInv'
    BY <1>1, <1>2 DEF DiskType, IdleInv
  <2> QED BY <1>1, <1>2, <1>8, <2>1, <2>2 DEF MemoryType
<1>10. ManifestInv'
  <2>1. \A i \in Live(m) : Recoverable(m.edits[i])
    BY <1>1, <1>2 DEF ManifestInv
  <2> QED BY <1>1, <1>2, <1>3, <2>1, ManifestStep DEF Recoverable, InLogs
<1>11. OpeningInv'
  BY <1>2, <1>6, <1>8 DEF OpeningInv, Recoverable
<1>12. OldManifestInv'
  <2>1. \A i \in Live(m) : \A t \in m.edits[i].tables : t < e.next + 1
    <3> SUFFICES ASSUME NEW i \in Live(m), NEW t \in m.edits[i].tables PROVE t < e.next + 1
      OBVIOUS
    <3>1. i \in 1 .. Len(m.edits)
      BY <1>4 DEF Live
    <3>2. m.edits[i] \in EditSet
      BY <1>4, <3>1, ElementOfSeq
    <3>3. t \in Nat
      BY <3>2 DEF EditSet
    <3> QED BY <1>7, <1>8, <3>3
  <2> HIDE DEF m
  <2>2. manifests'[currentFile'] = m
    BY <1>2 DEF m
  <2> QED BY <1>2, <1>6, <2>1, <2>2 DEF OldManifestInv
<1>13. ReplayInv'
  <2>1. \A n \in DOMAIN logs \ toReplay' : n < nextNumber'
    BY <1>1, <1>2, <1>6, <1>8 DEF Recoverable, DiskType
  <2>2. \A s \in ackedSync : InTables(s, e.tables) \/ \E n \in toReplay' : s \in Durable(logs[n])
    BY <1>2, <1>6 DEF Recoverable, InLogs
  <2> QED BY <1>2, <2>1, <2>2 DEF ReplayInv, InTables
<1>14. ReplayedInv' /\ OpenInv'
  BY <1>2 DEF ReplayedInv, OpenInv
<1> QED BY <1>9, <1>10, <1>11, <1>12, <1>13, <1>14 DEF StoreInv

LEMMA BoundedMax ==
    ASSUME NEW S \in SUBSET Nat, S # {}, Bounded(S)
    PROVE  Max(S) \in S /\ \A s \in S : s <= Max(S)
<1> DEFINE U == {b \in Nat : \A s \in S : s <= b}
<1>1. U \in SUBSET Nat /\ U # {}
  BY DEF Bounded
<1>2. PICK u \in U : \A b \in U : u <= b
  BY <1>1, LeastNumber
<1>3. u \in S
  <2> SUFFICES ASSUME u \notin S PROVE FALSE
    OBVIOUS
  <2>1. PICK s \in S : TRUE
    OBVIOUS
  <2>2. \A x \in S : x \in Nat /\ x < u
    BY <1>2
  <2>3. u - 1 \in U
    BY <2>1, <2>2
  <2> QED BY <1>2, <2>3
<1>4. \E x \in S : \A y \in S : x >= y
  BY <1>2, <1>3
<1>5. Max(S) \in S /\ \A y \in S : Max(S) >= y
  BY <1>4 DEF Max
<1> QED BY <1>5

\* The opening database's edit writes no file that the old manifest names.
LEMMA OldManifestStep ==
    ASSUME DiskType, ManifestInv, OldManifestInv, phase = "replay",
           UNCHANGED <<logs, manifests, currentFile, ackedSync>>,
           \A t \in DOMAIN tables : t # nextNumber => t \in DOMAIN tables' /\ tables'[t] = tables[t]
    PROVE  ManifestInv'
<1> DEFINE m == manifests[currentFile]
<1>1. currentFile # 0 /\ currentFile \in DOMAIN manifests
  BY DEF ManifestInv
<1>2. \A i \in Live(m) : Recoverable(m.edits[i]) /\ \A t \in m.edits[i].tables : t < nextNumber
  BY <1>1 DEF ManifestInv, OldManifestInv
<1>3. \A i \in Live(m) : \A t \in m.edits[i].tables : t # nextNumber
  <2>1. \A i \in Live(m) : \A t \in m.edits[i].tables : t \in Nat
    BY <1>2 DEF Recoverable, DiskType
  <2> QED BY <1>2, <2>1
<1> QED BY <1>1, <1>2, <1>3, ManifestStep DEF Recoverable, InLogs

LEMMA RecoverLogFileStep ==
    ASSUME StoreInv, NEW n \in toReplay, RecoverLogFile(n)
    PROVE  StoreInv'
<1> USE DEF bgVars, ghostVars
<1> DEFINE writes == RecordsOf(logs[n].recs)
           used == IF writes = {} THEN {} ELSE {nextNumber}
           next == IF writes = {} THEN nextNumber ELSE nextNumber + 1
<1>1. /\ DiskType /\ MemoryType /\ ManifestInv /\ IdleInv /\ OpeningInv /\ OldManifestInv /\ ReplayInv
      /\ phase = "replay"
  BY DEF StoreInv, RecoverLogFile
<1>2. /\ tables' = IF writes = {} THEN tables ELSE AddFile(tables, nextNumber, writes)
      /\ current' = current \cup used /\ lastSeq' = Max({lastSeq} \cup writes)
      /\ nextNumber' = MarkFileNumberUsed(next, n) /\ toReplay' = toReplay \ {n}
      /\ UNCHANGED <<logs, manifests, currentFile, phase, mem, imm, logfileNumber, versionLog,
                     manifestNumber, iterPins, pendingOutputs, writersQ, group, flush, merge, acked, ackedSync>>
  BY DEF RecoverLogFile
<1>3. logs[n] \in LogSet /\ n \in DOMAIN logs /\ n \in Nat
  BY <1>1 DEF ReplayInv, DiskType
<1>4. writes \in SUBSET Nat /\ Durable(logs[n]) \subseteq writes /\ Bounded(writes)
  BY <1>3, DurableAll DEF LogSet
<1> HIDE DEF writes
<1>5. lastSeq \in Nat /\ nextNumber \in Nat /\ manifestNumber \in Nat /\ current \in SUBSET Nat
      /\ toReplay \in SUBSET Nat
  BY <1>1 DEF MemoryType
<1>6. nextNumber' \in Nat /\ next <= nextNumber' /\ nextNumber <= nextNumber' /\ n < nextNumber'
  BY <1>2, <1>3, <1>5 DEF MarkFileNumberUsed
<1>7. /\ lastSeq' \in Nat /\ lastSeq <= lastSeq' /\ \A s \in writes : s <= lastSeq'
  <2> DEFINE S == {lastSeq} \cup writes
  <2>1. PICK b \in Nat : \A s \in writes : s <= b
    BY <1>4 DEF Bounded
  <2>2. \A s \in S : s <= b + lastSeq
    BY <1>4, <1>5, <2>1
  <2>3. Bounded(S)
    BY <1>5, <2>2 DEF Bounded
  <2>4. S \in SUBSET Nat /\ S # {}
    BY <1>4, <1>5
  <2>5. lastSeq \in S /\ \A s \in writes : s \in S
    OBVIOUS
  <2> HIDE DEF S
  <2>6. Max(S) \in S /\ \A s \in S : s <= Max(S)
    BY <2>3, <2>4, BoundedMax
  <2>7. lastSeq' = Max(S)
    BY <1>2 DEF S
  <2> QED BY <2>4, <2>5, <2>6, <2>7
<1>8. /\ DOMAIN tables' = DOMAIN tables \cup used
      /\ \A t \in DOMAIN tables : t # nextNumber => tables'[t] = tables[t]
      /\ writes # {} => tables'[nextNumber] = writes
  BY <1>2 DEF AddFile
<1>9. DiskType'
  <2>1. CASE writes = {}
    BY <1>1, <1>2, <2>1 DEF DiskType
  <2>2. CASE writes # {}
    <3>1. DOMAIN tables' \subseteq Nat /\ tables' \in [DOMAIN tables' -> SUBSET Nat]
      BY <1>1, <1>2, <1>4, <1>5, <2>2, AddFileType DEF DiskType
    <3> QED BY <1>1, <1>2, <3>1 DEF DiskType
  <2> QED BY <2>1, <2>2
<1>10. MemoryType' /\ IdleInv'
  <2>1. current' \in SUBSET Nat /\ toReplay' \in SUBSET Nat
    BY <1>2, <1>5
  <2> QED BY <1>1, <1>2, <1>6, <1>7, <2>1 DEF MemoryType, IdleInv
<1>11. ManifestInv'
  BY <1>1, <1>2, <1>8, OldManifestStep
<1>12. \A t \in current : t \in DOMAIN tables /\ t # nextNumber /\ t < nextNumber /\ tables'[t] = tables[t]
  <2> TAKE t \in current
  <2>1. t \in DOMAIN tables /\ t < nextNumber /\ t \in Nat
    BY <1>1, <1>5 DEF OpeningInv
  <2>2. t # nextNumber
    BY <1>5, <2>1
  <2> QED BY <1>8, <2>1, <2>2
<1>13. OpeningInv'
  <2>1. current' \subseteq DOMAIN tables'
    BY <1>2, <1>8, <1>12
  <2>2. manifestNumber < nextNumber'
    BY <1>1, <1>5, <1>6 DEF OpeningInv
  <2>3. ASSUME NEW t \in current' PROVE t < nextNumber' /\ \A s \in tables'[t] : s <= lastSeq'
    <3>1. CASE t \in current
      <4>1. t \in Nat /\ t < nextNumber' /\ tables'[t] = tables[t]
        BY <1>5, <1>6, <1>12, <3>1
      <4>2. \A s \in tables[t] : s \in Nat /\ s <= lastSeq
        BY <1>1, <1>12, <3>1 DEF OpeningInv, DiskType
      <4> QED BY <1>5, <1>7, <4>1, <4>2
    <3>2. CASE t \notin current
      <4>1. writes # {} /\ t = nextNumber
        BY <1>2, <2>3, <3>2
      <4> QED BY <1>5, <1>6, <1>7, <1>8, <4>1
    <3> QED BY <3>1, <3>2
  <2> QED BY <1>2, <2>1, <2>2, <2>3 DEF OpeningInv
<1>14. OldManifestInv'
  <2> DEFINE m == manifests[currentFile]
  <2>1. currentFile # 0
    BY <1>1 DEF ManifestInv
  <2>2. \A i \in Live(m) : \A t \in m.edits[i].tables : t \in Nat /\ t < nextNumber
    BY <1>1, <2>1 DEF ManifestInv, OldManifestInv, Recoverable, DiskType
  <2>3. \A i \in Live(m) : \A t \in m.edits[i].tables : t < nextNumber'
    BY <1>5, <1>6, <2>2
  <2>4. manifests'[currentFile'] = m
    BY <1>2
  <2> HIDE DEF m
  <2> QED BY <1>1, <1>2, <2>3, <2>4 DEF OldManifestInv
<1>15. ReplayInv'
  <2>1. toReplay' \subseteq DOMAIN logs
    BY <1>1, <1>2 DEF ReplayInv
  <2>2. ASSUME NEW k \in DOMAIN logs \ toReplay' PROVE k < nextNumber'
    <3>1. k = n \/ k < nextNumber
      BY <1>1, <1>2 DEF ReplayInv
    <3> QED BY <1>1, <1>3, <1>5, <1>6, <3>1 DEF DiskType
  <2>3. ASSUME NEW s \in ackedSync
        PROVE  InTables(s, current)' \/ \E k \in toReplay' : s \in Durable(logs[k])
    <3>1. CASE InTables(s, current)
      BY <1>2, <1>12, <3>1 DEF InTables
    <3>2. CASE s \in Durable(logs[n])
      <4>1. writes # {} /\ s \in writes
        BY <1>4, <3>2
      <4> QED BY <1>2, <1>8, <4>1 DEF InTables
    <3>3. CASE \E k \in toReplay : k # n /\ s \in Durable(logs[k])
      BY <1>2, <3>3
    <3> QED BY <1>1, <3>1, <3>2, <3>3 DEF ReplayInv
  <2> QED BY <1>2, <2>1, <2>2, <2>3 DEF ReplayInv
<1>16. ReplayedInv' /\ OpenInv'
  BY <1>1, <1>2 DEF ReplayedInv, OpenInv
<1> QED BY <1>9, <1>10, <1>11, <1>13, <1>14, <1>15, <1>16 DEF StoreInv

LEMMA OpenLogStep ==
    ASSUME StoreInv, OpenLog
    PROVE  StoreInv'
<1> USE DEF bgVars, ghostVars
<1> DEFINE empty == [recs |-> <<>>, synced |-> 0]
<1>1. /\ DiskType /\ MemoryType /\ ManifestInv /\ IdleInv /\ OpeningInv /\ OldManifestInv /\ ReplayInv
      /\ phase = "replay" /\ toReplay = {} /\ phase' = "manifest"
  BY DEF StoreInv, OpenLog
<1>2. /\ logs' = AddFile(logs, nextNumber, empty)
      /\ logfileNumber' = nextNumber /\ nextNumber' = nextNumber + 1
      /\ UNCHANGED <<tables, manifests, currentFile, mem, imm, lastSeq, versionLog, manifestNumber,
                     current, toReplay, iterPins, pendingOutputs, writersQ, group, flush, merge, acked, ackedSync>>
  BY DEF OpenLog
<1>3. empty \in LogSet
  BY DurableEmpty
<1> HIDE DEF empty
<1>4. \A n \in DOMAIN logs : n < nextNumber /\ n \in Nat
  BY <1>1 DEF ReplayInv, DiskType
<1>5. nextNumber \in Nat /\ manifestNumber \in Nat /\ nextNumber \notin DOMAIN logs
  BY <1>1, <1>4 DEF MemoryType
<1>6. /\ DOMAIN logs' = DOMAIN logs \cup {nextNumber} /\ logs'[nextNumber] = empty
      /\ \A n \in DOMAIN logs : logs'[n] = logs[n]
  BY <1>2, <1>5 DEF AddFile
<1>7. DiskType'
  <2>1. DOMAIN logs' \subseteq Nat /\ logs' \in [DOMAIN logs' -> LogSet]
    BY <1>1, <1>2, <1>3, <1>5, AddFileType DEF DiskType
  <2> QED BY <1>1, <1>2, <2>1 DEF DiskType
<1>8. MemoryType' /\ IdleInv'
  BY <1>1, <1>2, <1>5 DEF MemoryType, IdleInv
<1>9. currentFile # 0 /\ \A i \in Live(manifests[currentFile]) : Recoverable(manifests[currentFile].edits[i])
  BY <1>1 DEF ManifestInv
<1>10. ManifestInv'
  BY <1>1, <1>2, <1>6, <1>9, ManifestStep DEF Recoverable, InLogs, ManifestInv
<1>11. OpeningInv'
  <2>1. \A t \in current : t \in Nat
    BY <1>1 DEF OpeningInv, DiskType
  <2> QED BY <1>1, <1>2, <1>5, <2>1 DEF OpeningInv
<1>12. OldManifestInv'
  <2> DEFINE m == manifests[currentFile]
  <2>1. \A i \in Live(m) : \A t \in m.edits[i].tables : t \in Nat /\ t < nextNumber
    BY <1>1, <1>9 DEF OldManifestInv, Recoverable, DiskType
  <2>2. \A i \in Live(m) : \A t \in m.edits[i].tables : t < nextNumber'
    BY <1>2, <1>5, <2>1
  <2>3. manifests'[currentFile'] = m
    BY <1>2
  <2> HIDE DEF m
  <2> QED BY <1>1, <1>2, <2>2, <2>3 DEF OldManifestInv
<1>13. ReplayedInv'
  <2>1. \A n \in DOMAIN logs' : n < nextNumber'
    BY <1>2, <1>4, <1>5, <1>6
  <2>2. \A s \in ackedSync : InTables(s, current)
    BY <1>1 DEF ReplayInv
  <2> QED BY <1>1, <1>2, <1>6, <2>1, <2>2 DEF ReplayedInv, InTables, empty
<1>14. ReplayInv' /\ OpenInv'
  BY <1>1 DEF ReplayInv, OpenInv
<1> QED BY <1>7, <1>8, <1>10, <1>11, <1>12, <1>13, <1>14 DEF StoreInv

LEMMA OpenManifestStep ==
    ASSUME StoreInv, OpenManifest
    PROVE  StoreInv'
<1> USE DEF numberVars, bgVars, ghostVars
<1> DEFINE e == Edit(current, logfileNumber, nextNumber, lastSeq)
           k == [edits |-> <<e>>, synced |-> 1]
<1>1. /\ DiskType /\ MemoryType /\ ManifestInv /\ IdleInv /\ OpeningInv /\ OldManifestInv /\ ReplayedInv
      /\ phase = "manifest" /\ phase' = "current"
  BY DEF StoreInv, OpenManifest
<1>2. /\ manifests' = AddFile(manifests, manifestNumber, k)
      /\ UNCHANGED <<logs, tables, currentFile, mem, imm, lastSeq, nextNumber, logfileNumber, versionLog,
                     manifestNumber, current, iterPins, pendingOutputs, writersQ, group, flush, merge,
                     acked, ackedSync, toReplay>>
  BY DEF OpenManifest
<1>3. e \in EditSet
  BY <1>1 DEF EditSet, Edit, MemoryType
<1> HIDE DEF e
<1>4. k \in ManifestSet
  BY <1>3, NewManifest
<1>5. k = [edits |-> <<Edit(current, logfileNumber, nextNumber, lastSeq)>>, synced |-> 1]
  BY DEF e
<1> HIDE DEF k
<1>6. /\ manifestNumber \in DOMAIN manifests' /\ manifests'[manifestNumber] = k
      /\ \A n \in DOMAIN manifests : n # manifestNumber => n \in DOMAIN manifests' /\ manifests'[n] = manifests[n]
  BY <1>2 DEF AddFile
<1>7. DiskType'
  <2>1. manifestNumber \in Nat
    BY <1>1 DEF MemoryType
  <2>2. DOMAIN manifests' \subseteq Nat /\ manifests' \in [DOMAIN manifests' -> ManifestSet]
    BY <1>1, <1>2, <1>4, <2>1, AddFileType DEF DiskType
  <2> QED BY <1>1, <1>2, <2>2 DEF DiskType
<1>8. MemoryType' /\ IdleInv'
  BY <1>1, <1>2 DEF MemoryType, IdleInv
<1>9. currentFile # 0 /\ currentFile \in DOMAIN manifests /\ currentFile # manifestNumber
  BY <1>1 DEF ManifestInv, OldManifestInv, MemoryType
<1>10. currentFile \in DOMAIN manifests' /\ manifests'[currentFile] = manifests[currentFile]
  BY <1>6, <1>9
<1>11. ManifestInv'
  <2>1. \A i \in Live(manifests[currentFile]) : Recoverable(manifests[currentFile].edits[i])
    BY <1>1, <1>9 DEF ManifestInv
  <2> QED BY <1>1, <1>2, <1>9, <1>10, <2>1, ManifestStep DEF Recoverable, InLogs
<1>12. OpeningInv' /\ OldManifestInv'
  BY <1>1, <1>2, <1>10 DEF OpeningInv, OldManifestInv
<1>13. ReplayedInv'
  BY <1>1, <1>2, <1>5, <1>6 DEF ReplayedInv, InTables, Edit
<1>14. ReplayInv' /\ OpenInv'
  BY <1>1 DEF ReplayInv, OpenInv
<1> QED BY <1>7, <1>8, <1>11, <1>12, <1>13, <1>14 DEF StoreInv

LEMMA SetCurrentFileStep ==
    ASSUME StoreInv, SetCurrentFile
    PROVE  StoreInv'
<1> USE DEF numberVars, bgVars, ghostVars
<1> DEFINE e == Edit(current, logfileNumber, nextNumber, lastSeq)
           k == [edits |-> <<e>>, synced |-> 1]
<1>1. /\ DiskType /\ MemoryType /\ ManifestInv /\ IdleInv /\ OpeningInv /\ OldManifestInv /\ ReplayedInv
      /\ phase = "current" /\ phase' = "install"
  BY DEF StoreInv, SetCurrentFile
<1>2. /\ currentFile' = manifestNumber
      /\ UNCHANGED <<logs, tables, manifests, mem, imm, lastSeq, nextNumber, logfileNumber, versionLog,
                     manifestNumber, current, iterPins, pendingOutputs, writersQ, group, flush, merge,
                     acked, ackedSync, toReplay>>
  BY DEF SetCurrentFile
<1>3. /\ e \in EditSet /\ e.tables = current /\ e.log = logfileNumber /\ e.next = nextNumber /\ e.last = lastSeq
  BY <1>1 DEF EditSet, Edit, MemoryType
<1>4. manifestNumber \in DOMAIN manifests /\ manifests[manifestNumber] = k
  BY <1>1 DEF ReplayedInv
<1> HIDE DEF e
<1>5. k \in ManifestSet /\ Live(k) = {1} /\ k.edits[1] = e
  BY <1>3, NewManifest
<1> HIDE DEF k
<1>6. Recoverable(e) /\ manifestNumber < e.next
  BY <1>1, <1>3 DEF Recoverable, OpeningInv, ReplayedInv
<1>7. DiskType' /\ MemoryType' /\ IdleInv'
  BY <1>1, <1>2 DEF DiskType, MemoryType, IdleInv
<1>8. ManifestInv'
  <2>1. manifestNumber # 0
    BY <1>1 DEF OldManifestInv, DiskType, MemoryType
  <2>2. \A t \in e.tables : t < e.next
    BY <1>6 DEF Recoverable
  <2> QED BY <1>2, <1>4, <1>5, <1>6, <2>1, <2>2 DEF ManifestInv, Recoverable, InTables, InLogs
<1>9. OpeningInv' /\ OldManifestInv' /\ ReplayInv' /\ OpenInv'
  BY <1>1, <1>2 DEF OpeningInv, OldManifestInv, ReplayInv, OpenInv
<1>10. ReplayedInv'
  BY <1>1, <1>2 DEF ReplayedInv, InTables, Edit
<1> QED BY <1>7, <1>8, <1>9, <1>10 DEF StoreInv

LEMMA OpenInstallStep ==
    ASSUME StoreInv, OpenInstall
    PROVE  StoreInv'
<1> USE DEF numberVars, bgVars, ghostVars
<1> DEFINE e == Edit(current, logfileNumber, nextNumber, lastSeq)
           k == [edits |-> <<e>>, synced |-> 1]
<1>1. /\ DiskType /\ MemoryType /\ ManifestInv /\ IdleInv /\ OpeningInv /\ ReplayedInv
      /\ phase = "install" /\ phase' = "open"
  BY DEF StoreInv, OpenInstall
<1>2. /\ versionLog' = logfileNumber /\ acked' = TablesOf(current)
      /\ DeleteObsoleteFiles(current, logfileNumber, manifestNumber)
      /\ UNCHANGED <<currentFile, mem, imm, lastSeq, nextNumber, logfileNumber, manifestNumber, current,
                     iterPins, pendingOutputs, writersQ, group, flush, merge, ackedSync, toReplay>>
  BY DEF OpenInstall
<1>3. /\ e \in EditSet /\ e.tables = current /\ e.log = logfileNumber /\ e.next = nextNumber /\ e.last = lastSeq
  BY <1>1 DEF EditSet, Edit, MemoryType
<1>4. /\ manifestNumber \in DOMAIN manifests /\ manifests[manifestNumber] = k
      /\ currentFile = manifestNumber /\ currentFile # 0
  BY <1>1 DEF ReplayedInv, ManifestInv
<1> HIDE DEF e
<1>5. k.synced = 1 /\ Len(k.edits) = 1 /\ k.edits[1] = e
  OBVIOUS
<1>6. Live(k) = {1}
  BY <1>3, NewManifest
<1> HIDE DEF k
<1>7. /\ DOMAIN tables' = DOMAIN tables \cap current
      /\ \A n : n \in DOMAIN logs' <=> n \in DOMAIN logs /\ n >= logfileNumber
      /\ \A n : n \in DOMAIN manifests' <=> n \in DOMAIN manifests /\ n >= manifestNumber
      /\ \A t \in DOMAIN tables' : tables'[t] = tables[t]
      /\ \A n \in DOMAIN logs' : logs'[n] = logs[n]
      /\ \A n \in DOMAIN manifests' : manifests'[n] = manifests[n]
      /\ DiskType'
  BY <1>1, <1>2, DeleteFact
<1>8. \A t \in current : t \in DOMAIN tables' /\ tables'[t] = tables[t]
  BY <1>1, <1>7 DEF OpeningInv
<1>9. manifestNumber \in DOMAIN manifests' /\ manifests'[manifestNumber] = k
  BY <1>1, <1>4, <1>7 DEF MemoryType
<1>10. logfileNumber \in DOMAIN logs' /\ logs'[logfileNumber] = logs[logfileNumber]
  BY <1>1, <1>7 DEF MemoryType, ReplayedInv
<1>11. MemoryType'
  <2>1. acked' \in SUBSET Nat
    BY <1>1, <1>2 DEF TablesOf, OpeningInv, DiskType
  <2> QED BY <1>1, <1>2, <2>1 DEF MemoryType
<1>12. \A s \in ackedSync : InTables(s, current)
  BY <1>1 DEF ReplayedInv
<1>13. ManifestInv'
  BY <1>1, <1>2, <1>3, <1>4, <1>5, <1>6, <1>8, <1>9, <1>12, ManifestStep
<1>14. FilesInv'
  <2>1. \A t \in DOMAIN tables' : t < nextNumber
    BY <1>1, <1>7 DEF OpeningInv
  <2>2. \A n \in DOMAIN logs' : n < nextNumber
    BY <1>1, <1>7 DEF ReplayedInv
  <2>3. iterPins = {} /\ manifestNumber < nextNumber /\ logfileNumber <= logfileNumber
    BY <1>1 DEF IdleInv, OpeningInv, MemoryType
  <2> QED BY <1>2, <1>4, <1>8, <1>10, <2>1, <2>2, <2>3 DEF FilesInv
<1>15. flush' = <<>> /\ merge' = <<>> /\ group' = <<>> /\ imm' = <<>> /\ mem' = {}
  BY <1>1, <1>2 DEF IdleInv
<1>16. VersionInv'
  BY <1>2, <1>3, <1>5, <1>9, <1>15 DEF VersionInv, Pending
<1>17. ContentsInv'
  <2>1. Imm' = {}
    BY <1>15, ImmOf DEF Imm
  <2>2. \A s \in ackedSync' : InTables(s, current)'
    BY <1>2, <1>8, <1>12 DEF InTables
  <2>3. \A s \in acked' : InTables(s, current)'
    BY <1>2, <1>8 DEF InTables, TablesOf
  <2>4. \A t \in current' : \A s \in tables'[t] : s <= lastSeq'
    BY <1>1, <1>2, <1>8 DEF OpeningInv
  <2> QED BY <1>15, <2>1, <2>2, <2>3, <2>4 DEF ContentsInv
<1>18. FlushInv' /\ MergeInv' /\ GroupInv'
  BY <1>15 DEF FlushInv, MergeInv, GroupInv
<1> QED BY <1>1, <1>7, <1>11, <1>13, <1>14, <1>16, <1>17, <1>18, StoreOpen

-----------------------------------------------------------------------------
LEMMA StoreInitInv == StoreInit => StoreInv
<1> SUFFICES ASSUME StoreInit PROVE StoreInv
  OBVIOUS
<1> USE DEF StoreInit
<1>1. DiskType
  BY DEF DiskType
<1>2. MemoryType
  <2>1. <<>> \in Seq([id : DBWriters, sync : BOOLEAN, batch : BOOLEAN])
    BY EmptySeq
  <2> QED BY <2>1 DEF MemoryType
<1>3. /\ ManifestInv /\ IdleInv /\ OpeningInv /\ OldManifestInv /\ ReplayInv /\ ReplayedInv /\ OpenInv
  BY DEF ManifestInv, IdleInv, OpeningInv, OldManifestInv, ReplayInv, ReplayedInv, OpenInv
<1> QED BY <1>1, <1>2, <1>3 DEF StoreInv

LEMMA StoreNextInv == StoreInv /\ [StoreNext]_storeVars => StoreInv'
<1> SUFFICES ASSUME StoreInv, [StoreNext]_storeVars PROVE StoreInv'
  OBVIOUS
<1>1. ASSUME NEW w \in DBWriters, NEW sync \in BOOLEAN, NEW batch \in BOOLEAN, WriteEnqueue(w, sync, batch)
      PROVE  StoreInv'
  BY <1>1, EnqueueStep
<1>2. CASE SwitchMemTable
  BY <1>2, SwitchStep
<1>3. CASE MakeRoomFails
  BY <1>3, MakeRoomFailsStep
<1>4. CASE BeginGroup
  BY <1>4, BeginGroupStep
<1>5. CASE AddRecord
  BY <1>5, AddRecordStep
<1>6. ASSUME NEW ok \in BOOLEAN, FinishGroup(ok) PROVE StoreInv'
  BY <1>6, FinishGroupStep
<1>7. CASE FlushBegin
  BY <1>7, FlushBeginStep
<1>8. CASE FlushBuilt
  BY <1>8, FlushBuiltStep
<1>9. CASE FlushFails
  BY <1>9, FlushFailsStep
<1>10. CASE FlushLogged
  BY <1>10, FlushLoggedStep
<1>11. CASE FlushSynced
  BY <1>11, FlushSyncedStep
<1>12. CASE FlushInstall
  BY <1>12, FlushInstallStep
<1>13. CASE MergeBegin
  BY <1>13, MergeBeginStep
<1>14. CASE MergeOutput
  BY <1>14, MergeOutputStep
<1>15. CASE MergeLogged
  BY <1>15, MergeLoggedStep
<1>16. CASE MergeSynced
  BY <1>16, MergeSyncedStep
<1>17. CASE MergeEnd
  BY <1>17, MergeEndStep
<1>18. CASE NewIterator \/ \E v \in iterPins : DeleteIterator(v)
  BY <1>18, IteratorStep
<1>19. CASE Crash
  BY <1>19, CrashStep
<1>20. CASE NewDB
  BY <1>20, NewDBStep
<1>21. CASE OpenRecover
  BY <1>21, OpenRecoverStep
<1>22. ASSUME NEW n \in toReplay, RecoverLogFile(n) PROVE StoreInv'
  BY <1>22, RecoverLogFileStep
<1>23. CASE OpenLog
  BY <1>23, OpenLogStep
<1>24. CASE OpenManifest
  BY <1>24, OpenManifestStep
<1>25. CASE SetCurrentFile
  BY <1>25, SetCurrentFileStep
<1>26. CASE OpenInstall
  BY <1>26, OpenInstallStep
<1>27. CASE UNCHANGED storeVars
  <2> USE DEF storeVars, diskVars, numberVars, bgVars, ghostVars
  <2>1. DiskType' /\ ManifestInv'
    BY <1>27, SameDisk DEF StoreInv
  <2>2. MemoryType' /\ IdleInv'
    BY <1>27 DEF StoreInv, MemoryType, IdleInv
  <2>3. OpeningInv' /\ OldManifestInv'
    BY <1>27 DEF StoreInv, OpeningInv, OldManifestInv
  <2>4. ReplayInv' /\ ReplayedInv'
    BY <1>27 DEF StoreInv, ReplayInv, ReplayedInv, InTables
  <2>5. CASE phase = "open"
    <3>1. FilesInv /\ VersionInv /\ ContentsInv /\ FlushInv /\ MergeInv /\ GroupInv
      BY <2>5, Opened
    <3> QED BY <1>27, <2>1, <2>2, <2>5, <3>1, SameFiles, SameVersion, SameContents, SameFlush, SameMerge,
               SameGroup, StoreOpen DEF Pending
  <2>6. CASE phase # "open"
    BY <1>27, <2>1, <2>2, <2>3, <2>4, <2>6 DEF StoreInv, OpenInv
  <2> QED BY <2>5, <2>6
<1> QED
  BY <1>1, <1>2, <1>3, <1>4, <1>5, <1>6, <1>7, <1>8, <1>9, <1>10, <1>11, <1>12, <1>13, <1>14, <1>15, <1>16, <1>17,
     <1>18, <1>19, <1>20, <1>21, <1>22, <1>23, <1>24, <1>25, <1>26, <1>27 DEF StoreNext

\* StoreInv is an invariant of the store: type correctness and what each phase
\* of writing, flushing, merging, crashing and reopening keeps.
THEOREM StoreInvariant == StoreSpec => []StoreInv
BY StoreInitInv, StoreNextInv, PTL DEF StoreSpec

\* Whatever a crash leaves, the manifest's tables are there, and with the logs
\* that Open will replay they hold every write acknowledged with sync.
THEOREM CrashSafety == StoreSpec => []CrashSafe
<1>1. StoreInv => CrashSafe
  <2> SUFFICES ASSUME StoreInv, currentFile # 0 PROVE CrashSafe
    BY DEF CrashSafe
  <2> DEFINE m == manifests[currentFile]
  <2>1. currentFile \in DOMAIN manifests /\ \A i \in Live(m) : Recoverable(m.edits[i])
    BY DEF StoreInv, ManifestInv
  <2>2. ASSUME NEW i \in Live(m)
        PROVE  /\ m.edits[i].tables \subseteq DOMAIN tables
               /\ ackedSync \subseteq
                    TablesOf(m.edits[i].tables)
                    \cup UNION {Durable(logs[n]) : n \in {k \in DOMAIN logs : k >= m.edits[i].log}}
    BY <2>1, <2>2 DEF Recoverable, InTables, InLogs, TablesOf
  <2> QED BY <2>1, <2>2 DEF CrashSafe, Live, Durable
<1> QED BY <1>1, StoreInvariant, PTL

\* While the database is open no file of a version in use is deleted, every
\* acknowledged write can be read, and the last sequence number covers all.
THEOREM ReadSafety == StoreSpec => []ReadsComplete
<1>1. StoreInv => ReadsComplete
  <2> SUFFICES ASSUME StoreInv, phase = "open" PROVE ReadsComplete
    BY DEF ReadsComplete
  <2>1. MemoryType /\ FilesInv /\ ContentsInv /\ MergeInv
    BY Opened
  <2>2. ASSUME NEW t \in LiveTables(current, iterPins, {}, merge) PROVE t \in DOMAIN tables
    <3>1. CASE t \in current \/ \E v \in iterPins : t \in v
      BY <2>1, <3>1 DEF FilesInv
    <3>2. CASE \E i \in DOMAIN merge : t \in merge[i].version
      <4>1. merge # <<>>
        BY <3>2
      <4>2. t \in merge[1].version
        BY <3>2, <4>1, BgFact
      <4> QED BY <2>1, <4>1, <4>2 DEF MergeInv
    <3> QED BY <2>2, <3>1, <3>2 DEF LiveTables
  <2>3. acked \subseteq mem \cup Imm \cup TablesOf(current)
    BY <2>1 DEF ContentsInv, InTables, TablesOf
  <2>4. \A s \in mem \cup Imm \cup TablesOf(current) : s <= lastSeq
    BY <2>1 DEF ContentsInv, TablesOf
  <2> QED BY <2>2, <2>3, <2>4 DEF ReadsComplete
<1> QED BY <1>1, StoreInvariant, PTL

----------------------------------------------------------------------------
(* The cache: its state and its references.                                *)

CacheSet == [key : [Handles -> Nat], refs : [Handles -> Nat], lru : Seq(Handles), usage : Nat,
             chains : Seq(SUBSET Handles), n : Nat]

\* The list has each entry once; keys differ; the table has what the list has, each in its chain.
Once(l) == \A i, j \in 1 .. Len(l) : l[i] = l[j] => i = j
Listed(c) == {h \in Handles : Contains(c.lru, h)}
KeysOnce(c, L) == \A x, y \in L : c.key[x] = c.key[y] => x = y
ListGood(c) ==
    Once(c.lru) /\ KeysOnce(c, Listed(c)) /\ \A x \in Listed(c) : c.key[x] \in CachedFiles
TableHas(c, L) ==
    /\ Len(c.chains) > 0
    /\ \A b \in 1 .. Len(c.chains) : c.chains[b] = {h \in L : Bucket(c.key[h], Len(c.chains)) = b}
TableGood(c) == c.n = Len(c.lru) /\ TableHas(c, Listed(c))

\* usage_ counts what is alive; an entry has a reference per use, U[h], and one of the list.
UsageGood(c) == c.usage = Cardinality({h \in Handles : c.refs[h] > 0})
CountsGood(c, U) ==
    \A h \in Handles : c.refs[h] = U[h] + (IF Contains(c.lru, h) THEN 1 ELSE 0)

CacheGood(c, U) ==
    c \in CacheSet /\ ListGood(c) /\ TableGood(c) /\ UsageGood(c) /\ CountsGood(c, U)

LEMMA HandlesFinite ==
    /\ IsFiniteSet(Handles) /\ Handles \subseteq Nat /\ 0 \notin Handles
    /\ Cardinality(Handles) = Cardinality(Readers) + Cardinality(CachedFiles)
    /\ Cardinality(Readers) \in Nat /\ Cardinality(CachedFiles) \in Nat
<1>1. Cardinality(Readers) \in Nat /\ Cardinality(CachedFiles) \in Nat
  BY CacheAssumption, FS_CardinalityType
<1> DEFINE N == Cardinality(Readers) + Cardinality(CachedFiles)
<1>2. N \in Nat /\ 1 \in Int /\ N \in Int
  BY <1>1
<1>3. IsFiniteSet(1 .. N) /\ Cardinality(1 .. N) = IF 1 > N THEN 0 ELSE N - 1 + 1
  BY <1>2, FS_Interval
<1> QED  BY <1>1, <1>2, <1>3 DEF Handles

\* A state is its six parts.
LEMMA CacheParts ==
    ASSUME NEW c \in CacheSet
    PROVE  c = [key |-> c.key, refs |-> c.refs, lru |-> c.lru, usage |-> c.usage, chains |-> c.chains, n |-> c.n]
  BY DEF CacheSet

\* Writing a part of it.
LEMMA PutKey ==
    ASSUME NEW c \in CacheSet, NEW a \in [Handles -> Nat]
    PROVE  LET d == [c EXCEPT !.key = a] IN
           /\ d \in CacheSet /\ d.key = a /\ d.refs = c.refs /\ d.lru = c.lru /\ d.usage = c.usage
           /\ d.chains = c.chains /\ d.n = c.n
<1>1. [c EXCEPT !.key = a] = [key |-> a, refs |-> c.refs, lru |-> c.lru, usage |-> c.usage, chains |-> c.chains, n |-> c.n]
  BY CacheParts
<1> QED  BY <1>1 DEF CacheSet

LEMMA PutRefs ==
    ASSUME NEW c \in CacheSet, NEW a \in [Handles -> Nat]
    PROVE  LET d == [c EXCEPT !.refs = a] IN
           /\ d \in CacheSet /\ d.key = c.key /\ d.refs = a /\ d.lru = c.lru /\ d.usage = c.usage
           /\ d.chains = c.chains /\ d.n = c.n
<1>1. [c EXCEPT !.refs = a] = [key |-> c.key, refs |-> a, lru |-> c.lru, usage |-> c.usage, chains |-> c.chains, n |-> c.n]
  BY CacheParts
<1> QED  BY <1>1 DEF CacheSet

LEMMA PutUsage ==
    ASSUME NEW c \in CacheSet, NEW a \in Nat
    PROVE  LET d == [c EXCEPT !.usage = a] IN
           /\ d \in CacheSet /\ d.key = c.key /\ d.refs = c.refs /\ d.lru = c.lru /\ d.usage = a
           /\ d.chains = c.chains /\ d.n = c.n
<1>1. [c EXCEPT !.usage = a] = [key |-> c.key, refs |-> c.refs, lru |-> c.lru, usage |-> a, chains |-> c.chains, n |-> c.n]
  BY CacheParts
<1> QED  BY <1>1 DEF CacheSet

LEMMA PutChains ==
    ASSUME NEW c \in CacheSet, NEW a \in Seq(SUBSET Handles)
    PROVE  LET d == [c EXCEPT !.chains = a] IN
           /\ d \in CacheSet /\ d.key = c.key /\ d.refs = c.refs /\ d.lru = c.lru /\ d.usage = c.usage
           /\ d.chains = a /\ d.n = c.n
<1>1. [c EXCEPT !.chains = a] = [key |-> c.key, refs |-> c.refs, lru |-> c.lru, usage |-> c.usage, chains |-> a, n |-> c.n]
  BY CacheParts
<1> QED  BY <1>1 DEF CacheSet

LEMMA PutN ==
    ASSUME NEW c \in CacheSet, NEW a \in Nat
    PROVE  LET d == [c EXCEPT !.n = a] IN
           /\ d \in CacheSet /\ d.key = c.key /\ d.refs = c.refs /\ d.lru = c.lru /\ d.usage = c.usage
           /\ d.chains = c.chains /\ d.n = a
<1>1. [c EXCEPT !.n = a] = [key |-> c.key, refs |-> c.refs, lru |-> c.lru, usage |-> c.usage, chains |-> c.chains, n |-> a]
  BY CacheParts
<1> QED  BY <1>1 DEF CacheSet

LEMMA BucketRange ==
    ASSUME NEW key \in Nat, NEW length \in Nat \ {0}
    PROVE  Bucket(key, length) \in 1 .. length
  BY DEF Bucket

\* What a search finds.
LEMMA LookupFinds ==
    ASSUME NEW c \in CacheSet, NEW L \in SUBSET Handles, TableHas(c, L), NEW key \in Nat
    PROVE  LET h == TableLookup(c, key) IN
           \/ h = 0 /\ \A x \in L : c.key[x] # key
           \/ h \in L /\ h # 0 /\ c.key[h] = key
<1>1. Len(c.chains) \in Nat \ {0}
  BY DEF TableHas, CacheSet
<1>2. Bucket(key, Len(c.chains)) \in 1 .. Len(c.chains)
  BY <1>1, BucketRange
<1>3. InChain(c, key) = {h \in L : c.key[h] = key}
  BY <1>2 DEF InChain, TableHas
<1> QED  BY <1>3, HandlesFinite DEF TableLookup

----------------------------------------------------------------------------
(* The cache: its operations.                                              *)

LEMMA UnrefGood ==
    ASSUME NEW c \in CacheSet, UsageGood(c), NEW h \in Handles, c.refs[h] > 0
    PROVE  LET d == Unref(c, h) IN
           /\ d \in CacheSet /\ UsageGood(d)
           /\ d.key = c.key /\ d.lru = c.lru /\ d.chains = c.chains /\ d.n = c.n
           /\ d.refs = [c.refs EXCEPT ![h] = @ - 1] /\ d.usage <= c.usage
<1> DEFINE S == {x \in Handles : c.refs[x] > 0}
           d == Unref(c, h)
<1>1. c.refs \in [Handles -> Nat] /\ c.usage \in Nat
  BY DEF CacheSet
<1>2. IsFiniteSet(S) /\ h \in S
  BY HandlesFinite, FS_Subset
<1>3. Cardinality(S) \in Nat /\ Cardinality(S \ {h}) = Cardinality(S) - 1 /\ Cardinality(S) > 0
  <2>1. Cardinality(S) \in Nat /\ Cardinality(S \ {h}) = Cardinality(S) - 1 /\ IsFiniteSet(S \ {h})
    BY <1>2, FS_CardinalityType, FS_RemoveElement
  <2>2. Cardinality(S \ {h}) \in Nat
    BY <2>1, FS_CardinalityType
  <2> QED  BY <2>1, <2>2
<1>4. c.usage = Cardinality(S)
  BY DEF UsageGood
<1> DEFINE r == [c.refs EXCEPT ![h] = @ - 1]
           u == IF c.refs[h] = 1 THEN c.usage - 1 ELSE c.usage
           e == [c EXCEPT !.refs = r]
<1>5. r \in [Handles -> Nat] /\ u \in Nat
  BY <1>1, <1>3, <1>4
<1>6. d = [e EXCEPT !.usage = u]
  BY DEF Unref
<1>7. r = [c.refs EXCEPT ![h] = @ - 1] /\ u = IF c.refs[h] = 1 THEN c.usage - 1 ELSE c.usage
  OBVIOUS
<1> HIDE DEF d, r, u
<1>8. /\ e \in CacheSet /\ e.key = c.key /\ e.refs = r /\ e.lru = c.lru /\ e.usage = c.usage
      /\ e.chains = c.chains /\ e.n = c.n
  BY <1>5, PutRefs
<1> HIDE DEF e
<1>9. /\ d \in CacheSet /\ d.key = c.key /\ d.refs = r /\ d.lru = c.lru /\ d.usage = u
      /\ d.chains = c.chains /\ d.n = c.n
  BY <1>5, <1>6, <1>8, PutUsage
<1>10. UsageGood(d)
  <2>1. {x \in Handles : d.refs[x] > 0} = IF c.refs[h] = 1 THEN S \ {h} ELSE S
    BY <1>1, <1>7, <1>9
  <2> HIDE DEF S
  <2> QED  BY <1>3, <1>4, <1>7, <1>9, <2>1 DEF UsageGood
<1>11. d.usage <= c.usage
  BY <1>1, <1>7, <1>9
<1> QED  BY <1>7, <1>9, <1>10, <1>11 DEF d

\* An entry leaves the list.
LEMMA LruRemoveGood ==
    ASSUME NEW c \in CacheSet, Once(c.lru), NEW h \in Listed(c)
    PROVE  LET d == LruRemove(c, h) IN
           /\ d \in CacheSet /\ Once(d.lru)
           /\ d.key = c.key /\ d.refs = c.refs /\ d.usage = c.usage /\ d.chains = c.chains /\ d.n = c.n
           /\ Len(c.lru) \in Nat /\ Len(c.lru) > 0 /\ Len(d.lru) = Len(c.lru) - 1
           /\ Listed(d) = Listed(c) \ {h}
<1> DEFINE m == CHOOSE i \in DOMAIN c.lru : c.lru[i] = h
           d == LruRemove(c, h)
<1>1. c.lru \in Seq(Handles) /\ Len(c.lru) \in Nat /\ DOMAIN c.lru = 1 .. Len(c.lru)
  BY DEF CacheSet
<1>2. m \in 1 .. Len(c.lru) /\ c.lru[m] = h
  BY <1>1 DEF Contains, Listed
<1>3. /\ d.key = c.key /\ d.refs = c.refs /\ d.usage = c.usage /\ d.chains = c.chains /\ d.n = c.n
      /\ d.lru = RemoveAt(c.lru, m)
      /\ d = [key |-> d.key, refs |-> d.refs, lru |-> d.lru, usage |-> d.usage, chains |-> d.chains, n |-> d.n]
  BY CacheParts DEF LruRemove
<1> HIDE DEF m, d
<1>4. /\ d.lru \in Seq(Handles) /\ Len(d.lru) = Len(c.lru) - 1
      /\ \A i \in 1 .. Len(d.lru) : d.lru[i] = IF i < m THEN c.lru[i] ELSE c.lru[i + 1]
  <2> DEFINE A == SubSeq(c.lru, 1, m - 1)
             B == SubSeq(c.lru, m + 1, Len(c.lru))
  <2>1. /\ A \in Seq(Handles) /\ Len(A) = m - 1
        /\ \A i \in 1 .. m - 1 : A[i] = c.lru[i]
    BY <1>1, <1>2
  <2>2. /\ B \in Seq(Handles) /\ Len(B) = Len(c.lru) - m
        /\ \A i \in 1 .. Len(c.lru) - m : B[i] = c.lru[m + i]
    BY <1>1, <1>2
  <2>3. d.lru = A \o B
    BY <1>3 DEF RemoveAt
  <2> HIDE DEF A, B
  <2>4. A \o B \in Seq(Handles) /\ Len(A \o B) = Len(c.lru) - 1
    <3>1. A \o B \in Seq(Handles) /\ Len(A \o B) = Len(A) + Len(B)
      BY <2>1, <2>2, ConcatProperties
    <3> QED  BY <1>1, <1>2, <2>1, <2>2, <3>1
  <2>5. \A i \in 1 .. Len(A \o B) : (A \o B)[i] = IF i < m THEN c.lru[i] ELSE c.lru[i + 1]
    <3> SUFFICES ASSUME NEW i \in 1 .. Len(A \o B) PROVE (A \o B)[i] = IF i < m THEN c.lru[i] ELSE c.lru[i + 1]
      OBVIOUS
    <3>1. CASE i < m
      <4>1. i \in 1 .. m - 1 /\ i \in 1 .. Len(A)
        BY <1>2, <2>1, <2>4, <3>1
      <4> QED  BY <2>1, <2>2, <3>1, <4>1
    <3>2. CASE ~ i < m
      <4>1. i - (m - 1) \in 1 .. Len(c.lru) - m /\ i > Len(A) /\ i \in 1 .. Len(A) + Len(B)
        <5> DEFINE n == Len(c.lru)
        <5>1. n \in Nat /\ m \in 1 .. n /\ i \in 1 .. n - 1 /\ m <= i
          BY <1>1, <1>2, <2>4, <3>2
        <5>2. Len(A) = m - 1 /\ Len(B) = n - m
          BY <2>1, <2>2
        <5> HIDE DEF n
        <5>3. i - (m - 1) \in 1 .. n - m /\ i > m - 1 /\ i \in 1 .. (m - 1) + (n - m)
          BY <5>1
        <5> QED  BY <5>2, <5>3 DEF n
      <4>2. (A \o B)[i] = B[i - Len(A)]
        BY <2>1, <2>2, <4>1
      <4>3. m + (i - (m - 1)) = i + 1
        BY <1>2, <2>4
      <4> QED  BY <2>1, <2>2, <3>2, <4>1, <4>2, <4>3
    <3> QED  BY <3>1, <3>2
  <2> QED  BY <2>3, <2>4, <2>5
<1>5. d \in CacheSet
  BY <1>3, <1>4 DEF CacheSet
<1> DEFINE At(i) == IF i < m THEN i ELSE i + 1
<1>6. \A i \in 1 .. Len(d.lru) : At(i) \in 1 .. Len(c.lru) /\ At(i) # m /\ d.lru[i] = c.lru[At(i)]
  <2> SUFFICES ASSUME NEW i \in 1 .. Len(d.lru)
               PROVE  At(i) \in 1 .. Len(c.lru) /\ At(i) # m /\ d.lru[i] = c.lru[At(i)]
    OBVIOUS
  <2>1. d.lru[i] = c.lru[At(i)]
    BY <1>4
  <2>2. At(i) \in 1 .. Len(c.lru) /\ At(i) # m
    BY <1>1, <1>2, <1>4
  <2> QED  BY <2>1, <2>2
<1>7. \A i, j \in 1 .. Len(d.lru) : At(i) = At(j) => i = j
  BY <1>1, <1>2, <1>4
<1>8. \A j \in 1 .. Len(c.lru) : j # m => \E i \in 1 .. Len(d.lru) : At(i) = j
  <2> SUFFICES ASSUME NEW j \in 1 .. Len(c.lru), j # m PROVE \E i \in 1 .. Len(d.lru) : At(i) = j
    OBVIOUS
  <2>1. CASE j < m
    BY <1>1, <1>2, <1>4, <2>1
  <2>2. CASE j > m
    <3>1. j - 1 \in 1 .. Len(d.lru) /\ At(j - 1) = j
      BY <1>1, <1>2, <1>4, <2>2
    <3> QED  BY <3>1
  <2> QED  BY <1>1, <1>2, <2>1, <2>2
<1> HIDE DEF At
<1>9. Once(d.lru)
  BY <1>6, <1>7 DEF Once
<1>10. \A x : Contains(d.lru, x) <=> Contains(c.lru, x) /\ x # h
  <2>1. \A i, j \in 1 .. Len(c.lru) : c.lru[i] = c.lru[j] => i = j
    BY DEF Once
  <2>2. \A x : Contains(d.lru, x) => Contains(c.lru, x) /\ x # h
    BY <1>2, <1>6, <2>1 DEF Contains
  <2>3. ASSUME NEW x, Contains(c.lru, x), x # h PROVE Contains(d.lru, x)
    <3>1. PICK j \in 1 .. Len(c.lru) : c.lru[j] = x
      BY <2>3 DEF Contains
    <3>2. PICK i \in 1 .. Len(d.lru) : At(i) = j
      BY <1>2, <1>8, <2>3, <3>1
    <3> QED  BY <1>6, <3>1, <3>2 DEF Contains
  <2> QED  BY <2>2, <2>3
<1>11. Listed(d) = Listed(c) \ {h}
  BY <1>10 DEF Listed
<1> QED  BY <1>1, <1>2, <1>3, <1>4, <1>5, <1>9, <1>11 DEF d

\* An entry becomes the newest one.
LEMMA LruAppendGood ==
    ASSUME NEW c \in CacheSet, NEW h \in Handles
    PROVE  LET d == LruAppend(c, h) IN
           /\ d \in CacheSet
           /\ d.key = c.key /\ d.refs = c.refs /\ d.usage = c.usage /\ d.chains = c.chains /\ d.n = c.n
           /\ d.lru = Append(c.lru, h) /\ Len(c.lru) \in Nat /\ Len(d.lru) = Len(c.lru) + 1
           /\ Listed(d) = Listed(c) \cup {h}
           /\ Once(c.lru) /\ h \notin Listed(c) => Once(d.lru)
<1> DEFINE d == LruAppend(c, h)
<1>1. c.lru \in Seq(Handles) /\ Len(c.lru) \in Nat
  BY DEF CacheSet
<1>2. /\ d.key = c.key /\ d.refs = c.refs /\ d.usage = c.usage /\ d.chains = c.chains /\ d.n = c.n
      /\ d.lru = Append(c.lru, h)
      /\ d = [key |-> d.key, refs |-> d.refs, lru |-> d.lru, usage |-> d.usage, chains |-> d.chains, n |-> d.n]
  BY CacheParts DEF LruAppend
<1> HIDE DEF d
<1>3. /\ d.lru \in Seq(Handles) /\ Len(d.lru) = Len(c.lru) + 1
      /\ \A i \in 1 .. Len(c.lru) : d.lru[i] = c.lru[i]
      /\ d.lru[Len(c.lru) + 1] = h
  BY <1>1, <1>2
<1>4. d \in CacheSet
  BY <1>2, <1>3 DEF CacheSet
<1>5. \A x : Contains(d.lru, x) <=> Contains(c.lru, x) \/ x = h
  <2>1. \A i \in 1 .. Len(d.lru) : i \in 1 .. Len(c.lru) \/ i = Len(c.lru) + 1
    BY <1>1, <1>3
  <2>2. \A i \in 1 .. Len(c.lru) : i \in 1 .. Len(d.lru)
    BY <1>1, <1>3
  <2>3. Len(c.lru) + 1 \in 1 .. Len(d.lru)
    BY <1>1, <1>3
  <2> QED  BY <1>3, <2>1, <2>2, <2>3 DEF Contains
<1>6. ASSUME Once(c.lru), h \notin Listed(c) PROVE Once(d.lru)
  <2>1. \A i \in 1 .. Len(d.lru) : \/ i \in 1 .. Len(c.lru) /\ d.lru[i] = c.lru[i]
                                   \/ i = Len(c.lru) + 1 /\ d.lru[i] = h
    BY <1>1, <1>3
  <2>2. \A i \in 1 .. Len(c.lru) : c.lru[i] # h
    BY <1>6 DEF Contains, Listed
  <2> QED  BY <1>6, <2>1, <2>2 DEF Once
<1>7. Listed(d) = Listed(c) \cup {h}
  BY <1>5 DEF Listed
<1> QED  BY <1>1, <1>2, <1>3, <1>4, <1>6, <1>7 DEF d

\* The chains with entry old left out and entry h added.
LEMMA ChainsSwapped ==
    ASSUME NEW c \in CacheSet, NEW L \in SUBSET Handles, TableHas(c, L), NEW key \in Nat,
           NEW old, NEW new \in SUBSET Handles,
           old \in L => c.key[old] = key, \A x \in new : c.key[x] = key,
           NEW cs, cs = [c.chains EXCEPT ![Bucket(key, Len(c.chains))] = (@ \ {old}) \cup new],
           NEW d \in CacheSet, d.key = c.key, d.chains = cs
    PROVE  cs \in Seq(SUBSET Handles) /\ TableHas(d, (L \ {old}) \cup new)
<1> DEFINE n == Len(c.chains)
           b == Bucket(key, n)
<1>1. n \in Nat \ {0} /\ c.chains \in Seq(SUBSET Handles)
  BY DEF TableHas, CacheSet
<1>2. b \in 1 .. n
  BY <1>1, BucketRange
<1>3. c.chains[b] \in SUBSET Handles
  BY <1>1, <1>2
<1>4. /\ cs \in Seq(SUBSET Handles) /\ Len(cs) = n
      /\ \A i \in 1 .. n : cs[i] = IF i = b THEN (c.chains[b] \ {old}) \cup new ELSE c.chains[i]
  BY <1>1, <1>2, <1>3
<1>5. ASSUME NEW i \in 1 .. n PROVE cs[i] = {h \in (L \ {old}) \cup new : Bucket(c.key[h], n) = i}
  <2>1. c.chains[i] = {h \in L : Bucket(c.key[h], n) = i}
    BY DEF TableHas
  <2>2. \A h : h \in new \/ (h = old /\ h \in L) => Bucket(c.key[h], n) = b
    OBVIOUS
  <2> HIDE DEF b, n
  <2>3. CASE i = b
    BY <1>4, <2>1, <2>2, <2>3
  <2>4. CASE i # b
    BY <1>4, <2>1, <2>2, <2>4
  <2> QED  BY <2>3, <2>4
<1> QED  BY <1>1, <1>4, <1>5 DEF TableHas

LEMMA TableRemoveGood ==
    ASSUME NEW c \in CacheSet, NEW L \in SUBSET Handles, TableHas(c, L), KeysOnce(c, L),
           NEW h \in L, c.key[h] \in Nat, c.n > 0
    PROVE  LET d == TableRemove(c, c.key[h]) IN
           /\ TableLookup(c, c.key[h]) = h
           /\ d \in CacheSet /\ TableHas(d, L \ {h}) /\ d.n = c.n - 1
           /\ d.key = c.key /\ d.refs = c.refs /\ d.lru = c.lru /\ d.usage = c.usage
<1>1. TableLookup(c, c.key[h]) = h /\ h # 0
  BY LookupFinds, HandlesFinite DEF KeysOnce
<1> DEFINE cs == [c.chains EXCEPT ![Bucket(c.key[h], Len(c.chains))] = @ \ {h}]
           e == [c EXCEPT !.chains = cs]
           d == TableRemove(c, c.key[h])
<1>2. d = [c EXCEPT !.chains = cs, !.n = c.n - 1]
  BY <1>1 DEF TableRemove
<1>3. d = [e EXCEPT !.n = c.n - 1]
  BY <1>2
<1>4. cs = [c.chains EXCEPT ![Bucket(c.key[h], Len(c.chains))] = (@ \ {h}) \cup {}]
  OBVIOUS
<1> HIDE DEF cs, d
<1>5. cs \in Seq(SUBSET Handles)
  <2>1. Len(c.chains) \in Nat \ {0} /\ c.chains \in Seq(SUBSET Handles)
    BY DEF TableHas, CacheSet
  <2>2. Bucket(c.key[h], Len(c.chains)) \in 1 .. Len(c.chains)
    BY <2>1, BucketRange
  <2> QED  BY <2>1, <2>2 DEF cs
<1>6. c.n - 1 \in Nat
  BY DEF CacheSet
<1>7. /\ e \in CacheSet /\ e.key = c.key /\ e.refs = c.refs /\ e.lru = c.lru /\ e.usage = c.usage
      /\ e.chains = cs /\ e.n = c.n
  BY <1>5, PutChains
<1> HIDE DEF e
<1>8. /\ d \in CacheSet /\ d.key = c.key /\ d.refs = c.refs /\ d.lru = c.lru /\ d.usage = c.usage
      /\ d.chains = cs /\ d.n = c.n - 1
  BY <1>3, <1>6, <1>7, PutN
<1>9. TableHas(d, (L \ {h}) \cup {})
  BY <1>4, <1>8, ChainsSwapped
<1>10. (L \ {h}) \cup {} = L \ {h}
  OBVIOUS
<1> QED  BY <1>1, <1>8, <1>9, <1>10 DEF d

\* One unfolding of the doubling of the length.
UnfoldDoubled(n, doubled) == [i \in 0 .. n |-> IF i = 0 THEN FirstLength ELSE 2 * doubled[i - 1]]

\* The loop of Resize ends, with a length.
LEMMA GrowLengthType ==
    ASSUME NEW length \in Nat
    PROVE  GrowLength(length) \in Nat \ {0}
<1> DEFINE n == length
           X == Nat \ {0}
           T == [q \in (1 .. n) \X X |-> 2 * q[2]]
<1>1. T \in [(1 .. n) \X X -> X] /\ \A i \in 1 .. n, x \in X : T[<<i, x>>] = 2 * x
  OBVIOUS
<1> HIDE DEF T
<1>2. PICK g \in [0 .. n -> X] : g = UnfoldOver(n, FirstLength, T, g)
  <2>1. n \in Nat
    OBVIOUS
  <2> HIDE DEF X, n
  <2>2. LoopOver(X, FirstLength, n, T)
    BY <1>1, <2>1, CacheAssumption DEF LoopOver, X
  <2>3. \E g \in [0 .. n -> X] : g = UnfoldOver(n, FirstLength, T, g)
    BY <2>2, FiniteRecursion
  <2> QED  BY <2>3 DEF X
<1>3. g = UnfoldDoubled(n, g)
  <2>1. \A i \in 0 .. n : UnfoldOver(n, FirstLength, T, g)[i] = UnfoldDoubled(n, g)[i]
    <3> SUFFICES ASSUME NEW i \in 0 .. n PROVE UnfoldOver(n, FirstLength, T, g)[i] = UnfoldDoubled(n, g)[i]
      OBVIOUS
    <3>1. i # 0 => i \in 1 .. n /\ g[i - 1] \in X
      BY <1>2
    <3> QED  BY <1>1, <3>1 DEF UnfoldOver, UnfoldDoubled
  <2> QED  BY <1>2, <2>1 DEF UnfoldOver, UnfoldDoubled
<1>4. PICK f : /\ f = UnfoldDoubled(n, f)
               /\ GrowLength(n) = f[CHOOSE i \in 0 .. n : f[i] >= n /\ \A j \in 0 .. n : f[j] >= n => i <= j]
  <2> DEFINE f == CHOOSE x : x = UnfoldDoubled(n, x)
  <2>1. f = UnfoldDoubled(n, f)
    BY <1>3
  <2>2. GrowLength(n) = f[CHOOSE i \in 0 .. n : f[i] >= n /\ \A j \in 0 .. n : f[j] >= n => i <= j]
    BY DEF GrowLength, UnfoldDoubled
  <2> QED  BY <2>1, <2>2
<1>5. f[0] = FirstLength /\ \A i \in 1 .. n : f[i] = 2 * f[i - 1]
  <2>1. \A i \in 0 .. n : UnfoldDoubled(n, f)[i] = IF i = 0 THEN FirstLength ELSE 2 * f[i - 1]
    BY DEF UnfoldDoubled
  <2> QED  BY <1>4, <2>1
<1> DEFINE S == {i \in 0 .. n : f[i] \in Nat /\ f[i] > i}
<1>6. 0 \in S
  BY <1>5, CacheAssumption
<1>7. ASSUME NEW i \in 1 .. n, i - 1 \in S PROVE i \in S
  <2>1. f[i] = 2 * f[i - 1] /\ f[i - 1] \in Nat /\ f[i - 1] > i - 1
    BY <1>5, <1>7
  <2> QED  BY <2>1
<1>8. \A i \in 0 .. n : f[i] \in Nat /\ f[i] > i
  <2>1. \A i \in 0 .. n : i \in S
    <3> HIDE DEF S
    <3> QED  BY <1>6, <1>7, UpTo
  <2> QED  BY <2>1
<1> DEFINE R == {i \in 0 .. n : f[i] >= n}
<1>9. n \in R /\ R \in SUBSET Nat
  BY <1>8
<1>10. PICK m \in R : \A j \in R : m <= j
  BY <1>9, LeastNumber
<1>11. \E i \in 0 .. n : f[i] >= n /\ \A j \in 0 .. n : f[j] >= n => i <= j
  BY <1>10
<1>12. GrowLength(n) \in {f[i] : i \in 0 .. n}
  BY <1>4, <1>11
<1> QED  BY <1>8, <1>12

\* Every entry goes to the chain of its key.
LEMMA ResizeGood ==
    ASSUME NEW c \in CacheSet, NEW L \in SUBSET Handles, TableHas(c, L), \A x \in L : c.key[x] \in Nat
    PROVE  LET d == Resize(c) IN
           /\ d \in CacheSet /\ TableHas(d, L)
           /\ d.key = c.key /\ d.refs = c.refs /\ d.lru = c.lru /\ d.usage = c.usage /\ d.n = c.n
<1> DEFINE length == GrowLength(c.n)
           entries == UNION {c.chains[b] : b \in DOMAIN c.chains}
           cs == [b \in 1 .. length |-> {h \in entries : Bucket(c.key[h], length) = b}]
           d == Resize(c)
<1>1. length \in Nat \ {0}
  BY GrowLengthType DEF CacheSet
<1>2. Len(c.chains) \in Nat \ {0} /\ DOMAIN c.chains = 1 .. Len(c.chains)
  BY DEF TableHas, CacheSet
<1>3. entries = L
  <2>1. entries \subseteq L
    BY <1>2 DEF TableHas
  <2>2. ASSUME NEW x \in L PROVE x \in entries
    <3>1. Bucket(c.key[x], Len(c.chains)) \in 1 .. Len(c.chains)
      BY <1>2, BucketRange
    <3>2. x \in c.chains[Bucket(c.key[x], Len(c.chains))]
      BY <3>1 DEF TableHas
    <3> QED  BY <1>2, <3>1, <3>2
  <2> QED  BY <2>1, <2>2
<1>4. d = [c EXCEPT !.chains = cs]
  BY DEF Resize
<1> HIDE DEF length, entries, d
<1>5. cs \in Seq(SUBSET Handles) /\ Len(cs) = length
  BY <1>1, <1>3
<1>6. \A b \in 1 .. length : cs[b] = {h \in L : Bucket(c.key[h], length) = b}
  BY <1>3
<1> HIDE DEF cs
<1>7. /\ d \in CacheSet /\ d.key = c.key /\ d.refs = c.refs /\ d.lru = c.lru /\ d.usage = c.usage
      /\ d.chains = cs /\ d.n = c.n
  BY <1>4, <1>5, PutChains
<1>8. TableHas(d, L)
  BY <1>1, <1>5, <1>6, <1>7 DEF TableHas
<1> QED  BY <1>7, <1>8 DEF d

LEMMA TableInsertGood ==
    ASSUME NEW c \in CacheSet, NEW L \in SUBSET Handles, TableHas(c, L), KeysOnce(c, L),
           \A x \in L : c.key[x] \in Nat, NEW h \in Handles, h \notin L, c.key[h] \in Nat
    PROVE  LET d == TableInsert(c, h)
               old == TableLookup(c, c.key[h])
           IN  /\ d \in CacheSet /\ TableHas(d, (L \ {old}) \cup {h})
               /\ d.n = IF old = 0 THEN c.n + 1 ELSE c.n
               /\ d.key = c.key /\ d.refs = c.refs /\ d.lru = c.lru /\ d.usage = c.usage
<1> DEFINE old == TableLookup(c, c.key[h])
           cs == [c.chains EXCEPT ![Bucket(c.key[h], Len(c.chains))] = (@ \ {old}) \cup {h}]
           e == [c EXCEPT !.chains = cs]
           f == [e EXCEPT !.n = @ + 1]
           d == TableInsert(c, h)
           M == (L \ {old}) \cup {h}
<1>1. \/ old = 0
      \/ old \in L /\ old # 0 /\ c.key[old] = c.key[h]
  BY LookupFinds
<1>2. d = IF old # 0 THEN e ELSE IF f.n > Len(f.chains) THEN Resize(f) ELSE f
  BY DEF TableInsert
<1>3. cs = [c.chains EXCEPT ![Bucket(c.key[h], Len(c.chains))] = (@ \ {old}) \cup {h}]
  OBVIOUS
<1>4. cs \in Seq(SUBSET Handles)
  <2>1. Len(c.chains) \in Nat \ {0} /\ c.chains \in Seq(SUBSET Handles)
    BY DEF TableHas, CacheSet
  <2>2. Bucket(c.key[h], Len(c.chains)) \in 1 .. Len(c.chains)
    BY <2>1, BucketRange
  <2> HIDE DEF old
  <2> QED  BY <2>1, <2>2 DEF cs
<1>5. f = [e EXCEPT !.n = e.n + 1]
  OBVIOUS
<1>6. c.n \in Nat
  BY DEF CacheSet
<1> HIDE DEF d, cs, old
<1>7. /\ e \in CacheSet /\ e.key = c.key /\ e.refs = c.refs /\ e.lru = c.lru /\ e.usage = c.usage
      /\ e.chains = cs /\ e.n = c.n
  BY <1>4, PutChains
<1> HIDE DEF e
<1>8. /\ f \in CacheSet /\ f.key = c.key /\ f.refs = c.refs /\ f.lru = c.lru /\ f.usage = c.usage
      /\ f.chains = cs /\ f.n = c.n + 1
  BY <1>5, <1>6, <1>7, PutN
<1> HIDE DEF f
<1>9. old \in L => c.key[old] = c.key[h]
  BY <1>1, HandlesFinite
<1>10. ASSUME NEW x \in CacheSet, x.key = c.key, x.chains = cs PROVE TableHas(x, M)
  <2> DEFINE key == c.key[h]
             new == {h}
  <2>1. /\ key \in Nat /\ new \in SUBSET Handles /\ (old \in L => c.key[old] = key)
        /\ \A y \in new : c.key[y] = key
    BY <1>9
  <2>2. cs = [c.chains EXCEPT ![Bucket(key, Len(c.chains))] = (@ \ {old}) \cup new]
    BY <1>3
  <2>3. M = (L \ {old}) \cup new
    OBVIOUS
  <2> HIDE DEF key, new, M
  <2>4. TableHas(x, (L \ {old}) \cup new)
    BY <1>10, <2>1, <2>2, ChainsSwapped
  <2> QED  BY <2>3, <2>4
<1>11. TableHas(e, M) /\ TableHas(f, M)
  BY <1>7, <1>8, <1>10
<1>12. M \in SUBSET Handles /\ \A x \in M : f.key[x] \in Nat
  BY <1>8
<1> HIDE DEF M
<1>13. CASE old # 0
  BY <1>2, <1>7, <1>11, <1>13 DEF d, old, M
<1>14. CASE old = 0
  <2> DEFINE g == Resize(f)
  <2>1. /\ g \in CacheSet /\ TableHas(g, M) /\ g.key = f.key /\ g.refs = f.refs /\ g.lru = f.lru
        /\ g.usage = f.usage /\ g.n = f.n
    BY <1>8, <1>11, <1>12, ResizeGood
  <2> HIDE DEF g
  <2>2. d = g \/ d = f
    BY <1>2, <1>14 DEF g
  <2>3. /\ d \in CacheSet /\ TableHas(d, M) /\ d.key = c.key /\ d.refs = c.refs /\ d.lru = c.lru
        /\ d.usage = c.usage /\ d.n = c.n + 1
    BY <1>8, <1>11, <2>1, <2>2
  <2> QED  BY <1>14, <2>3 DEF d, old, M
<1> QED  BY <1>13, <1>14

----------------------------------------------------------------------------
(* The cache: what they do together.                                       *)

\* The references, when an entry has left the list.
LEMMA CountsDrop ==
    ASSUME NEW c \in CacheSet, NEW U \in [Handles -> Nat], CountsGood(c, U), NEW h \in Listed(c), NEW d,
           d.refs = [c.refs EXCEPT ![h] = @ - 1], Listed(d) = Listed(c) \ {h}
    PROVE  CountsGood(d, U)
<1>1. c.refs \in [Handles -> Nat] /\ h \in Handles
  BY DEF CacheSet, Listed
<1>2. \A x \in Handles : Contains(d.lru, x) <=> Contains(c.lru, x) /\ x # h
  BY DEF Listed
<1> QED  BY <1>1, <1>2 DEF CountsGood, Listed

\* An entry leaves the table, then the list.
LEMMA ErasedGood ==
    ASSUME NEW c, NEW U \in [Handles -> Nat], CacheGood(c, U), NEW h \in Listed(c)
    PROVE  LET d == DropHandle(TableRemove(c, c.key[h]), h) IN
           /\ TableLookup(c, c.key[h]) = h
           /\ CacheGood(d, U) /\ d.key = c.key /\ d.usage <= c.usage /\ Len(d.lru) = Len(c.lru) - 1
<1> DEFINE L == Listed(c)
           e == TableRemove(c, c.key[h])
           f == LruRemove(e, h)
           d == Unref(f, h)
<1>1. /\ c \in CacheSet /\ Once(c.lru) /\ KeysOnce(c, L) /\ c.n = Len(c.lru) /\ TableHas(c, L) /\ UsageGood(c)
      /\ CountsGood(c, U)
  BY DEF CacheGood, TableGood, ListGood
<1>2. L \in SUBSET Handles /\ h \in L /\ h \in Handles /\ h # 0 /\ c.key[h] \in Nat
  BY <1>1, HandlesFinite DEF Listed, CacheSet
<1>3. c.n > 0
  BY <1>1 DEF Contains, CacheSet, Listed
<1>4. /\ TableLookup(c, c.key[h]) = h
      /\ e \in CacheSet /\ TableHas(e, L \ {h}) /\ e.n = c.n - 1
      /\ e.key = c.key /\ e.refs = c.refs /\ e.lru = c.lru /\ e.usage = c.usage
  BY <1>1, <1>2, <1>3, TableRemoveGood
<1> HIDE DEF e
<1>5. Once(e.lru) /\ Listed(e) = L /\ UsageGood(e)
  BY <1>1, <1>4 DEF UsageGood, Listed
<1>6. /\ f \in CacheSet /\ Once(f.lru)
      /\ f.key = e.key /\ f.refs = e.refs /\ f.usage = e.usage /\ f.chains = e.chains /\ f.n = e.n
      /\ Len(e.lru) \in Nat /\ Len(f.lru) = Len(e.lru) - 1
      /\ Listed(f) = L \ {h}
  BY <1>4, <1>5, LruRemoveGood
<1> HIDE DEF f
<1>7. UsageGood(f) /\ f.refs[h] > 0
  BY <1>1, <1>2, <1>4, <1>5, <1>6 DEF UsageGood, CountsGood, Listed
<1>8. /\ d \in CacheSet /\ UsageGood(d)
      /\ d.key = f.key /\ d.lru = f.lru /\ d.chains = f.chains /\ d.n = f.n
      /\ d.refs = [f.refs EXCEPT ![h] = @ - 1] /\ d.usage <= f.usage
  BY <1>2, <1>6, <1>7, UnrefGood
<1> HIDE DEF d
<1>9. Listed(d) = L \ {h} /\ d.key = c.key /\ Once(d.lru)
  BY <1>4, <1>6, <1>8 DEF Listed
<1>10. ListGood(d) /\ TableGood(d)
  <2>1. TableHas(d, L \ {h})
    BY <1>4, <1>6, <1>8 DEF TableHas
  <2>2. d.n = Len(d.lru)
    BY <1>1, <1>4, <1>6, <1>8
  <2>3. \A x \in L : c.key[x] \in CachedFiles
    BY DEF CacheGood, ListGood
  <2>4. ListGood(d)
    BY <1>1, <1>9, <2>3 DEF ListGood, KeysOnce
  <2> QED  BY <1>9, <2>1, <2>2, <2>4 DEF TableGood
<1>11. CountsGood(d, U)
  BY <1>1, <1>4, <1>6, <1>8, <1>9, CountsDrop
<1>12. CacheGood(d, U)
  BY <1>8, <1>10, <1>11 DEF CacheGood
<1>13. d.usage <= c.usage /\ Len(d.lru) = Len(c.lru) - 1
  BY <1>4, <1>6, <1>8
<1>14. DropHandle(e, h) = d
  BY <1>2 DEF DropHandle, f, d
<1> QED  BY <1>4, <1>9, <1>12, <1>13, <1>14 DEF e

\* The oldest entry leaves the list, then the table.
LEMMA EvictOneGood ==
    ASSUME NEW c, NEW U \in [Handles -> Nat], CacheGood(c, U)
    PROVE  LET d == EvictOne(c) IN
           /\ CacheGood(d, U) /\ d.key = c.key /\ Len(c.lru) \in Nat
           /\ IF WithinCapacity(c) THEN d = c ELSE Len(d.lru) = Len(c.lru) - 1
<1>1. /\ c \in CacheSet /\ Once(c.lru) /\ KeysOnce(c, Listed(c)) /\ c.n = Len(c.lru) /\ TableHas(c, Listed(c))
      /\ UsageGood(c) /\ CountsGood(c, U) /\ Len(c.lru) \in Nat
  BY DEF CacheGood, TableGood, ListGood, CacheSet
<1>2. CASE WithinCapacity(c)
  BY <1>1, <1>2 DEF EvictOne
<1>3. CASE ~ WithinCapacity(c)
  <2> DEFINE h == c.lru[1]
             L == Listed(c)
             e == LruRemove(c, h)
             f == TableRemove(e, c.key[h])
             d == Unref(f, h)
  <2>1. EvictOne(c) = d
    BY <1>3 DEF EvictOne
  <2>2. c.lru \in Seq(Handles) /\ c.lru # <<>> /\ 1 \in 1 .. Len(c.lru)
    BY <1>1, <1>3 DEF WithinCapacity, CacheSet
  <2>3. h \in Handles /\ h \in L /\ L \in SUBSET Handles /\ c.key[h] \in Nat /\ c.n > 0
    BY <1>1, <2>2 DEF Listed, Contains, CacheSet
  <2> HIDE DEF h
  <2>4. /\ e \in CacheSet /\ Once(e.lru) /\ e.key = c.key /\ e.refs = c.refs /\ e.usage = c.usage
        /\ e.chains = c.chains /\ e.n = c.n /\ Len(e.lru) = Len(c.lru) - 1 /\ Listed(e) = L \ {h}
    BY <1>1, <2>3, LruRemoveGood
  <2> HIDE DEF e
  <2>5. TableHas(e, L) /\ KeysOnce(e, L)
    BY <1>1, <2>4 DEF TableHas, KeysOnce
  <2>6. /\ f \in CacheSet /\ TableHas(f, L \ {h}) /\ f.n = e.n - 1
        /\ f.key = e.key /\ f.refs = e.refs /\ f.lru = e.lru /\ f.usage = e.usage
    <3>1. e.key[h] \in Nat /\ e.n > 0
      BY <2>3, <2>4
    <3>2. f = TableRemove(e, e.key[h])
      BY <2>4
    <3> HIDE DEF f
    <3> QED  BY <2>3, <2>4, <2>5, <3>1, <3>2, TableRemoveGood
  <2> HIDE DEF f
  <2>7. UsageGood(f) /\ f.refs[h] > 0
    BY <1>1, <2>3, <2>4, <2>6 DEF UsageGood, CountsGood, Listed
  <2>8. /\ d \in CacheSet /\ UsageGood(d)
        /\ d.key = f.key /\ d.lru = f.lru /\ d.chains = f.chains /\ d.n = f.n
        /\ d.refs = [f.refs EXCEPT ![h] = @ - 1] /\ d.usage <= f.usage
    BY <2>3, <2>6, <2>7, UnrefGood
  <2> HIDE DEF d
  <2>9. Listed(d) = L \ {h} /\ d.key = c.key /\ Once(d.lru)
    BY <2>4, <2>6, <2>8 DEF Listed
  <2>10. ListGood(d) /\ TableGood(d)
    <3>1. TableHas(d, L \ {h})
      BY <2>6, <2>8 DEF TableHas
    <3>2. d.n = Len(d.lru)
      BY <1>1, <2>4, <2>6, <2>8
    <3>3. \A x \in L : c.key[x] \in CachedFiles
      BY DEF CacheGood, ListGood
    <3>4. ListGood(d)
      BY <1>1, <2>9, <3>3 DEF ListGood, KeysOnce
    <3> QED  BY <2>9, <3>1, <3>2, <3>4 DEF TableGood
  <2>11. CountsGood(d, U)
    BY <1>1, <2>3, <2>4, <2>6, <2>8, <2>9, CountsDrop
  <2>12. Len(d.lru) = Len(c.lru) - 1
    BY <2>4, <2>6, <2>8
  <2> QED  BY <1>1, <1>3, <2>1, <2>8, <2>9, <2>10, <2>11, <2>12 DEF CacheGood
<1> QED  BY <1>2, <1>3

\* One unfolding of the loop of Insert.
UnfoldTurns(c, turn) == [i \in 0 .. Len(c.lru) |-> IF i = 0 THEN c ELSE EvictOne(turn[i - 1])]

\* The loop ends, since the list is empty in the end, and leaves the others as they are.
LEMMA EvictOldestGood ==
    ASSUME NEW c, NEW U \in [Handles -> Nat], CacheGood(c, U)
    PROVE  LET d == EvictOldest(c) IN CacheGood(d, U) /\ d.key = c.key /\ WithinCapacity(d)
<1> DEFINE X == {d \in CacheSet : CacheGood(d, U) /\ d.key = c.key}
           n == Len(c.lru)
           T == [q \in (1 .. n) \X X |-> EvictOne(q[2])]
<1>1. n \in Nat /\ c \in X
  BY DEF CacheGood, CacheSet
<1>2. \A d \in X : EvictOne(d) \in X
  <2> SUFFICES ASSUME NEW d \in X PROVE EvictOne(d) \in X
    OBVIOUS
  <2>1. CacheGood(d, U) /\ d.key = c.key
    OBVIOUS
  <2>2. CacheGood(EvictOne(d), U) /\ EvictOne(d).key = d.key
    BY <2>1, EvictOneGood
  <2> QED  BY <2>1, <2>2 DEF CacheGood
<1> HIDE DEF X
<1>3. T \in [(1 .. n) \X X -> X] /\ \A i \in 1 .. n, x \in X : T[<<i, x>>] = EvictOne(x)
  BY <1>2
<1> HIDE DEF T, n
<1>4. PICK g \in [0 .. n -> X] : g = UnfoldOver(n, c, T, g)
  <2>1. LoopOver(X, c, n, T)
    BY <1>1, <1>3 DEF LoopOver
  <2> QED  BY <2>1, FiniteRecursion
<1>5. g = UnfoldTurns(c, g)
  <2>1. \A i \in 0 .. n : UnfoldOver(n, c, T, g)[i] = UnfoldTurns(c, g)[i]
    <3> SUFFICES ASSUME NEW i \in 0 .. n PROVE UnfoldOver(n, c, T, g)[i] = UnfoldTurns(c, g)[i]
      OBVIOUS
    <3>1. i # 0 => i \in 1 .. n /\ i - 1 \in 0 .. n
      BY <1>1
    <3>2. i # 0 => g[i - 1] \in X
      BY <1>4, <3>1
    <3> QED  BY <1>3, <3>1, <3>2 DEF UnfoldOver, UnfoldTurns, n
  <2> QED  BY <1>4, <2>1 DEF UnfoldOver, UnfoldTurns, n
<1>6. PICK turn : turn = UnfoldTurns(c, turn) /\ EvictOldest(c) = turn[n]
  <2> DEFINE turn == CHOOSE x : x = UnfoldTurns(c, x)
  <2>1. turn = UnfoldTurns(c, turn)
    BY <1>5
  <2>2. EvictOldest(c) = turn[n]
    BY DEF EvictOldest, UnfoldTurns, n
  <2> QED  BY <2>1, <2>2
<1>7. turn[0] = c /\ \A i \in 1 .. n : turn[i] = EvictOne(turn[i - 1])
  <2>1. \A i \in 0 .. n : UnfoldTurns(c, turn)[i] = IF i = 0 THEN c ELSE EvictOne(turn[i - 1])
    BY DEF UnfoldTurns, n
  <2>2. 0 \in 0 .. n /\ \A i \in 1 .. n : i \in 0 .. n /\ i # 0
    BY <1>1
  <2> QED  BY <1>6, <2>1, <2>2
<1> DEFINE Left(i) == WithinCapacity(turn[i]) \/ Len(turn[i].lru) = n - i
           S == {i \in 0 .. n : turn[i] \in X /\ Left(i)}
<1>8. 0 \in S
  BY <1>1, <1>7 DEF n
<1>9. ASSUME NEW i \in 1 .. n, i - 1 \in S PROVE i \in S
  <2> DEFINE d == turn[i - 1]
  <2>1. i - 1 \in 0 .. n /\ d \in X /\ Left(i - 1) /\ turn[i] = EvictOne(d)
    BY <1>7, <1>9
  <2>2. CacheGood(d, U)
    BY <2>1 DEF X
  <2>3. turn[i] \in X
    BY <1>2, <2>1
  <2> HIDE DEF d
  <2>4. IF WithinCapacity(d) THEN turn[i] = d ELSE Len(turn[i].lru) = Len(d.lru) - 1
    BY <2>1, <2>2, EvictOneGood
  <2>5. Left(i)
    <3>1. CASE WithinCapacity(d)
      BY <2>4, <3>1
    <3>2. CASE ~ WithinCapacity(d)
      <4>1. Len(d.lru) = n - (i - 1)
        <5>1. WithinCapacity(d) \/ Len(d.lru) = n - (i - 1)
          BY <2>1 DEF d
        <5> QED  BY <3>2, <5>1
      <4>2. Len(turn[i].lru) = Len(d.lru) - 1
        BY <2>4, <3>2
      <4>3. Len(turn[i].lru) = n - i
        BY <1>1, <4>1, <4>2
      <4> QED  BY <4>3
    <3> QED  BY <3>1, <3>2
  <2> QED  BY <2>3, <2>5
<1>10. \A i \in 0 .. n : i \in S
  <2> HIDE DEF S
  <2> QED  BY <1>1, <1>8, <1>9, UpTo
<1>11. turn[n] \in X /\ Left(n)
  BY <1>1, <1>10
<1>12. CacheGood(turn[n], U) /\ turn[n].key = c.key
  BY <1>11 DEF X
<1>13. Len(turn[n].lru) = 0 => turn[n].lru = <<>>
  BY <1>12 DEF CacheGood, CacheSet
<1>14. WithinCapacity(turn[n])
  BY <1>1, <1>11, <1>13 DEF WithinCapacity
<1> QED  BY <1>6, <1>12, <1>14

\* A search finds the same whatever entry that is not in the table is written.
LEMMA SameLookup ==
    ASSUME NEW c \in CacheSet, NEW d, NEW L, TableHas(c, L), d.chains = c.chains,
           \A x \in L : d.key[x] = c.key[x], NEW key \in Nat
    PROVE  TableLookup(d, key) = TableLookup(c, key)
<1>1. Len(c.chains) \in Nat \ {0}
  BY DEF TableHas, CacheSet
<1>2. Bucket(key, Len(c.chains)) \in 1 .. Len(c.chains)
  BY <1>1, BucketRange
<1>3. c.chains[Bucket(key, Len(c.chains))] \subseteq L
  BY <1>2 DEF TableHas
<1>4. InChain(d, key) = InChain(c, key)
  BY <1>3 DEF InChain
<1> QED  BY <1>4 DEF TableLookup

\* A new entry, in the place of the one with its key or a further one.
LEMMA InsertHandleGood ==
    ASSUME NEW c, NEW U \in [Handles -> Nat], CacheGood(c, U), NEW h \in Handles, c.refs[h] = 0,
           NEW key \in CachedFiles
    PROVE  LET d == InsertHandle(c, h, key) IN
           /\ CacheGood(d, [U EXCEPT ![h] = 1]) /\ d.key = [c.key EXCEPT ![h] = key] /\ WithinCapacity(d)
<1> DEFINE V == [U EXCEPT ![h] = 1]
           L == Listed(c)
           S == {x \in Handles : c.refs[x] > 0}
           K == [c.key EXCEPT ![h] = key]
           R == [c.refs EXCEPT ![h] = 2]
           old == TableLookup(c, key)
           k == [c EXCEPT !.key = K]
           kr == [k EXCEPT !.refs = R]
           a == [kr EXCEPT !.usage = c.usage + 1]
           b == LruAppend(a, h)
           i == TableInsert(b, h)
           d == DropHandle(i, old)
<1>1. /\ c \in CacheSet /\ Once(c.lru) /\ KeysOnce(c, L) /\ c.n = Len(c.lru) /\ TableHas(c, L)
      /\ UsageGood(c) /\ CountsGood(c, U) /\ \A x \in L : c.key[x] \in CachedFiles
  BY DEF CacheGood, TableGood, ListGood
<1>2. /\ c.key \in [Handles -> Nat] /\ c.refs \in [Handles -> Nat] /\ c.usage \in Nat /\ key \in Nat
      /\ L \in SUBSET Handles /\ h # 0
  BY <1>1, CacheAssumption, HandlesFinite DEF CacheSet, Listed
<1>3. U[h] = 0 /\ h \notin L
  BY <1>1, <1>2 DEF CountsGood, Listed
<1>4. K \in [Handles -> Nat] /\ K[h] = key /\ \A x \in Handles : x # h => K[x] = c.key[x]
  BY <1>2
<1>5. R \in [Handles -> Nat] /\ R[h] = 2 /\ \A x \in Handles : x # h => R[x] = c.refs[x]
  BY <1>2
<1>6. [c EXCEPT !.key = K, !.refs = R, !.usage = c.usage + 1] = a
  OBVIOUS
<1>7. V \in [Handles -> Nat] /\ V[h] = 1 /\ \A x \in Handles : x # h => V[x] = U[x]
  OBVIOUS
<1> HIDE DEF K, R, V
<1>8. /\ k \in CacheSet /\ k.key = K /\ k.refs = c.refs /\ k.lru = c.lru /\ k.usage = c.usage
      /\ k.chains = c.chains /\ k.n = c.n
  BY <1>1, <1>4, PutKey
<1> HIDE DEF k
<1>9. /\ kr \in CacheSet /\ kr.key = K /\ kr.refs = R /\ kr.lru = c.lru /\ kr.usage = c.usage
      /\ kr.chains = c.chains /\ kr.n = c.n
  BY <1>5, <1>8, PutRefs
<1> HIDE DEF kr
<1>10. /\ a \in CacheSet /\ a.key = K /\ a.refs = R /\ a.lru = c.lru /\ a.usage = c.usage + 1
       /\ a.chains = c.chains /\ a.n = c.n
  BY <1>2, <1>9, PutUsage
<1> HIDE DEF a
<1>11. /\ b \in CacheSet /\ b.key = K /\ b.refs = R /\ b.usage = c.usage + 1
       /\ b.chains = c.chains /\ b.n = c.n /\ Len(c.lru) \in Nat /\ Len(b.lru) = Len(c.lru) + 1
       /\ Listed(b) = L \cup {h} /\ Once(b.lru)
  <2>1. Listed(a) = L
    BY <1>10 DEF Listed
  <2> HIDE DEF L
  <2> QED  BY <1>1, <1>3, <1>10, <2>1, LruAppendGood
<1> HIDE DEF b
<1>12. TableHas(b, L) /\ KeysOnce(b, L) /\ \A x \in L : b.key[x] \in CachedFiles /\ b.key[x] \in Nat
  <2>1. \A x \in L : b.key[x] = c.key[x]
    BY <1>2, <1>3, <1>4, <1>11
  <2>2. TableHas(b, L)
    BY <1>1, <1>11, <2>1 DEF TableHas
  <2> QED  BY <1>1, <1>2, <2>1, <2>2 DEF KeysOnce
<1>13. TableLookup(b, key) = old
  <2>1. \A x \in L : b.key[x] = c.key[x]
    BY <1>2, <1>3, <1>4, <1>11
  <2> HIDE DEF L
  <2> QED  BY <1>1, <1>2, <1>11, <2>1, SameLookup
<1>14. \/ old = 0 /\ \A x \in L : c.key[x] # key
       \/ old \in L /\ old # 0 /\ c.key[old] = key
  <2> HIDE DEF L
  <2> QED  BY <1>1, <1>2, LookupFinds
<1> HIDE DEF L, old
<1>15. /\ i \in CacheSet /\ TableHas(i, (L \ {old}) \cup {h}) /\ i.n = (IF old = 0 THEN b.n + 1 ELSE b.n)
       /\ i.key = b.key /\ i.refs = b.refs /\ i.lru = b.lru /\ i.usage = b.usage
  <2>1. b.key[h] = key
    BY <1>4, <1>11
  <2> QED  BY <1>2, <1>3, <1>11, <1>12, <1>13, <2>1, TableInsertGood
<1> HIDE DEF i
<1>16. UsageGood(i)
  <2>1. IsFiniteSet(S) /\ h \notin S
    BY HandlesFinite, FS_Subset
  <2>2. Cardinality(S \cup {h}) = Cardinality(S) + 1
    BY <2>1, FS_AddElement
  <2>3. {x \in Handles : i.refs[x] > 0} = S \cup {h}
    BY <1>5, <1>11, <1>15
  <2>4. c.usage = Cardinality(S)
    BY <1>1 DEF UsageGood
  <2> HIDE DEF S
  <2> QED  BY <1>11, <1>15, <2>2, <2>3, <2>4 DEF UsageGood
<1>17. Listed(i) = L \cup {h} /\ Once(i.lru)
  BY <1>11, <1>15 DEF Listed
<1>18. CountsGood(i, V)
  <2> SUFFICES ASSUME NEW x \in Handles PROVE i.refs[x] = V[x] + (IF Contains(i.lru, x) THEN 1 ELSE 0)
    BY DEF CountsGood
  <2>1. Contains(i.lru, x) <=> Contains(c.lru, x) \/ x = h
    BY <1>17 DEF Listed, L
  <2>2. CASE x = h
    BY <1>5, <1>7, <1>11, <1>15, <2>1, <2>2
  <2>3. CASE x # h
    BY <1>1, <1>5, <1>7, <1>11, <1>15, <2>1, <2>3 DEF CountsGood
  <2> QED  BY <2>2, <2>3
<1> DEFINE M == (L \ {old}) \cup {h}
<1>19. \A x, y \in M : i.key[x] = i.key[y] => x = y
  BY <1>1, <1>2, <1>3, <1>4, <1>11, <1>14, <1>15 DEF KeysOnce
<1>20. \A x \in M : i.key[x] \in CachedFiles
  BY <1>1, <1>2, <1>3, <1>4, <1>11, <1>15
<1>21. CacheGood(d, V) /\ d.key = K
  <2>1. CASE old = 0
    <3>1. d = i
      BY <2>1 DEF DropHandle
    <3>2. M = L \cup {h}
      BY <1>2, <2>1, HandlesFinite
    <3>3. i.n = Len(i.lru)
      BY <1>1, <1>11, <1>15, <2>1
    <3> HIDE DEF M, d
    <3>4. ListGood(i) /\ TableGood(i)
      BY <1>15, <1>17, <1>19, <1>20, <3>2, <3>3 DEF ListGood, TableGood, KeysOnce, M
    <3> QED  BY <1>11, <1>15, <1>16, <1>18, <3>1, <3>4 DEF CacheGood
  <2>2. CASE old # 0
    <3> DEFINE f == LruRemove(i, old)
               u == Unref(f, old)
    <3>1. d = u
      BY <2>2 DEF DropHandle
    <3>2. old \in L /\ old \in Handles /\ old # h /\ old \in Listed(i)
      BY <1>2, <1>3, <1>14, <1>17, <2>2
    <3>3. /\ f \in CacheSet /\ Once(f.lru) /\ f.key = i.key /\ f.refs = i.refs /\ f.usage = i.usage
          /\ f.chains = i.chains /\ f.n = i.n /\ Len(f.lru) = Len(i.lru) - 1
          /\ Listed(f) = Listed(i) \ {old}
      BY <1>15, <1>17, <3>2, LruRemoveGood
    <3> HIDE DEF f, d
    <3>4. UsageGood(f) /\ f.refs[old] > 0
      BY <1>7, <1>16, <1>18, <3>2, <3>3 DEF UsageGood, CountsGood, Listed
    <3>5. /\ u \in CacheSet /\ UsageGood(u)
          /\ u.key = f.key /\ u.lru = f.lru /\ u.chains = f.chains /\ u.n = f.n
          /\ u.refs = [f.refs EXCEPT ![old] = @ - 1]
      BY <3>2, <3>3, <3>4, UnrefGood
    <3> HIDE DEF u
    <3>6. Listed(u) = Listed(f) /\ Listed(u) = M
      <4>1. Listed(u) = Listed(f)
        BY <3>5 DEF Listed
      <4> QED  BY <1>17, <3>2, <3>3, <4>1
    <3>7. CountsGood(u, V)
      <4>1. u.refs = [i.refs EXCEPT ![old] = @ - 1] /\ Listed(u) = Listed(i) \ {old}
        BY <3>3, <3>5, <3>6
      <4> HIDE DEF M
      <4> QED  BY <1>7, <1>15, <1>18, <3>2, <4>1, CountsDrop
    <3>8. TableHas(u, M) /\ u.n = Len(u.lru)
      <4>1. u.n = Len(u.lru)
        BY <1>1, <1>11, <1>15, <2>2, <3>3, <3>5
      <4> HIDE DEF M
      <4>2. TableHas(i, M)
        BY <1>15 DEF M
      <4> QED  BY <3>3, <3>5, <4>1, <4>2 DEF TableHas
    <3> HIDE DEF M
    <3>9. ListGood(u) /\ TableGood(u)
      BY <1>19, <1>20, <3>3, <3>5, <3>6, <3>8 DEF ListGood, TableGood, KeysOnce
    <3> QED  BY <1>11, <1>15, <3>1, <3>3, <3>5, <3>7, <3>9 DEF CacheGood
  <2> QED  BY <2>1, <2>2
<1> HIDE DEF d
<1>22. InsertHandle(c, h, key) = EvictOldest(d)
  BY <1>6 DEF InsertHandle, d, i, b, old, K, R
<1>23. CacheGood(EvictOldest(d), V) /\ EvictOldest(d).key = d.key /\ WithinCapacity(EvictOldest(d))
  BY <1>7, <1>21, EvictOldestGood
<1> QED  BY <1>21, <1>22, <1>23 DEF V, K

\* The same, as the step of a reader needs it.
FirstUse(U, h) == [U EXCEPT ![h] = 1]
NewKey(keys, h, key) == [keys EXCEPT ![h] = key]

LEMMA InsertedGood ==
    ASSUME NEW c, NEW U, U \in [Handles -> Nat], CacheGood(c, U), NEW h, h \in Handles, c.refs[h] = 0,
           NEW key, key \in CachedFiles, NEW d, d = InsertHandle(c, h, key)
    PROVE  CacheGood(d, FirstUse(U, h)) /\ d.key = NewKey(c.key, h, key) /\ WithinCapacity(d)
<1> DEFINE e == InsertHandle(c, h, key)
<1>1. CacheGood(e, [U EXCEPT ![h] = 1]) /\ e.key = [c.key EXCEPT ![h] = key] /\ WithinCapacity(e)
  BY InsertHandleGood
<1> HIDE DEF e
<1>2. d = e
  BY DEF e
<1> QED  BY <1>1, <1>2 DEF FirstUse, NewKey

\* A search takes a reference and makes the entry the newest one.
LEMMA TouchedGood ==
    ASSUME NEW c, NEW U \in [Handles -> Nat], CacheGood(c, U), NEW h \in Listed(c)
    PROVE  LET d == LruAppend(LruRemove([c EXCEPT !.refs = [c.refs EXCEPT ![h] = @ + 1]], h), h) IN
           /\ CacheGood(d, [U EXCEPT ![h] = @ + 1]) /\ d.key = c.key /\ d.usage = c.usage
           /\ c.lru # <<>>
<1> DEFINE V == [U EXCEPT ![h] = @ + 1]
           L == Listed(c)
           R == [c.refs EXCEPT ![h] = @ + 1]
           e == [c EXCEPT !.refs = R]
           f == LruRemove(e, h)
           d == LruAppend(f, h)
<1>1. /\ c \in CacheSet /\ Once(c.lru) /\ KeysOnce(c, L) /\ c.n = Len(c.lru) /\ TableHas(c, L)
      /\ UsageGood(c) /\ CountsGood(c, U) /\ \A x \in L : c.key[x] \in CachedFiles
  BY DEF CacheGood, TableGood, ListGood
<1>2. h \in Handles /\ c.refs \in [Handles -> Nat] /\ c.lru # <<>>
  BY <1>1 DEF Listed, Contains, CacheSet
<1>3. R \in [Handles -> Nat] /\ \A x \in Handles : R[x] = IF x = h THEN c.refs[x] + 1 ELSE c.refs[x]
  BY <1>2
<1>4. V \in [Handles -> Nat] /\ \A x \in Handles : V[x] = IF x = h THEN U[x] + 1 ELSE U[x]
  BY <1>2
<1> HIDE DEF R, V
<1>5. /\ e \in CacheSet /\ e.key = c.key /\ e.refs = R /\ e.lru = c.lru /\ e.usage = c.usage
      /\ e.chains = c.chains /\ e.n = c.n
  BY <1>1, <1>3, PutRefs
<1> HIDE DEF e
<1>6. Once(e.lru) /\ Listed(e) = L
  BY <1>1, <1>5 DEF Listed
<1>7. /\ f \in CacheSet /\ Once(f.lru) /\ f.key = e.key /\ f.refs = e.refs /\ f.usage = e.usage
      /\ f.chains = e.chains /\ f.n = e.n /\ Len(e.lru) \in Nat /\ Len(f.lru) = Len(e.lru) - 1
      /\ Listed(f) = Listed(e) \ {h}
  BY <1>5, <1>6, LruRemoveGood
<1> HIDE DEF f
<1>8. /\ d \in CacheSet /\ Once(d.lru) /\ d.key = f.key /\ d.refs = f.refs /\ d.usage = f.usage
      /\ d.chains = f.chains /\ d.n = f.n /\ Len(d.lru) = Len(f.lru) + 1
      /\ Listed(d) = Listed(f) \cup {h}
  BY <1>2, <1>7, LruAppendGood
<1> HIDE DEF d
<1>9. Listed(d) = L /\ d.key = c.key /\ d.refs = R /\ d.usage = c.usage /\ d.n = Len(d.lru)
  BY <1>1, <1>5, <1>6, <1>7, <1>8
<1>10. UsageGood(d)
  <2>1. {x \in Handles : d.refs[x] > 0} = {x \in Handles : c.refs[x] > 0}
    <3>1. c.refs[h] > 0
      BY <1>1, <1>2 DEF CountsGood, Listed
    <3>2. ASSUME NEW x \in Handles PROVE d.refs[x] > 0 <=> c.refs[x] > 0
      <4>1. d.refs[x] = IF x = h THEN c.refs[x] + 1 ELSE c.refs[x]
        BY <1>3, <1>9
      <4>2. c.refs[x] \in Nat
        BY <1>2
      <4>3. CASE x = h
        BY <3>1, <4>1, <4>2, <4>3
      <4>4. CASE x # h
        BY <4>1, <4>4
      <4> QED  BY <4>3, <4>4
    <3> QED  BY <3>2
  <2> QED  BY <1>1, <1>9, <2>1 DEF UsageGood
<1>11. CountsGood(d, V)
  <2>1. \A x \in Handles : Contains(d.lru, x) <=> Contains(c.lru, x)
    BY <1>9 DEF Listed
  <2> SUFFICES ASSUME NEW x \in Handles
               PROVE  d.refs[x] = V[x] + (IF Contains(d.lru, x) THEN 1 ELSE 0)
    BY DEF CountsGood
  <2>2. c.refs[x] = U[x] + (IF Contains(c.lru, x) THEN 1 ELSE 0)
    BY <1>1 DEF CountsGood
  <2>3. /\ d.refs[x] = IF x = h THEN c.refs[x] + 1 ELSE c.refs[x]
        /\ V[x] = IF x = h THEN U[x] + 1 ELSE U[x]
    BY <1>3, <1>4, <1>9
  <2>4. c.refs[x] \in Nat /\ U[x] \in Nat /\ (Contains(d.lru, x) <=> Contains(c.lru, x))
    BY <1>2, <2>1
  <2> HIDE DEF Contains
  <2> QED  BY <2>2, <2>3, <2>4
<1>12. TableHas(d, L)
  BY <1>1, <1>5, <1>7, <1>8 DEF TableHas
<1>13. CacheGood(d, V)
  <2> HIDE DEF L
  <2> QED  BY <1>1, <1>8, <1>9, <1>10, <1>11, <1>12 DEF CacheGood, ListGood, TableGood, KeysOnce
<1> QED  BY <1>2, <1>9, <1>13 DEF d, f, e, R, V

\* A reader lets an entry go, which may be in the list or not.
LEMMA ReleasedGood ==
    ASSUME NEW c, NEW U \in [Handles -> Nat], CacheGood(c, U), NEW h \in Handles, U[h] > 0
    PROVE  LET d == Unref(c, h) IN
           /\ CacheGood(d, [U EXCEPT ![h] = @ - 1]) /\ d.key = c.key /\ d.usage <= c.usage
           /\ d.lru = c.lru
<1> DEFINE V == [U EXCEPT ![h] = @ - 1]
           L == Listed(c)
           d == Unref(c, h)
<1>1. /\ c \in CacheSet /\ Once(c.lru) /\ KeysOnce(c, L) /\ c.n = Len(c.lru) /\ TableHas(c, L)
      /\ UsageGood(c) /\ CountsGood(c, U) /\ \A x \in L : c.key[x] \in CachedFiles
  BY DEF CacheGood, TableGood, ListGood
<1>2. c.refs \in [Handles -> Nat] /\ c.refs[h] > 0
  <2>1. c.refs \in [Handles -> Nat]
    BY <1>1 DEF CacheSet
  <2>2. c.refs[h] = U[h] + (IF Contains(c.lru, h) THEN 1 ELSE 0)
    BY <1>1 DEF CountsGood
  <2>3. U[h] \in Nat
    OBVIOUS
  <2> QED  BY <2>1, <2>2, <2>3
<1>3. V \in [Handles -> Nat] /\ \A x \in Handles : V[x] = IF x = h THEN U[x] - 1 ELSE U[x]
  OBVIOUS
<1> HIDE DEF V
<1>4. /\ d \in CacheSet /\ UsageGood(d)
      /\ d.key = c.key /\ d.lru = c.lru /\ d.chains = c.chains /\ d.n = c.n
      /\ d.refs = [c.refs EXCEPT ![h] = @ - 1] /\ d.usage <= c.usage
  BY <1>1, <1>2, UnrefGood
<1> HIDE DEF d
<1>5. Listed(d) = L
  BY <1>4 DEF Listed
<1>6. CountsGood(d, V)
  <2>1. \A x \in Handles : d.refs[x] = IF x = h THEN c.refs[x] - 1 ELSE c.refs[x]
    BY <1>2, <1>4
  <2> QED  BY <1>1, <1>2, <1>3, <1>4, <2>1 DEF CountsGood
<1>7. TableHas(d, L)
  BY <1>1, <1>4 DEF TableHas
<1>8. CacheGood(d, V)
  <2> HIDE DEF L
  <2> QED  BY <1>1, <1>4, <1>5, <1>6, <1>7 DEF CacheGood, ListGood, TableGood, KeysOnce
<1> QED  BY <1>4, <1>8 DEF d, V

----------------------------------------------------------------------------
(* The readers, and the steps.                                             *)

ReaderSet == [at : {"idle", "opening", "using"}, key : Nat, h : Handles \cup {0}]
UsesOf(f) == [h \in Handles |-> Cardinality({t \in Readers : f[t].h = h})]

\* A reader holds what it uses and nothing else, and the handle still has the key it looked up.
ReaderGood(r, keys) ==
    \/ r = IdleReader
    \/ r.at = "opening" /\ r.h = 0 /\ r.key \in CachedFiles
    \/ r.at = "using" /\ r.h \in Handles /\ keys[r.h] = r.key
ReadersGood(f, keys) ==
    f \in [Readers -> ReaderSet] /\ \A t \in Readers : ReaderGood(f[t], keys)

CacheInv ==
    CacheGood(Cache, UsesOf(reader)) /\ WithinCapacity(Cache) /\ ReadersGood(reader, keyOf)

LEMMA UsesType ==
    ASSUME NEW f
    PROVE  UsesOf(f) \in [Handles -> Nat]
<1> SUFFICES ASSUME NEW h \in Handles PROVE Cardinality({t \in Readers : f[t].h = h}) \in Nat
  BY DEF UsesOf
<1> DEFINE T == {t \in Readers : f[t].h = h}
<1>1. IsFiniteSet(T)
  BY CacheAssumption, FS_Subset
<1> HIDE DEF T
<1>2. Cardinality(T) \in Nat
  BY <1>1, FS_CardinalityType
<1> QED  BY <1>2 DEF T

\* One reader takes a handle, or lets one go, or neither.
More(U, h) == [U EXCEPT ![h] = @ + 1]
Less(U, h) == [U EXCEPT ![h] = @ - 1]
Moves(f, g, t, r) ==
    /\ f \in [Readers -> ReaderSet] /\ t \in Readers /\ r \in ReaderSet
    /\ g = [f EXCEPT ![t] = r]
Held(f, h) == {s \in Readers : f[s].h = h}

LEMMA UsesHeld ==
    ASSUME NEW f, NEW h \in Handles
    PROVE  UsesOf(f)[h] = Cardinality(Held(f, h)) /\ IsFiniteSet(Held(f, h)) /\ UsesOf(f)[h] \in Nat
<1>1. IsFiniteSet(Held(f, h))
  BY CacheAssumption, FS_Subset DEF Held
<1>2. UsesOf(f)[h] = Cardinality(Held(f, h))
  BY DEF UsesOf, Held
<1> QED  BY <1>1, <1>2, FS_CardinalityType

LEMMA MovesOne ==
    ASSUME NEW f, NEW g, NEW t, NEW r, Moves(f, g, t, r)
    PROVE  /\ t \in Readers /\ f[t] \in ReaderSet /\ r \in ReaderSet
           /\ \A s \in Readers : g[s] = IF s = t THEN r ELSE f[s]
           /\ \A h \in Handles : h # r.h /\ h # f[t].h => UsesOf(g)[h] = UsesOf(f)[h]
<1>1. /\ t \in Readers /\ f[t] \in ReaderSet /\ r \in ReaderSet
      /\ \A s \in Readers : g[s] = IF s = t THEN r ELSE f[s]
  BY DEF Moves
<1>2. ASSUME NEW h \in Handles, h # r.h, h # f[t].h PROVE UsesOf(g)[h] = UsesOf(f)[h]
  <2>1. Held(g, h) = Held(f, h)
    BY <1>1, <1>2 DEF Held
  <2> QED  BY <2>1, UsesHeld
<1> QED  BY <1>1, <1>2

LEMMA UsesSame ==
    ASSUME NEW f, NEW g, NEW t, NEW r, Moves(f, g, t, r), r.h = f[t].h
    PROVE  UsesOf(g) = UsesOf(f)
<1>1. ASSUME NEW h \in Handles PROVE UsesOf(g)[h] = UsesOf(f)[h]
  <2>1. Held(g, h) = Held(f, h)
    BY MovesOne DEF Held
  <2> QED  BY <2>1, UsesHeld
<1> QED  BY <1>1, UsesType

LEMMA UsesMore ==
    ASSUME NEW f, NEW g, NEW t, NEW r, Moves(f, g, t, r), f[t].h = 0, r.h # 0
    PROVE  UsesOf(g) = More(UsesOf(f), r.h)
<1>1. r.h \in Handles
  BY MovesOne DEF ReaderSet
<1>2. t \notin Held(f, r.h) /\ Held(g, r.h) = Held(f, r.h) \cup {t}
  BY MovesOne DEF Held
<1>3. UsesOf(g)[r.h] = UsesOf(f)[r.h] + 1
  BY <1>1, <1>2, UsesHeld, FS_AddElement
<1>4. \A h \in Handles : h # r.h => UsesOf(g)[h] = UsesOf(f)[h]
  BY MovesOne, HandlesFinite
<1>5. UsesOf(g) \in [Handles -> Nat] /\ UsesOf(f) \in [Handles -> Nat]
  BY UsesType
<1> QED  BY <1>1, <1>3, <1>4, <1>5 DEF More

LEMMA UsesLess ==
    ASSUME NEW f, NEW g, NEW t, NEW r, Moves(f, g, t, r), r.h = 0, f[t].h # 0
    PROVE  UsesOf(f)[f[t].h] > 0 /\ UsesOf(g) = Less(UsesOf(f), f[t].h)
<1> DEFINE x == f[t].h
<1>1. x \in Handles
  BY MovesOne DEF ReaderSet
<1>2. t \in Held(f, x) /\ Held(g, x) = Held(f, x) \ {t}
  BY MovesOne DEF Held
<1> HIDE DEF x
<1>3. UsesOf(g)[x] = UsesOf(f)[x] - 1
  BY <1>1, <1>2, UsesHeld, FS_RemoveElement
<1>4. \A h \in Handles : h # x => UsesOf(g)[h] = UsesOf(f)[h]
  BY MovesOne, HandlesFinite DEF x
<1>5. UsesOf(g) \in [Handles -> Nat] /\ UsesOf(f) \in [Handles -> Nat]
  BY UsesType
<1>6. UsesOf(f)[x] > 0
  BY <1>1, <1>3, <1>5
<1>7. UsesOf(g) = Less(UsesOf(f), x)
  BY <1>1, <1>3, <1>4, <1>5 DEF Less
<1> QED  BY <1>6, <1>7 DEF x

\* There is memory for one more entry while a reader holds none: the others hold one each, and the
\* list has no key twice.
LEMMA FreeHandle ==
    ASSUME NEW c, NEW f \in [Readers -> ReaderSet], CacheGood(c, UsesOf(f)),
           NEW t \in Readers, f[t].h = 0
    PROVE  \E x \in Handles : c.refs[x] = 0 /\ \A y \in Handles : c.refs[y] = 0 => x <= y
<1> DEFINE L == Listed(c)
           B == {x \in Handles : UsesOf(f)[x] > 0}
           others == Readers \ {t}
<1>1. IsFiniteSet(L) /\ IsFiniteSet(B) /\ IsFiniteSet(others) /\ IsFiniteSet(CachedFiles)
  BY HandlesFinite, CacheAssumption, FS_Subset DEF Listed
<1>2. Cardinality(others) = Cardinality(Readers) - 1
  BY CacheAssumption, FS_RemoveElement
<1>3. Cardinality(L) <= Cardinality(CachedFiles)
  <2> SUFFICES ASSUME Cardinality(CachedFiles) < Cardinality(L) PROVE FALSE
    BY <1>1, FS_CardinalityType
  <2> DEFINE key == [x \in L |-> c.key[x]]
  <2>1. key \in [L -> CachedFiles]
    BY DEF CacheGood, ListGood
  <2> HIDE DEF key, L
  <2>2. \E x, y \in L : x # y /\ key[x] = key[y]
    BY <1>1, <2>1, FS_PigeonHole
  <2> QED  BY <2>2 DEF key, L, CacheGood, ListGood, KeysOnce
<1>4. Cardinality(B) <= Cardinality(others)
  <2> SUFFICES ASSUME Cardinality(others) < Cardinality(B) PROVE FALSE
    BY <1>1, FS_CardinalityType
  <2> DEFINE holder == [x \in B |-> CHOOSE s \in Readers : f[s].h = x]
  <2>1. ASSUME NEW x \in B PROVE \E s \in Readers : f[s].h = x
    <3>1. CASE \A s \in Readers : f[s].h # x
      <4>1. {s \in Readers : f[s].h = x} = {}
        BY <3>1
      <4>2. UsesOf(f)[x] = 0
        BY <4>1, FS_EmptySet DEF UsesOf
      <4> QED  BY <4>2
    <3> QED  BY <3>1
  <2>2. \A x \in B : holder[x] \in Readers /\ f[holder[x]].h = x
    BY <2>1
  <2>3. holder \in [B -> others]
    <3> SUFFICES ASSUME NEW x \in B PROVE holder[x] \in others
      OBVIOUS
    <3> HIDE DEF holder
    <3> QED  BY <2>2, HandlesFinite
  <2> HIDE DEF holder, B
  <2>4. \E x, y \in B : x # y /\ holder[x] = holder[y]
    BY <1>1, <2>3, FS_PigeonHole
  <2> QED  BY <2>2, <2>4
<1> DEFINE Free == {x \in Handles : c.refs[x] = 0}
<1>5. Free # {}
  <2> SUFFICES ASSUME Free = {} PROVE FALSE
    OBVIOUS
  <2>1. Handles = L \cup B
    <3> SUFFICES ASSUME NEW x \in Handles, x \notin L PROVE x \in B
      BY DEF Listed
    <3>1. c.refs[x] = UsesOf(f)[x]
      <4>1. c.refs[x] = UsesOf(f)[x] + 0 /\ UsesOf(f)[x] \in Nat
        BY UsesType DEF CacheGood, CountsGood, Listed
      <4> QED  BY <4>1
    <3>2. c.refs[x] # 0 /\ UsesOf(f)[x] \in Nat
      BY UsesType
    <3> QED  BY <3>1, <3>2
  <2> HIDE DEF L, B, Free, others
  <2>2. Cardinality(L \cup B) = Cardinality(L) + Cardinality(B) - Cardinality(L \cap B)
    BY <1>1, FS_Union
  <2>3. Cardinality(L \cap B) \in Nat /\ Cardinality(L) \in Nat /\ Cardinality(B) \in Nat
    BY <1>1, FS_Intersection, FS_CardinalityType
  <2> QED  BY <1>2, <1>3, <1>4, <2>1, <2>2, <2>3, HandlesFinite
<1>6. \E x \in Free : \A y \in Free : x <= y
  <2>1. Free \in SUBSET Nat
    BY HandlesFinite
  <2> HIDE DEF Free
  <2> QED  BY <1>5, <2>1, LeastNumber
<1> QED  BY <1>6

LEMMA StateWritten ==
    ASSUME NEW d \in CacheSet, SetCache(d)
    PROVE  Cache' = d /\ keyOf' = d.key
<1>1. Cache' = [key |-> d.key, refs |-> d.refs, lru |-> d.lru, usage |-> d.usage, chains |-> d.chains, n |-> d.n]
  BY DEF Cache, SetCache
<1> QED  BY <1>1, CacheParts DEF SetCache

LEMMA CacheStep ==
    ASSUME NEW d, SetCache(d), CacheGood(d, UsesOf(reader')), WithinCapacity(d), ReadersGood(reader', d.key)
    PROVE  CacheInv'
<1>1. Cache' = d /\ keyOf' = d.key
  BY StateWritten DEF CacheGood
<1> QED  BY <1>1 DEF CacheInv

\* One reader moves; the others keep their handles and the handles their keys.
LEMMA ReaderMoves ==
    ASSUME NEW f, NEW keys, ReadersGood(f, keys), NEW t \in Readers, NEW r \in ReaderSet, ReaderGood(r, keys)
    PROVE  ReadersGood([f EXCEPT ![t] = r], keys)
<1> DEFINE g == [f EXCEPT ![t] = r]
<1>1. f \in [Readers -> ReaderSet]
  BY DEF ReadersGood
<1>2. g \in [Readers -> ReaderSet] /\ \A s \in Readers : g[s] = IF s = t THEN r ELSE f[s]
  BY <1>1
<1> HIDE DEF g
<1>3. ReadersGood(g, keys)
  BY <1>2 DEF ReadersGood
<1> QED  BY <1>3 DEF g

LEMMA SameCache == (UNCHANGED <<refs, keyOf, lru, usage, buckets, elems>>) => SetCache(Cache)
  BY DEF SetCache, Cache

LEMMA InvType ==
    ASSUME CacheInv
    PROVE  /\ Cache \in CacheSet /\ reader \in [Readers -> ReaderSet]
           /\ UsesOf(reader) \in [Handles -> Nat]
           /\ \A t \in Readers : ReaderGood(reader[t], keyOf)
           /\ Cache.key = keyOf /\ Cache.refs = refs
           /\ TableHas(Cache, Listed(Cache)) /\ Listed(Cache) \subseteq Handles
<1>1. Cache \in CacheSet /\ TableHas(Cache, Listed(Cache))
  BY DEF CacheInv, CacheGood, TableGood
<1>2. reader \in [Readers -> ReaderSet] /\ \A t \in Readers : ReaderGood(reader[t], keyOf)
  BY DEF CacheInv, ReadersGood
<1>3. Cache.key = keyOf /\ Cache.refs = refs
  BY DEF Cache
<1> QED  BY <1>1, <1>2, <1>3, UsesType DEF Listed

LEMMA CacheInitGood ==
    ASSUME CacheInit
    PROVE  CacheInv
<1>1. Cache = [key |-> [h \in Handles |-> 0], refs |-> [h \in Handles |-> 0], lru |-> <<>>, usage |-> 0,
               chains |-> [b \in 1 .. FirstLength |-> {}], n |-> 0]
  BY DEF CacheInit, Cache
<1>2. FirstLength \in Nat \ {0}
  BY CacheAssumption
<1>3. [b \in 1 .. FirstLength |-> {}] \in Seq(SUBSET Handles) /\ Len([b \in 1 .. FirstLength |-> {}]) = FirstLength
  <2> DEFINE chains == [b \in 1 .. FirstLength |-> {}]
  <2>1. chains \in [1 .. FirstLength -> SUBSET Handles]
    OBVIOUS
  <2> HIDE DEF chains
  <2>2. chains \in Seq(SUBSET Handles) /\ Len(chains) = FirstLength
    BY <1>2, <2>1, IsASeq, LenProperties
  <2> QED  BY <2>2 DEF chains
<1>4. Cache \in CacheSet
  BY <1>1, <1>3 DEF CacheSet
<1>5. Listed(Cache) = {}
  BY <1>1 DEF Listed, Contains
<1>6. ListGood(Cache)
  <2>1. Once(Cache.lru)
    <3>1. Cache.lru = <<>>
      BY <1>1
    <3> QED  BY <3>1 DEF Once
  <2>2. KeysOnce(Cache, {})
    BY DEF KeysOnce
  <2> QED  BY <1>5, <2>1, <2>2 DEF ListGood
<1>7. TableGood(Cache)
  <2>1. Cache.n = Len(Cache.lru)
    BY <1>1
  <2>2. Cache.chains = [b \in 1 .. FirstLength |-> {}]
    BY <1>1
  <2> QED  BY <1>2, <1>3, <1>5, <2>1, <2>2 DEF TableGood, TableHas
<1>8. UsageGood(Cache)
  <2>1. {h \in Handles : Cache.refs[h] > 0} = {} /\ Cache.usage = 0
    BY <1>1
  <2> QED  BY <2>1, FS_EmptySet DEF UsageGood
<1>9. CountsGood(Cache, UsesOf(reader))
  <2> SUFFICES ASSUME NEW h \in Handles
               PROVE  Cache.refs[h] = UsesOf(reader)[h] + (IF Contains(Cache.lru, h) THEN 1 ELSE 0)
    BY DEF CountsGood
  <2>1. {t \in Readers : reader[t].h = h} = {}
    BY HandlesFinite DEF CacheInit, IdleReader
  <2>2. UsesOf(reader)[h] = 0
    BY <2>1, FS_EmptySet DEF UsesOf
  <2>3. ~Contains(Cache.lru, h) /\ Cache.refs[h] = 0
    BY <1>1, <1>5 DEF Listed
  <2> QED  BY <2>2, <2>3
<1>10. WithinCapacity(Cache)
  BY <1>1 DEF WithinCapacity
<1>11. ReadersGood(reader, keyOf)
  BY DEF CacheInit, ReadersGood, ReaderSet, ReaderGood, IdleReader
<1> QED  BY <1>4, <1>6, <1>7, <1>8, <1>9, <1>10, <1>11 DEF CacheInv, CacheGood

LEMMA LookupTableGood ==
    ASSUME CacheInv, NEW t \in Readers, NEW k \in CachedFiles, LookupTable(t, k)
    PROVE  CacheInv'
<1> DEFINE h == TableLookup(Cache, k)
<1>1. k \in Nat /\ reader[t] = IdleReader /\ reader[t].h = 0
  BY CacheAssumption DEF LookupTable, IdleReader
<1>2. \/ h = 0
      \/ h \in Listed(Cache) /\ h # 0 /\ Cache.key[h] = k
  BY <1>1, InvType, LookupFinds
<1>3. CASE h = 0
  <2> DEFINE r == [at |-> "opening", key |-> k, h |-> 0]
  <2>1. reader' = [reader EXCEPT ![t] = r] /\ SetCache(Cache)
    BY <1>3, SameCache DEF LookupTable
  <2>2. r \in ReaderSet /\ r.h = reader[t].h /\ ReaderGood(r, keyOf)
    BY <1>1 DEF ReaderSet, ReaderGood
  <2> HIDE DEF r, h
  <2>3. UsesOf(reader') = UsesOf(reader) /\ ReadersGood(reader', keyOf)
    <3>1. UsesOf(reader') = UsesOf(reader)
      BY <2>1, <2>2, InvType, UsesSame DEF Moves
    <3> QED  BY <2>1, <2>2, <3>1, ReaderMoves DEF CacheInv
  <2> QED  BY <2>1, <2>3, InvType, CacheStep DEF CacheInv
<1>4. CASE h # 0
  <2> DEFINE r == [at |-> "using", key |-> k, h |-> h]
             d == LruAppend(LruRemove([Cache EXCEPT !.refs = [Cache.refs EXCEPT ![h] = @ + 1]], h), h)
  <2>1. reader' = [reader EXCEPT ![t] = r] /\ SetCache(d)
    BY <1>4, InvType DEF LookupTable
  <2>2. h \in Listed(Cache) /\ h \in Handles /\ keyOf[h] = k
    BY <1>2, <1>4, InvType
  <2> HIDE DEF h
  <2>3. r \in ReaderSet /\ r.h = h /\ ReaderGood(r, keyOf)
    BY <1>1, <2>2 DEF ReaderSet, ReaderGood
  <2> HIDE DEF r
  <2>4. UsesOf(reader') = [UsesOf(reader) EXCEPT ![h] = @ + 1]
    <3>1. Moves(reader, reader', t, r)
      BY <2>1, <2>3, InvType DEF Moves
    <3>2. UsesOf(reader') = More(UsesOf(reader), h)
      BY <1>1, <1>4, <2>3, <3>1, UsesMore
    <3> QED  BY <3>2 DEF More
  <2>5. ReadersGood(reader', keyOf)
    BY <2>1, <2>3, ReaderMoves DEF CacheInv
  <2>6. /\ CacheGood(d, [UsesOf(reader) EXCEPT ![h] = @ + 1]) /\ d.key = Cache.key
        /\ d.usage = Cache.usage /\ Cache.lru # <<>>
    BY <2>2, InvType, TouchedGood DEF CacheInv
  <2> HIDE DEF d
  <2>7. WithinCapacity(d)
    BY <2>6 DEF CacheInv, WithinCapacity
  <2> QED  BY <2>1, <2>4, <2>5, <2>6, <2>7, InvType, CacheStep
<1> QED  BY <1>3, <1>4

\* A reader that holds nothing and stops.
LEMMA OpenFailsGood ==
    ASSUME CacheInv, NEW t \in Readers, OpenFails(t)
    PROVE  CacheInv'
<1>1. reader' = [reader EXCEPT ![t] = IdleReader] /\ SetCache(Cache)
  BY SameCache DEF OpenFails
<1>2. reader[t].h = 0
  BY InvType DEF OpenFails, ReaderGood, IdleReader
<1>3. IdleReader \in ReaderSet /\ IdleReader.h = reader[t].h /\ ReaderGood(IdleReader, keyOf)
  BY <1>2 DEF ReaderSet, ReaderGood, IdleReader
<1>4. UsesOf(reader') = UsesOf(reader) /\ ReadersGood(reader', keyOf)
  <2>1. UsesOf(reader') = UsesOf(reader)
    BY <1>1, <1>3, InvType, UsesSame DEF Moves
  <2> QED  BY <1>1, <1>3, <2>1, ReaderMoves DEF CacheInv
<1> QED  BY <1>1, <1>4, InvType, CacheStep DEF CacheInv

LEMMA InsertTableGood ==
    ASSUME CacheInv, NEW t \in Readers, InsertTable(t)
    PROVE  CacheInv'
<1> DEFINE h == CHOOSE x \in Handles : refs[x] = 0 /\ \A y \in Handles : refs[y] = 0 => x <= y
           key == reader[t].key
           r == [at |-> "using", key |-> key, h |-> h]
           d == InsertHandle(Cache, h, key)
           U == UsesOf(reader)
<1>1. reader[t] \in ReaderSet /\ reader[t].at = "opening" /\ reader[t].h = 0 /\ key \in CachedFiles
  BY InvType DEF InsertTable, ReaderGood, IdleReader
<1>2. h \in Handles /\ refs[h] = 0
  <2>1. \E x \in Handles : refs[x] = 0 /\ \A y \in Handles : refs[y] = 0 => x <= y
    BY <1>1, InvType, FreeHandle DEF CacheInv
  <2> QED  BY <2>1
<1>3. SetCache(d) /\ reader' = [reader EXCEPT ![t] = r]
  BY InvType DEF InsertTable
<1> HIDE DEF h
<1>4. r = [at |-> "using", key |-> key, h |-> h]
  OBVIOUS
<1>5. r \in ReaderSet /\ r.h = h /\ r.key = key /\ r.at = "using" /\ h # 0
  BY <1>1, <1>2, <1>4, HandlesFinite DEF ReaderSet
<1> HIDE DEF r
<1>6. U \in [Handles -> Nat] /\ U[h] = 0
  <2>1. U \in [Handles -> Nat] /\ refs[h] = U[h] + (IF Contains(Cache.lru, h) THEN 1 ELSE 0)
    BY <1>2, InvType DEF CacheInv, CacheGood, CountsGood
  <2> HIDE DEF U
  <2>2. U[h] \in Nat
    BY <1>2, <2>1
  <2> QED  BY <1>2, <2>1, <2>2
<1>7. UsesOf(reader') = [U EXCEPT ![h] = 1]
  <2>1. Moves(reader, reader', t, r)
    BY <1>3, <1>5, InvType DEF Moves
  <2>2. UsesOf(reader') = More(U, h)
    BY <1>1, <1>5, <2>1, UsesMore
  <2> HIDE DEF U
  <2> QED  BY <1>2, <1>6, <2>2 DEF More
<1>8. CacheGood(d, [U EXCEPT ![h] = 1]) /\ d.key = [keyOf EXCEPT ![h] = key] /\ WithinCapacity(d)
  <2>1. CacheGood(Cache, U) /\ Cache.key = keyOf /\ Cache.refs[h] = 0
    BY <1>2, InvType DEF CacheInv
  <2> HIDE DEF U, key, d
  <2>2. InsertHandle(Cache, h, key) = d
    BY DEF d
  <2>3. Cache.refs[h] = 0 /\ h \in Handles /\ key \in CachedFiles
    BY <1>1, <1>2, <2>1
  <2>4. CacheGood(d, FirstUse(U, h)) /\ d.key = NewKey(Cache.key, h, key) /\ WithinCapacity(d)
    BY <1>6, <2>1, <2>2, <2>3, InsertedGood
  <2> QED  BY <2>1, <2>4 DEF FirstUse, NewKey
<1> HIDE DEF d
<1>9. ReadersGood(reader', d.key)
  <2>1. reader \in [Readers -> ReaderSet] /\ \A s \in Readers : ReaderGood(reader[s], keyOf)
    BY InvType
  <2>2. reader' \in [Readers -> ReaderSet] /\ \A s \in Readers : reader'[s] = IF s = t THEN r ELSE reader[s]
    BY <1>3, <1>5, <2>1
  <2>3. ASSUME NEW s \in Readers PROVE reader[s].h # h
    <3>1. CASE reader[s].h = h
      <4>1. s \in {x \in Readers : reader[x].h = h}
        BY <3>1
      <4>2. IsFiniteSet({x \in Readers : reader[x].h = h})
        BY CacheAssumption, FS_Subset
      <4>3. Cardinality({x \in Readers : reader[x].h = h}) = 0
        BY <1>2, <1>6 DEF UsesOf
      <4> QED  BY <4>1, <4>2, <4>3, FS_EmptySet
    <3> QED  BY <3>1
  <2>4. keyOf \in [Handles -> Nat] /\ key \in Nat
    BY <1>1, InvType, CacheAssumption DEF CacheSet
  <2>5. d.key[h] = key /\ \A x \in Handles : x # h => d.key[x] = keyOf[x]
    BY <1>2, <1>8, <2>4
  <2>6. ReaderGood(r, d.key)
    BY <1>2, <1>5, <2>5 DEF ReaderGood
  <2>7. \A s \in Readers : ReaderGood(reader[s], d.key)
    BY <2>1, <2>3, <2>5 DEF ReaderGood
  <2> QED  BY <2>2, <2>6, <2>7 DEF ReadersGood
<1> QED  BY <1>3, <1>7, <1>8, <1>9, CacheStep

LEMMA ReleaseTableGood ==
    ASSUME CacheInv, NEW t \in Readers, ReleaseTable(t)
    PROVE  CacheInv'
<1> DEFINE h == reader[t].h
           d == Unref(Cache, h)
           U == UsesOf(reader)
<1>1. h \in Handles /\ h # 0
  BY InvType, HandlesFinite DEF ReleaseTable, ReaderGood, IdleReader
<1>2. SetCache(d) /\ reader' = [reader EXCEPT ![t] = IdleReader]
  BY DEF ReleaseTable
<1>3. IdleReader \in ReaderSet /\ IdleReader.h = 0 /\ ReaderGood(IdleReader, keyOf)
  BY DEF ReaderSet, ReaderGood, IdleReader
<1>4. U[h] > 0 /\ UsesOf(reader') = [U EXCEPT ![h] = @ - 1]
  <2>1. Moves(reader, reader', t, IdleReader)
    BY <1>2, <1>3, InvType DEF Moves
  <2>2. U[h] > 0 /\ UsesOf(reader') = Less(U, h)
    BY <1>1, <1>3, <2>1, UsesLess
  <2> QED  BY <2>2 DEF Less
<1>5. ReadersGood(reader', keyOf)
  BY <1>2, <1>3, ReaderMoves DEF CacheInv
<1>6. /\ CacheGood(d, [U EXCEPT ![h] = @ - 1]) /\ d.key = Cache.key /\ d.usage <= Cache.usage
      /\ d.lru = Cache.lru
  BY <1>1, <1>4, InvType, ReleasedGood DEF CacheInv
<1> HIDE DEF d, U
<1>7. WithinCapacity(d)
  <2>1. d.usage \in Nat /\ Cache.usage \in Nat /\ Capacity \in Nat
    BY <1>6, InvType, CacheAssumption DEF CacheGood, CacheSet
  <2>2. Cache.usage <= Capacity \/ Cache.lru = <<>>
    BY DEF CacheInv, WithinCapacity
  <2>3. CASE Cache.usage <= Capacity
    BY <1>6, <2>1, <2>3 DEF WithinCapacity
  <2>4. CASE Cache.lru = <<>>
    BY <1>6, <2>4 DEF WithinCapacity
  <2> QED  BY <2>2, <2>3, <2>4
<1> QED  BY <1>2, <1>4, <1>5, <1>6, <1>7, InvType, CacheStep

LEMMA EvictTableGood ==
    ASSUME CacheInv, NEW k \in CachedFiles, EvictTable(k)
    PROVE  CacheInv'
<1> DEFINE h == TableLookup(Cache, k)
           d == DropHandle(TableRemove(Cache, k), h)
<1>1. k \in Nat /\ h # 0 /\ SetCache(d) /\ reader' = reader
  BY CacheAssumption DEF EvictTable
<1>2. h \in Listed(Cache) /\ Cache.key[h] = k
  BY <1>1, InvType, LookupFinds
<1>3. d = DropHandle(TableRemove(Cache, Cache.key[h]), h)
  BY <1>2
<1> HIDE DEF h
<1>4. CacheGood(d, UsesOf(reader)) /\ d.key = Cache.key /\ d.usage <= Cache.usage
  BY <1>2, <1>3, InvType, ErasedGood DEF CacheInv
<1> HIDE DEF d
<1>5. WithinCapacity(d)
  <2>1. d.usage \in Nat /\ Cache.usage \in Nat /\ Capacity \in Nat
    BY <1>4, InvType, CacheAssumption DEF CacheGood, CacheSet
  <2>2. Cache.lru # <<>>
    BY <1>2 DEF Listed, Contains
  <2>3. Cache.usage <= Capacity
    BY <2>2 DEF CacheInv, WithinCapacity
  <2> QED  BY <1>4, <2>1, <2>3 DEF WithinCapacity
<1>6. ReadersGood(reader', d.key) /\ CacheGood(d, UsesOf(reader'))
  BY <1>1, <1>4, InvType DEF CacheInv
<1> QED  BY <1>1, <1>5, <1>6, CacheStep

LEMMA CacheInvSound ==
    ASSUME CacheInv
    PROVE  CacheSound
<1>1. /\ Cache \in CacheSet /\ Once(lru) /\ KeysOnce(Cache, Listed(Cache)) /\ elems = Len(lru)
      /\ TableHas(Cache, Listed(Cache)) /\ UsageGood(Cache) /\ CountsGood(Cache, UsesOf(reader))
  BY DEF CacheInv, CacheGood, TableGood, ListGood, Cache
<1>2. /\ Cache.key = keyOf /\ Cache.refs = refs /\ Cache.lru = lru /\ Cache.usage = usage
      /\ Cache.chains = buckets /\ Cache.n = elems
  BY DEF Cache
<1>3. lru \in Seq(Handles) /\ buckets \in Seq(SUBSET Handles)
  BY <1>1, <1>2 DEF CacheSet
<1>4. \A h \in Handles :
        refs[h] = Cardinality({t \in Readers : reader[t].h = h}) + (IF Contains(lru, h) THEN 1 ELSE 0)
  BY <1>1, <1>2 DEF CountsGood, UsesOf
<1>5. \A t \in Readers : reader[t].h # 0 => keyOf[reader[t].h] = reader[t].key
  BY InvType DEF ReaderGood, IdleReader
<1>6. usage = Cardinality({h \in Handles : refs[h] > 0})
  BY <1>1, <1>2 DEF UsageGood
<1>7. usage <= Capacity \/ lru = <<>>
  BY <1>2 DEF CacheInv, WithinCapacity
<1>8. \A i, j \in DOMAIN lru : keyOf[lru[i]] = keyOf[lru[j]] => i = j
  <2> SUFFICES ASSUME NEW i \in 1 .. Len(lru), NEW j \in 1 .. Len(lru), keyOf[lru[i]] = keyOf[lru[j]]
               PROVE  i = j
    BY <1>3
  <2>1. lru[i] \in Listed(Cache) /\ lru[j] \in Listed(Cache)
    BY <1>2, <1>3 DEF Listed, Contains
  <2>2. lru[i] = lru[j]
    BY <1>1, <1>2, <2>1 DEF KeysOnce
  <2> QED  BY <1>1, <2>2 DEF Once
<1>9. \A b \in DOMAIN buckets :
        buckets[b] = {h \in Handles : Contains(lru, h) /\ Bucket(keyOf[h], Len(buckets)) = b}
  BY <1>1, <1>2, <1>3 DEF TableHas, Listed
<1> QED  BY <1>1, <1>4, <1>5, <1>6, <1>7, <1>8, <1>9 DEF CacheSound

\* Every reference of the LRU cache (src/leveldb/util/cache.cc) is accounted for, whatever the
\* threads look up, insert, release and evict: an entry in use is neither freed nor given to another
\* key, usage_ counts what is alive, the capacity is exceeded only by entries in use that have left
\* the cache, and the hash table has exactly the entries of the list through every resizing.
THEOREM CacheStaysSound == CacheSpec => []CacheSound
<1>1. CacheInit => CacheInv
  BY CacheInitGood
<1>2. CacheInv /\ [CacheNext]_cacheVars => CacheInv'
  <2> SUFFICES ASSUME CacheInv, [CacheNext]_cacheVars PROVE CacheInv'
    OBVIOUS
  <2>1. CASE UNCHANGED cacheVars
    BY <2>1 DEF cacheVars, CacheInv, Cache
  <2>2. ASSUME NEW t \in Readers, OpenFails(t) PROVE CacheInv'
    BY <2>2, OpenFailsGood
  <2>3. ASSUME NEW t \in Readers, InsertTable(t) PROVE CacheInv'
    BY <2>3, InsertTableGood
  <2>4. ASSUME NEW t \in Readers, ReleaseTable(t) PROVE CacheInv'
    BY <2>4, ReleaseTableGood
  <2>5. ASSUME NEW t \in Readers, NEW k \in CachedFiles, LookupTable(t, k) PROVE CacheInv'
    BY <2>5, LookupTableGood
  <2>6. ASSUME NEW k \in CachedFiles, EvictTable(k) PROVE CacheInv'
    BY <2>6, EvictTableGood
  <2> QED  BY <2>1, <2>2, <2>3, <2>4, <2>5, <2>6 DEF CacheNext
<1>3. CacheInv => CacheSound
  BY CacheInvSound
<1> QED  BY <1>1, <1>2, <1>3, PTL DEF CacheSpec

----------------------------------------------------------------------------
(* The iterator: the entries, and the merge of two lists.                  *)

\* No sequence number is given twice, and the snapshot is older than every late write.
KidsGood ==
    /\ kids \in [Kids -> SUBSET Entry] /\ kids[1] \cap kids[2] = {} /\ IsFiniteSet(AllEntries)
    /\ \A a, b \in AllEntries : a.s = b.s => a = b
    /\ sequence \in 0 .. History /\ History <= Cardinality(AllEntries)
    /\ \A e \in AllEntries : e.s <= Cardinality(AllEntries)

\* What the snapshot has.
Seen == {e \in AllEntries : e.s <= sequence}

LEMMA EntryTypes ==
    ASSUME KidsGood
    PROVE  /\ \A e \in AllEntries : e \in Entry /\ e.u \in Nat \ {0} /\ e.u \in IterUsers /\ e.s \in Nat
           /\ Seen \subseteq AllEntries /\ sequence \in Nat
           /\ \A i \in Kids : kids[i] \subseteq AllEntries
<1>1. kids[1] \subseteq Entry /\ kids[2] \subseteq Entry
  BY DEF KidsGood, Kids
<1>2. \A e \in Entry : e.u \in IterUsers /\ e.s \in 1 .. History + MaxLateWrites
  BY DEF Entry
<1>3. \A e \in AllEntries : e \in Entry
  BY <1>1 DEF AllEntries
<1>4. \A e \in AllEntries : e.u \in Nat \ {0} /\ e.u \in IterUsers /\ e.s \in Nat
  <2>1. 1 .. History + MaxLateWrites \subseteq Nat
    BY IterAssumption
  <2> QED  BY <1>2, <1>3, <2>1, IterAssumption
<1>5. sequence \in Nat
  BY IterAssumption DEF KidsGood
<1> QED  BY <1>3, <1>4, <1>5 DEF Seen, AllEntries, Kids

LEMMA EntryOrder ==
    ASSUME KidsGood, NEW a \in AllEntries, NEW b \in AllEntries
    PROVE  /\ a = b \/ EntryBefore(a, b) \/ EntryBefore(b, a)
           /\ ~(EntryBefore(a, b) /\ EntryBefore(b, a)) /\ ~EntryBefore(a, a)
           /\ EntryBefore(a, b) => a.u <= b.u
           /\ a.u < b.u => EntryBefore(a, b)
<1>1. a.u \in Nat /\ a.s \in Nat /\ b.u \in Nat /\ b.s \in Nat /\ (a.s = b.s => a = b)
  BY EntryTypes DEF KidsGood
<1> QED  BY <1>1 DEF EntryBefore

LEMMA EntryTrans ==
    ASSUME KidsGood, NEW a \in AllEntries, NEW b \in AllEntries, NEW c \in AllEntries,
           EntryBefore(a, b), EntryBefore(b, c)
    PROVE  EntryBefore(a, c)
<1>1. \A e \in {a, b, c} : e.u \in Nat /\ e.s \in Nat
  BY EntryTypes
<1> QED  BY <1>1 DEF EntryBefore

\* A finite set has an element that comes before the others.
LEMMA FirstOfFinite ==
    ASSUME NEW S, IsFiniteSet(S), S # {}, NEW R,
           \A x, y, z \in S : <<x, y>> \in R /\ <<y, z>> \in R => <<x, z>> \in R,
           \A x \in S : <<x, x>> \notin R
    PROVE  \E x \in S : \A y \in S : <<y, x>> \notin R
<1> DEFINE B(x) == {y \in S : <<y, x>> \in R}
           C == {Cardinality(B(x)) : x \in S}
<1>1. \A x \in S : IsFiniteSet(B(x)) /\ Cardinality(B(x)) \in Nat
  BY FS_Subset, FS_CardinalityType
<1>2. C \in SUBSET Nat /\ C # {}
  <2>1. \A d \in C : d \in Nat
    <3> HIDE DEF B
    <3> QED  BY <1>1
  <2>2. C # {}
    <3>1. PICK x \in S : TRUE
      OBVIOUS
    <3>2. Cardinality(B(x)) \in C
      OBVIOUS
    <3> QED  BY <3>2
  <2> HIDE DEF C
  <2> QED  BY <2>1, <2>2
<1>3. PICK c \in C : \A d \in C : c <= d
  <2> HIDE DEF C
  <2> QED  BY <1>2, LeastNumber
<1>4. PICK x \in S : c = Cardinality(B(x))
  BY <1>3
<1>5. ASSUME NEW y \in S, <<y, x>> \in R PROVE FALSE
  <2>1. B(y) \subseteq B(x) /\ B(y) # B(x)
    <3>1. y \in B(x) /\ y \notin B(y)
      BY <1>5
    <3>2. B(y) \subseteq B(x)
      BY <1>4, <1>5
    <3> QED  BY <3>1, <3>2
  <2>2. Cardinality(B(y)) < Cardinality(B(x))
    <3> HIDE DEF B
    <3>1. Cardinality(B(y)) <= Cardinality(B(x)) /\ (Cardinality(B(x)) = Cardinality(B(y)) => B(x) = B(y))
      BY <1>1, <1>4, <2>1, FS_Subset
    <3> QED  BY <1>1, <1>4, <1>5, <2>1, <3>1
  <2>3. c <= Cardinality(B(y))
    <3> HIDE DEF B
    <3>1. Cardinality(B(y)) \in C
      BY <1>5
    <3> QED  BY <1>3, <3>1
  <2> HIDE DEF B, C
  <2> QED  BY <1>1, <1>4, <1>5, <2>2, <2>3
<1> QED  BY <1>5

LEMMA LeastIs ==
    ASSUME KidsGood, NEW S, S \subseteq AllEntries
    PROVE  /\ S = {} => Least(S) = <<>>
           /\ S # {} => Least(S) # <<>> /\ Least(S) = <<Least(S)[1]>> /\ Least(S)[1] \in S
                        /\ \A y \in S : y = Least(S)[1] \/ EntryBefore(Least(S)[1], y)
<1> SUFFICES ASSUME S # {}
             PROVE  Least(S) # <<>> /\ Least(S) = <<Least(S)[1]>> /\ Least(S)[1] \in S
                    /\ \A y \in S : y = Least(S)[1] \/ EntryBefore(Least(S)[1], y)
  BY DEF Least
<1> DEFINE R == {p \in S \X S : EntryBefore(p[1], p[2])}
<1>1. \A x, y \in S : <<x, y>> \in R <=> EntryBefore(x, y)
  OBVIOUS
<1>2. IsFiniteSet(S)
  BY FS_Subset DEF KidsGood
<1> HIDE DEF R
<1>3. \A x, y, z \in S : <<x, y>> \in R /\ <<y, z>> \in R => <<x, z>> \in R
  BY <1>1, EntryTrans
<1>4. \A x \in S : <<x, x>> \notin R
  BY <1>1, EntryOrder
<1>5. \E x \in S : \A y \in S : <<y, x>> \notin R
  BY <1>2, <1>3, <1>4, FirstOfFinite
<1>6. \E x \in S : \A y \in S : x = y \/ EntryBefore(x, y)
  BY <1>1, <1>5, EntryOrder
<1> QED  BY <1>6 DEF Least

LEMMA GreatestIs ==
    ASSUME KidsGood, NEW S, S \subseteq AllEntries
    PROVE  /\ S = {} => Greatest(S) = <<>>
           /\ S # {} => Greatest(S) # <<>> /\ Greatest(S) = <<Greatest(S)[1]>> /\ Greatest(S)[1] \in S
                        /\ \A y \in S : y = Greatest(S)[1] \/ EntryBefore(y, Greatest(S)[1])
<1> SUFFICES ASSUME S # {}
             PROVE  Greatest(S) # <<>> /\ Greatest(S) = <<Greatest(S)[1]>> /\ Greatest(S)[1] \in S
                    /\ \A y \in S : y = Greatest(S)[1] \/ EntryBefore(y, Greatest(S)[1])
  BY DEF Greatest
<1> DEFINE R == {p \in S \X S : EntryBefore(p[2], p[1])}
<1>1. \A x, y \in S : <<x, y>> \in R <=> EntryBefore(y, x)
  OBVIOUS
<1>2. IsFiniteSet(S)
  BY FS_Subset DEF KidsGood
<1> HIDE DEF R
<1>3. \A x, y, z \in S : <<x, y>> \in R /\ <<y, z>> \in R => <<x, z>> \in R
  BY <1>1, EntryTrans
<1>4. \A x \in S : <<x, x>> \notin R
  BY <1>1, EntryOrder
<1>5. \E x \in S : \A y \in S : <<y, x>> \notin R
  BY <1>2, <1>3, <1>4, FirstOfFinite
<1>6. \E x \in S : \A y \in S : x = y \/ EntryBefore(y, x)
  BY <1>1, <1>5, EntryOrder
<1> QED  BY <1>6 DEF Greatest

----------------------------------------------------------------------------
(* The iterator: the merging iterator. What it finds next is next among    *)
(* the entries of the snapshot, whatever is written meanwhile.             *)

\* Closed on the way on: L has every entry after one of its own.
UpClosed(L) == L \subseteq AllEntries /\ \A a \in L, b \in AllEntries : EntryBefore(a, b) => b \in L
DownClosed(L) == L \subseteq AllEntries /\ \A a \in L, b \in AllEntries : EntryBefore(b, a) => b \in L

\* Each child is at an entry of L that no other of the snapshot comes before, or has none.
Places == [Kids -> {<<>>} \cup {<<e>> : e \in Entry}]
PosFrom(pos, L) ==
    pos \in Places /\ \A i \in Kids :
      /\ pos[i] # <<>> => pos[i][1] \in kids[i] /\ pos[i][1] \in L
      /\ \A x \in kids[i] : x \in Seen /\ x \in L =>
           pos[i] # <<>> /\ (x = pos[i][1] \/ EntryBefore(pos[i][1], x))
PosDown(pos, L) ==
    pos \in Places /\ \A i \in Kids :
      /\ pos[i] # <<>> => pos[i][1] \in kids[i] /\ pos[i][1] \in L
      /\ \A x \in kids[i] : x \in Seen /\ x \in L =>
           pos[i] # <<>> /\ (x = pos[i][1] \/ EntryBefore(x, pos[i][1]))

IterMergeSet == [pos : Places, cur : {0, 1, 2}, dir : {"forward", "reverse"}]
FwdOK(m) ==
    /\ m \in IterMergeSet /\ m.dir = "forward"
    /\ m.cur # 0 =>
         /\ m.pos[m.cur] # <<>>
         /\ \A i \in Kids : m.pos[i] # <<>> =>
              m.pos[i][1] \in kids[i] /\ (i = m.cur \/ EntryBefore(MKey(m), m.pos[i][1]))
         /\ \A i \in Kids : \A x \in kids[i] : x \in Seen =>
              \/ EntryBefore(x, MKey(m))
              \/ m.pos[i] # <<>> /\ (x = m.pos[i][1] \/ EntryBefore(m.pos[i][1], x))
RevOK(m) ==
    /\ m \in IterMergeSet /\ m.dir = "reverse"
    /\ m.cur # 0 =>
         /\ m.pos[m.cur] # <<>>
         /\ \A i \in Kids : m.pos[i] # <<>> =>
              m.pos[i][1] \in kids[i] /\ (i = m.cur \/ EntryBefore(m.pos[i][1], MKey(m)))
         /\ \A i \in Kids : \A x \in kids[i] : x \in Seen =>
              \/ EntryBefore(MKey(m), x)
              \/ m.pos[i] # <<>> /\ (x = m.pos[i][1] \/ EntryBefore(x, m.pos[i][1]))
MergeOK(m) == FwdOK(m) \/ RevOK(m)

\* The merge is at the first entry of L, as far as the snapshot goes.
StartsAt(n, L) ==
    /\ MValid(n) => MKey(n) \in L /\ \A x \in Seen : x \in L => x = MKey(n) \/ EntryBefore(MKey(n), x)
    /\ ~MValid(n) => \A x \in Seen : x \notin L
EndsAt(n, L) ==
    /\ MValid(n) => MKey(n) \in L /\ \A x \in Seen : x \in L => x = MKey(n) \/ EntryBefore(x, MKey(n))
    /\ ~MValid(n) => \A x \in Seen : x \notin L

LEMMA SmallestIs ==
    ASSUME KidsGood, NEW pos, NEW L, PosFrom(pos, L)
    PROVE  LET c == FindSmallest(pos) IN
           /\ c \in {0, 1, 2}
           /\ c = 0 => \A i \in Kids : pos[i] = <<>>
           /\ c # 0 => pos[c] # <<>> /\ \A i \in Kids : i # c /\ pos[i] # <<>> => EntryBefore(pos[c][1], pos[i][1])
<1> DEFINE live == {i \in Kids : pos[i] # <<>>}
<1>1. CASE live = {}
  BY <1>1 DEF FindSmallest, Kids
<1>2. CASE live # {}
  <2>1. \E i \in live : \A j \in live \ {i} : EntryBefore(pos[i][1], pos[j][1])
    <3>1. CASE 1 \notin live \/ 2 \notin live
      BY <1>2, <3>1 DEF Kids
    <3>2. CASE 1 \in live /\ 2 \in live
      <4>1. pos[1][1] \in kids[1] /\ pos[2][1] \in kids[2]
        BY <3>2 DEF PosFrom, Kids
      <4>2. pos[1][1] \in AllEntries /\ pos[2][1] \in AllEntries /\ pos[1][1] # pos[2][1]
        BY <4>1 DEF AllEntries, KidsGood
      <4>3. EntryBefore(pos[1][1], pos[2][1]) \/ EntryBefore(pos[2][1], pos[1][1])
        BY <4>2, EntryOrder
      <4>4. live = {1, 2}
        BY <3>2 DEF Kids
      <4> HIDE DEF live
      <4> QED  BY <4>3, <4>4
    <3> QED  BY <3>1, <3>2
  <2> DEFINE c == CHOOSE i \in live : \A j \in live \ {i} : EntryBefore(pos[i][1], pos[j][1])
  <2>2. c \in live /\ \A j \in live \ {c} : EntryBefore(pos[c][1], pos[j][1])
    BY <2>1
  <2>3. FindSmallest(pos) = c
    BY <1>2 DEF FindSmallest
  <2> HIDE DEF c
  <2> QED  BY <2>2, <2>3 DEF Kids
<1> QED  BY <1>1, <1>2

LEMMA LargestIs ==
    ASSUME KidsGood, NEW pos, NEW L, PosDown(pos, L)
    PROVE  LET c == FindLargest(pos) IN
           /\ c \in {0, 1, 2}
           /\ c = 0 => \A i \in Kids : pos[i] = <<>>
           /\ c # 0 => pos[c] # <<>> /\ \A i \in Kids : i # c /\ pos[i] # <<>> => EntryBefore(pos[i][1], pos[c][1])
<1> DEFINE live == {i \in Kids : pos[i] # <<>>}
<1>1. CASE live = {}
  BY <1>1 DEF FindLargest, Kids
<1>2. CASE live # {}
  <2>1. \E i \in live : \A j \in live \ {i} : EntryBefore(pos[j][1], pos[i][1])
    <3>1. CASE 1 \notin live \/ 2 \notin live
      BY <1>2, <3>1 DEF Kids
    <3>2. CASE 1 \in live /\ 2 \in live
      <4>1. pos[1][1] \in kids[1] /\ pos[2][1] \in kids[2]
        BY <3>2 DEF PosDown, Kids
      <4>2. pos[1][1] \in AllEntries /\ pos[2][1] \in AllEntries /\ pos[1][1] # pos[2][1]
        BY <4>1 DEF AllEntries, KidsGood
      <4>3. EntryBefore(pos[1][1], pos[2][1]) \/ EntryBefore(pos[2][1], pos[1][1])
        BY <4>2, EntryOrder
      <4>4. live = {1, 2}
        BY <3>2 DEF Kids
      <4> HIDE DEF live
      <4> QED  BY <4>3, <4>4
    <3> QED  BY <3>1, <3>2
  <2> DEFINE c == CHOOSE i \in live : \A j \in live \ {i} : EntryBefore(pos[j][1], pos[i][1])
  <2>2. c \in live /\ \A j \in live \ {c} : EntryBefore(pos[j][1], pos[c][1])
    BY <2>1
  <2>3. FindLargest(pos) = c
    BY <1>2 DEF FindLargest
  <2> HIDE DEF c
  <2> QED  BY <2>2, <2>3 DEF Kids
<1> QED  BY <1>1, <1>2

LEMMA ForwardGood ==
    ASSUME KidsGood, NEW pos, NEW L, UpClosed(L), PosFrom(pos, L)
    PROVE  FwdOK(ForwardFrom(pos)) /\ StartsAt(ForwardFrom(pos), L)
<1> DEFINE n == ForwardFrom(pos)
           c == FindSmallest(pos)
<1>1. n.pos = pos /\ n.cur = c /\ n.dir = "forward" /\ n = [pos |-> pos, cur |-> c, dir |-> "forward"]
  BY DEF ForwardFrom
<1>2. /\ c \in {0, 1, 2}
      /\ c = 0 => \A i \in Kids : pos[i] = <<>>
      /\ c # 0 => pos[c] # <<>> /\ \A i \in Kids : i # c /\ pos[i] # <<>> => EntryBefore(pos[c][1], pos[i][1])
  BY SmallestIs
<1> HIDE DEF n, c
<1>0. n \in IterMergeSet
  BY <1>1, <1>2 DEF IterMergeSet, PosFrom
<1>3. \A x \in Seen : \E i \in Kids : x \in kids[i]
  BY DEF Seen, AllEntries, Kids
<1>4. CASE c = 0
  <2>1. \A x \in Seen : x \notin L
    BY <1>2, <1>3, <1>4 DEF PosFrom
  <2> QED  BY <1>0, <1>1, <1>4, <2>1 DEF FwdOK, StartsAt, MValid, n
<1>5. CASE c # 0
  <2> DEFINE k == pos[c][1]
  <2>1. c \in Kids /\ k \in kids[c] /\ k \in L /\ k \in AllEntries /\ MKey(n) = k /\ MValid(n)
    BY <1>1, <1>2, <1>5, EntryTypes DEF PosFrom, MKey, MValid, Kids
  <2>2. \A i \in Kids : pos[i] # <<>> => pos[i][1] \in kids[i] /\ pos[i][1] \in AllEntries /\ (i = c \/ EntryBefore(k, pos[i][1]))
    BY <1>2, <1>5, EntryTypes DEF PosFrom
  <2> HIDE DEF k
  <2>3. ASSUME NEW i \in Kids, NEW x \in kids[i], x \in Seen
        PROVE  EntryBefore(x, k) \/ (pos[i] # <<>> /\ (x = pos[i][1] \/ EntryBefore(pos[i][1], x)))
    <3>1. x \in AllEntries
      BY <2>3, EntryTypes
    <3>2. CASE x \in L
      BY <2>3, <3>2 DEF PosFrom
    <3>3. CASE x \notin L
      <4>1. x # k /\ ~EntryBefore(k, x)
        BY <2>1, <3>1, <3>3 DEF UpClosed
      <4> QED  BY <2>1, <3>1, <4>1, EntryOrder
    <3> QED  BY <3>2, <3>3
  <2>4. FwdOK(n)
    BY <1>0, <1>1, <1>2, <1>5, <2>1, <2>2, <2>3 DEF FwdOK
  <2>5. ASSUME NEW x \in Seen, x \in L PROVE x = k \/ EntryBefore(k, x)
    <3>1. PICK i \in Kids : x \in kids[i]
      BY <1>3
    <3>2. pos[i] # <<>> /\ (x = pos[i][1] \/ EntryBefore(pos[i][1], x))
      BY <2>5, <3>1 DEF PosFrom
    <3>3. i = c => pos[i][1] = k
      BY DEF k
    <3> QED  BY <2>1, <2>2, <3>1, <3>2, <3>3, EntryTrans, EntryTypes
  <2> QED  BY <2>1, <2>4, <2>5 DEF StartsAt, n
<1> QED  BY <1>4, <1>5

LEMMA BackwardGood ==
    ASSUME KidsGood, NEW pos, NEW L, DownClosed(L), PosDown(pos, L)
    PROVE  RevOK(ReverseFrom(pos)) /\ EndsAt(ReverseFrom(pos), L)
<1> DEFINE n == ReverseFrom(pos)
           c == FindLargest(pos)
<1>1. n.pos = pos /\ n.cur = c /\ n.dir = "reverse" /\ n = [pos |-> pos, cur |-> c, dir |-> "reverse"]
  BY DEF ReverseFrom
<1>2. /\ c \in {0, 1, 2}
      /\ c = 0 => \A i \in Kids : pos[i] = <<>>
      /\ c # 0 => pos[c] # <<>> /\ \A i \in Kids : i # c /\ pos[i] # <<>> => EntryBefore(pos[i][1], pos[c][1])
  BY LargestIs
<1> HIDE DEF n, c
<1>0. n \in IterMergeSet
  BY <1>1, <1>2 DEF IterMergeSet, PosDown
<1>3. \A x \in Seen : \E i \in Kids : x \in kids[i]
  BY DEF Seen, AllEntries, Kids
<1>4. CASE c = 0
  <2>1. \A x \in Seen : x \notin L
    BY <1>2, <1>3, <1>4 DEF PosDown
  <2> QED  BY <1>0, <1>1, <1>4, <2>1 DEF RevOK, EndsAt, MValid, n
<1>5. CASE c # 0
  <2> DEFINE k == pos[c][1]
  <2>1. c \in Kids /\ k \in kids[c] /\ k \in L /\ k \in AllEntries /\ MKey(n) = k /\ MValid(n)
    BY <1>1, <1>2, <1>5, EntryTypes DEF PosDown, MKey, MValid, Kids
  <2>2. \A i \in Kids : pos[i] # <<>> => pos[i][1] \in kids[i] /\ pos[i][1] \in AllEntries /\ (i = c \/ EntryBefore(pos[i][1], k))
    BY <1>2, <1>5, EntryTypes DEF PosDown
  <2> HIDE DEF k
  <2>3. ASSUME NEW i \in Kids, NEW x \in kids[i], x \in Seen
        PROVE  EntryBefore(k, x) \/ (pos[i] # <<>> /\ (x = pos[i][1] \/ EntryBefore(x, pos[i][1])))
    <3>1. x \in AllEntries
      BY <2>3, EntryTypes
    <3>2. CASE x \in L
      BY <2>3, <3>2 DEF PosDown
    <3>3. CASE x \notin L
      <4>1. x # k /\ ~EntryBefore(x, k)
        BY <2>1, <3>1, <3>3 DEF DownClosed
      <4> QED  BY <2>1, <3>1, <4>1, EntryOrder
    <3> QED  BY <3>2, <3>3
  <2>4. RevOK(n)
    BY <1>0, <1>1, <1>2, <1>5, <2>1, <2>2, <2>3 DEF RevOK
  <2>5. ASSUME NEW x \in Seen, x \in L PROVE x = k \/ EntryBefore(x, k)
    <3>1. PICK i \in Kids : x \in kids[i]
      BY <1>3
    <3>2. pos[i] # <<>> /\ (x = pos[i][1] \/ EntryBefore(x, pos[i][1]))
      BY <2>5, <3>1 DEF PosDown
    <3>3. i = c => pos[i][1] = k
      BY DEF k
    <3> QED  BY <2>1, <2>2, <3>1, <3>2, <3>3, EntryTrans, EntryTypes
  <2> QED  BY <2>1, <2>4, <2>5 DEF EndsAt, n
<1> QED  BY <1>4, <1>5

\* Beyond an entry, and below it.
Beyond(e) == {x \in AllEntries : EntryBefore(e, x)}
Below(e) == {x \in AllEntries : EntryBefore(x, e)}

LEMMA LeastPlace ==
    ASSUME KidsGood, NEW i \in Kids, NEW S, S \subseteq kids[i]
    PROVE  /\ Least(S) \in {<<>>} \cup {<<e>> : e \in Entry}
           /\ Greatest(S) \in {<<>>} \cup {<<e>> : e \in Entry}
           /\ Least(S) # <<>> => Least(S)[1] \in S
           /\ Greatest(S) # <<>> => Greatest(S)[1] \in S
           /\ \A x \in S : Least(S) # <<>> /\ (x = Least(S)[1] \/ EntryBefore(Least(S)[1], x))
           /\ \A x \in S : Greatest(S) # <<>> /\ (x = Greatest(S)[1] \/ EntryBefore(x, Greatest(S)[1]))
<1>1. S \subseteq AllEntries /\ \A e \in S : e \in Entry
  BY EntryTypes
<1>2. CASE S = {}
  BY <1>1, <1>2, LeastIs, GreatestIs
<1>3. CASE S # {}
  <2>1. /\ Least(S) # <<>> /\ Least(S) = <<Least(S)[1]>> /\ Least(S)[1] \in S
        /\ \A y \in S : y = Least(S)[1] \/ EntryBefore(Least(S)[1], y)
    BY <1>1, <1>3, LeastIs
  <2>2. /\ Greatest(S) # <<>> /\ Greatest(S) = <<Greatest(S)[1]>> /\ Greatest(S)[1] \in S
        /\ \A y \in S : y = Greatest(S)[1] \/ EntryBefore(y, Greatest(S)[1])
    BY <1>1, <1>3, GreatestIs
  <2> QED  BY <1>1, <2>1, <2>2
<1> QED  BY <1>2, <1>3

LEMMA KeyIn ==
    ASSUME KidsGood, NEW m, MergeOK(m), MValid(m)
    PROVE  MKey(m) \in AllEntries /\ m.cur \in Kids
  BY EntryTypes DEF MergeOK, FwdOK, RevOK, MValid, MKey, Kids, IterMergeSet

LEMMA MNextGood ==
    ASSUME KidsGood, NEW m, MergeOK(m), MValid(m)
    PROVE  FwdOK(MNext(m)) /\ StartsAt(MNext(m), Beyond(MKey(m)))
<1> DEFINE k == MKey(m)
           L == Beyond(k)
           pos == [i \in Kids |-> IF i = m.cur \/ m.dir # "forward" THEN After(i, k) ELSE m.pos[i]]
<1>1. k \in AllEntries /\ m.cur \in Kids
  BY KeyIn
<1>2. UpClosed(L)
  BY <1>1, EntryTrans DEF UpClosed, Beyond
<1>3. MNext(m) = ForwardFrom(pos)
  BY DEF MNext
<1> HIDE DEF k
<1>4. ASSUME NEW i \in Kids
      PROVE  /\ pos[i] \in {<<>>} \cup {<<e>> : e \in Entry}
             /\ pos[i] # <<>> => pos[i][1] \in kids[i] /\ pos[i][1] \in L
             /\ \A x \in kids[i] : x \in Seen /\ x \in L =>
                  pos[i] # <<>> /\ (x = pos[i][1] \/ EntryBefore(pos[i][1], x))
  <2>1. CASE i = m.cur \/ m.dir # "forward"
    <3> DEFINE S == {x \in kids[i] : EntryBefore(k, x)}
    <3>1. pos[i] = Least(S) /\ S \subseteq kids[i]
      BY <2>1 DEF After
    <3>2. \A x \in kids[i] : x \in S <=> x \in L
      BY EntryTypes DEF Beyond
    <3> HIDE DEF S, L, pos
    <3> QED  BY <3>1, <3>2, LeastPlace
  <2>2. CASE i # m.cur /\ m.dir = "forward"
    <3>1. FwdOK(m) /\ m.cur # 0
      BY <2>2 DEF MergeOK, RevOK, MValid
    <3>2. pos[i] = m.pos[i] /\ m.pos[i] \in {<<>>} \cup {<<e>> : e \in Entry}
      BY <2>2, <3>1 DEF FwdOK, IterMergeSet, Places
    <3>3. m.pos[i] # <<>> => m.pos[i][1] \in kids[i] /\ m.pos[i][1] \in L
      BY <2>2, <3>1, EntryTypes DEF FwdOK, Beyond, k
    <3>4. ASSUME NEW x \in kids[i], x \in Seen, x \in L
          PROVE  m.pos[i] # <<>> /\ (x = m.pos[i][1] \/ EntryBefore(m.pos[i][1], x))
      <4>1. ~EntryBefore(x, k)
        BY <1>1, <3>4, EntryOrder DEF Beyond
      <4> QED  BY <3>1, <3>4, <4>1 DEF FwdOK, k
    <3> QED  BY <3>2, <3>3, <3>4
  <2> QED  BY <2>1, <2>2
<1>5. pos \in Places
  BY <1>4 DEF Places
<1>6. PosFrom(pos, L)
  BY <1>4, <1>5 DEF PosFrom
<1> HIDE DEF pos, L
<1>7. FwdOK(ForwardFrom(pos)) /\ StartsAt(ForwardFrom(pos), L)
  BY <1>2, <1>6, ForwardGood
<1> QED  BY <1>3, <1>7 DEF L, k

LEMMA MPrevGood ==
    ASSUME KidsGood, NEW m, MergeOK(m), MValid(m)
    PROVE  RevOK(MPrev(m)) /\ EndsAt(MPrev(m), Below(MKey(m)))
<1> DEFINE k == MKey(m)
           L == Below(k)
           pos == [i \in Kids |-> IF i = m.cur \/ m.dir # "reverse" THEN Prior(i, k) ELSE m.pos[i]]
<1>1. k \in AllEntries /\ m.cur \in Kids
  BY KeyIn
<1>2. DownClosed(L)
  BY <1>1, EntryTrans DEF DownClosed, Below
<1>3. MPrev(m) = ReverseFrom(pos)
  BY DEF MPrev
<1> HIDE DEF k
<1>4. ASSUME NEW i \in Kids
      PROVE  /\ pos[i] \in {<<>>} \cup {<<e>> : e \in Entry}
             /\ pos[i] # <<>> => pos[i][1] \in kids[i] /\ pos[i][1] \in L
             /\ \A x \in kids[i] : x \in Seen /\ x \in L =>
                  pos[i] # <<>> /\ (x = pos[i][1] \/ EntryBefore(x, pos[i][1]))
  <2>1. CASE i = m.cur \/ m.dir # "reverse"
    <3> DEFINE S == {x \in kids[i] : EntryBefore(x, k)}
    <3>1. pos[i] = Greatest(S) /\ S \subseteq kids[i]
      BY <2>1 DEF Prior
    <3>2. \A x \in kids[i] : x \in S <=> x \in L
      BY EntryTypes DEF Below
    <3> HIDE DEF S, L, pos
    <3> QED  BY <3>1, <3>2, LeastPlace
  <2>2. CASE i # m.cur /\ m.dir = "reverse"
    <3>1. RevOK(m) /\ m.cur # 0
      BY <2>2 DEF MergeOK, FwdOK, MValid
    <3>2. pos[i] = m.pos[i] /\ m.pos[i] \in {<<>>} \cup {<<e>> : e \in Entry}
      BY <2>2, <3>1 DEF RevOK, IterMergeSet, Places
    <3>3. m.pos[i] # <<>> => m.pos[i][1] \in kids[i] /\ m.pos[i][1] \in L
      BY <2>2, <3>1, EntryTypes DEF RevOK, Below, k
    <3>4. ASSUME NEW x \in kids[i], x \in Seen, x \in L
          PROVE  m.pos[i] # <<>> /\ (x = m.pos[i][1] \/ EntryBefore(x, m.pos[i][1]))
      <4>1. ~EntryBefore(k, x)
        BY <1>1, <3>4, EntryOrder DEF Below
      <4> QED  BY <3>1, <3>4, <4>1 DEF RevOK, k
    <3> QED  BY <3>2, <3>3, <3>4
  <2> QED  BY <2>1, <2>2
<1>5. pos \in Places
  BY <1>4 DEF Places
<1>6. PosDown(pos, L)
  BY <1>4, <1>5 DEF PosDown
<1> HIDE DEF pos, L
<1>7. RevOK(ReverseFrom(pos)) /\ EndsAt(ReverseFrom(pos), L)
  BY <1>2, <1>6, BackwardGood
<1> QED  BY <1>3, <1>7 DEF L, k

LEMMA MFirstGood ==
    ASSUME KidsGood
    PROVE  FwdOK(MFirst) /\ StartsAt(MFirst, AllEntries)
<1> DEFINE pos == [i \in Kids |-> Least(kids[i])]
<1>1. UpClosed(AllEntries)
  BY DEF UpClosed
<1>2. PosFrom(pos, AllEntries)
  <2>1. \A i \in Kids : pos[i] = Least(kids[i]) /\ kids[i] \subseteq AllEntries
    BY EntryTypes
  <2>2. pos \in Places
    BY LeastPlace DEF Places
  <2> HIDE DEF pos
  <2> QED  BY <2>1, <2>2, LeastPlace DEF PosFrom
<1> HIDE DEF pos
<1>3. FwdOK(ForwardFrom(pos)) /\ StartsAt(ForwardFrom(pos), AllEntries)
  BY <1>1, <1>2, ForwardGood
<1> QED  BY <1>3 DEF MFirst, pos

LEMMA MLastGood ==
    ASSUME KidsGood
    PROVE  RevOK(MLast) /\ EndsAt(MLast, AllEntries)
<1> DEFINE pos == [i \in Kids |-> Greatest(kids[i])]
<1>1. DownClosed(AllEntries)
  BY DEF DownClosed
<1>2. PosDown(pos, AllEntries)
  <2>1. \A i \in Kids : pos[i] = Greatest(kids[i]) /\ kids[i] \subseteq AllEntries
    BY EntryTypes
  <2>2. pos \in Places
    BY LeastPlace DEF Places
  <2> HIDE DEF pos
  <2> QED  BY <2>1, <2>2, LeastPlace DEF PosDown
<1> HIDE DEF pos
<1>3. RevOK(ReverseFrom(pos)) /\ EndsAt(ReverseFrom(pos), AllEntries)
  BY <1>1, <1>2, BackwardGood
<1> QED  BY <1>3 DEF MLast, pos

\* Seek goes to the first entry that does not come before the target.
NotBefore(t) == {x \in AllEntries : ~EntryBefore(x, t)}

LEMMA MSeekGood ==
    ASSUME KidsGood, NEW t, t.u \in Nat, t.s \in Nat
    PROVE  FwdOK(MSeek(t)) /\ StartsAt(MSeek(t), NotBefore(t))
<1> DEFINE pos == [i \in Kids |-> Least({x \in kids[i] : ~EntryBefore(x, t)})]
<1>1. UpClosed(NotBefore(t))
  <2> SUFFICES ASSUME NEW a \in NotBefore(t), NEW b \in AllEntries, EntryBefore(a, b)
               PROVE  ~EntryBefore(b, t)
    BY DEF UpClosed, NotBefore
  <2>1. a.u \in Nat /\ a.s \in Nat /\ b.u \in Nat /\ b.s \in Nat /\ ~EntryBefore(a, t)
    BY EntryTypes DEF NotBefore
  <2> QED  BY <2>1 DEF EntryBefore
<1>2. PosFrom(pos, NotBefore(t))
  <2>1. \A i \in Kids : pos[i] = Least({x \in kids[i] : ~EntryBefore(x, t)}) /\ kids[i] \subseteq AllEntries
    BY EntryTypes
  <2>2. pos \in Places
    BY LeastPlace DEF Places
  <2> HIDE DEF pos
  <2>3. ASSUME NEW i \in Kids
        PROVE  /\ pos[i] # <<>> => pos[i][1] \in kids[i] /\ pos[i][1] \in NotBefore(t)
               /\ \A x \in kids[i] : x \in Seen /\ x \in NotBefore(t) =>
                    pos[i] # <<>> /\ (x = pos[i][1] \/ EntryBefore(pos[i][1], x))
    <3> DEFINE S == {x \in kids[i] : ~EntryBefore(x, t)}
    <3>1. S \subseteq kids[i] /\ pos[i] = Least(S)
      BY <2>1
    <3>2. \A x \in kids[i] : x \in S <=> x \in NotBefore(t)
      BY <2>1 DEF NotBefore
    <3> HIDE DEF S
    <3> QED  BY <3>1, <3>2, LeastPlace
  <2> QED  BY <2>2, <2>3 DEF PosFrom
<1> HIDE DEF pos
<1>3. FwdOK(ForwardFrom(pos)) /\ StartsAt(ForwardFrom(pos), NotBefore(t))
  BY <1>1, <1>2, ForwardGood
<1> QED  BY <1>3 DEF MSeek, pos

----------------------------------------------------------------------------
(* The iterator: its loops end, since every turn leaves fewer entries.     *)

LEMMA FewerBeyond ==
    ASSUME KidsGood, NEW a \in AllEntries, NEW b, b \in Beyond(a)
    PROVE  /\ Cardinality(Beyond(a)) \in Nat /\ Cardinality(Beyond(b)) \in Nat
           /\ Cardinality(Beyond(b)) < Cardinality(Beyond(a))
<1>1. b \in AllEntries /\ EntryBefore(a, b)
  BY DEF Beyond
<1>2. Beyond(b) \subseteq Beyond(a) /\ b \notin Beyond(b)
  BY <1>1, EntryTrans, EntryOrder DEF Beyond
<1>3. IsFiniteSet(Beyond(a))
  BY FS_Subset DEF KidsGood, Beyond
<1> QED  BY <1>2, <1>3, FS_Subset, FS_CardinalityType

LEMMA FewerBelow ==
    ASSUME KidsGood, NEW a \in AllEntries, NEW b, b \in Below(a)
    PROVE  /\ Cardinality(Below(a)) \in Nat /\ Cardinality(Below(b)) \in Nat
           /\ Cardinality(Below(b)) < Cardinality(Below(a))
<1>1. b \in AllEntries /\ EntryBefore(b, a)
  BY DEF Below
<1>2. Below(b) \subseteq Below(a) /\ b \notin Below(b)
  BY <1>1, EntryTrans, EntryOrder DEF Below
<1>3. IsFiniteSet(Below(a))
  BY FS_Subset DEF KidsGood, Below
<1> QED  BY <1>2, <1>3, FS_Subset, FS_CardinalityType

LEMMA FewerThanAll ==
    ASSUME KidsGood, NEW a \in AllEntries
    PROVE  /\ Cardinality(AllEntries) \in Nat
           /\ Cardinality(Beyond(a)) \in Nat /\ Cardinality(Beyond(a)) < Cardinality(AllEntries)
           /\ Cardinality(Below(a)) \in Nat /\ Cardinality(Below(a)) < Cardinality(AllEntries)
<1>1. a \notin Beyond(a) /\ a \notin Below(a) /\ Beyond(a) \subseteq AllEntries /\ Below(a) \subseteq AllEntries
  BY EntryOrder DEF Beyond, Below
<1>2. IsFiniteSet(AllEntries)
  BY DEF KidsGood
<1>3. \A S \in SUBSET AllEntries : a \notin S => Cardinality(S) \in Nat /\ Cardinality(S) < Cardinality(AllEntries)
  <2> SUFFICES ASSUME NEW S \in SUBSET AllEntries, a \notin S
               PROVE  Cardinality(S) \in Nat /\ Cardinality(S) < Cardinality(AllEntries)
    OBVIOUS
  <2>1. IsFiniteSet(S) /\ Cardinality(S) <= Cardinality(AllEntries)
        /\ (Cardinality(AllEntries) = Cardinality(S) => AllEntries = S)
    BY <1>2, FS_Subset
  <2> QED  BY <1>2, <2>1, FS_CardinalityType
<1> QED  BY <1>1, <1>2, <1>3, FS_CardinalityType

\* What a merge has left to pass, on the way on or back.
LeftOn(m) == IF MValid(m) THEN Cardinality(Beyond(MKey(m))) ELSE 0
LeftBack(m) == IF MValid(m) THEN Cardinality(Below(MKey(m))) ELSE 0

LEMMA NextLeavesFewer ==
    ASSUME KidsGood, NEW m, MergeOK(m), MValid(m), MValid(MNext(m))
    PROVE  LeftOn(m) \in Nat /\ LeftOn(MNext(m)) \in Nat /\ LeftOn(MNext(m)) < LeftOn(m)
<1>1. MKey(m) \in AllEntries /\ MKey(MNext(m)) \in Beyond(MKey(m))
  BY KeyIn, MNextGood DEF StartsAt
<1> QED  BY <1>1, FewerBeyond DEF LeftOn

LEMMA PrevLeavesFewer ==
    ASSUME KidsGood, NEW m, MergeOK(m), MValid(m), MValid(MPrev(m))
    PROVE  LeftBack(m) \in Nat /\ LeftBack(MPrev(m)) \in Nat /\ LeftBack(MPrev(m)) < LeftBack(m)
<1>1. MKey(m) \in AllEntries /\ MKey(MPrev(m)) \in Below(MKey(m))
  BY KeyIn, MPrevGood DEF EndsAt
<1> QED  BY <1>1, FewerBelow DEF LeftBack

----------------------------------------------------------------------------
(* The iterator: the newest entry of a key, and the visible map.           *)

LEMMA NewestIs ==
    ASSUME KidsGood, NEW u
    PROVE  /\ Newest(u) # <<>> => /\ Newest(u)[1] \in Seen /\ Newest(u)[1].u = u
                                  /\ \A y \in Seen : y.u = u => y = Newest(u)[1] \/ EntryBefore(Newest(u)[1], y)
           /\ \A e \in Seen : e.u = u /\ (\A y \in Seen : y.u = u => ~EntryBefore(y, e)) =>
                Newest(u) # <<>> /\ Newest(u)[1] = e
<1> DEFINE S == {e \in AllEntries : e.u = u /\ e.s <= sequence}
<1>1. S \subseteq AllEntries /\ Newest(u) = Least(S)
  BY DEF Newest
<1>2. \A e : e \in S <=> e \in Seen /\ e.u = u
  BY DEF Seen
<1> HIDE DEF S
<1>3. /\ S = {} => Least(S) = <<>>
      /\ S # {} => Least(S) # <<>> /\ Least(S)[1] \in S
                   /\ \A y \in S : y = Least(S)[1] \/ EntryBefore(Least(S)[1], y)
  BY <1>1, LeastIs
<1> QED  BY <1>1, <1>2, <1>3

LEMMA VisibleIs ==
    ASSUME KidsGood
    PROVE  /\ \A v \in Visible : /\ v \in IterUsers /\ v \in Nat /\ v > 0 /\ Newest(v) # <<>>
                                   /\ Newest(v)[1] \in Seen /\ Newest(v)[1].u = v /\ ~Newest(v)[1].del
                                   /\ \A y \in Seen : y.u = v => y = Newest(v)[1] \/ EntryBefore(Newest(v)[1], y)
           /\ \A e \in Seen : ~e.del /\ (\A y \in Seen : y.u = e.u => ~EntryBefore(y, e)) =>
                e.u \in Visible /\ Newest(e.u)[1] = e
<1>1. ASSUME NEW v \in Visible
      PROVE  /\ v \in IterUsers /\ v \in Nat /\ v > 0 /\ Newest(v) # <<>>
             /\ Newest(v)[1] \in Seen /\ Newest(v)[1].u = v /\ ~Newest(v)[1].del
             /\ \A y \in Seen : y.u = v => y = Newest(v)[1] \/ EntryBefore(Newest(v)[1], y)
  <2>1. v \in IterUsers /\ Newest(v) # <<>> /\ ~Newest(v)[1].del
    BY DEF Visible
  <2>2. v \in Nat /\ v > 0
    BY <2>1, IterAssumption
  <2> QED  BY <2>1, <2>2, NewestIs
<1>2. ASSUME NEW e \in Seen, ~e.del, \A y \in Seen : y.u = e.u => ~EntryBefore(y, e)
      PROVE  e.u \in Visible /\ Newest(e.u)[1] = e
  <2>1. Newest(e.u) # <<>> /\ Newest(e.u)[1] = e
    BY <1>2, NewestIs
  <2>2. e.u \in IterUsers
    BY EntryTypes
  <2> QED  BY <1>2, <2>1, <2>2 DEF Visible
<1> QED  BY <1>1, <1>2

LEMMA LowestIs ==
    ASSUME NEW S, S \subseteq Nat
    PROVE  /\ S = {} => LowestOf(S) = 0
           /\ \A x \in S : (\A y \in S : x <= y) => LowestOf(S) = x
<1> SUFFICES ASSUME NEW x \in S, \A y \in S : x <= y PROVE LowestOf(S) = x
  BY DEF LowestOf
<1> DEFINE c == CHOOSE u \in S : \A v \in S : u <= v
<1>1. c \in S /\ \A v \in S : c <= v
  OBVIOUS
<1>2. LowestOf(S) = c
  BY DEF LowestOf
<1> HIDE DEF c
<1>3. x \in Nat /\ c \in Nat /\ x <= c /\ c <= x
  BY <1>1
<1> QED  BY <1>2, <1>3

LEMMA HighestIs ==
    ASSUME NEW S, S \subseteq Nat
    PROVE  /\ S = {} => HighestOf(S) = 0
           /\ \A x \in S : (\A y \in S : x >= y) => HighestOf(S) = x
<1> SUFFICES ASSUME NEW x \in S, \A y \in S : x >= y PROVE HighestOf(S) = x
  BY DEF HighestOf
<1> DEFINE c == CHOOSE u \in S : \A v \in S : u >= v
<1>1. c \in S /\ \A v \in S : c >= v
  OBVIOUS
<1>2. HighestOf(S) = c
  BY DEF HighestOf
<1> HIDE DEF c
<1>3. x \in Nat /\ c \in Nat /\ x <= c /\ c <= x
  BY <1>1
<1> QED  BY <1>2, <1>3

----------------------------------------------------------------------------
(* The iterator: the search for the next visible key above F.              *)

NextTurns == [merge : IterMergeSet, skipping : BOOLEAN, skip : Nat]
NextEnded(t) == ~MValid(t.merge) \/ Shown(t)

\* What lies behind is of keys up to F or the one that is skipped; no visible key was passed.
NothingPassed(t, F) ==
    LET k == MKey(t.merge)
    IN  /\ k.u >= F /\ (t.skip >= F \/ k.u > F)
        /\ \A e \in Seen : EntryBefore(e, k) => e.u <= t.skip \/ e.u <= F
        /\ \A v \in Visible : v > F => v > t.skip /\ ~EntryBefore(Newest(v)[1], k)
NextLoop(t, F) ==
    /\ t \in NextTurns /\ FwdOK(t.merge) /\ (~t.skipping => t.skip = 0)
    /\ MValid(t.merge) => NothingPassed(t, F)
    /\ ~MValid(t.merge) => \A v \in Visible : v <= F

LEMMA NextTurnGood ==
    ASSUME KidsGood, NEW F \in Nat, NEW t, NextLoop(t, F), ~NextEnded(t)
    PROVE  /\ NextLoop(NextTurn(t), F)
           /\ MValid(NextTurn(t).merge) =>
                /\ LeftOn(t.merge) \in Nat /\ LeftOn(NextTurn(t).merge) \in Nat
                /\ LeftOn(NextTurn(t).merge) < LeftOn(t.merge)
<1> DEFINE m == t.merge
           n == MNext(m)
           k == MKey(m)
           j == MKey(n)
           hides == k.s <= sequence /\ k.del
           r == [merge |-> n, skipping |-> t.skipping \/ hides, skip |-> IF hides THEN k.u ELSE t.skip]
<1>1. /\ MValid(m) /\ ~Shown(t) /\ FwdOK(m) /\ NothingPassed(t, F) /\ t.skip \in Nat /\ t.skipping \in BOOLEAN
      /\ (~t.skipping => t.skip = 0) /\ NextTurn(t) = r
  BY DEF NextLoop, NextEnded, NextTurn, NextTurns
<1>2. FwdOK(n) /\ StartsAt(n, Beyond(k)) /\ k \in AllEntries /\ k.u \in Nat /\ k.u > 0 /\ k.s \in Nat
  <2>1. k \in AllEntries
    BY <1>1, KeyIn DEF MergeOK
  <2>2. FwdOK(n) /\ StartsAt(n, Beyond(k))
    BY <1>1, MNextGood DEF MergeOK
  <2> HIDE DEF k
  <2> QED  BY <2>1, <2>2, EntryTypes
<1>3. Shown(t) <=> k.s <= sequence /\ ~k.del /\ ~(t.skipping /\ k.u <= t.skip)
  BY DEF Shown
<1>4. /\ k.u >= F /\ (t.skip >= F \/ k.u > F)
      /\ \A e \in Seen : EntryBefore(e, k) => e.u <= t.skip \/ e.u <= F
      /\ \A v \in Visible : v > F => v > t.skip /\ ~EntryBefore(Newest(v)[1], k)
  BY <1>1 DEF NothingPassed
<1>5. r.merge = n /\ r.skipping = (t.skipping \/ hides) /\ r.skip = (IF hides THEN k.u ELSE t.skip) /\ r \in NextTurns
      /\ (~r.skipping => r.skip = 0)
  <2>1. r.merge = n /\ r.skipping = (t.skipping \/ hides) /\ r.skip = (IF hides THEN k.u ELSE t.skip)
    OBVIOUS
  <2>2. n \in IterMergeSet
    BY <1>2 DEF FwdOK
  <2>3. r.skipping \in BOOLEAN /\ r.skip \in Nat
    BY <1>1, <1>2, <2>1
  <2> HIDE DEF hides, n, k
  <2>4. r \in NextTurns
    BY <2>1, <2>2, <2>3 DEF NextTurns
  <2> QED  BY <1>1, <2>1, <2>4
<1>6. MValid(n) => LeftOn(m) \in Nat /\ LeftOn(n) \in Nat /\ LeftOn(n) < LeftOn(m)
  BY <1>1, NextLeavesFewer DEF MergeOK
<1> HIDE DEF r, k, n, m, j
\* k is not the newest entry of a visible key above F, so that one is still ahead.
<1>7. ASSUME NEW v \in Visible, v > F
      PROVE  Newest(v)[1] \in Seen /\ Newest(v)[1] \in Beyond(k) /\ Newest(v)[1].u = v /\ v \in Nat
  <2> DEFINE e == Newest(v)[1]
  <2>1. e \in Seen /\ e.u = v /\ ~e.del /\ v \in Nat /\ v > t.skip /\ ~EntryBefore(e, k)
    BY <1>4, <1>7, VisibleIs
  <2> HIDE DEF e
  <2>2. e # k
    <3>1. ASSUME e = k PROVE FALSE
      <4>1. k.s <= sequence /\ ~k.del /\ ~(k.u <= t.skip)
        BY <1>1, <2>1, <3>1 DEF Seen
      <4> QED  BY <1>1, <1>3, <4>1
    <3> QED  BY <3>1
  <2>3. EntryBefore(k, e)
    BY <1>2, <2>1, <2>2, EntryOrder, EntryTypes
  <2>4. e \in Beyond(k)
    BY <2>1, <2>3, EntryTypes DEF Beyond
  <2> QED  BY <2>1, <2>4 DEF e
<1>8. CASE ~MValid(n)
  <2>1. \A v \in Visible : ~(v > F)
    BY <1>2, <1>7, <1>8 DEF StartsAt
  <2>2. \A v \in Visible : v <= F
    BY <2>1, VisibleIs
  <2> QED  BY <1>1, <1>2, <1>5, <1>8, <2>2 DEF NextLoop
<1>9. CASE MValid(n)
  <2>1. /\ j \in Beyond(k) /\ j \in AllEntries /\ EntryBefore(k, j) /\ j.u \in Nat /\ k.u <= j.u
        /\ \A x \in Seen : x \in Beyond(k) => x = j \/ EntryBefore(j, x)
    <3>1. j \in Beyond(k) /\ \A x \in Seen : x \in Beyond(k) => x = j \/ EntryBefore(j, x)
      BY <1>2, <1>9 DEF StartsAt, j
    <3>2. j \in AllEntries /\ EntryBefore(k, j)
      BY <3>1 DEF Beyond
    <3> QED  BY <1>2, <3>1, <3>2, EntryTypes, EntryOrder
  <2>2. j.u >= F /\ (r.skip >= F \/ j.u > F)
    BY <1>1, <1>2, <1>4, <1>5, <2>1
  <2>3. ASSUME NEW e \in Seen, EntryBefore(e, j) PROVE e.u <= r.skip \/ e.u <= F
    <3>1. e \in AllEntries /\ e.u \in Nat
      BY EntryTypes
    <3>2. e \notin Beyond(k)
      BY <2>1, <2>3, <3>1, EntryOrder
    <3>3. e = k \/ EntryBefore(e, k)
      BY <1>2, <3>1, <3>2, EntryOrder DEF Beyond
    <3>4. CASE hides
      <4>1. e.u <= k.u /\ r.skip = k.u
        BY <1>2, <1>5, <3>1, <3>3, <3>4, EntryOrder
      <4> QED  BY <4>1
    <3>5. CASE ~hides
      <4>1. r.skip = t.skip
        BY <1>5, <3>5
      <4>2. CASE e = k
        <5>1. k.s <= sequence /\ ~k.del
          BY <3>5, <4>2 DEF Seen
        <5>2. k.u <= t.skip
          BY <1>1, <1>3, <5>1
        <5> QED  BY <4>1, <4>2, <5>2
      <4>3. CASE EntryBefore(e, k)
        BY <1>4, <4>1, <4>3
      <4> QED  BY <3>3, <4>2, <4>3
    <3> QED  BY <3>4, <3>5
  <2>4. ASSUME NEW v \in Visible, v > F PROVE v > r.skip /\ ~EntryBefore(Newest(v)[1], j)
    <3> DEFINE e == Newest(v)[1]
    <3>1. e \in Seen /\ e \in AllEntries /\ e \in Beyond(k) /\ e.u = v /\ v \in Nat
      BY <1>7, <2>4, EntryTypes
    <3>2. \A y \in Seen : y.u = v => y = e \/ EntryBefore(e, y)
      BY VisibleIs
    <3>3. v > t.skip
      BY <1>4, <2>4
    <3> HIDE DEF e
    <3>4. ~EntryBefore(e, j)
      BY <2>1, <3>1, EntryOrder
    <3>5. EntryBefore(k, e) /\ k.u <= v
      BY <1>2, <3>1, EntryOrder DEF Beyond
    <3>6. CASE hides
      <4>1. k \in Seen
        BY <1>2, <3>6 DEF Seen
      <4>2. k.u # v
        BY <1>2, <3>1, <3>2, <3>5, <4>1, EntryOrder
      <4> QED  BY <1>2, <1>5, <3>1, <3>4, <3>5, <3>6, <4>2 DEF e
    <3>7. CASE ~hides
      BY <1>5, <3>3, <3>4, <3>7 DEF e
    <3> QED  BY <3>6, <3>7
  <2>5. NothingPassed(r, F)
    BY <1>5, <2>2, <2>3, <2>4 DEF NothingPassed, j
  <2> QED  BY <1>1, <1>2, <1>5, <1>6, <1>9, <2>5 DEF NextLoop, m
<1> QED  BY <1>8, <1>9

UnfoldNext(t, turn) == [i \in 0 .. Cardinality(AllEntries) |-> IF i = 0 THEN t ELSE NextTurn(turn[i - 1])]

LEMMA NextLoopEnds ==
    ASSUME KidsGood, NEW F \in Nat, NEW t, NextLoop(t, F)
    PROVE  \E turn : /\ turn = UnfoldNext(t, turn)
                     /\ NextLoop(turn[Cardinality(AllEntries)], F)
                     /\ NextEnded(turn[Cardinality(AllEntries)])
                     /\ turn = CHOOSE x : x = UnfoldNext(t, x)
<1> DEFINE X == {x \in NextTurns : NextLoop(x, F)}
           n == Cardinality(AllEntries)
           T == [q \in (1 .. n) \X X |-> NextTurn(q[2])]
<1>1. n \in Nat /\ t \in X
  BY FS_CardinalityType DEF KidsGood, NextLoop
<1>2. \A x \in X : NextTurn(x) \in X
  <2> SUFFICES ASSUME NEW x \in X PROVE NextTurn(x) \in X
    OBVIOUS
  <2>1. CASE NextEnded(x)
    BY <2>1 DEF NextTurn, NextEnded
  <2>2. CASE ~NextEnded(x)
    <3>1. NextLoop(NextTurn(x), F)
      BY <2>2, NextTurnGood
    <3> QED  BY <3>1 DEF NextLoop
  <2> QED  BY <2>1, <2>2
<1> HIDE DEF X
<1>3. T \in [(1 .. n) \X X -> X] /\ \A i \in 1 .. n, x \in X : T[<<i, x>>] = NextTurn(x)
  BY <1>2
<1> HIDE DEF T, n
<1>4. PICK g \in [0 .. n -> X] : g = UnfoldOver(n, t, T, g)
  <2>1. LoopOver(X, t, n, T)
    BY <1>1, <1>3 DEF LoopOver
  <2> QED  BY <2>1, FiniteRecursion
<1>5. g = UnfoldNext(t, g)
  <2>1. \A i \in 0 .. n : UnfoldOver(n, t, T, g)[i] = UnfoldNext(t, g)[i]
    <3> SUFFICES ASSUME NEW i \in 0 .. n PROVE UnfoldOver(n, t, T, g)[i] = UnfoldNext(t, g)[i]
      OBVIOUS
    <3>1. i # 0 => i \in 1 .. n /\ i - 1 \in 0 .. n
      BY <1>1
    <3>2. i # 0 => g[i - 1] \in X
      BY <1>4, <3>1
    <3> QED  BY <1>3, <3>1, <3>2 DEF UnfoldOver, UnfoldNext, n
  <2> QED  BY <1>4, <2>1 DEF UnfoldOver, UnfoldNext, n
<1> DEFINE turn == CHOOSE x : x = UnfoldNext(t, x)
<1>6. turn = UnfoldNext(t, turn)
  BY <1>5
<1>7. turn[0] = t /\ \A i \in 1 .. n : turn[i] = NextTurn(turn[i - 1])
  <2> HIDE DEF turn
  <2>1. \A i \in 0 .. n : UnfoldNext(t, turn)[i] = IF i = 0 THEN t ELSE NextTurn(turn[i - 1])
    BY DEF UnfoldNext, n
  <2>2. 0 \in 0 .. n /\ \A i \in 1 .. n : i \in 0 .. n /\ i # 0
    BY <1>1
  <2> QED  BY <1>6, <2>1, <2>2
<1> DEFINE Left(i) == NextEnded(turn[i]) \/ (LeftOn(turn[i].merge) \in Nat /\ LeftOn(turn[i].merge) < n - i)
           S == {i \in 0 .. n : turn[i] \in X /\ Left(i)}
<1> HIDE DEF turn
<1>8. 0 \in S
  <2>1. NextLoop(t, F)
    OBVIOUS
  <2>2. MValid(t.merge) => LeftOn(t.merge) \in Nat /\ LeftOn(t.merge) < n
    BY <2>1, KeyIn, FewerThanAll DEF LeftOn, n, NextLoop, MergeOK
  <2>3. Left(0)
    BY <1>1, <1>7, <2>2 DEF NextEnded
  <2> QED  BY <1>1, <1>7, <2>3
<1>9. ASSUME NEW i \in 1 .. n, i - 1 \in S PROVE i \in S
  <2> DEFINE d == turn[i - 1]
  <2>1. i - 1 \in 0 .. n /\ d \in X /\ Left(i - 1) /\ turn[i] = NextTurn(d)
    BY <1>7, <1>9
  <2>2. NextLoop(d, F)
    BY <2>1 DEF X
  <2>3. turn[i] \in X
    BY <1>2, <2>1
  <2>4. NextEnded(d) \/ (LeftOn(d.merge) \in Nat /\ LeftOn(d.merge) < n - (i - 1))
    BY <2>1
  <2> HIDE DEF d
  <2>5. Left(i)
    <3>1. CASE NextEnded(d)
      BY <2>1, <3>1 DEF NextTurn, NextEnded
    <3>2. CASE ~ NextEnded(d)
      <4>1. MValid(turn[i].merge) => LeftOn(turn[i].merge) \in Nat /\ LeftOn(turn[i].merge) < LeftOn(d.merge)
        BY <2>1, <2>2, <3>2, NextTurnGood
      <4>2. MValid(turn[i].merge) => LeftOn(turn[i].merge) \in Nat /\ LeftOn(turn[i].merge) < n - i
        BY <1>1, <2>4, <3>2, <4>1
      <4> QED  BY <4>2 DEF NextEnded
    <3> QED  BY <3>1, <3>2
  <2> QED  BY <2>3, <2>5
<1>10. \A i \in 0 .. n : i \in S
  <2> HIDE DEF S
  <2> QED  BY <1>1, <1>8, <1>9, UpTo
<1>11. turn[n] \in X /\ Left(n)
  BY <1>1, <1>10
<1>12. NextLoop(turn[n], F) /\ NextEnded(turn[n])
  <2>1. ~(LeftOn(turn[n].merge) \in Nat /\ LeftOn(turn[n].merge) < n - n)
    BY <1>1
  <2> QED  BY <1>11, <2>1 DEF X
<1> QED  BY <1>6, <1>12 DEF n, turn

\* The entries of the keys below u.
Lower(u) == {x \in AllEntries : x.u < u}

\* The iterator is at a key of the visible map, or beyond its ends. Going back, its merge is
\* already at the entries of the keys below.
IterAt(it, at) ==
    /\ it.valid = (at # 0) /\ it.valid \in BOOLEAN
    /\ it.valid =>
         /\ at \in Visible /\ it.dir \in {"forward", "reverse"}
         /\ it.dir = "forward" =>
              FwdOK(it.merge) /\ MValid(it.merge) /\ MKey(it.merge) = Newest(at)[1]
         /\ it.dir = "reverse" =>
              RevOK(it.merge) /\ EndsAt(it.merge, Lower(at)) /\ it.saved = Newest(at)[1]

LEMMA NextFinds ==
    ASSUME KidsGood, NEW F \in Nat, NEW m, NEW skipping, NEW skip,
           NextLoop([merge |-> m, skipping |-> skipping, skip |-> skip], F)
    PROVE  IterAt(FindNextUserEntry(m, skipping, skip), LowestOf({v \in Visible : v > F}))
<1> DEFINE t == [merge |-> m, skipping |-> skipping, skip |-> skip]
           n == Cardinality(AllEntries)
           above == {v \in Visible : v > F}
<1>1. PICK turn : /\ NextLoop(turn[n], F) /\ NextEnded(turn[n])
                  /\ turn = CHOOSE x : x = UnfoldNext(t, x)
  <2> HIDE DEF t
  <2> QED  BY NextLoopEnds DEF t
<1> DEFINE r == turn[n]
           it == IF MValid(r.merge) THEN [merge |-> r.merge, dir |-> "forward", valid |-> TRUE, saved |-> None]
                 ELSE Invalid(r.merge, "forward")
<1>2. FindNextUserEntry(m, skipping, skip) = it
  BY <1>1 DEF FindNextUserEntry, UnfoldNext
<1>3. NextLoop(r, F) /\ NextEnded(r)
  BY <1>1
<1>4. above \subseteq Nat
  BY VisibleIs
<1> HIDE DEF r
<1>5. CASE ~MValid(r.merge)
  <2>1. \A v \in Visible : v \in Nat /\ v <= F
    BY <1>3, <1>5, VisibleIs DEF NextLoop
  <2>2. above = {}
    BY <2>1
  <2>3. LowestOf(above) = 0
    BY <1>4, <2>2, LowestIs
  <2>4. ~it.valid /\ it.valid \in BOOLEAN
    BY <1>5 DEF Invalid
  <2> HIDE DEF it, above
  <2> QED  BY <1>2, <2>3, <2>4 DEF IterAt, above
<1>6. CASE MValid(r.merge)
  <2> DEFINE k == MKey(r.merge)
  <2>1. FwdOK(r.merge) /\ k \in AllEntries /\ r.skip \in Nat /\ (~r.skipping => r.skip = 0)
        /\ NothingPassed(r, F) /\ Shown(r) /\ r.skipping \in BOOLEAN
    BY <1>3, <1>6, KeyIn DEF NextLoop, NextTurns, NextEnded, MergeOK
  <2> HIDE DEF k
  <2>2. k.u \in Nat /\ k.u > 0 /\ k.s \in Nat
    BY <2>1, EntryTypes
  <2>3. k \in Seen /\ ~k.del /\ k.u > r.skip
    <3>1. k.s <= sequence /\ ~k.del /\ ~(r.skipping /\ k.u <= r.skip)
      BY <2>1 DEF Shown, k
    <3> QED  BY <2>1, <2>2, <3>1 DEF Seen
  <2>4. /\ k.u >= F /\ (r.skip >= F \/ k.u > F)
        /\ \A e \in Seen : EntryBefore(e, k) => e.u <= r.skip \/ e.u <= F
        /\ \A v \in Visible : v > F => v > r.skip /\ ~EntryBefore(Newest(v)[1], k)
    BY <2>1 DEF NothingPassed, k
  <2>5. k.u > F
    BY <2>1, <2>2, <2>3, <2>4
  <2>6. \A y \in Seen : y.u = k.u => ~EntryBefore(y, k)
    BY <2>1, <2>2, <2>3, <2>4, <2>5
  <2>7. k.u \in Visible /\ Newest(k.u)[1] = k
    BY <2>3, <2>6, VisibleIs
  <2>8. \A v \in above : k.u <= v
    <3> SUFFICES ASSUME NEW v \in Visible, v > F PROVE k.u <= v
      OBVIOUS
    <3>1. ~EntryBefore(Newest(v)[1], k) /\ Newest(v)[1] \in AllEntries /\ Newest(v)[1].u = v /\ v \in Nat
      BY <2>4, VisibleIs, EntryTypes
    <3>2. k = Newest(v)[1] \/ EntryBefore(k, Newest(v)[1])
      BY <2>1, <3>1, EntryOrder
    <3> QED  BY <2>1, <2>2, <3>1, <3>2, EntryOrder
  <2>9. LowestOf(above) = k.u
    <3>1. k.u \in above
      BY <2>5, <2>7
    <3> HIDE DEF above
    <3> QED  BY <1>4, <2>8, <3>1, LowestIs
  <2>10. it.merge = r.merge /\ it.dir = "forward" /\ it.valid = TRUE
    BY <1>6
  <2> HIDE DEF it, above
  <2>11. IterAt(it, k.u)
    <3>1. it.valid = (k.u # 0) /\ it.valid \in BOOLEAN
      <4>1. k.u # 0
        BY <2>2
      <4> QED  BY <2>10, <4>1
    <3>2. FwdOK(it.merge) /\ MValid(it.merge) /\ MKey(it.merge) = Newest(k.u)[1]
      BY <1>6, <2>1, <2>7, <2>10 DEF k
    <3>3. it.dir = "forward" /\ it.dir # "reverse"
      BY <2>10
    <3> HIDE DEF k
    <3> QED  BY <2>7, <3>1, <3>2, <3>3 DEF IterAt
  <2> QED  BY <1>2, <2>9, <2>11 DEF above
<1> QED  BY <1>5, <1>6

\* SeekToFirst and Seek: the merge is at the first entry of the keys above F.
LEMMA FoundGood ==
    ASSUME KidsGood, NEW F \in Nat, NEW m, NEW L, FwdOK(m), StartsAt(m, L),
           \A x \in L : x.u > F, \A x \in Seen : x \notin L => x.u <= F
    PROVE  IterAt(Found(m), LowestOf({v \in Visible : v > F}))
<1>1. ASSUME NEW v \in Visible, v > F PROVE Newest(v)[1] \in Seen /\ Newest(v)[1] \in L
  <2>1. Newest(v)[1] \in Seen /\ Newest(v)[1].u = v /\ v \in Nat
    BY VisibleIs
  <2> QED  BY <1>1, <2>1
<1>2. CASE MValid(m)
  <2> DEFINE t == [merge |-> m, skipping |-> FALSE, skip |-> 0]
             k == MKey(m)
  <2>1. t.merge = m /\ t.skipping = FALSE /\ t.skip = 0 /\ t \in NextTurns
    BY DEF NextTurns, FwdOK
  <2> HIDE DEF t
  <2>2. k \in L /\ k \in AllEntries /\ k.u \in Nat /\ k.u > F
        /\ \A x \in Seen : x \in L => x = k \/ EntryBefore(k, x)
    <3>1. k \in L /\ k \in AllEntries /\ \A x \in Seen : x \in L => x = k \/ EntryBefore(k, x)
      BY <1>2, KeyIn DEF StartsAt, MergeOK
    <3> HIDE DEF k
    <3> QED  BY <3>1, EntryTypes
  <2> HIDE DEF k
  <2>3. ASSUME NEW e \in Seen, EntryBefore(e, k) PROVE e.u <= F
    <3>1. e \notin L
      BY <2>2, <2>3, EntryOrder, EntryTypes
    <3> QED  BY <3>1
  <2>4. ASSUME NEW v \in Visible, v > F PROVE v > 0 /\ ~EntryBefore(Newest(v)[1], k)
    <3>1. Newest(v)[1] \in AllEntries /\ (Newest(v)[1] = k \/ EntryBefore(k, Newest(v)[1]))
      BY <1>1, <2>2, <2>4, EntryTypes
    <3>2. ~EntryBefore(Newest(v)[1], k)
      BY <2>2, <3>1, EntryOrder
    <3> QED  BY <3>2, VisibleIs
  <2>5. NothingPassed(t, F)
    BY <2>1, <2>2, <2>3, <2>4 DEF NothingPassed, k
  <2>6. NextLoop(t, F)
    BY <1>2, <2>1, <2>5 DEF NextLoop
  <2>7. IterAt(FindNextUserEntry(m, FALSE, 0), LowestOf({v \in Visible : v > F}))
    BY <2>6, NextFinds DEF t
  <2> QED  BY <1>2, <2>7 DEF Found
<1>3. CASE ~MValid(m)
  <2>1. {v \in Visible : v > F} = {}
    BY <1>1, <1>3 DEF StartsAt
  <2>2. LowestOf({v \in Visible : v > F}) = 0
    BY <2>1, LowestIs
  <2>3. ~Found(m).valid /\ Found(m).valid \in BOOLEAN
    BY <1>3 DEF Found, Invalid
  <2> QED  BY <2>2, <2>3 DEF IterAt
<1> QED  BY <1>2, <1>3

\* Next: but for LandsShort, the merge is at an entry of the current key.
LEMMA DbNextGood ==
    ASSUME KidsGood, NEW it, NEW at, IterAt(it, at), it.valid, ~LandsShort(it)
    PROVE  IterAt(DbNextEntry(it), LowestOf({v \in Visible : v > at}))
<1> DEFINE n == Turned(it)
           k == MKey(n)
           new == Newest(at)[1]
<1>1. /\ at \in Visible /\ at \in Nat /\ at > 0 /\ it.dir \in {"forward", "reverse"}
      /\ new \in Seen /\ new \in AllEntries /\ new.u = at
  BY VisibleIs, EntryTypes DEF IterAt
<1>2. FwdOK(n) /\ MValid(n) /\ k.u = at
  <2>1. CASE it.dir = "forward"
    BY <1>1, <2>1 DEF IterAt, Turned
  <2>2. CASE it.dir = "reverse"
    <3>1. RevOK(it.merge) /\ EndsAt(it.merge, Lower(at)) /\ it.saved = new /\ it.dir # "forward"
      BY <2>2 DEF IterAt
    <3>2. FwdOK(n) /\ MValid(n)
      <4>1. CASE MValid(it.merge)
        <5> DEFINE j == MKey(it.merge)
        <5>1. n = MNext(it.merge)
          BY <3>1, <4>1 DEF Turned
        <5>2. FwdOK(n) /\ StartsAt(n, Beyond(j)) /\ j \in AllEntries /\ j \in Lower(at)
          BY <3>1, <4>1, <5>1, MNextGood, KeyIn DEF MergeOK, EndsAt
        <5> HIDE DEF j, n, new
        <5>3. j.u < new.u
          BY <1>1, <5>2 DEF Lower
        <5>4. new \in Beyond(j)
          BY <1>1, <5>2, <5>3, EntryOrder DEF Beyond
        <5> QED  BY <1>1, <5>2, <5>4 DEF StartsAt
      <4>2. CASE ~MValid(it.merge)
        <5>1. n = MFirst
          BY <3>1, <4>2 DEF Turned
        <5> HIDE DEF n, new
        <5> QED  BY <1>1, <5>1, MFirstGood DEF StartsAt
      <4> QED  BY <4>1, <4>2
    <3>3. k.u = it.saved.u
      BY <2>2, <3>2 DEF LandsShort
    <3> QED  BY <1>1, <3>1, <3>2, <3>3
  <2> QED  BY <1>1, <2>1, <2>2
<1> DEFINE t == [merge |-> n, skipping |-> TRUE, skip |-> k.u]
<1>3. t.merge = n /\ t.skipping = TRUE /\ t.skip = at /\ t \in NextTurns
  <2> HIDE DEF n, k
  <2> QED  BY <1>1, <1>2 DEF NextTurns, FwdOK
<1>4. DbNextEntry(it) = FindNextUserEntry(n, TRUE, k.u)
  BY <1>2 DEF DbNextEntry
<1> HIDE DEF n
<1>5. k \in AllEntries
  BY <1>2, KeyIn DEF MergeOK
<1> HIDE DEF k, t, new
<1>6. ASSUME NEW e \in Seen, EntryBefore(e, k) PROVE e.u <= at
  BY <1>2, <1>5, <1>6, EntryOrder, EntryTypes
<1>7. ASSUME NEW v \in Visible, v > at PROVE v > t.skip /\ ~EntryBefore(Newest(v)[1], k)
  <2>1. Newest(v)[1] \in AllEntries /\ Newest(v)[1].u = v /\ v \in Nat
    BY VisibleIs, EntryTypes
  <2>2. EntryBefore(Newest(v)[1], k) => Newest(v)[1].u <= k.u
    BY <1>5, <2>1, EntryOrder
  <2> QED  BY <1>1, <1>2, <1>3, <1>7, <2>1, <2>2
<1>8. NothingPassed(t, at)
  BY <1>1, <1>2, <1>3, <1>6, <1>7 DEF NothingPassed, k
<1>9. NextLoop(t, at)
  BY <1>2, <1>3, <1>8 DEF NextLoop
<1>10. IterAt(FindNextUserEntry(n, TRUE, k.u), LowestOf({v \in Visible : v > at}))
  BY <1>1, <1>9, NextFinds DEF t
<1> QED  BY <1>4, <1>10

----------------------------------------------------------------------------
(* The iterator: the search for the previous visible key below C, and the  *)
(* way back over the entries of the current key.                           *)

PrevTurns == [merge : IterMergeSet, saved : Entry \cup {None}]
PrevEnded(t) == ~MValid(t.merge) \/ PastKey(t)

\* saved is the last entry of the snapshot that was passed, if that is no deletion.
SavedLast(t, C) ==
    /\ t.saved \in Seen /\ ~t.saved.del /\ t.saved.u < C
    /\ \A v \in Visible : v < C => v <= t.saved.u
    /\ MValid(t.merge) =>
         /\ EntryBefore(MKey(t.merge), t.saved)
         /\ \A x \in Seen : EntryBefore(MKey(t.merge), x) => x = t.saved \/ EntryBefore(t.saved, x)
    /\ ~MValid(t.merge) => \A x \in Seen : x = t.saved \/ EntryBefore(t.saved, x)
PrevLoop(t, C) ==
    /\ t \in PrevTurns /\ RevOK(t.merge) /\ (MValid(t.merge) => MKey(t.merge).u < C)
    /\ t.saved # None => SavedLast(t, C)
    /\ t.saved = None => \A v \in Visible : v < C =>
         MValid(t.merge) /\ ~EntryBefore(MKey(t.merge), Newest(v)[1])

LEMMA PrevTurnGood ==
    ASSUME KidsGood, NEW C \in Nat, NEW t, PrevLoop(t, C), ~PrevEnded(t)
    PROVE  /\ PrevLoop(PrevTurn(t), C)
           /\ MValid(PrevTurn(t).merge) =>
                /\ LeftBack(t.merge) \in Nat /\ LeftBack(PrevTurn(t).merge) \in Nat
                /\ LeftBack(PrevTurn(t).merge) < LeftBack(t.merge)
<1> DEFINE m == t.merge
           n == MPrev(m)
           k == MKey(m)
           j == MKey(n)
           kept == IF k.s > sequence THEN t.saved ELSE IF k.del THEN None ELSE k
           r == [merge |-> n, saved |-> kept]
<1>1. /\ MValid(m) /\ ~PastKey(t) /\ RevOK(m) /\ k.u < C /\ t.saved \in Entry \cup {None} /\ PrevTurn(t) = r
  BY DEF PrevLoop, PrevEnded, PrevTurn, PrevTurns
<1>2. /\ RevOK(n) /\ EndsAt(n, Below(k)) /\ k \in AllEntries /\ k \in Entry
      /\ k.u \in Nat /\ k.u > 0 /\ k.s \in Nat
  <2>1. k \in AllEntries
    BY <1>1, KeyIn DEF MergeOK
  <2>2. RevOK(n) /\ EndsAt(n, Below(k))
    BY <1>1, MPrevGood DEF MergeOK
  <2> HIDE DEF k
  <2> QED  BY <2>1, <2>2, EntryTypes
<1>3. PastKey(t) <=> k.s <= sequence /\ t.saved # None /\ k.u < t.saved.u
  BY DEF PastKey
<1>4. /\ t.saved # None => SavedLast(t, C)
      /\ t.saved = None => \A v \in Visible : v < C => ~EntryBefore(k, Newest(v)[1])
  BY DEF PrevLoop
<1>5. /\ t.saved # None =>
           /\ t.saved \in Seen /\ ~t.saved.del /\ t.saved.u < C /\ (\A v \in Visible : v < C => v <= t.saved.u)
           /\ EntryBefore(k, t.saved) /\ \A x \in Seen : EntryBefore(k, x) => x = t.saved \/ EntryBefore(t.saved, x)
  BY <1>1, <1>4 DEF SavedLast
<1>6. r.merge = n /\ r.saved = kept
  OBVIOUS
<1>7. MValid(n) => LeftBack(m) \in Nat /\ LeftBack(n) \in Nat /\ LeftBack(n) < LeftBack(m)
  BY <1>1, PrevLeavesFewer DEF MergeOK
<1>8. kept = IF k.s > sequence THEN t.saved ELSE IF k.del THEN None ELSE k
  OBVIOUS
<1>9. sequence \in Nat /\ (k \in Seen <=> k.s <= sequence)
  BY <1>2, EntryTypes DEF Seen
<1>10. k # None
  BY <1>2 DEF None
<1> HIDE DEF r, kept, k, n, m
<1>11. r \in PrevTurns
  <2>1. n \in IterMergeSet
    BY <1>2 DEF RevOK
  <2>2. kept \in Entry \cup {None}
    BY <1>1, <1>2, <1>8
  <2> QED  BY <2>1, <2>2 DEF PrevTurns, r
<1>12. MValid(n) => /\ j \in AllEntries /\ EntryBefore(j, k) /\ j.u < C
                    /\ \A x \in Seen : EntryBefore(x, k) => x = j \/ EntryBefore(x, j)
  <2> SUFFICES ASSUME MValid(n)
               PROVE  /\ j \in AllEntries /\ EntryBefore(j, k) /\ j.u < C
                      /\ \A x \in Seen : EntryBefore(x, k) => x = j \/ EntryBefore(x, j)
    OBVIOUS
  <2>1. j \in Below(k) /\ \A x \in Seen : x \in Below(k) => x = j \/ EntryBefore(x, j)
    BY <1>2 DEF EndsAt
  <2> HIDE DEF j
  <2>2. j \in AllEntries /\ EntryBefore(j, k)
    BY <2>1 DEF Below
  <2>3. j.u < C
    BY <1>1, <1>2, <2>2, EntryOrder, EntryTypes
  <2> QED  BY <2>1, <2>2, <2>3, EntryTypes DEF Below
<1>13. ~MValid(n) => \A x \in Seen : ~EntryBefore(x, k)
  BY <1>2, EntryTypes DEF EndsAt, Below
<1> HIDE DEF j
\* No visible key below C lies between k and the merge's next entry.
<1>14. ASSUME \A v \in Visible : v < C => EntryBefore(Newest(v)[1], k)
       PROVE  \A v \in Visible : v < C => MValid(n) /\ ~EntryBefore(j, Newest(v)[1])
  <2> SUFFICES ASSUME NEW v \in Visible, v < C PROVE MValid(n) /\ ~EntryBefore(j, Newest(v)[1])
    OBVIOUS
  <2>1. Newest(v)[1] \in Seen /\ Newest(v)[1] \in AllEntries /\ EntryBefore(Newest(v)[1], k)
    BY <1>14, VisibleIs, EntryTypes
  <2>2. MValid(n)
    BY <1>13, <2>1
  <2>3. Newest(v)[1] = j \/ EntryBefore(Newest(v)[1], j)
    BY <1>12, <2>1, <2>2
  <2> QED  BY <1>12, <2>1, <2>2, <2>3, EntryOrder
\* An entry saved stays last, until the merge passes another one of the snapshot.
<1>15. ASSUME NEW e \in Seen, ~e.del, e.u < C, \A v \in Visible : v < C => v <= e.u,
              e = k \/ (k \notin Seen /\ EntryBefore(k, e)),
              \A x \in Seen : EntryBefore(k, x) => x = e \/ EntryBefore(e, x), r.saved = e
       PROVE  SavedLast(r, C)
  <2>1. e \in AllEntries
    BY EntryTypes
  <2>2. ASSUME NEW x \in Seen, x # e, ~EntryBefore(e, x) PROVE EntryBefore(x, k)
    BY <1>2, <1>15, <2>1, <2>2, EntryOrder, EntryTypes
  <2>3. MValid(n) => /\ EntryBefore(j, e)
                     /\ \A x \in Seen : EntryBefore(j, x) => x = e \/ EntryBefore(e, x)
    <3> SUFFICES ASSUME MValid(n)
                 PROVE  /\ EntryBefore(j, e)
                        /\ \A x \in Seen : EntryBefore(j, x) => x = e \/ EntryBefore(e, x)
      OBVIOUS
    <3>1. EntryBefore(j, e)
      BY <1>2, <1>12, <1>15, <2>1, EntryTrans
    <3>2. ASSUME NEW x \in Seen, EntryBefore(j, x), x # e, ~EntryBefore(e, x) PROVE FALSE
      BY <1>12, <2>2, <3>2, EntryOrder, EntryTypes
    <3> QED  BY <3>1, <3>2
  <2>4. ~MValid(n) => \A x \in Seen : x = e \/ EntryBefore(e, x)
    BY <1>13, <2>2
  <2> QED  BY <1>6, <1>15, <2>3, <2>4 DEF SavedLast, j
<1>16. CASE k \notin Seen
  <2>1. r.saved = t.saved
    BY <1>2, <1>6, <1>8, <1>9, <1>16
  <2>2. CASE t.saved = None
    <3>1. ASSUME NEW v \in Visible, v < C PROVE EntryBefore(Newest(v)[1], k)
      <4>1. Newest(v)[1] \in Seen /\ Newest(v)[1] \in AllEntries /\ ~EntryBefore(k, Newest(v)[1])
        BY <1>4, <2>2, <3>1, VisibleIs, EntryTypes
      <4> QED  BY <1>2, <1>16, <4>1, EntryOrder
    <3>2. \A v \in Visible : v < C => MValid(n) /\ ~EntryBefore(j, Newest(v)[1])
      BY <1>14, <3>1
    <3> QED  BY <1>1, <1>2, <1>6, <1>7, <1>11, <1>12, <2>1, <2>2, <3>2 DEF PrevLoop, m, j
  <2>3. CASE t.saved # None
    <3>1. SavedLast(r, C)
      BY <1>5, <1>15, <1>16, <2>1, <2>3
    <3> QED  BY <1>1, <1>2, <1>6, <1>7, <1>11, <1>12, <2>1, <2>3, <3>1 DEF PrevLoop, m, j
  <2> QED  BY <2>2, <2>3
<1>17. CASE k \in Seen
  <2>1. \A v \in Visible : v < C => v <= k.u
    <3> SUFFICES ASSUME NEW v \in Visible, v < C PROVE v <= k.u
      OBVIOUS
    <3>1. Newest(v)[1] \in AllEntries /\ Newest(v)[1].u = v /\ v \in Nat
      BY VisibleIs, EntryTypes
    <3>2. CASE t.saved = None
      <4>1. Newest(v)[1] = k \/ EntryBefore(Newest(v)[1], k)
        BY <1>2, <1>4, <3>1, <3>2, EntryOrder
      <4> QED  BY <1>2, <3>1, <4>1, EntryOrder
    <3>3. CASE t.saved # None
      <4>1. v <= t.saved.u /\ t.saved.u \in Nat
        BY <1>5, <3>3, EntryTypes
      <4>2. t.saved.u <= k.u
        BY <1>1, <1>2, <1>3, <1>9, <1>17, <3>3, <4>1
      <4> QED  BY <1>2, <3>1, <4>1, <4>2
    <3> QED  BY <3>2, <3>3
  <2>2. CASE k.del
    <3>1. r.saved = None
      BY <1>2, <1>6, <1>8, <1>9, <1>17, <2>2
    <3>2. ASSUME NEW v \in Visible, v < C PROVE EntryBefore(Newest(v)[1], k)
      <4> DEFINE e == Newest(v)[1]
      <4>1. /\ e \in AllEntries /\ e.u = v /\ ~e.del /\ v \in Nat /\ v <= k.u
            /\ \A y \in Seen : y.u = v => y = e \/ EntryBefore(e, y)
        BY <2>1, <3>2, VisibleIs, EntryTypes
      <4> HIDE DEF e
      <4>2. CASE v = k.u
        BY <1>17, <2>2, <4>1, <4>2 DEF e
      <4>3. CASE v # k.u
        BY <1>2, <4>1, <4>3, EntryOrder DEF e
      <4> QED  BY <4>2, <4>3
    <3>3. \A v \in Visible : v < C => MValid(n) /\ ~EntryBefore(j, Newest(v)[1])
      BY <1>14, <3>2
    <3> QED  BY <1>1, <1>2, <1>6, <1>7, <1>11, <1>12, <3>1, <3>3 DEF PrevLoop, m, j
  <2>3. CASE ~k.del
    <3>1. r.saved = k
      BY <1>2, <1>6, <1>8, <1>9, <1>17, <2>3
    <3>2. \A x \in Seen : EntryBefore(k, x) => x = k \/ EntryBefore(k, x)
      OBVIOUS
    <3>3. SavedLast(r, C)
      BY <1>1, <1>15, <1>17, <2>1, <2>3, <3>1, <3>2
    <3> QED  BY <1>1, <1>2, <1>6, <1>7, <1>10, <1>11, <1>12, <3>1, <3>3 DEF PrevLoop, m, j
  <2> QED  BY <2>2, <2>3
<1> QED  BY <1>16, <1>17

UnfoldPrev(t, turn) == [i \in 0 .. Cardinality(AllEntries) |-> IF i = 0 THEN t ELSE PrevTurn(turn[i - 1])]

LEMMA PrevLoopEnds ==
    ASSUME KidsGood, NEW C \in Nat, NEW t, PrevLoop(t, C)
    PROVE  \E turn : /\ turn = UnfoldPrev(t, turn)
                     /\ PrevLoop(turn[Cardinality(AllEntries)], C)
                     /\ PrevEnded(turn[Cardinality(AllEntries)])
                     /\ turn = CHOOSE x : x = UnfoldPrev(t, x)
<1> DEFINE X == {x \in PrevTurns : PrevLoop(x, C)}
           n == Cardinality(AllEntries)
           T == [q \in (1 .. n) \X X |-> PrevTurn(q[2])]
<1>1. n \in Nat /\ t \in X
  BY FS_CardinalityType DEF KidsGood, PrevLoop
<1>2. \A x \in X : PrevTurn(x) \in X
  <2> SUFFICES ASSUME NEW x \in X PROVE PrevTurn(x) \in X
    OBVIOUS
  <2>1. CASE PrevEnded(x)
    BY <2>1 DEF PrevTurn, PrevEnded
  <2>2. CASE ~PrevEnded(x)
    <3>1. PrevLoop(PrevTurn(x), C)
      BY <2>2, PrevTurnGood
    <3> QED  BY <3>1 DEF PrevLoop
  <2> QED  BY <2>1, <2>2
<1> HIDE DEF X
<1>3. T \in [(1 .. n) \X X -> X] /\ \A i \in 1 .. n, x \in X : T[<<i, x>>] = PrevTurn(x)
  BY <1>2
<1> HIDE DEF T, n
<1>4. PICK g \in [0 .. n -> X] : g = UnfoldOver(n, t, T, g)
  <2>1. LoopOver(X, t, n, T)
    BY <1>1, <1>3 DEF LoopOver
  <2> QED  BY <2>1, FiniteRecursion
<1>5. g = UnfoldPrev(t, g)
  <2>1. \A i \in 0 .. n : UnfoldOver(n, t, T, g)[i] = UnfoldPrev(t, g)[i]
    <3> SUFFICES ASSUME NEW i \in 0 .. n PROVE UnfoldOver(n, t, T, g)[i] = UnfoldPrev(t, g)[i]
      OBVIOUS
    <3>1. i # 0 => i \in 1 .. n /\ i - 1 \in 0 .. n
      BY <1>1
    <3>2. i # 0 => g[i - 1] \in X
      BY <1>4, <3>1
    <3> QED  BY <1>3, <3>1, <3>2 DEF UnfoldOver, UnfoldPrev, n
  <2> QED  BY <1>4, <2>1 DEF UnfoldOver, UnfoldPrev, n
<1> DEFINE turn == CHOOSE x : x = UnfoldPrev(t, x)
<1>6. turn = UnfoldPrev(t, turn)
  BY <1>5
<1>7. turn[0] = t /\ \A i \in 1 .. n : turn[i] = PrevTurn(turn[i - 1])
  <2> HIDE DEF turn
  <2>1. \A i \in 0 .. n : UnfoldPrev(t, turn)[i] = IF i = 0 THEN t ELSE PrevTurn(turn[i - 1])
    BY DEF UnfoldPrev, n
  <2>2. 0 \in 0 .. n /\ \A i \in 1 .. n : i \in 0 .. n /\ i # 0
    BY <1>1
  <2> QED  BY <1>6, <2>1, <2>2
<1> DEFINE Left(i) == PrevEnded(turn[i]) \/ (LeftBack(turn[i].merge) \in Nat /\ LeftBack(turn[i].merge) < n - i)
           S == {i \in 0 .. n : turn[i] \in X /\ Left(i)}
<1> HIDE DEF turn
<1>8. 0 \in S
  <2>1. PrevLoop(t, C)
    OBVIOUS
  <2>2. MValid(t.merge) => LeftBack(t.merge) \in Nat /\ LeftBack(t.merge) < n
    BY <2>1, KeyIn, FewerThanAll DEF LeftBack, n, PrevLoop, MergeOK
  <2>3. Left(0)
    BY <1>1, <1>7, <2>2 DEF PrevEnded
  <2> QED  BY <1>1, <1>7, <2>3
<1>9. ASSUME NEW i \in 1 .. n, i - 1 \in S PROVE i \in S
  <2> DEFINE d == turn[i - 1]
  <2>1. i - 1 \in 0 .. n /\ d \in X /\ Left(i - 1) /\ turn[i] = PrevTurn(d)
    BY <1>7, <1>9
  <2>2. PrevLoop(d, C)
    BY <2>1 DEF X
  <2>3. turn[i] \in X
    BY <1>2, <2>1
  <2>4. PrevEnded(d) \/ (LeftBack(d.merge) \in Nat /\ LeftBack(d.merge) < n - (i - 1))
    BY <2>1
  <2> HIDE DEF d
  <2>5. Left(i)
    <3>1. CASE PrevEnded(d)
      BY <2>1, <3>1 DEF PrevTurn, PrevEnded
    <3>2. CASE ~ PrevEnded(d)
      <4>1. MValid(turn[i].merge) => LeftBack(turn[i].merge) \in Nat /\ LeftBack(turn[i].merge) < LeftBack(d.merge)
        BY <2>1, <2>2, <3>2, PrevTurnGood
      <4>2. MValid(turn[i].merge) => LeftBack(turn[i].merge) \in Nat /\ LeftBack(turn[i].merge) < n - i
        BY <1>1, <2>4, <3>2, <4>1
      <4> QED  BY <4>2 DEF PrevEnded
    <3> QED  BY <3>1, <3>2
  <2> QED  BY <2>3, <2>5
<1>10. \A i \in 0 .. n : i \in S
  <2> HIDE DEF S
  <2> QED  BY <1>1, <1>8, <1>9, UpTo
<1>11. turn[n] \in X /\ Left(n)
  BY <1>1, <1>10
<1>12. PrevLoop(turn[n], C) /\ PrevEnded(turn[n])
  <2>1. ~(LeftBack(turn[n].merge) \in Nat /\ LeftBack(turn[n].merge) < n - n)
    BY <1>1
  <2> QED  BY <1>11, <2>1 DEF X
<1> QED  BY <1>6, <1>12 DEF n, turn

\* SeekToLast and Prev: the merge is at the last entry of the keys below C.
LEMMA PrevFinds ==
    ASSUME KidsGood, NEW C \in Nat, NEW m, RevOK(m), EndsAt(m, Lower(C))
    PROVE  IterAt(FindPrevUserEntry(m), HighestOf({v \in Visible : v < C}))
<1> DEFINE t0 == [merge |-> m, saved |-> None]
           n == Cardinality(AllEntries)
           below == {v \in Visible : v < C}
<1>1. PrevLoop(t0, C)
  <2>1. t0.merge = m /\ t0.saved = None /\ t0 \in PrevTurns
    BY DEF PrevTurns, RevOK
  <2> HIDE DEF t0
  <2>2. MValid(m) => MKey(m).u < C /\ MKey(m) \in AllEntries
    BY KeyIn DEF EndsAt, Lower, MergeOK
  <2>3. ASSUME NEW v \in Visible, v < C PROVE MValid(m) /\ ~EntryBefore(MKey(m), Newest(v)[1])
    <3>1. Newest(v)[1] \in Seen /\ Newest(v)[1] \in AllEntries /\ Newest(v)[1] \in Lower(C)
      BY <2>3, VisibleIs, EntryTypes DEF Lower
    <3>2. MValid(m) /\ (Newest(v)[1] = MKey(m) \/ EntryBefore(Newest(v)[1], MKey(m)))
      BY <3>1 DEF EndsAt
    <3> QED  BY <2>2, <3>1, <3>2, EntryOrder
  <2> QED  BY <2>1, <2>2, <2>3 DEF PrevLoop
<1>2. PICK turn : /\ PrevLoop(turn[n], C) /\ PrevEnded(turn[n])
                  /\ turn = CHOOSE x : x = UnfoldPrev(t0, x)
  <2> HIDE DEF t0
  <2> QED  BY <1>1, PrevLoopEnds
<1> DEFINE t == turn[n]
           it == IF t.saved = None THEN Invalid(t.merge, "forward")
                 ELSE [merge |-> t.merge, dir |-> "reverse", valid |-> TRUE, saved |-> t.saved]
<1>3. FindPrevUserEntry(m) = it
  BY <1>2 DEF FindPrevUserEntry, UnfoldPrev
<1>4. PrevLoop(t, C) /\ PrevEnded(t)
  BY <1>2
<1>5. below \subseteq Nat
  BY VisibleIs
<1> HIDE DEF t
<1>6. CASE t.saved = None
  <2>1. ~MValid(t.merge)
    BY <1>4, <1>6 DEF PrevEnded, PastKey
  <2>2. below = {}
    BY <1>4, <1>6, <2>1 DEF PrevLoop
  <2>3. HighestOf(below) = 0
    BY <1>5, <2>2, HighestIs
  <2>4. ~it.valid /\ it.valid \in BOOLEAN
    BY <1>6 DEF Invalid
  <2> HIDE DEF it, below
  <2> QED  BY <1>3, <2>3, <2>4 DEF IterAt, below
<1>7. CASE t.saved # None
  <2> DEFINE e == t.saved
             k == MKey(t.merge)
  <2>1. /\ RevOK(t.merge) /\ e \in Seen /\ ~e.del /\ e.u < C /\ \A v \in Visible : v < C => v <= e.u
        /\ MValid(t.merge) =>
             /\ EntryBefore(k, e) /\ k.u < e.u
             /\ \A x \in Seen : EntryBefore(k, x) => x = e \/ EntryBefore(e, x)
        /\ ~MValid(t.merge) => \A x \in Seen : x = e \/ EntryBefore(e, x)
    <3>1. RevOK(t.merge) /\ SavedLast(t, C) /\ (MValid(t.merge) => k.u < e.u)
      BY <1>4, <1>7 DEF PrevLoop, PrevEnded, PastKey
    <3> QED  BY <3>1 DEF SavedLast
  <2>2. MValid(t.merge) => k \in AllEntries
    BY <2>1, KeyIn DEF MergeOK
  <2>3. it.merge = t.merge /\ it.dir = "reverse" /\ it.valid = TRUE /\ it.saved = e
    BY <1>7
  <2> HIDE DEF e, k, it
  <2>4. e \in AllEntries /\ e.u \in Nat /\ e.u > 0
    BY <2>1, EntryTypes
  <2>5. \A x \in Seen : x.u >= e.u => x = e \/ EntryBefore(e, x)
    <3> SUFFICES ASSUME NEW x \in Seen, x.u >= e.u PROVE x = e \/ EntryBefore(e, x)
      OBVIOUS
    <3>1. x \in AllEntries /\ x.u \in Nat
      BY EntryTypes
    <3>2. MValid(t.merge) => k.u \in Nat /\ EntryBefore(k, x)
      <4> SUFFICES ASSUME MValid(t.merge) PROVE k.u \in Nat /\ EntryBefore(k, x)
        OBVIOUS
      <4>1. k \in AllEntries /\ k.u < e.u /\ k.u \in Nat
        BY <2>1, <2>2, EntryTypes
      <4>2. k.u < x.u
        BY <2>4, <3>1, <4>1
      <4> QED  BY <3>1, <4>1, <4>2, EntryOrder
    <3> QED  BY <2>1, <3>2
  <2>6. e.u \in Visible /\ Newest(e.u)[1] = e
    <3>1. \A y \in Seen : y.u = e.u => ~EntryBefore(y, e)
      <4> SUFFICES ASSUME NEW y \in Seen, y.u = e.u PROVE ~EntryBefore(y, e)
        OBVIOUS
      <4>1. y \in AllEntries /\ (y = e \/ EntryBefore(e, y))
        BY <2>4, <2>5, EntryTypes
      <4> QED  BY <2>4, <4>1, EntryOrder
    <3> QED  BY <2>1, <3>1, VisibleIs
  <2>7. HighestOf(below) = e.u
    <3>1. e.u \in below /\ \A v \in below : v <= e.u
      BY <2>1, <2>6
    <3> HIDE DEF below
    <3>2. \A v \in below : e.u >= v
      BY <1>5, <2>4, <3>1
    <3> QED  BY <1>5, <3>1, <3>2, HighestIs
  <2>8. EndsAt(t.merge, Lower(e.u))
    <3>1. MValid(t.merge) => k \in Lower(e.u)
      BY <2>1, <2>2 DEF Lower
    <3>2. ASSUME NEW x \in Seen, x \in Lower(e.u)
          PROVE  MValid(t.merge) /\ (x = k \/ EntryBefore(x, k))
      <4>1. x \in AllEntries /\ x # e /\ ~EntryBefore(e, x)
        BY <2>4, <3>2, EntryOrder, EntryTypes DEF Lower
      <4> QED  BY <2>1, <2>2, <4>1, EntryOrder
    <3> QED  BY <3>1, <3>2 DEF EndsAt, k
  <2>9. it.valid = (e.u # 0) /\ it.valid \in BOOLEAN
    <3>1. e.u # 0
      BY <2>4
    <3> QED  BY <2>3, <3>1
  <2>10. IterAt(it, e.u)
    <3>1. it.dir = "reverse" /\ it.dir # "forward"
      BY <2>3
    <3> QED  BY <2>1, <2>3, <2>6, <2>8, <2>9, <3>1 DEF IterAt
  <2> HIDE DEF below
  <2> QED  BY <1>3, <2>7, <2>10 DEF below
<1> QED  BY <1>6, <1>7

\* Prev in the forward direction, until the keys are below u.
LeaveLoop(m, u) ==
    RevOK(m) /\ \A x \in Seen : x.u < u => MValid(m) /\ ~EntryBefore(MKey(m), x)
LeaveEnded(m, u) == ~MValid(m) \/ MKey(m).u < u

LEMMA PrevLeaves ==
    ASSUME KidsGood, NEW u \in Nat, NEW m, MergeOK(m), MValid(m), MKey(m).u >= u,
           \A x \in Seen : x.u < u => ~EntryBefore(MKey(m), x)
    PROVE  LeaveLoop(MPrev(m), u)
<1> DEFINE n == MPrev(m)
           k == MKey(m)
           j == MKey(n)
<1>1. RevOK(n) /\ EndsAt(n, Below(k)) /\ k \in AllEntries
  BY MPrevGood, KeyIn
<1>2. MValid(n) => j \in AllEntries
  BY <1>1, KeyIn DEF MergeOK
<1>3. k.u >= u /\ \A x \in Seen : x.u < u => ~EntryBefore(k, x)
  OBVIOUS
<1> HIDE DEF n, k, j
<1>4. ASSUME NEW x \in Seen, x.u < u PROVE MValid(n) /\ ~EntryBefore(j, x)
  <2>1. x \in AllEntries /\ x.u \in Nat /\ k.u \in Nat
    BY <1>1, EntryTypes
  <2>2. x # k
    BY <1>3, <1>4, <2>1
  <2>3. x \in Below(k)
    BY <1>1, <1>3, <1>4, <2>1, <2>2, EntryOrder DEF Below
  <2>4. MValid(n) /\ (x = j \/ EntryBefore(x, j))
    BY <1>1, <2>3 DEF EndsAt, j
  <2> QED  BY <1>2, <2>1, <2>4, EntryOrder
<1> QED  BY <1>1, <1>4 DEF LeaveLoop, n, j

LEMMA LeaveTurnGood ==
    ASSUME KidsGood, NEW u \in Nat, NEW m, LeaveLoop(m, u), ~LeaveEnded(m, u)
    PROVE  /\ LeaveLoop(LeaveTurn(m, u), u)
           /\ MValid(LeaveTurn(m, u)) =>
                /\ LeftBack(m) \in Nat /\ LeftBack(LeaveTurn(m, u)) \in Nat
                /\ LeftBack(LeaveTurn(m, u)) < LeftBack(m)
<1>1. RevOK(m) /\ MergeOK(m) /\ MValid(m) /\ ~(MKey(m).u < u) /\ LeaveTurn(m, u) = MPrev(m)
      /\ \A x \in Seen : x.u < u => ~EntryBefore(MKey(m), x)
  BY DEF LeaveLoop, LeaveEnded, LeaveTurn, MergeOK
<1>2. MKey(m).u >= u
  BY <1>1, KeyIn, EntryTypes
<1>3. LeaveLoop(MPrev(m), u)
  BY <1>1, <1>2, PrevLeaves
<1> QED  BY <1>1, <1>3, PrevLeavesFewer

UnfoldLeave(t, u, turn) == [i \in 0 .. Cardinality(AllEntries) |-> IF i = 0 THEN t ELSE LeaveTurn(turn[i - 1], u)]

LEMMA LeaveLoopEnds ==
    ASSUME KidsGood, NEW u \in Nat, NEW t, LeaveLoop(t, u)
    PROVE  \E turn : /\ turn = UnfoldLeave(t, u, turn)
                     /\ LeaveLoop(turn[Cardinality(AllEntries)], u)
                     /\ LeaveEnded(turn[Cardinality(AllEntries)], u)
                     /\ turn = CHOOSE x : x = UnfoldLeave(t, u, x)
<1> DEFINE X == {x \in IterMergeSet : LeaveLoop(x, u)}
           n == Cardinality(AllEntries)
           T == [q \in (1 .. n) \X X |-> LeaveTurn(q[2], u)]
<1>1. n \in Nat /\ t \in X
  BY FS_CardinalityType DEF KidsGood, LeaveLoop, RevOK
<1>2. \A x \in X : LeaveTurn(x, u) \in X
  <2> SUFFICES ASSUME NEW x \in X PROVE LeaveTurn(x, u) \in X
    OBVIOUS
  <2>1. CASE LeaveEnded(x, u)
    BY <2>1 DEF LeaveTurn, LeaveEnded
  <2>2. CASE ~LeaveEnded(x, u)
    <3>1. LeaveLoop(LeaveTurn(x, u), u)
      BY <2>2, LeaveTurnGood
    <3> QED  BY <3>1 DEF LeaveLoop, RevOK
  <2> QED  BY <2>1, <2>2
<1> HIDE DEF X
<1>3. T \in [(1 .. n) \X X -> X] /\ \A i \in 1 .. n, x \in X : T[<<i, x>>] = LeaveTurn(x, u)
  BY <1>2
<1> HIDE DEF T, n
<1>4. PICK g \in [0 .. n -> X] : g = UnfoldOver(n, t, T, g)
  <2>1. LoopOver(X, t, n, T)
    BY <1>1, <1>3 DEF LoopOver
  <2> QED  BY <2>1, FiniteRecursion
<1>5. g = UnfoldLeave(t, u, g)
  <2>1. \A i \in 0 .. n : UnfoldOver(n, t, T, g)[i] = UnfoldLeave(t, u, g)[i]
    <3> SUFFICES ASSUME NEW i \in 0 .. n PROVE UnfoldOver(n, t, T, g)[i] = UnfoldLeave(t, u, g)[i]
      OBVIOUS
    <3>1. i # 0 => i \in 1 .. n /\ i - 1 \in 0 .. n
      BY <1>1
    <3>2. i # 0 => g[i - 1] \in X
      BY <1>4, <3>1
    <3> QED  BY <1>3, <3>1, <3>2 DEF UnfoldOver, UnfoldLeave, n
  <2> QED  BY <1>4, <2>1 DEF UnfoldOver, UnfoldLeave, n
<1> DEFINE turn == CHOOSE x : x = UnfoldLeave(t, u, x)
<1>6. turn = UnfoldLeave(t, u, turn)
  BY <1>5
<1>7. turn[0] = t /\ \A i \in 1 .. n : turn[i] = LeaveTurn(turn[i - 1], u)
  <2> HIDE DEF turn
  <2>1. \A i \in 0 .. n : UnfoldLeave(t, u, turn)[i] = IF i = 0 THEN t ELSE LeaveTurn(turn[i - 1], u)
    BY DEF UnfoldLeave, n
  <2>2. 0 \in 0 .. n /\ \A i \in 1 .. n : i \in 0 .. n /\ i # 0
    BY <1>1
  <2> QED  BY <1>6, <2>1, <2>2
<1> DEFINE Left(i) == LeaveEnded(turn[i], u) \/ (LeftBack(turn[i]) \in Nat /\ LeftBack(turn[i]) < n - i)
           S == {i \in 0 .. n : turn[i] \in X /\ Left(i)}
<1> HIDE DEF turn
<1>8. 0 \in S
  <2>1. LeaveLoop(t, u)
    OBVIOUS
  <2>2. MValid(t) => LeftBack(t) \in Nat /\ LeftBack(t) < n
    BY <2>1, KeyIn, FewerThanAll DEF LeftBack, n, LeaveLoop, MergeOK
  <2>3. Left(0)
    BY <1>1, <1>7, <2>2 DEF LeaveEnded
  <2> QED  BY <1>1, <1>7, <2>3
<1>9. ASSUME NEW i \in 1 .. n, i - 1 \in S PROVE i \in S
  <2> DEFINE d == turn[i - 1]
  <2>1. i - 1 \in 0 .. n /\ d \in X /\ Left(i - 1) /\ turn[i] = LeaveTurn(d, u)
    BY <1>7, <1>9
  <2>2. LeaveLoop(d, u)
    BY <2>1 DEF X
  <2>3. turn[i] \in X
    BY <1>2, <2>1
  <2>4. LeaveEnded(d, u) \/ (LeftBack(d) \in Nat /\ LeftBack(d) < n - (i - 1))
    BY <2>1
  <2> HIDE DEF d
  <2>5. Left(i)
    <3>1. CASE LeaveEnded(d, u)
      BY <2>1, <3>1 DEF LeaveTurn, LeaveEnded
    <3>2. CASE ~ LeaveEnded(d, u)
      <4>1. MValid(turn[i]) => LeftBack(turn[i]) \in Nat /\ LeftBack(turn[i]) < LeftBack(d)
        BY <2>1, <2>2, <3>2, LeaveTurnGood
      <4>2. MValid(turn[i]) => LeftBack(turn[i]) \in Nat /\ LeftBack(turn[i]) < n - i
        BY <1>1, <2>4, <3>2, <4>1
      <4> QED  BY <4>2 DEF LeaveEnded
    <3> QED  BY <3>1, <3>2
  <2> QED  BY <2>3, <2>5
<1>10. \A i \in 0 .. n : i \in S
  <2> HIDE DEF S
  <2> QED  BY <1>1, <1>8, <1>9, UpTo
<1>11. turn[n] \in X /\ Left(n)
  BY <1>1, <1>10
<1>12. LeaveLoop(turn[n], u) /\ LeaveEnded(turn[n], u)
  <2>1. ~(LeftBack(turn[n]) \in Nat /\ LeftBack(turn[n]) < n - n)
    BY <1>1
  <2> QED  BY <1>11, <2>1 DEF X
<1> QED  BY <1>6, <1>12 DEF n, turn

LEMMA LeaveKeyGood ==
    ASSUME KidsGood, NEW u \in Nat, NEW m, MergeOK(m), MValid(m), MKey(m).u = u
    PROVE  RevOK(LeaveKey(m, u)) /\ EndsAt(LeaveKey(m, u), Lower(u))
<1> DEFINE n == Cardinality(AllEntries)
           k == MKey(m)
<1>1. k \in AllEntries /\ k.u = u
  BY KeyIn
<1> HIDE DEF k
<1>2. \A x \in Seen : x.u < u => ~EntryBefore(k, x)
  BY <1>1, EntryOrder, EntryTypes
<1>3. LeaveLoop(MPrev(m), u)
  BY <1>1, <1>2, PrevLeaves DEF k
<1>4. PICK turn : /\ LeaveLoop(turn[n], u) /\ LeaveEnded(turn[n], u)
                  /\ turn = CHOOSE x : x = UnfoldLeave(MPrev(m), u, x)
  BY <1>3, LeaveLoopEnds
<1> DEFINE p == turn[n]
           j == MKey(p)
<1>5. LeaveKey(m, u) = p
  BY <1>4 DEF LeaveKey, UnfoldLeave
<1>6. LeaveLoop(p, u) /\ LeaveEnded(p, u)
  BY <1>4
<1> HIDE DEF p
<1>7. RevOK(p) /\ (MValid(p) => j.u < u /\ j \in AllEntries)
  BY <1>6, KeyIn DEF LeaveLoop, LeaveEnded, MergeOK
<1>8. \A x \in Seen : x.u < u => MValid(p) /\ ~EntryBefore(j, x)
  BY <1>6 DEF LeaveLoop
<1> HIDE DEF j
<1>9. \A x \in Seen : x \in Lower(u) => MValid(p) /\ (x = j \/ EntryBefore(x, j))
  BY <1>7, <1>8, EntryOrder, EntryTypes DEF Lower
<1>10. EndsAt(p, Lower(u))
  BY <1>7, <1>9 DEF EndsAt, Lower, j
<1> QED  BY <1>5, <1>7, <1>10

LEMMA DbPrevGood ==
    ASSUME KidsGood, NEW it, NEW at, IterAt(it, at), it.valid
    PROVE  IterAt(DbPrevEntry(it), HighestOf({v \in Visible : v < at}))
<1>1. /\ at \in Visible /\ at \in Nat /\ at > 0 /\ it.dir \in {"forward", "reverse"} /\ Newest(at)[1].u = at
  BY VisibleIs DEF IterAt
<1>2. CASE it.dir = "forward"
  <2> DEFINE m == LeaveKey(it.merge, at)
  <2>1. FwdOK(it.merge) /\ MValid(it.merge) /\ MKey(it.merge).u = at /\ IterKey(it).u = at
    BY <1>1, <1>2 DEF IterAt, IterKey
  <2>2. RevOK(m) /\ EndsAt(m, Lower(at))
    BY <1>1, <2>1, LeaveKeyGood DEF MergeOK
  <2>3. DbPrevEntry(it) = IF ~MValid(m) THEN Invalid(m, "forward") ELSE FindPrevUserEntry(m)
    BY <1>2, <2>1 DEF DbPrevEntry
  <2> HIDE DEF m
  <2>4. CASE MValid(m)
    BY <1>1, <2>2, <2>3, <2>4, PrevFinds
  <2>5. CASE ~MValid(m)
    <3>1. {v \in Visible : v < at} = {}
      <4> SUFFICES ASSUME NEW v \in Visible, v < at PROVE FALSE
        OBVIOUS
      <4>1. Newest(v)[1] \in Seen /\ Newest(v)[1] \in Lower(at)
        BY VisibleIs, EntryTypes DEF Lower
      <4> QED  BY <2>2, <2>5, <4>1 DEF EndsAt
    <3>2. HighestOf({v \in Visible : v < at}) = 0
      BY <3>1, HighestIs
    <3>3. ~DbPrevEntry(it).valid /\ DbPrevEntry(it).valid \in BOOLEAN
      BY <2>3, <2>5 DEF Invalid
    <3> QED  BY <3>2, <3>3 DEF IterAt
  <2> QED  BY <2>4, <2>5
<1>3. CASE it.dir = "reverse"
  <2>1. RevOK(it.merge) /\ EndsAt(it.merge, Lower(at)) /\ it.dir # "forward"
    BY <1>3 DEF IterAt
  <2>2. DbPrevEntry(it) = FindPrevUserEntry(it.merge)
    BY <2>1 DEF DbPrevEntry
  <2> QED  BY <1>1, <2>1, <2>2, PrevFinds
<1> QED  BY <1>1, <1>2, <1>3

----------------------------------------------------------------------------
(* The iterator: its inductive invariant.                                  *)

\* After Next has met an entry of a key before the current one, only a new search is exact.
IterInv == KidsGood /\ overshot \in BOOLEAN /\ (overshot \/ IterAt(dbiter, cursorAt))

LEMMA IterInvExact ==
    ASSUME IterInv
    PROVE  CursorExact
<1> SUFFICES ASSUME ~overshot
             PROVE  UserKey(dbiter) = cursorAt /\ (dbiter.valid => Newest(cursorAt)[1] = IterKey(dbiter))
  BY DEF CursorExact
<1>1. KidsGood /\ IterAt(dbiter, cursorAt)
  BY DEF IterInv
<1>2. CASE dbiter.valid
  <2>1. cursorAt \in Visible /\ Newest(cursorAt)[1].u = cursorAt
    BY <1>1, <1>2, VisibleIs DEF IterAt
  <2>2. IterKey(dbiter) = Newest(cursorAt)[1]
    <3>1. CASE dbiter.dir = "forward"
      BY <1>1, <1>2, <3>1 DEF IterAt, IterKey
    <3>2. CASE dbiter.dir = "reverse"
      <4>1. dbiter.dir # "forward"
        BY <3>2
      <4> QED  BY <1>1, <1>2, <3>2, <4>1 DEF IterAt, IterKey
    <3> QED  BY <1>1, <1>2, <3>1, <3>2 DEF IterAt
  <2> QED  BY <1>2, <2>1, <2>2 DEF UserKey
<1>3. CASE ~dbiter.valid
  BY <1>1, <1>3 DEF IterAt, UserKey
<1> QED  BY <1>2, <1>3

LEMMA IterInitGood ==
    ASSUME IterInit
    PROVE  IterInv
<1>1. PICK w \in [1 .. History -> IterUsers \X BOOLEAN], cut \in 0 .. History :
        kids = << {[u |-> w[s][1], s |-> s, del |-> w[s][2]] : s \in cut + 1 .. History},
                  {[u |-> w[s][1], s |-> s, del |-> w[s][2]] : s \in 1 .. cut} >>
  BY DEF IterInit
<1> DEFINE f == [s \in 1 .. History |-> [u |-> w[s][1], s |-> s, del |-> w[s][2]]]
<1>2. History \in Nat /\ MaxLateWrites \in Nat /\ cut \in Nat /\ cut <= History
  BY IterAssumption
<1>3. kids[1] = {f[s] : s \in cut + 1 .. History} /\ kids[2] = {f[s] : s \in 1 .. cut}
      /\ kids = <<kids[1], kids[2]>>
  <2> DEFINE E(s) == [u |-> w[s][1], s |-> s, del |-> w[s][2]]
  <2>1. kids[1] = {E(s) : s \in cut + 1 .. History} /\ kids[2] = {E(s) : s \in 1 .. cut}
        /\ kids = <<kids[1], kids[2]>>
    BY <1>1
  <2>2. \A s \in 1 .. History : f[s] = E(s)
    OBVIOUS
  <2>3. (\A s \in cut + 1 .. History : s \in 1 .. History) /\ (\A s \in 1 .. cut : s \in 1 .. History)
    BY <1>2
  <2> HIDE DEF f, E
  <2>4. {E(s) : s \in cut + 1 .. History} = {f[s] : s \in cut + 1 .. History}
    BY <2>2, <2>3
  <2>5. {E(s) : s \in 1 .. cut} = {f[s] : s \in 1 .. cut}
    BY <2>2, <2>3
  <2> QED  BY <2>1, <2>4, <2>5
<1>4. \A s \in 1 .. History : f[s] \in Entry /\ f[s].s = s
  <2> SUFFICES ASSUME NEW s \in 1 .. History PROVE f[s] \in Entry /\ f[s].s = s
    OBVIOUS
  <2>1. f[s] = [u |-> w[s][1], s |-> s, del |-> w[s][2]] /\ w[s] \in IterUsers \X BOOLEAN
    OBVIOUS
  <2>2. s \in 1 .. History + MaxLateWrites
    BY <1>2
  <2>3. w[s][1] \in IterUsers /\ w[s][2] \in BOOLEAN
    BY <2>1
  <2> HIDE DEF f
  <2> QED  BY <2>1, <2>2, <2>3 DEF Entry
<1> HIDE DEF f
<1>5. AllEntries = {f[s] : s \in 1 .. History}
  <2>1. \A s \in 1 .. History : s \in cut + 1 .. History \/ s \in 1 .. cut
    BY <1>2
  <2>2. (cut + 1 .. History) \subseteq 1 .. History /\ (1 .. cut) \subseteq 1 .. History
    BY <1>2
  <2> QED  BY <1>3, <2>1, <2>2 DEF AllEntries
<1>6. IsFiniteSet(AllEntries) /\ Cardinality(AllEntries) = History
  <2> DEFINE g == [s \in 1 .. History |-> f[s]]
  <2>1. g \in Bijection(1 .. History, AllEntries)
    <3>1. g \in [1 .. History -> AllEntries] /\ \A y \in AllEntries : \E s \in 1 .. History : g[s] = y
      BY <1>5
    <3>2. \A a, b \in 1 .. History : g[a] = g[b] => a = b
      BY <1>4
    <3> HIDE DEF g
    <3> QED  BY <3>1, <3>2 DEF Bijection, Injection, Surjection, IsInjective
  <2>2. IsFiniteSet(1 .. History) /\ Cardinality(1 .. History) = History
    BY <1>2, FS_Interval
  <2> HIDE DEF g
  <2> QED  BY <2>1, <2>2, FS_Bijection DEF ExistsBijection
<1>7. kids \in [Kids -> SUBSET Entry] /\ kids[1] \cap kids[2] = {}
  <2>1. kids[1] \subseteq Entry /\ kids[2] \subseteq Entry
    BY <1>4, <1>5 DEF AllEntries
  <2>2. DOMAIN kids = Kids /\ kids = [i \in Kids |-> kids[i]]
    BY <1>3 DEF Kids
  <2>3. kids[1] \cap kids[2] = {}
    <3> SUFFICES ASSUME NEW x, x \in kids[1], x \in kids[2] PROVE FALSE
      OBVIOUS
    <3>1. PICK a \in cut + 1 .. History : x = f[a]
      BY <1>3
    <3>2. PICK b \in 1 .. cut : x = f[b]
      BY <1>3
    <3>3. a \in 1 .. History /\ b \in 1 .. History /\ a # b
      BY <1>2
    <3> QED  BY <1>4, <3>1, <3>2, <3>3
  <2> QED  BY <2>1, <2>2, <2>3 DEF Kids
<1>8. \A a, b \in AllEntries : a.s = b.s => a = b
  BY <1>4, <1>5
<1>9. \A e \in AllEntries : e.s <= Cardinality(AllEntries)
  BY <1>2, <1>4, <1>5, <1>6
<1>10. sequence \in 0 .. History /\ ~dbiter.valid /\ dbiter.valid \in BOOLEAN /\ cursorAt = 0 /\ overshot = FALSE
  BY DEF IterInit, Invalid
<1>11. KidsGood
  BY <1>2, <1>6, <1>7, <1>8, <1>9, <1>10 DEF KidsGood
<1>12. IterAt(dbiter, cursorAt)
  BY <1>10 DEF IterAt
<1> QED  BY <1>10, <1>11, <1>12 DEF IterInv

\* A late write is newer than the snapshot.
LEMMA LateWriteGood ==
    ASSUME IterInv, LateWrite
    PROVE  IterInv'
<1> DEFINE n == Cardinality(AllEntries)
<1>1. PICK u \in IterUsers, d \in BOOLEAN :
        kids' = [kids EXCEPT ![1] = @ \cup {[u |-> u, s |-> n + 1, del |-> d]}]
  BY DEF LateWrite
<1> DEFINE e == [u |-> u, s |-> n + 1, del |-> d]
<1>2. KidsGood /\ n < History + MaxLateWrites /\ n \in Nat
      /\ UNCHANGED <<sequence, dbiter, cursorAt, overshot>>
  BY FS_CardinalityType DEF LateWrite, IterInv, KidsGood
<1>3. History \in Nat /\ MaxLateWrites \in Nat /\ History <= n /\ sequence \in Nat /\ sequence <= History
      /\ \A x \in AllEntries : x.s <= n /\ x.s \in Nat
  BY <1>2, IterAssumption, EntryTypes DEF KidsGood
<1>4. e \in Entry /\ e.s = n + 1
  <2>1. n + 1 \in 1 .. History + MaxLateWrites
    BY <1>2, <1>3
  <2> QED  BY <2>1 DEF Entry
<1>5. e \notin AllEntries
  BY <1>2, <1>3, <1>4
<1> HIDE DEF e
<1>6. kids' = [kids EXCEPT ![1] = @ \cup {e}] /\ kids \in [Kids -> SUBSET Entry]
  BY <1>1, <1>2 DEF e, KidsGood
<1>7. kids'[1] = kids[1] \cup {e} /\ kids'[2] = kids[2] /\ kids' \in [Kids -> SUBSET Entry]
  BY <1>4, <1>6 DEF Kids
<1>8. AllEntries' = AllEntries \cup {e}
  BY <1>7 DEF AllEntries
<1>9. IsFiniteSet(AllEntries') /\ Cardinality(AllEntries') = n + 1
  BY <1>2, <1>5, <1>8, FS_AddElement DEF KidsGood
<1>10. KidsGood'
  <2>1. kids'[1] \cap kids'[2] = {}
    BY <1>2, <1>5, <1>7 DEF KidsGood, AllEntries
  <2>2. \A a, b \in AllEntries' : a.s = b.s => a = b
    <3>1. \A a \in AllEntries : a.s # e.s
      BY <1>2, <1>3, <1>4
    <3>2. \A a, b \in AllEntries : a.s = b.s => a = b
      BY <1>2 DEF KidsGood
    <3> QED  BY <1>8, <3>1, <3>2
  <2>3. \A a \in AllEntries' : a.s <= n + 1
    BY <1>2, <1>3, <1>4, <1>8
  <2>4. sequence' \in 0 .. History /\ History <= n + 1
    BY <1>2, <1>3
  <2> QED  BY <1>7, <1>9, <2>1, <2>2, <2>3, <2>4 DEF KidsGood
<1>11. Seen' = Seen
  <2>1. ~(e.s <= sequence)
    BY <1>2, <1>3, <1>4
  <2> QED  BY <1>2, <1>8, <2>1 DEF Seen
<1>12. \A v : Newest(v)' = Newest(v)
  <2> SUFFICES ASSUME NEW v PROVE Newest(v)' = Newest(v)
    OBVIOUS
  <2>1. {x \in AllEntries' : x.u = v /\ x.s <= sequence'} = {x \in AllEntries : x.u = v /\ x.s <= sequence}
    <3>1. ~(e.s <= sequence)
      BY <1>2, <1>3, <1>4
    <3> QED  BY <1>2, <1>8, <3>1
  <2> QED  BY <2>1 DEF Newest
<1>13. Visible' = Visible
  BY <1>12 DEF Visible
<1>14. ASSUME NEW m, FwdOK(m) PROVE FwdOK(m)'
  <2>1. \A i \in Kids : kids[i] \subseteq kids'[i] /\ \A x \in kids'[i] : x \in Seen => x \in kids[i]
    BY <1>5, <1>7, EntryTypes, <1>2 DEF Kids
  <2> QED  BY <1>11, <1>14, <2>1 DEF FwdOK
<1>15. ASSUME NEW m, RevOK(m) PROVE RevOK(m)'
  <2>1. \A i \in Kids : kids[i] \subseteq kids'[i] /\ \A x \in kids'[i] : x \in Seen => x \in kids[i]
    BY <1>5, <1>7, EntryTypes, <1>2 DEF Kids
  <2> QED  BY <1>11, <1>15, <2>1 DEF RevOK
<1>16. ASSUME NEW m, NEW v, EndsAt(m, Lower(v)) PROVE EndsAt(m, Lower(v))'
  <2>1. Lower(v) \subseteq Lower(v)' /\ \A x \in Seen : x \in Lower(v)' => x \in Lower(v)
    BY <1>2, <1>8, EntryTypes DEF Lower
  <2> QED  BY <1>11, <1>16, <2>1 DEF EndsAt
<1>17. IterAt(dbiter, cursorAt) => IterAt(dbiter, cursorAt)'
  <2> SUFFICES ASSUME IterAt(dbiter, cursorAt) PROVE IterAt(dbiter, cursorAt)'
    OBVIOUS
  <2>1. dbiter' = dbiter /\ cursorAt' = cursorAt /\ Newest(cursorAt)' = Newest(cursorAt)
    BY <1>2, <1>12 DEF Newest
  <2>2. FwdOK(dbiter.merge) => FwdOK(dbiter.merge)'
    BY <1>14, <2>1
  <2>3. RevOK(dbiter.merge) => RevOK(dbiter.merge)'
    BY <1>15, <2>1
  <2>4. EndsAt(dbiter.merge, Lower(cursorAt)) => EndsAt(dbiter.merge, Lower(cursorAt))'
    BY <1>16, <2>1
  <2> QED  BY <1>13, <2>1, <2>2, <2>3, <2>4 DEF IterAt
<1> QED  BY <1>2, <1>10, <1>17 DEF IterInv

\* A movement leaves the entries alone, so where it stops is what counts.
LEMMA MoveGood ==
    ASSUME IterInv, NEW op, NEW it, NEW at, Move(op, it, at),
           (op \in {"next", "prev"} /\ (overshot \/ (op = "next" /\ LandsShort(dbiter)))) \/ IterAt(it, at)
    PROVE  IterInv'
<1>1. UNCHANGED <<kids, sequence>> /\ dbiter' = it /\ cursorAt' = at
      /\ overshot' = (op \in {"next", "prev"} /\ (overshot \/ (op = "next" /\ LandsShort(dbiter))))
  BY DEF Move
<1>2. KidsGood' /\ overshot' \in BOOLEAN
  BY <1>1 DEF IterInv, KidsGood, AllEntries
<1>3. IterAt(it, at) => IterAt(dbiter, cursorAt)'
  BY <1>1 DEF IterAt, FwdOK, RevOK, EndsAt, Lower, Visible, Newest, Seen, AllEntries
<1> QED  BY <1>1, <1>2, <1>3 DEF IterInv

LEMMA SeekToFirstGood ==
    ASSUME IterInv, SeekToFirst
    PROVE  IterInv'
<1>1. KidsGood
  BY DEF IterInv
<1>2. \A x \in AllEntries : x.u > 0
  BY <1>1, EntryTypes
<1>3. IterAt(Found(MFirst), LowestOf({v \in Visible : v > 0}))
  <2>1. FwdOK(MFirst) /\ StartsAt(MFirst, AllEntries)
    BY <1>1, MFirstGood
  <2>2. \A x \in Seen : x \notin AllEntries => x.u <= 0
    BY <1>1, EntryTypes
  <2> QED  BY <1>1, <1>2, <2>1, <2>2, FoundGood
<1>4. {v \in Visible : v > 0} = Visible
  BY <1>1, VisibleIs
<1>5. IterAt(Found(MFirst), LowestOf(Visible))
  BY <1>3, <1>4
<1> QED  BY <1>5, MoveGood DEF SeekToFirst

LEMMA SeekToLastGood ==
    ASSUME IterInv, SeekToLast
    PROVE  IterInv'
<1>1. KidsGood
  BY DEF IterInv
<1>2. PICK C \in Nat : \A u \in IterUsers : u < C
  <2>1. CASE IterUsers = {}
    BY <2>1
  <2>2. CASE IterUsers # {}
    <3> DEFINE R == {p \in IterUsers \X IterUsers : p[1] > p[2]}
    <3>1. IterUsers \subseteq Nat /\ IsFiniteSet(IterUsers)
      BY IterAssumption
    <3>2. \A x, y \in IterUsers : <<x, y>> \in R <=> x > y
      OBVIOUS
    <3> HIDE DEF R
    <3>3. \A x, y, z \in IterUsers : <<x, y>> \in R /\ <<y, z>> \in R => <<x, z>> \in R
      BY <3>1, <3>2
    <3>4. \A x \in IterUsers : <<x, x>> \notin R
      BY <3>1, <3>2
    <3>5. PICK x \in IterUsers : \A y \in IterUsers : <<y, x>> \notin R
      BY <2>2, <3>1, <3>3, <3>4, FirstOfFinite
    <3>6. x \in Nat /\ x + 1 \in Nat
      BY <3>1
    <3>7. ASSUME NEW y \in IterUsers
          PROVE  y < x + 1
      <4>1. ~(y > x)
        BY <3>2, <3>5
      <4>2. y \in Nat
        BY <3>1
      <4> QED  BY <3>6, <4>1, <4>2
    <3> QED  BY <3>6, <3>7
  <2> QED  BY <2>1, <2>2
<1>3. Lower(C) = AllEntries
  BY <1>1, <1>2, EntryTypes DEF Lower
<1>4. IterAt(FindPrevUserEntry(MLast), HighestOf({v \in Visible : v < C}))
  <2>1. RevOK(MLast) /\ EndsAt(MLast, AllEntries)
    BY <1>1, MLastGood
  <2>2. EndsAt(MLast, Lower(C))
    BY <1>3, <2>1
  <2> QED  BY <1>1, <2>1, <2>2, PrevFinds
<1>5. {v \in Visible : v < C} = Visible
  BY <1>2 DEF Visible
<1>6. IterAt(FindPrevUserEntry(MLast), HighestOf(Visible))
  BY <1>4, <1>5
<1> QED  BY <1>6, MoveGood DEF SeekToLast

LEMMA SeekGood ==
    ASSUME IterInv, Seek
    PROVE  IterInv'
<1>1. KidsGood
  BY DEF IterInv
<1>2. PICK u \in IterUsers :
        Move("seek", Found(MSeek([u |-> u, s |-> sequence, del |-> FALSE])), LowestOf({v \in Visible : v >= u}))
  BY DEF Seek
<1> DEFINE t == [u |-> u, s |-> sequence, del |-> FALSE]
           F == u - 1
<1>3. u \in Nat /\ u > 0 /\ F \in Nat /\ sequence \in Nat
  BY <1>1, IterAssumption, EntryTypes
<1>4. t.u = u /\ t.s = sequence
  OBVIOUS
<1> HIDE DEF t
<1>5. FwdOK(MSeek(t)) /\ StartsAt(MSeek(t), NotBefore(t))
  BY <1>1, <1>3, <1>4, MSeekGood
<1>6. \A x \in NotBefore(t) : x.u > F
  <2> SUFFICES ASSUME NEW x \in NotBefore(t) PROVE x.u > F
    OBVIOUS
  <2>1. x.u \in Nat /\ x.s \in Nat /\ ~EntryBefore(x, t)
    BY <1>1, EntryTypes DEF NotBefore
  <2> QED  BY <1>3, <1>4, <2>1 DEF EntryBefore
<1>7. \A x \in Seen : x \notin NotBefore(t) => x.u <= F
  <2> SUFFICES ASSUME NEW x \in Seen, x \notin NotBefore(t) PROVE x.u <= F
    OBVIOUS
  <2>1. x.u \in Nat /\ x.s \in Nat /\ EntryBefore(x, t) /\ x.s <= sequence
    BY <1>1, EntryTypes DEF NotBefore, Seen
  <2> QED  BY <1>3, <1>4, <2>1 DEF EntryBefore
<1> HIDE DEF F
<1>8. IterAt(Found(MSeek(t)), LowestOf({v \in Visible : v > F}))
  BY <1>1, <1>3, <1>5, <1>6, <1>7, FoundGood
<1>9. {v \in Visible : v > F} = {v \in Visible : v >= u}
  <2>1. \A v \in Visible : v > F <=> v >= u
    BY <1>1, <1>3, VisibleIs DEF F
  <2> QED  BY <2>1
<1>10. IterAt(Found(MSeek(t)), LowestOf({v \in Visible : v >= u}))
  BY <1>8, <1>9
<1> QED  BY <1>2, <1>10, MoveGood DEF t

LEMMA StepNextGood ==
    ASSUME IterInv, StepNext
    PROVE  IterInv'
<1>1. KidsGood /\ dbiter.valid
      /\ Move("next", DbNextEntry(dbiter), LowestOf({v \in Visible : v > cursorAt}))
  BY DEF IterInv, StepNext
<1>2. CASE overshot \/ LandsShort(dbiter)
  BY <1>1, <1>2, MoveGood
<1>3. CASE ~overshot /\ ~LandsShort(dbiter)
  <2>1. IterAt(dbiter, cursorAt)
    BY <1>3 DEF IterInv
  <2>2. IterAt(DbNextEntry(dbiter), LowestOf({v \in Visible : v > cursorAt}))
    BY <1>1, <1>3, <2>1, DbNextGood
  <2> QED  BY <1>1, <2>2, MoveGood
<1> QED  BY <1>2, <1>3

LEMMA StepPrevGood ==
    ASSUME IterInv, StepPrev
    PROVE  IterInv'
<1>1. KidsGood /\ dbiter.valid
      /\ Move("prev", DbPrevEntry(dbiter), HighestOf({v \in Visible : v < cursorAt}))
  BY DEF IterInv, StepPrev
<1>2. CASE overshot
  BY <1>1, <1>2, MoveGood
<1>3. CASE ~overshot
  <2>1. IterAt(dbiter, cursorAt)
    BY <1>3 DEF IterInv
  <2>2. IterAt(DbPrevEntry(dbiter), HighestOf({v \in Visible : v < cursorAt}))
    BY <1>1, <2>1, DbPrevGood
  <2> QED  BY <1>1, <2>2, MoveGood
<1> QED  BY <1>2, <1>3

\* For any keys, history and late writes: after any calls of SeekToFirst, SeekToLast, Seek, Next and
\* Prev in either direction, DBIter is at the key, with the value, of a cursor over the map as of its
\* snapshot, while a writer fills the memtable; but for a Next after a Prev that meets an entry newer
\* than the snapshot (LandsShort), after which only a new search is exact.
THEOREM CursorStaysExact == IterSpec => []CursorExact
<1>1. IterInit => IterInv
  BY IterInitGood
<1>2. IterInv /\ [IterNext]_iterVars => IterInv'
  <2> SUFFICES ASSUME IterInv, [IterNext]_iterVars PROVE IterInv'
    OBVIOUS
  <2>1. CASE UNCHANGED iterVars
    BY <2>1 DEF iterVars, IterInv, KidsGood, IterAt, FwdOK, RevOK, EndsAt, Lower, Visible, Newest, Seen, AllEntries
  <2>2. CASE IterNext
    BY <2>2, SeekToFirstGood, SeekToLastGood, SeekGood, StepNextGood, StepPrevGood, LateWriteGood DEF IterNext
  <2> QED  BY <2>1, <2>2
<1>3. IterInv => CursorExact
  BY IterInvExact
<1> QED  BY <1>1, <1>2, <1>3, PTL DEF IterSpec
=============================================================================
