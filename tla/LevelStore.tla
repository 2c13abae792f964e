------------------------------ MODULE LevelStore ------------------------------
(* A LevelDB database on disk and in memory (leveldb/db/db_impl.cc,         *)
(* version_set.cc, builder.cc): grouped writes, log and memtable switching, *)
(* the background thread, the manifest, obsolete files, and recovery after  *)
(* a crash at any point.                                                    *)
(*                                                                          *)
(* A write is its sequence number; which entries of a key survive a merge   *)
(* is the subject of LevelTree.  A crash may lose what was not synced.  A   *)
(* failed append leaves no part of its record, and an edit ManifestContains *)
(* can read back is on disk.  A recovery reads and writes its files without *)
(* error: an error that DB::Open reports leaves what a crash leaves.        *)
EXTENDS Integers, SequencesExt

CONSTANTS DBWriters, MaxSequence, MaxFileNumber, MaxIters

VARIABLES
    (* on disk *)
    logs,       \* log number -> [recs: records, synced: how many are durable]
    tables,     \* table number -> writes in it
    manifests,  \* manifest number -> [edits: states after each edit, synced]
    currentFile,\* the manifest CURRENT names, 0 before there is one
    (* in memory *)
    phase,      \* "closed", the steps of DB::Open, "open"
    mem, imm,   \* memtables; imm is <<>> or <<writes>>
    lastSeq, nextNumber, logfileNumber, versionLog, manifestNumber,
    current,    \* tables of the current version
    toReplay,   \* logs a recovery has still to read
    iterPins,   \* versions pinned by iterators
    pendingOutputs,
    writersQ,   \* writers_: [id, sync, batch]
    group,      \* the group being logged: <<>> or <<[n, seqs, logged]>>
    flush,      \* CompactMemTable under way: <<>> or <<[num, edit, stage]>>
    merge,      \* a table compaction: <<>> or <<[inputs, version, out, edit, stage]>>
    (* ghosts *)
    acked,      \* writes whose Write() returned OK, or that a recovery found
    ackedSync   \* those that asked for sync

diskVars == <<logs, tables, manifests, currentFile>>
bgVars == <<flush, merge>>
ghostVars == <<acked, ackedSync>>
numberVars == <<lastSeq, nextNumber, logfileNumber, versionLog, manifestNumber>>
storeVars == <<diskVars, phase, mem, imm, numberVars, current, toReplay, iterPins,
               pendingOutputs, writersQ, group, bgVars, ghostVars>>

AddFile(f, n, v) == [m \in DOMAIN f \cup {n} |-> IF m = n THEN v ELSE f[m]]
Keep(f, S) == [m \in DOMAIN f \cap S |-> f[m]]
TablesOf(V) == UNION {tables[n] : n \in V}
RecordsOf(recs) == UNION ToSet(recs)
Imm == UNION ToSet(imm)

\* A manifest's state: its table files and the counters of its last edit.
Edit(tabs, log, next, last) == [tables |-> tabs, log |-> log, next |-> next, last |-> last]

-----------------------------------------------------------------------------
(* Writers *)

WriteEnqueue(w, sync, batch) ==
    /\ phase = "open" /\ \A i \in DOMAIN writersQ : writersQ[i].id # w
    /\ writersQ' = Append(writersQ, [id |-> w, sync |-> sync, batch |-> batch])
    /\ UNCHANGED <<diskVars, phase, mem, imm, numberVars, current, iterPins, pendingOutputs,
                   group, bgVars, ghostVars, toReplay>>

\* MakeRoomForWrite by the front writer: the memtable is full, or the batch is
\* NULL and forces it; the wait for imm_ is the guard.
SwitchMemTable ==
    /\ writersQ # <<>> /\ group = <<>> /\ imm = <<>>
    /\ mem # {} \/ ~ Head(writersQ).batch
    /\ nextNumber < MaxFileNumber
    /\ logs' = AddFile(logs, nextNumber, [recs |-> <<>>, synced |-> 0])
    /\ logfileNumber' = nextNumber /\ nextNumber' = nextNumber + 1
    /\ imm' = <<mem>> /\ mem' = {}
    \* force is cleared: a NULL batch has nothing left to do and returns
    /\ writersQ' = IF Head(writersQ).batch THEN writersQ ELSE Tail(writersQ)
    /\ UNCHANGED <<tables, manifests, currentFile, phase, lastSeq, versionLog, manifestNumber,
                   current, iterPins, pendingOutputs, group, bgVars, ghostVars, toReplay>>

\* The new log cannot be created, or an earlier background error is kept
\* (paranoid_checks): the front writer alone gets the error.
MakeRoomFails ==
    /\ writersQ # <<>> /\ group = <<>>
    /\ writersQ' = Tail(writersQ)
    /\ UNCHANGED <<diskVars, phase, mem, imm, numberVars, current, iterPins, pendingOutputs,
                   group, bgVars, ghostVars, toReplay>>

\* BuildBatchGroup: writers in order, but no sync write behind a non-sync one.
GroupAny(q) == Len(q)

GroupLength(q) ==
    LET stop == {i \in DOMAIN q : q[i].sync /\ ~ q[1].sync}
    IN  IF stop = {} THEN Len(q) ELSE Min(stop) - 1

\* The front writer takes a group, numbers it and unlocks to log it.
BeginGroup ==
    /\ writersQ # <<>> /\ group = <<>> /\ Head(writersQ).batch
    /\ \E n \in 1 .. GroupLength(writersQ) :       \* the size limit may end it
         LET count == Cardinality({i \in 1 .. n : writersQ[i].batch})
         IN  /\ lastSeq + count <= MaxSequence
             /\ group' = <<[n |-> n, seqs |-> lastSeq + 1 .. lastSeq + count, logged |-> FALSE]>>
    /\ UNCHANGED <<diskVars, phase, mem, imm, numberVars, current, iterPins, pendingOutputs,
                   writersQ, bgVars, ghostVars, toReplay>>

AddRecord ==
    /\ group # <<>> /\ ~ group[1].logged
    /\ logs' = [logs EXCEPT ![logfileNumber].recs = Append(@, group[1].seqs)]
    /\ group' = <<[group[1] EXCEPT !.logged = TRUE]>>
    /\ UNCHANGED <<tables, manifests, currentFile, phase, mem, imm, numberVars, current,
                   iterPins, pendingOutputs, writersQ, bgVars, ghostVars, toReplay>>

\* The writes of the group's writers that asked for sync.
SyncSeqs(g) ==
    {Min(g.seqs) + Cardinality({j \in 1 .. i - 1 : writersQ[j].batch}) :
        i \in {j \in 1 .. g.n : writersQ[j].batch /\ writersQ[j].sync}}

\* The rest of Write: sync if the front writer asked for it, insert, publish
\* the sequence number, answer the whole group.
FinishGroup(ok) ==
    /\ group # <<>> /\ (ok => group[1].logged)
    /\ ~ ok => Head(writersQ).sync \/ ~ group[1].logged
    /\ IF ok /\ Head(writersQ).sync
       THEN logs' = [logs EXCEPT ![logfileNumber].synced = Len(logs[logfileNumber].recs)]
       ELSE UNCHANGED logs
    /\ mem' = IF ok THEN mem \cup group[1].seqs ELSE mem
    /\ lastSeq' = Max(group[1].seqs)
    /\ writersQ' = SubSeq(writersQ, group[1].n + 1, Len(writersQ))
    /\ acked' = IF ok THEN acked \cup group[1].seqs ELSE acked
    /\ ackedSync' = IF ok THEN ackedSync \cup SyncSeqs(group[1]) ELSE ackedSync
    /\ group' = <<>>
    /\ UNCHANGED <<tables, manifests, currentFile, phase, imm, nextNumber, logfileNumber,
                   versionLog, manifestNumber, current, iterPins, pendingOutputs, bgVars, toReplay>>

-----------------------------------------------------------------------------
(* The version set *)

\* DeleteObsoleteFiles, given what the versions and pending outputs need.
LiveTables(cur, pins, pend, m) ==
    pend \cup cur \cup (UNION pins) \cup UNION {m[i].version : i \in DOMAIN m}
DeleteObsoleteFiles(live, log, man) ==
    /\ tables' = Keep(tables, live)
    /\ logs' = Keep(logs, {n \in DOMAIN logs : n >= log})
    /\ manifests' = Keep(manifests, {n \in DOMAIN manifests : n >= man})

\* LogAndApply, the unlocked part: one edit appended to the manifest and synced.
AppendEdit(e) ==
    manifests' = [manifests EXCEPT ![manifestNumber] =
                    [edits |-> Append(@.edits, e), synced |-> @.synced]]
SyncEdit == manifests' = [manifests EXCEPT ![manifestNumber].synced =
                Len(manifests[manifestNumber].edits)]

-----------------------------------------------------------------------------
(* The background thread *)

NewNumber == /\ nextNumber < MaxFileNumber
             /\ nextNumber' = nextNumber + 1
PendingUnchanged(n) == pendingOutputs

PendingWithOutput(n) == pendingOutputs \cup {n}
\* CompactMemTable: also entered from the middle of DoCompactionWork.
FlushBegin ==
    /\ phase = "open" /\ imm # <<>> /\ flush = <<>>
    /\ \A i \in DOMAIN merge : merge[i].stage = "run"
    /\ NewNumber
    /\ pendingOutputs' = PendingWithOutput(nextNumber)
    /\ flush' = <<[num |-> nextNumber, edit |-> <<>>, stage |-> "build"]>>
    /\ UNCHANGED <<diskVars, phase, mem, imm, lastSeq, logfileNumber, versionLog, manifestNumber,
                   current, iterPins, writersQ, group, merge, ghostVars, toReplay>>

\* BuildTable wrote and synced the file (none for an empty memtable); the edit
\* says that earlier logs are not needed any more.
EditLog == logfileNumber
FlushBuilt ==
    /\ flush # <<>> /\ flush[1].stage = "build"
    /\ pendingOutputs' = pendingOutputs \ {flush[1].num}
    /\ tables' = IF Imm = {} THEN tables ELSE AddFile(tables, flush[1].num, Imm)
    /\ flush' = <<[flush[1] EXCEPT !.stage = "manifest", !.edit =
                    <<Edit(current \cup (IF Imm = {} THEN {} ELSE {flush[1].num}),
                           EditLog, nextNumber, lastSeq)>>]>>
    /\ UNCHANGED <<logs, manifests, currentFile, phase, mem, imm, numberVars, current, iterPins,
                   writersQ, group, merge, ghostVars, toReplay>>

\* BuildTable failed (and deleted its file), or the manifest could not be
\* written: the memtable stays and is tried again after a while.
FlushFails ==
    /\ flush # <<>> /\ flush[1].stage \in {"build", "manifest"}
    /\ pendingOutputs' = pendingOutputs \ {flush[1].num}
    /\ flush' = <<>>
    /\ UNCHANGED <<diskVars, phase, mem, imm, numberVars, current, iterPins, writersQ, group,
                   merge, ghostVars, toReplay>>

FlushLogged ==
    /\ flush # <<>> /\ flush[1].stage = "manifest"
    /\ AppendEdit(flush[1].edit[1])
    /\ flush' = <<[flush[1] EXCEPT !.stage = "sync"]>>
    /\ UNCHANGED <<logs, tables, currentFile, phase, mem, imm, numberVars, current, iterPins,
                   pendingOutputs, writersQ, group, merge, ghostVars, toReplay>>
FlushSynced ==
    /\ flush # <<>> /\ flush[1].stage = "sync"
    /\ SyncEdit
    /\ flush' = <<[flush[1] EXCEPT !.stage = "install"]>>
    /\ UNCHANGED <<logs, tables, currentFile, phase, mem, imm, numberVars, current, iterPins,
                   pendingOutputs, writersQ, group, merge, ghostVars, toReplay>>

FlushInstall ==
    /\ flush # <<>> /\ flush[1].stage = "install"
    /\ LET e == flush[1].edit[1]
       IN  /\ current' = e.tables /\ versionLog' = e.log
           /\ DeleteObsoleteFiles(LiveTables(e.tables, iterPins, pendingOutputs, merge),
                                  e.log, manifestNumber)
    /\ imm' = <<>> /\ flush' = <<>>
    /\ UNCHANGED <<currentFile, phase, mem, lastSeq, nextNumber, logfileNumber, manifestNumber,
                   iterPins, pendingOutputs, writersQ, group, merge, ghostVars, toReplay>>

\* DoCompactionWork on some tables; the input version stays referenced.
MergeBegin ==
    /\ phase = "open" /\ imm = <<>> /\ flush = <<>> /\ merge = <<>>
    /\ \E S \in (SUBSET current) \ {{}} :
         merge' = <<[inputs |-> S, version |-> current, out |-> 0, edit |-> <<>>, stage |-> "run"]>>
    /\ UNCHANGED <<diskVars, phase, mem, imm, numberVars, current, iterPins, pendingOutputs,
                   writersQ, group, flush, ghostVars, toReplay>>

\* OpenCompactionOutputFile and FinishCompactionOutputFile.
MergeOutput ==
    /\ merge # <<>> /\ merge[1].stage = "run" /\ merge[1].out = 0 /\ flush = <<>>
    /\ NewNumber
    /\ pendingOutputs' = PendingWithOutput(nextNumber)
    /\ tables' = AddFile(tables, nextNumber, TablesOf(merge[1].inputs))
    /\ merge' = <<[merge[1] EXCEPT !.out = nextNumber]>>
    /\ UNCHANGED <<logs, manifests, currentFile, phase, mem, imm, lastSeq, logfileNumber,
                   versionLog, manifestNumber, current, iterPins, writersQ, group, flush, ghostVars,
                   toReplay>>

\* InstallCompactionResults: the edit is built against the version that is
\* current now and keeps the log number.
MergeLogged ==
    /\ merge # <<>> /\ merge[1].stage = "run" /\ merge[1].out # 0 /\ flush = <<>>
    /\ LET e == Edit((current \ merge[1].inputs) \cup {merge[1].out}, versionLog, nextNumber, lastSeq)
       IN  /\ AppendEdit(e)
           /\ merge' = <<[merge[1] EXCEPT !.stage = "sync", !.edit = <<e>>]>>
    /\ UNCHANGED <<logs, tables, currentFile, phase, mem, imm, numberVars, current, iterPins,
                   pendingOutputs, writersQ, group, flush, ghostVars, toReplay>>
MergeSynced ==
    /\ merge # <<>> /\ merge[1].stage = "sync"
    /\ SyncEdit
    /\ merge' = <<[merge[1] EXCEPT !.stage = "install"]>>
    /\ UNCHANGED <<logs, tables, currentFile, phase, mem, imm, numberVars, current, iterPins,
                   pendingOutputs, writersQ, group, flush, ghostVars, toReplay>>

\* Installed, cleaned up, inputs released, obsolete files deleted; a merge that
\* fails does the same without a new version.
MergeEnd ==
    /\ merge # <<>> /\ flush = <<>> /\ merge[1].stage \in {"run", "install"}
    /\ current' = IF merge[1].stage = "install" THEN merge[1].edit[1].tables ELSE current
    /\ pendingOutputs' = pendingOutputs \ {merge[1].out}
    /\ DeleteObsoleteFiles(LiveTables(current', iterPins, pendingOutputs', <<>>),
                           versionLog, manifestNumber)
    /\ merge' = <<>>
    /\ UNCHANGED <<currentFile, phase, mem, imm, numberVars, iterPins, writersQ, group, flush,
                   ghostVars, toReplay>>

\* NewInternalIterator references the current version until it is deleted.
NewIterator ==
    /\ phase = "open" /\ Cardinality(iterPins) < MaxIters
    /\ iterPins' = iterPins \cup {current}
    /\ UNCHANGED <<diskVars, phase, mem, imm, numberVars, current, pendingOutputs, writersQ,
                   group, bgVars, ghostVars, toReplay>>
DeleteIterator(v) ==
    /\ v \in iterPins
    /\ iterPins' = iterPins \ {v}
    /\ UNCHANGED <<diskVars, phase, mem, imm, numberVars, current, pendingOutputs, writersQ,
                   group, bgVars, ghostVars, toReplay>>

-----------------------------------------------------------------------------
(* Crash and DB::Open *)

\* Memory is gone; of a file, what was synced stays and the rest may.
NoMemory ==
    /\ mem' = {} /\ imm' = <<>> /\ current' = {} /\ iterPins' = {} /\ pendingOutputs' = {}
    /\ toReplay' = {}
    /\ writersQ' = <<>> /\ group' = <<>> /\ flush' = <<>> /\ merge' = <<>>
    /\ lastSeq' = 0 /\ nextNumber' = 2 /\ logfileNumber' = 0 /\ versionLog' = 0
    /\ manifestNumber' = 0
Crash ==
    /\ phase # "closed" /\ phase' = "closed"
    /\ \E keepAll \in BOOLEAN :
         /\ logs' = [n \in DOMAIN logs |->
                IF keepAll THEN logs[n]
                ELSE [recs |-> SubSeq(logs[n].recs, 1, logs[n].synced), synced |-> logs[n].synced]]
         /\ manifests' = [n \in DOMAIN manifests |->
                IF keepAll THEN manifests[n]
                ELSE [edits |-> SubSeq(manifests[n].edits, 1, manifests[n].synced),
                      synced |-> manifests[n].synced]]
    /\ NoMemory
    /\ UNCHANGED <<tables, currentFile, ghostVars>>

\* NewDB: the first manifest and CURRENT.
NewDB ==
    /\ phase = "closed" /\ currentFile = 0
    /\ manifests' = AddFile(manifests, 1, [edits |-> <<Edit({}, 0, 2, 0)>>, synced |-> 1])
    /\ currentFile' = 1
    /\ UNCHANGED <<logs, tables, phase, mem, imm, numberVars, current, iterPins, pendingOutputs,
                   writersQ, group, bgVars, ghostVars, toReplay>>

\* VersionSet::Recover: the last edit of the manifest; DBImpl::Recover then
\* lists every log from the manifest's log number on.
OpenRecover ==
    /\ phase = "closed" /\ currentFile # 0 /\ phase' = "replay"
    /\ LET e == Last(manifests[currentFile].edits)
       IN  /\ current' = e.tables /\ lastSeq' = e.last /\ versionLog' = e.log
           /\ manifestNumber' = e.next /\ nextNumber' = e.next + 1
           /\ toReplay' = {n \in DOMAIN logs : n >= e.log}
    /\ UNCHANGED <<diskVars, mem, imm, logfileNumber, iterPins, pendingOutputs, writersQ, group,
                   bgVars, ghostVars>>

\* In the order of their numbers, each log becomes a level-0 table (none for an
\* empty one); MarkFileNumberUsed keeps new numbers above the log's.
MarkFileNumberUsed(next, n) == IF next > n THEN next ELSE n + 1
RecoverLogFile(n) ==
    /\ phase = "replay" /\ \A k \in toReplay : n <= k
    /\ nextNumber < MaxFileNumber
    /\ LET writes == RecordsOf(logs[n].recs)
           used == IF writes = {} THEN {} ELSE {nextNumber}
       IN  /\ tables' = IF writes = {} THEN tables ELSE AddFile(tables, nextNumber, writes)
           /\ current' = current \cup used
           /\ lastSeq' = Max({lastSeq} \cup writes)
           /\ nextNumber' = MarkFileNumberUsed(IF writes = {} THEN nextNumber ELSE nextNumber + 1, n)
    /\ toReplay' = toReplay \ {n}
    /\ UNCHANGED <<logs, manifests, currentFile, phase, mem, imm, logfileNumber, versionLog,
                   manifestNumber, iterPins, pendingOutputs, writersQ, group, bgVars, ghostVars>>

\* DB::Open begins a new log.
OpenLog ==
    /\ phase = "replay" /\ toReplay = {} /\ phase' = "manifest"
    /\ nextNumber < MaxFileNumber
    /\ logs' = AddFile(logs, nextNumber, [recs |-> <<>>, synced |-> 0])
    /\ logfileNumber' = nextNumber /\ nextNumber' = nextNumber + 1
    /\ UNCHANGED <<tables, manifests, currentFile, mem, imm, lastSeq, versionLog, manifestNumber,
                   current, toReplay, iterPins, pendingOutputs, writersQ, group, bgVars, ghostVars>>

\* LogAndApply with a new descriptor: snapshot and edit, synced, then CURRENT.
OpenManifest ==
    /\ phase = "manifest" /\ phase' = "current"
    /\ manifests' = AddFile(manifests, manifestNumber,
                        [edits |-> <<Edit(current, logfileNumber, nextNumber, lastSeq)>>,
                         synced |-> 1])
    /\ UNCHANGED <<logs, tables, currentFile, mem, imm, numberVars, current, iterPins,
                   pendingOutputs, writersQ, group, bgVars, ghostVars, toReplay>>
SetCurrentFile ==
    /\ phase = "current" /\ phase' = "install"
    /\ currentFile' = manifestNumber
    /\ UNCHANGED <<logs, tables, manifests, mem, imm, numberVars, current, iterPins,
                   pendingOutputs, writersQ, group, bgVars, ghostVars, toReplay>>
OpenInstall ==
    /\ phase = "install" /\ phase' = "open"
    /\ versionLog' = logfileNumber
    /\ DeleteObsoleteFiles(current, logfileNumber, manifestNumber)
    /\ acked' = TablesOf(current)
    /\ UNCHANGED <<currentFile, mem, imm, lastSeq, nextNumber, logfileNumber, manifestNumber,
                   current, iterPins, pendingOutputs, writersQ, group, bgVars, ackedSync, toReplay>>

-----------------------------------------------------------------------------
StoreInit ==
    /\ logs = <<>> /\ tables = <<>> /\ manifests = <<>> /\ currentFile = 0
    /\ phase = "closed" /\ mem = {} /\ imm = <<>>
    /\ lastSeq = 0 /\ nextNumber = 2 /\ logfileNumber = 0 /\ versionLog = 0 /\ manifestNumber = 0
    /\ current = {} /\ toReplay = {} /\ iterPins = {} /\ pendingOutputs = {}
    /\ writersQ = <<>> /\ group = <<>> /\ flush = <<>> /\ merge = <<>>
    /\ acked = {} /\ ackedSync = {}

StoreNext ==
    \/ \E w \in DBWriters, sync \in BOOLEAN, batch \in BOOLEAN : WriteEnqueue(w, sync, batch)
    \/ SwitchMemTable \/ MakeRoomFails \/ BeginGroup \/ AddRecord
    \/ \E ok \in BOOLEAN : FinishGroup(ok)
    \/ FlushBegin \/ FlushBuilt \/ FlushFails \/ FlushLogged \/ FlushSynced \/ FlushInstall
    \/ MergeBegin \/ MergeOutput \/ MergeLogged \/ MergeSynced \/ MergeEnd
    \/ NewIterator \/ \E v \in iterPins : DeleteIterator(v)
    \/ Crash \/ NewDB \/ OpenRecover \/ (\E n \in toReplay : RecoverLogFile(n)) \/ OpenLog
    \/ OpenManifest \/ SetCurrentFile \/ OpenInstall

StoreSpec == StoreInit /\ [][StoreNext]_storeVars

\* The writers are interchangeable.
WriterSymmetry == Permutations(DBWriters)

-----------------------------------------------------------------------------
(* Properties *)

\* Whatever a crash leaves now, the manifest's tables are there, and they and
\* the logs it asks to replay hold every write that was acknowledged with sync.
CrashSafe ==
    currentFile # 0 =>
        /\ currentFile \in DOMAIN manifests
        /\ LET m == manifests[currentFile]
           IN  \A i \in m.synced .. Len(m.edits) :
                 LET e == m.edits[i]
                 IN  /\ e.tables \subseteq DOMAIN tables
                     /\ ackedSync \subseteq
                          TablesOf(e.tables)
                          \cup UNION {RecordsOf(SubSeq(logs[n].recs, 1, logs[n].synced)) :
                                        n \in {k \in DOMAIN logs : k >= e.log}}

\* While the database is open, every acknowledged write can be read, no file of
\* a version in use is gone, and the next sequence number is fresh.
ReadsComplete ==
    phase = "open" =>
        /\ LiveTables(current, iterPins, {}, merge) \subseteq DOMAIN tables
        /\ acked \subseteq mem \cup Imm \cup TablesOf(current)
        /\ \A s \in mem \cup Imm \cup TablesOf(current) : s <= lastSeq
=============================================================================
