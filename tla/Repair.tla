-------------------------------- MODULE Repair --------------------------------
(***************************************************************************)
(* RepairDB (src/leveldb/db/repair.cc): the descriptor of a LevelDB        *)
(* directory is made again from the tables and logs that can be read.      *)
(* Files may be damaged, steps may fail, and the process may stop at any   *)
(* point and be run again.                                                 *)
(*                                                                         *)
(* A table or a log is the set of the sequence numbers it holds.           *)
(***************************************************************************)
EXTENDS Integers, FiniteSets, FiniteSetsExt, Functions

CONSTANTS OldTables, OldLogs,       \* numbers of the files that may be found
          Writes,                   \* sequence numbers
          MaxRepairs                \* bound: runs of RepairDB

ASSUME RepairAssumption ==
    /\ OldTables \cup OldLogs \subseteq Nat \ {0} /\ Writes \subseteq Nat /\ MaxRepairs \in Nat
    /\ IsFiniteSet(OldTables) /\ IsFiniteSet(OldLogs) /\ IsFiniteSet(Writes)

VARIABLES tables,         \* number -> [has, good], the table files
          logs,           \* number -> what can be read of the log
          manifest,       \* the descriptor CURRENT leads to: [files, next, last], or <<>>
          unsaved,        \* what is only under lost/: logs for which no table could be built
          repairer,       \* the Repairer: [at, next, logs, converted, tables, kept]
          original,       \* what could be read before the first run
          runs            \* runs so far

repairVars == <<tables, logs, manifest, unsaved, repairer, original, runs>>

NoRepairer == [at |-> "none", next |-> 1, logs |-> {}, converted |-> 0, tables |-> {}, kept |-> {}]
In(files) == UNION {files[n].has : n \in DOMAIN files}
Readable(files) == {n \in DOMAIN files : files[n].good}
LastOf(S) == Max(S \cup {0})
----------------------------------------------------------------------------
RepairInit ==
    /\ \E T \in SUBSET OldTables, L \in SUBSET OldLogs, bad \in SUBSET OldTables :
       \E place \in [Writes -> OldTables \cup OldLogs] :
         /\ tables = [n \in T |-> [has |-> {w \in Writes : place[w] = n}, good |-> n \notin bad]]
         /\ logs = [n \in L |-> {w \in Writes : place[w] = n}]
         /\ \A n \in T : tables[n].has # {}
    /\ original = In(Restrict(tables, Readable(tables))) \cup UNION {logs[n] : n \in DOMAIN logs}
    /\ manifest = <<>> /\ unsaved = {} /\ repairer = NoRepairer /\ runs = 0

\* FindFiles; descriptors do not count for the next number.
FindFiles ==
    /\ repairer.at = "none" /\ runs < MaxRepairs
    /\ DOMAIN tables \cup DOMAIN logs # {}
    /\ runs' = runs + 1
    /\ repairer' = [NoRepairer EXCEPT !.at = "logs", !.logs = DOMAIN logs, !.tables = DOMAIN tables,
                      !.next = LastOf(DOMAIN tables \cup DOMAIN logs) + 1]
    /\ UNCHANGED <<tables, logs, manifest, unsaved, original>>

\* ConvertLogToTable; it takes a number also when the table is empty or cannot be built.
ConvertLog(l) ==
    /\ repairer.at = "logs" /\ repairer.converted = 0 /\ l \in repairer.logs
    /\ \E built \in BOOLEAN :
         LET some == built /\ logs[l] # {} IN
         /\ tables' = IF some THEN [n \in DOMAIN tables \cup {repairer.next} |->
                                      IF n = repairer.next THEN [has |-> logs[l], good |-> TRUE]
                                                           ELSE tables[n]]
                              ELSE tables
         /\ repairer' = [repairer EXCEPT !.next = @ + 1, !.converted = l,
                           !.tables = IF some THEN @ \cup {repairer.next} ELSE @]
         /\ unsaved' = IF built THEN unsaved ELSE unsaved \cup logs[l]
    /\ UNCHANGED <<logs, manifest, original, runs>>

\* Variant: the log is moved away before it is converted.
ArchiveFirst ==
    /\ repairer.at = "logs" /\ repairer.logs # {}
    /\ LET l == Max(repairer.logs) IN
       /\ logs' = Restrict(logs, DOMAIN logs \ {l})
       /\ repairer' = [repairer EXCEPT !.logs = @ \ {l}, !.converted = 0]
    /\ UNCHANGED <<tables, manifest, unsaved, original, runs>>

\* ArchiveFile of the log, whether or not it could be converted.
ArchiveLog ==
    /\ repairer.converted # 0
    /\ logs' = Restrict(logs, DOMAIN logs \ {repairer.converted})
    /\ repairer' = [repairer EXCEPT !.logs = @ \ {repairer.converted}, !.converted = 0]
    /\ UNCHANGED <<tables, manifest, unsaved, original, runs>>

LogsDone ==
    /\ repairer.at = "logs" /\ repairer.logs = {}
    /\ repairer' = [repairer EXCEPT !.at = "tables"]
    /\ UNCHANGED <<tables, logs, manifest, unsaved, original, runs>>

\* ExtractMetaData: ScanTable; a table that cannot be read is archived.
ScanTable(n) ==
    /\ repairer.at = "tables" /\ n \in repairer.tables
    /\ repairer' = [repairer EXCEPT !.tables = @ \ {n},
                      !.kept = IF tables[n].good THEN @ \cup {n} ELSE @]
    /\ IF tables[n].good THEN UNCHANGED tables ELSE tables' = Restrict(tables, DOMAIN tables \ {n})
    /\ UNCHANGED <<logs, manifest, unsaved, original, runs>>

\* WriteDescriptor: the temporary file first, then the old descriptors are archived ...
WriteDescriptor ==
    /\ repairer.at = "tables" /\ repairer.tables = {}
    /\ \E fails \in BOOLEAN :
         IF fails THEN repairer' = NoRepairer /\ UNCHANGED manifest
         ELSE repairer' = [repairer EXCEPT !.at = "install"] /\ manifest' = <<>>
    /\ UNCHANGED <<tables, logs, unsaved, original, runs>>

\* ... and the new one is renamed and made current.
InstallDescriptor ==
    /\ repairer.at = "install"
    /\ manifest' = <<[files |-> repairer.kept, next |-> repairer.next,
                      last |-> LastOf(In(Restrict(tables, repairer.kept)))]>>
    /\ repairer' = NoRepairer
    /\ UNCHANGED <<tables, logs, unsaved, original, runs>>

\* The process stops; a table that was being built may be left in part.
StopRepair ==
    /\ repairer.at # "none"
    /\ repairer' = NoRepairer
    /\ \/ UNCHANGED tables
       \/ /\ repairer.at = "logs" /\ repairer.converted = 0 /\ repairer.logs # {}
          /\ tables' = [n \in DOMAIN tables \cup {repairer.next} |->
                          IF n = repairer.next THEN [has |-> {}, good |-> FALSE] ELSE tables[n]]
    /\ UNCHANGED <<logs, manifest, unsaved, original, runs>>

RepairNext ==
    \/ FindFiles \/ ArchiveLog \/ LogsDone \/ WriteDescriptor \/ InstallDescriptor \/ StopRepair
    \/ \E l \in repairer.logs : ConvertLog(l)
    \/ \E n \in repairer.tables : ScanTable(n)

RepairSpec == RepairInit /\ [][RepairNext]_repairVars
----------------------------------------------------------------------------
\* However often the repair is stopped and run again, nothing that could be read is gone: it is in
\* a table, in a log that is still in place, or in a log for which no table could be built; and a descriptor names tables
\* that exist and can be read, with a next file number and a last sequence number above all of
\* theirs, so that the opened database writes over nothing and hides nothing.
RepairKeeps ==
    /\ original \subseteq In(Restrict(tables, Readable(tables))) \cup unsaved
                          \cup UNION {logs[n] : n \in DOMAIN logs}
    /\ manifest # <<>> =>
         LET d == manifest[1] IN
         /\ d.files \subseteq Readable(tables)
         /\ \A n \in d.files : n < d.next /\ \A w \in tables[n].has : w <= d.last
         /\ repairer.at = "none" =>
              original \subseteq In(Restrict(tables, d.files)) \cup unsaved
                                 \cup UNION {logs[n] : n \in DOMAIN logs}
=============================================================================
