---------------------------- MODULE MCLevelFiles ----------------------------
(***************************************************************************)
(* Instances of the modules below LevelStore, side by side: a behaviour is *)
(* one of the module named by part, and the others stay where they are.    *)
(***************************************************************************)
EXTENDS MCLevelTree, LogFile, TableFile, DbIter, TableCache, MemEnv, Repair,
  Encodings

VARIABLE part

MCUsers == {<<1>>, <<1, 1>>, <<1, 2>>, <<3>>, <<4, 4>>}
MCTableKeys == {Append(u, s) : u \in MCUsers, s \in {1, 2}}
MCHash == [u \in MCUsers |-> 7 * u[Len(u)] + 5 * Len(u)]

MCSlices == {<<>>, <<1, 0, 2, 7>>}

MCInit ==
  /\ part \in {"tree", "log", "table", "iterator", "cache", "memory", "repair", "mmap",
              "encoding", "locks", "limit", "background"}
  /\ TreeInit /\ CacheInit /\ MemInit /\ MmInit /\ EnvInit
  /\ EncInit /\ (part # "encoding" => format = "edit")
  /\ LogInit /\ (part # "log" => initial_offset = 0)
  /\ IF part = "table" THEN TableInit
     ELSE /\ content = <<>> /\ toAdd = <<>> /\ builder = NewBuilder
          /\ cursor = <<>> /\ refPos = 0 /\ lastOp = <<>>
  /\ IF part = "iterator" THEN IterInit
     ELSE /\ kids = <<{}, {}>> /\ sequence = 0 /\ cursorAt = 0 /\ overshot = FALSE /\ stepped = <<>>
          /\ dbiter = Invalid([pos |-> <<<<>>, <<>>>>, cur |-> 0, dir |-> "forward"], "forward")
  /\ IF part = "repair" THEN RepairInit
     ELSE /\ tables = <<>> /\ logs = <<>> /\ original = {} /\ manifest = <<>> /\ unsaved = {}
          /\ repairer = NoRepairer /\ runs = 0

fileVars == <<treeVars, logVars, tableVars, iterVars, cacheVars, memVars, repairVars, mmVars>>

MCNext ==
  /\ UNCHANGED part
  /\ \/ part = "tree" /\ TreeNext
          /\ UNCHANGED <<logVars, tableVars, iterVars, cacheVars, memVars, repairVars, mmVars, encVars, envVars>>
     \/ part = "log" /\ LogNext
          /\ UNCHANGED <<treeVars, tableVars, iterVars, cacheVars, memVars, repairVars, mmVars, encVars, envVars>>
     \/ part = "table" /\ TableNextStep
          /\ UNCHANGED <<treeVars, logVars, iterVars, cacheVars, memVars, repairVars, mmVars, encVars, envVars>>
     \/ part = "iterator" /\ IterNext
          /\ UNCHANGED <<treeVars, logVars, tableVars, cacheVars, memVars, repairVars, mmVars, encVars, envVars>>
     \/ part = "cache" /\ CacheNext
          /\ UNCHANGED <<treeVars, logVars, tableVars, iterVars, memVars, repairVars, mmVars, encVars, envVars>>
     \/ part = "memory" /\ MemNext
          /\ UNCHANGED <<treeVars, logVars, tableVars, iterVars, cacheVars, repairVars, mmVars, encVars, envVars>>
     \/ part = "repair" /\ RepairNext
          /\ UNCHANGED <<treeVars, logVars, tableVars, iterVars, cacheVars, memVars, mmVars, encVars, envVars>>
     \/ part = "mmap" /\ MmNext
          /\ UNCHANGED <<treeVars, logVars, tableVars, iterVars, cacheVars, memVars, repairVars, encVars, envVars>>
     \/ part = "encoding" /\ EncNext /\ UNCHANGED <<fileVars, envVars>>
     \/ part = "locks" /\ LockNext /\ UNCHANGED <<fileVars, encVars, limitVars, bgVars>>
     \/ part = "limit" /\ LimitNext /\ UNCHANGED <<fileVars, encVars, lockVars, bgVars>>
     \/ part = "background" /\ BgNext /\ UNCHANGED <<fileVars, encVars, lockVars, limitVars>>

\* What was written into a record comes back out of the log: the record as a whole, and the
\* entries of the batch or edit that it holds.
RecordsExact == RecordsRecovered /\ EncodingsExact
=============================================================================
