--------------------------- MODULE LevelFilesProofs ---------------------------
(***************************************************************************)
(* Proofs about the modules below LevelStore: what the threads and         *)
(* processes share in the environment (PosixEnv), the file written through *)
(* a moving window, RepairDB, the levels of sorted tables with their       *)
(* compactions (LevelTree), and the files kept in memory (MemEnv), each    *)
(* with its inductive invariant.                                           *)
(***************************************************************************)
EXTENDS MemEnv, Repair, LevelTree, FiniteSetTheorems, SequenceTheorems, NumberFacts, TLAPS

----------------------------------------------------------------------------
(* LockFile and UnlockFile.                                                *)

\* Where the table has the file: some thread is between Insert and Remove.
InTable == {"inserted", "refused", "held", "unlocked"}

LockTypes ==
    /\ locked_files \in [Processes -> BOOLEAN] /\ osLock \subseteq Processes
    /\ locker \in [Processes -> [Threads -> {"out", "opened", "removed"} \cup InTable]]

\* The table has the file while one thread, and one only, is on its way with it.
TableExactly ==
    \A p \in Processes : \A t \in Threads :
        locker[p][t] \in InTable =>
            locked_files[p] /\ \A u \in Threads : locker[p][u] \in InTable => u = t

\* A process with a holder has fcntl's lock, unless a close() took it, and it is the only one.
LockGiven ==
    /\ \A p \in Processes : \A t \in Threads : locker[p][t] = "held" => p \in osLock \cup lockLost
    /\ \A p, q \in osLock : p = q

LockInv == LockTypes /\ TableExactly /\ LockGiven

LockPlaces == {"out", "opened", "removed"} \cup InTable

\* What a step has to show that moves thread t of process p, and leaves other processes alone.
LEMMA MovedThreadKeeps ==
    ASSUME LockInv, NEW p \in Processes, NEW t \in Threads, NEW at \in LockPlaces, Goes(p, t, at),
           NEW b \in BOOLEAN, locked_files' = [locked_files EXCEPT ![p] = b],
           at \in InTable => b /\ \A u \in Threads : u # t => locker[p][u] \notin InTable,
           \A u \in Threads : u # t /\ locker[p][u] \in InTable => b,
           osLock' \subseteq Processes, \A q, r \in osLock' : q = r,
           osLock \ {p} \subseteq osLock', lockLost \subseteq lockLost',
           at = "held" => p \in osLock',
           \A u \in Threads : u # t /\ locker[p][u] = "held" => p \in osLock' \cup lockLost'
    PROVE  LockInv'
<1>1. LockTypes /\ TableExactly /\ LockGiven
  BY DEF LockInv
<1>2. locker' = [locker EXCEPT ![p][t] = at] /\ locker \in [Processes -> [Threads -> LockPlaces]]
  BY <1>1 DEF Goes, LockTypes, LockPlaces
<1>3. /\ locker' \in [Processes -> [Threads -> LockPlaces]] /\ locker'[p][t] = at
      /\ \A u \in Threads : u # t => locker'[p][u] = locker[p][u]
      /\ \A q \in Processes : q # p => locker'[q] = locker[q]
  BY <1>2
<1>4. locked_files' \in [Processes -> BOOLEAN] /\ locked_files'[p] = b
      /\ \A q \in Processes : q # p => locked_files'[q] = locked_files[q]
  BY <1>1 DEF LockTypes
<1>5. LockTypes'
  BY <1>3, <1>4 DEF LockTypes, LockPlaces
<1>6. TableExactly'
  <2> SUFFICES ASSUME NEW q \in Processes, NEW u \in Threads, locker'[q][u] \in InTable
               PROVE  locked_files'[q] /\ \A w \in Threads : locker'[q][w] \in InTable => w = u
    BY DEF TableExactly, InTable
  <2>1. CASE q # p
    BY <1>1, <1>3, <1>4, <2>1 DEF TableExactly
  <2>2. CASE q = p /\ u = t
    BY <1>3, <1>4, <2>2
  <2>3. CASE q = p /\ u # t
    <3>1. locker[p][u] \in InTable /\ b
      BY <1>3, <2>3
    <3>2. at \notin InTable
      BY <2>3, <3>1
    <3> QED
      BY <1>1, <1>3, <1>4, <2>3, <3>1, <3>2 DEF TableExactly
  <2> QED
    BY <2>1, <2>2, <2>3
<1>7. LockGiven'
  <2>1. ASSUME NEW q \in Processes, NEW u \in Threads, locker'[q][u] = "held" PROVE q \in osLock' \cup lockLost'
    <3>1. CASE q # p
      BY <1>1, <1>3, <2>1, <3>1 DEF LockGiven
    <3>2. CASE q = p /\ u = t
      BY <1>3, <2>1, <3>2
    <3>3. CASE q = p /\ u # t
      BY <1>3, <2>1, <3>3
    <3> QED
      BY <3>1, <3>2, <3>3
  <2> QED
    BY <2>1 DEF LockGiven
<1> QED
  BY <1>5, <1>6, <1>7 DEF LockInv

\* close() by a thread that is not the holder.
LEMMA ClosedFd ==
    ASSUME LockInv, NEW p \in Processes, NEW t \in Threads, CloseFd(p, t), locker[p][t] # "held"
    PROVE  /\ osLock' \subseteq Processes /\ (\A q, r \in osLock' : q = r)
           /\ osLock \ {p} \subseteq osLock' /\ lockLost \subseteq lockLost'
           /\ \A u \in Threads : locker[p][u] = "held" => p \in lockLost'
<1>1. LockTypes /\ LockGiven
  BY DEF LockInv
<1>2. \A u \in Threads : locker[p][u] = "held" => Holds(p) \ {t} # {} /\ p \in osLock \cup lockLost
  BY <1>1 DEF Holds, LockGiven
<1> QED
  BY <1>1, <1>2 DEF CloseFd, LockTypes, LockGiven

LEMMA EndProcessKeeps ==
    ASSUME LockInv, NEW p \in Processes, EndProcess(p)
    PROVE  LockInv'
<1>1. LockTypes /\ TableExactly /\ LockGiven
  BY DEF LockInv
<1>2. /\ locked_files' = [locked_files EXCEPT ![p] = FALSE] /\ osLock' = osLock \ {p}
      /\ lockLost' = lockLost \ {p} /\ locker' = [locker EXCEPT ![p] = [u \in Threads |-> "out"]]
  BY DEF EndProcess
<1>3. \A q \in Processes : q # p => locker'[q] = locker[q] /\ locked_files'[q] = locked_files[q]
  BY <1>1, <1>2 DEF LockTypes
<1>4. \A u \in Threads : locker'[p][u] = "out"
  BY <1>1, <1>2 DEF LockTypes
<1>5. LockTypes'
  BY <1>1, <1>2 DEF LockTypes
<1>6. TableExactly'
  BY <1>1, <1>3, <1>4 DEF TableExactly, InTable
<1>7. LockGiven'
  <2>1. \A q \in Processes : \A u \in Threads : locker'[q][u] = "held" => q # p /\ q \in osLock \cup lockLost
    BY <1>1, <1>3, <1>4 DEF LockGiven
  <2>2. \A q, r \in osLock' : q = r
    BY <1>1, <1>2 DEF LockGiven
  <2> QED
    BY <1>2, <2>1, <2>2 DEF LockGiven
<1> QED
  BY <1>5, <1>6, <1>7 DEF LockInv

LEMMA ThreadStepKeeps ==
    ASSUME LockInv, NEW p \in Processes, NEW t \in Threads,
           \/ OpenLockFile(p, t) \/ InsertLock(p, t) \/ FcntlLock(p, t) \/ RemoveRefused(p, t)
           \/ FcntlUnlock(p, t) \/ RemoveLock(p, t) \/ CloseLock(p, t)
    PROVE  LockInv'
<1>1. LockTypes /\ TableExactly /\ LockGiven
  BY DEF LockInv
<1>2. /\ locked_files[p] \in BOOLEAN /\ osLock \subseteq Processes /\ (\A q, r \in osLock : q = r)
      /\ \A u \in Threads : locker[p][u] = "held" => p \in osLock \cup lockLost
      /\ locked_files = [locked_files EXCEPT ![p] = locked_files[p]]
  BY <1>1 DEF LockTypes, LockGiven
<1>3. /\ \A u \in Threads : locker[p][u] \in InTable => locked_files[p]
      /\ \A u \in Threads : locker[p][t] \in InTable /\ u # t => locker[p][u] \notin InTable
      /\ \A u \in Threads : locker[p][u] = "held" => locker[p][u] \in InTable
  BY <1>1 DEF TableExactly, InTable
<1>4. {"inserted", "refused", "held", "unlocked"} = InTable /\ \A x \in {"out", "opened", "removed"} : x \notin InTable
  BY DEF InTable
<1>5. {"out", "opened", "removed", "inserted", "refused", "held", "unlocked"} = LockPlaces
  BY DEF LockPlaces, InTable
<1>6. CASE OpenLockFile(p, t)
  <2>1. Goes(p, t, "opened") /\ UNCHANGED <<locked_files, osLock, lockLost>>
    BY <1>6 DEF OpenLockFile
  <2> QED
    BY <1>2, <1>3, <1>4, <1>5, <2>1, MovedThreadKeeps
<1>7. CASE InsertLock(p, t)
  <2>1. CASE CanInsert(p)
    <3>1. /\ locked_files' = [locked_files EXCEPT ![p] = TRUE] /\ Goes(p, t, "inserted")
          /\ UNCHANGED <<osLock, lockLost>> /\ ~locked_files[p]
      BY <1>7, <2>1 DEF InsertLock, CanInsert
    <3> QED
      BY <1>2, <1>3, <1>4, <1>5, <3>1, MovedThreadKeeps
  <2>2. CASE ~CanInsert(p)
    <3>1. CloseFd(p, t) /\ Goes(p, t, "out") /\ UNCHANGED locked_files /\ locker[p][t] # "held"
      BY <1>7, <2>2 DEF InsertLock
    <3> QED
      BY <1>2, <1>3, <1>4, <1>5, <3>1, ClosedFd, MovedThreadKeeps
  <2> QED
    BY <2>1, <2>2
<1>8. CASE FcntlLock(p, t)
  <2>1. locker[p][t] = "inserted" /\ UNCHANGED locked_files
    BY <1>8 DEF FcntlLock
  <2>2. CASE osLock \subseteq {p} /\ osLock' = {p} /\ Goes(p, t, "held") /\ UNCHANGED lockLost
    BY <1>2, <1>3, <1>4, <1>5, <2>1, <2>2, MovedThreadKeeps
  <2>3. CASE CloseFd(p, t) /\ Goes(p, t, "refused")
    BY <1>2, <1>3, <1>4, <1>5, <2>1, <2>3, ClosedFd, MovedThreadKeeps
  <2> QED
    BY <1>8, <2>2, <2>3 DEF FcntlLock
<1>9. CASE RemoveRefused(p, t)
  <2>1. /\ locked_files' = [locked_files EXCEPT ![p] = FALSE] /\ Goes(p, t, "out")
        /\ UNCHANGED <<osLock, lockLost>> /\ locker[p][t] \in InTable
    BY <1>4, <1>9 DEF RemoveRefused
  <2> QED
    BY <1>2, <1>3, <1>4, <1>5, <2>1, MovedThreadKeeps
<1>10. CASE FcntlUnlock(p, t)
  <2>1. /\ locker[p][t] \in InTable /\ osLock' \in {osLock, osLock \ {p}} /\ Goes(p, t, "unlocked")
        /\ UNCHANGED <<locked_files, lockLost>>
    BY <1>4, <1>10 DEF FcntlUnlock
  <2>2. \A q, r \in osLock' : q = r
    BY <1>2, <2>1
  <2> QED
    BY <1>2, <1>3, <1>4, <1>5, <2>1, <2>2, MovedThreadKeeps
<1>11. CASE RemoveLock(p, t)
  <2>1. /\ locked_files' = [locked_files EXCEPT ![p] = FALSE] /\ Goes(p, t, "removed")
        /\ UNCHANGED <<osLock, lockLost>> /\ locker[p][t] \in InTable
    BY <1>4, <1>11 DEF RemoveLock
  <2> QED
    BY <1>2, <1>3, <1>4, <1>5, <2>1, MovedThreadKeeps
<1>12. CASE CloseLock(p, t)
  <2>1. CloseFd(p, t) /\ Goes(p, t, "out") /\ UNCHANGED locked_files /\ locker[p][t] # "held"
    BY <1>12 DEF CloseLock
  <2> QED
    BY <1>2, <1>3, <1>4, <1>5, <2>1, ClosedFd, MovedThreadKeeps
<1> QED
  BY <1>6, <1>7, <1>8, <1>9, <1>10, <1>11, <1>12

LEMMA LockNextKeeps == LockInv /\ LockNext => LockInv'
<1> SUFFICES ASSUME LockInv, LockNext PROVE LockInv'
  OBVIOUS
<1> QED
  BY EndProcessKeeps, ThreadStepKeeps DEF LockNext

\* The two promises of LocksHeldApart.
LEMMA LocksFollow == LockInv => LocksHeldApart
<1> SUFFICES ASSUME LockInv PROVE LocksHeldApart
  OBVIOUS
<1>1. LockTypes /\ TableExactly /\ LockGiven
  BY DEF LockInv
<1>2. ASSUME NEW p \in Processes PROVE Cardinality(Holds(p)) <= 1
  <2>1. Holds(p) = {} \/ \E t \in Threads : Holds(p) = {t}
    BY <1>1 DEF TableExactly, Holds, InTable
  <2>2. Cardinality({}) = 0 /\ \A t \in Threads : Cardinality({t}) = 1
    BY FS_EmptySet, FS_Singleton
  <2> QED
    BY <2>1, <2>2
<1>3. ASSUME NEW p \in Processes, NEW q \in Processes, p # q, Holds(p) # {}, Holds(q) # {}
      PROVE  {p, q} \cap lockLost # {}
  BY <1>1, <1>3 DEF LockGiven, Holds
<1> QED
  BY <1>2, <1>3 DEF LocksHeldApart

----------------------------------------------------------------------------
(* MmapLimiter.                                                            *)

Mapping == {r \in EnvReaders : opening[r] \in {"acquired", "mapped"}}

LimitInv ==
    /\ allowed \in Int /\ opening \in [EnvReaders -> {"none", "plain", "maybe", "acquired", "mapped"}]
    /\ SlotsCounted

LEMMA LimitNextKeeps == LimitInv /\ LimitNext => LimitInv'
<1> SUFFICES ASSUME LimitInv, NEW r \in EnvReaders,
                    AcquireUnlocked(r) \/ AcquireLocked(r) \/ MapFile(r) \/ DeleteReadable(r)
             PROVE  LimitInv'
  BY DEF LimitNext
<1>1. /\ IsFiniteSet(Mapping) /\ Cardinality(Mapping) \in Nat /\ allowed \in Nat
      /\ allowed + Cardinality(Mapping) = MmapLimit /\ MmapLimit \in Nat
  <2>1. IsFiniteSet(Mapping)
    BY PosixEnvAssumption, FS_Subset DEF Mapping
  <2> QED
    BY <2>1, FS_CardinalityType, PosixEnvAssumption DEF LimitInv, SlotsCounted, Mapping
<1>2. ASSUME NEW at \in {"none", "plain", "maybe", "acquired", "mapped"}, Moves(r, at)
      PROVE  /\ opening' \in [EnvReaders -> {"none", "plain", "maybe", "acquired", "mapped"}]
             /\ at \in {"acquired", "mapped"} => Mapping' = Mapping \cup {r}
             /\ at \notin {"acquired", "mapped"} => Mapping' = Mapping \ {r}
  BY <1>2 DEF LimitInv, Moves, Mapping
<1>3. /\ r \in Mapping <=> opening[r] \in {"acquired", "mapped"}
      /\ Cardinality(Mapping \cup {r}) = Cardinality(Mapping) + (IF r \in Mapping THEN 0 ELSE 1)
      /\ Cardinality(Mapping \ {r}) = Cardinality(Mapping) - (IF r \in Mapping THEN 1 ELSE 0)
  <2>1. r \in Mapping <=> opening[r] \in {"acquired", "mapped"}
    BY DEF Mapping
  <2>2. Cardinality(Mapping \cup {r}) = IF r \in Mapping THEN Cardinality(Mapping) ELSE Cardinality(Mapping) + 1
    BY <1>1, FS_AddElement
  <2>3. Cardinality(Mapping \ {r}) = IF r \in Mapping THEN Cardinality(Mapping) - 1 ELSE Cardinality(Mapping)
    BY <1>1, FS_RemoveElement
  <2> QED
    BY <1>1, <2>1, <2>2, <2>3
<1>4. ASSUME allowed' \in Nat, allowed' + Cardinality(Mapping') = MmapLimit,
             opening' \in [EnvReaders -> {"none", "plain", "maybe", "acquired", "mapped"}]
      PROVE  LimitInv'
  BY <1>4 DEF LimitInv, SlotsCounted, Mapping
<1>5. CASE AcquireUnlocked(r)
  <2>1. opening[r] = "none" /\ allowed' = allowed /\ (Moves(r, "plain") \/ Moves(r, "maybe"))
    BY <1>5 DEF AcquireUnlocked
  <2>2. r \notin Mapping /\ Mapping' = Mapping
    BY <1>2, <1>3, <2>1
  <2> QED
    BY <1>1, <1>2, <1>4, <2>1, <2>2
<1>6. CASE AcquireLocked(r)
  <2>1. opening[r] = "maybe" /\ r \notin Mapping
    BY <1>3, <1>6 DEF AcquireLocked
  <2>2. CASE Moves(r, "plain") /\ allowed' = allowed
    BY <1>1, <1>2, <1>3, <1>4, <2>1, <2>2
  <2>3. CASE allowed > 0 /\ allowed' = allowed - 1 /\ Moves(r, "acquired")
    BY <1>1, <1>2, <1>3, <1>4, <2>1, <2>3
  <2> QED
    BY <1>6, <2>2, <2>3 DEF AcquireLocked
<1>7. CASE MapFile(r)
  <2>1. opening[r] = "acquired" /\ r \in Mapping
    BY <1>3, <1>7 DEF MapFile
  <2>2. CASE Moves(r, "mapped") /\ allowed' = allowed
    BY <1>1, <1>2, <1>3, <1>4, <2>1, <2>2
  <2>3. CASE Moves(r, "none") /\ allowed' = allowed + 1
    <3>1. Mapping' = Mapping \ {r}
      BY <1>2, <2>3
    <3>2. Cardinality(Mapping') = Cardinality(Mapping) - 1
      BY <1>3, <2>1, <3>1
    <3> QED
      BY <1>1, <1>2, <1>4, <2>3, <3>2
  <2> QED
    BY <1>7, <2>2, <2>3 DEF MapFile
<1>8. CASE DeleteReadable(r)
  <2>1. /\ opening[r] \in {"mapped", "plain"} /\ Moves(r, "none")
        /\ allowed' = IF opening[r] = "mapped" THEN allowed + 1 ELSE allowed
    BY <1>8 DEF DeleteReadable
  <2>2. opening[r] = "mapped" <=> r \in Mapping
    BY <1>3, <2>1
  <2>3. Mapping' = Mapping \ {r}
    BY <1>2, <2>1
  <2>4. allowed' = allowed + Cardinality(Mapping) - Cardinality(Mapping')
    BY <1>1, <1>3, <2>1, <2>2, <2>3
  <2>5. Cardinality(Mapping') \in {Cardinality(Mapping), Cardinality(Mapping) - 1}
    BY <1>1, <1>3, <2>3
  <2>6. allowed' \in Nat /\ allowed' + Cardinality(Mapping') = MmapLimit
    BY <1>1, <2>1, <2>4, <2>5
  <2> QED
    BY <1>2, <1>4, <2>1, <2>6
<1> QED
  BY <1>5, <1>6, <1>7, <1>8

----------------------------------------------------------------------------
(* Schedule and the background thread.                                     *)

BgInv ==
    /\ scheduled \in Nat /\ bgRan \in Seq(Nat) /\ bgQueue \in Seq(Nat)
    /\ bgThread \in {"none", "top", "waiting", "running"}
    /\ ItemsRunInOrder

Counted(n) == [i \in 1 .. n |-> i]

LEMMA BgNextKeeps == BgInv /\ BgNext => BgInv'
<1> SUFFICES ASSUME BgInv, BgNext PROVE BgInv'
  OBVIOUS
<1>1. /\ scheduled \in Nat /\ bgRan \in Seq(Nat) /\ bgQueue \in Seq(Nat)
      /\ bgThread \in {"none", "top", "waiting", "running"}
      /\ (bgQueue # <<>> => bgThread \in {"top", "running"}) /\ bgRan \o bgQueue = Counted(scheduled)
  BY DEF BgInv, ItemsRunInOrder, Counted
<1>2. ASSUME scheduled' \in Nat, bgRan' \in Seq(Nat), bgQueue' \in Seq(Nat),
             bgThread' \in {"none", "top", "waiting", "running"},
             bgQueue' # <<>> => bgThread' \in {"top", "running"}, bgRan' \o bgQueue' = Counted(scheduled')
      PROVE  BgInv'
  BY <1>2 DEF BgInv, ItemsRunInOrder, Counted
<1>3. CASE Schedule
  <2>1. /\ scheduled' = scheduled + 1 /\ bgQueue' = Append(bgQueue, scheduled + 1) /\ bgRan' = bgRan
        /\ bgThread' = IF bgThread = "none" \/ (bgQueue = <<>> /\ bgThread = "waiting") THEN "top" ELSE bgThread
    BY <1>3 DEF Schedule
  <2>2. bgRan \o Append(bgQueue, scheduled + 1) = Append(bgRan \o bgQueue, scheduled + 1)
    <3>1. bgRan \in Seq(Nat) /\ bgQueue \in Seq(Nat) /\ scheduled + 1 \in Nat
      BY <1>1
    <3> QED
      BY <3>1
  <2>3. Append(Counted(scheduled), scheduled + 1) = Counted(scheduled + 1)
    BY <1>1 DEF Counted
  <2>4. bgRan' \o bgQueue' = Counted(scheduled')
    BY <1>1, <2>1, <2>2, <2>3
  <2>5. bgThread' \in {"top", "running"}
    BY <1>1, <2>1
  <2>6. bgQueue' \in Seq(Nat) /\ scheduled' \in Nat /\ bgRan' \in Seq(Nat)
    BY <1>1, <2>1
  <2> QED
    BY <1>2, <2>4, <2>5, <2>6
<1>4. CASE WaitForItem \/ SpuriousWakeup \/ FunctionReturns
  BY <1>1, <1>2, <1>4 DEF WaitForItem, SpuriousWakeup, FunctionReturns
<1>5. CASE TakeItem
  <2>1. /\ bgQueue # <<>> /\ bgRan' = Append(bgRan, Head(bgQueue)) /\ bgQueue' = Tail(bgQueue)
        /\ bgThread' = "running" /\ scheduled' = scheduled
    BY <1>5 DEF TakeItem
  <2>2. Append(bgRan, Head(bgQueue)) \o Tail(bgQueue) = bgRan \o bgQueue
    <3>1. Head(bgQueue) \in Nat /\ Tail(bgQueue) \in Seq(Nat) /\ Len(bgQueue) \in Nat \ {0}
      BY <1>1, <2>1
    <3>2. Append(bgRan, Head(bgQueue)) = bgRan \o <<Head(bgQueue)>>
      BY <1>1, <3>1
    <3>3. <<Head(bgQueue)>> \o Tail(bgQueue) = bgQueue
      BY <1>1, <2>1, <3>1
    <3>4. (bgRan \o <<Head(bgQueue)>>) \o Tail(bgQueue) = bgRan \o (<<Head(bgQueue)>> \o Tail(bgQueue))
      BY <1>1, <3>1
    <3> QED
      BY <3>2, <3>3, <3>4
  <2> QED
    BY <1>1, <1>2, <2>1, <2>2
<1> QED
  BY <1>3, <1>4, <1>5 DEF BgNext

\* For any processes, threads and readers: one thread of a process at most holds the lock, two
\* processes only after a close() took it from one; MmapLimiter's slots are conserved; and the
\* background thread runs every item once, in order, and sleeps over none.
THEOREM EnvironmentSound == EnvSpec => []EnvSound
<1>1. EnvInit => LockInv /\ LimitInv /\ BgInv
  <2> SUFFICES ASSUME EnvInit PROVE LockInv /\ LimitInv /\ BgInv
    OBVIOUS
  <2>1. LockInv
    BY DEF EnvInit, LockInv, LockTypes, TableExactly, LockGiven, InTable
  <2>2. LimitInv
    <3>1. {r \in EnvReaders : opening[r] \in {"acquired", "mapped"}} = {}
      BY DEF EnvInit
    <3>2. allowed = MmapLimit /\ MmapLimit \in Nat /\ opening = [r \in EnvReaders |-> "none"]
      BY PosixEnvAssumption DEF EnvInit
    <3>3. Cardinality({}) = 0
      BY FS_EmptySet
    <3>4. SlotsCounted
      BY <3>1, <3>2, <3>3 DEF SlotsCounted
    <3> QED
      BY <3>2, <3>4 DEF LimitInv
  <2>3. BgInv
    BY DEF EnvInit, BgInv, ItemsRunInOrder
  <2> QED
    BY <2>1, <2>2, <2>3
<1>2. LockInv /\ LimitInv /\ BgInv /\ [EnvNext]_envVars => (LockInv /\ LimitInv /\ BgInv)'
  <2>1. LockInv /\ UNCHANGED lockVars => LockInv'
    BY DEF LockInv, LockTypes, TableExactly, LockGiven, InTable, lockVars
  <2>2. LimitInv /\ UNCHANGED limitVars => LimitInv'
    BY DEF LimitInv, SlotsCounted, limitVars
  <2>3. BgInv /\ UNCHANGED bgVars => BgInv'
    BY DEF BgInv, ItemsRunInOrder, bgVars
  <2>4. UNCHANGED envVars => UNCHANGED <<lockVars, limitVars, bgVars>>
    BY DEF envVars
  <2> QED
    BY <2>1, <2>2, <2>3, <2>4, LockNextKeeps, LimitNextKeeps, BgNextKeeps DEF EnvNext
<1>3. LockInv /\ LimitInv /\ BgInv => EnvSound
  BY LocksFollow DEF LimitInv, BgInv, EnvSound
<1> QED
  BY <1>1, <1>2, <1>3, PTL DEF EnvSpec

----------------------------------------------------------------------------
(* RepairDB.                                                               *)

\* A finite set of natural numbers has a greatest one, which is the library's Max.
LEMMA FiniteMax ==
    ASSUME NEW S \in SUBSET Nat, IsFiniteSet(S), S # {}
    PROVE  Max(S) \in S /\ \A y \in S : y <= Max(S)
<1>1. PICK n \in Nat : ExistsBijection(1 .. n, S)
  BY FS_NatBijection
<1>2. PICK f \in [1 .. n -> S] : \A s \in S : \E i \in 1 .. n : f[i] = s
  BY <1>1 DEF ExistsBijection, Bijection, Surjection
<1> DEFINE Bounded == {m \in 0 .. n : \E b \in Nat : \A i \in 1 .. m : f[i] <= b}
<1>3. 0 \in Bounded
  OBVIOUS
<1>4. ASSUME NEW m \in 1 .. n, m - 1 \in Bounded PROVE m \in Bounded
  <2>1. PICK b \in Nat : \A i \in 1 .. m - 1 : f[i] <= b
    BY <1>4
  <2>2. f[m] \in Nat /\ \A i \in 1 .. m : f[i] \in Nat /\ (i \in 1 .. m - 1 \/ i = m)
    <3>1. \A i \in 1 .. m : i \in 1 .. n /\ (i \in 1 .. m - 1 \/ i = m)
      BY m \in 1 .. n
    <3>2. \A i \in 1 .. n : f[i] \in Nat
      BY <1>2
    <3> QED
      BY <3>1, <3>2
  <2>3. \A i \in 1 .. m : f[i] <= b + f[m]
    BY <2>1, <2>2
  <2>4. b + f[m] \in Nat
    BY <2>2
  <2> QED
    BY <2>3, <2>4
<1>5. n \in Bounded
  <2> HIDE DEF Bounded
  <2> QED
    BY <1>3, <1>4, UpTo
<1> DEFINE Above == {b \in Nat : \A s \in S : s <= b}
<1>6. Above \in SUBSET Nat /\ Above # {}
  BY <1>2, <1>5
<1>7. PICK u \in Above : \A b \in Above : u <= b
  BY <1>6, LeastNumber
<1>8. u \in S
  <2> SUFFICES ASSUME u \notin S PROVE FALSE
    OBVIOUS
  <2>1. PICK s \in S : TRUE
    OBVIOUS
  <2>2. \A x \in S : x \in Nat /\ x < u
    BY <1>7
  <2>3. u - 1 \in Above
    BY <2>1, <2>2
  <2> QED
    BY <1>7, <2>3
<1>9. \E x \in S : \A y \in S : x >= y
  BY <1>7, <1>8
<1> QED
  BY <1>9 DEF Max

LEMMA LastAbove ==
    ASSUME NEW S \in SUBSET Nat, IsFiniteSet(S)
    PROVE  LastOf(S) \in Nat /\ \A y \in S : y <= LastOf(S)
<1>1. S \cup {0} \in SUBSET Nat /\ IsFiniteSet(S \cup {0})
  BY FS_AddElement
<1> QED
  BY <1>1, FiniteMax DEF LastOf

RepairTypes ==
    /\ IsFiniteSet(DOMAIN tables) /\ DOMAIN tables \subseteq Nat
    /\ tables \in [DOMAIN tables -> [has : SUBSET Writes, good : BOOLEAN]]
    /\ IsFiniteSet(DOMAIN logs) /\ DOMAIN logs \subseteq Nat \ {0} /\ logs \in [DOMAIN logs -> SUBSET Writes]
    /\ repairer \in [at : {"none", "logs", "tables", "install"}, next : Nat, logs : SUBSET Nat,
                     converted : Nat, tables : SUBSET Nat, kept : SUBSET Nat]

\* The write can be read from a table of S.
Found(w, S) == \E n \in S : n \in DOMAIN tables /\ tables[n].good /\ w \in tables[n].has

\* The Repairer's lists are the directory's, and its next number is above all that are in use.
ListsTrue ==
    /\ repairer.at # "none" => \A n \in DOMAIN tables \cup DOMAIN logs : n < repairer.next
    /\ repairer.at = "logs" =>
         repairer.tables = DOMAIN tables /\ repairer.logs = DOMAIN logs /\ repairer.kept = {}
    /\ repairer.at \in {"tables", "install"} => DOMAIN logs = {}
    /\ repairer.at = "tables" =>
         /\ repairer.kept \subseteq Readable(tables)
         /\ Readable(tables) \subseteq repairer.kept \cup repairer.tables
         /\ repairer.tables \subseteq DOMAIN tables
    /\ repairer.at = "install" => repairer.kept = Readable(tables) /\ manifest = <<>>

\* A log is moved away after what it holds is in a table, or no table could be built.
ConvertedSaved ==
    repairer.converted # 0 =>
        /\ repairer.at = "logs" /\ repairer.converted \in DOMAIN logs
        /\ \A w \in logs[repairer.converted] : Found(w, DOMAIN tables) \/ w \in unsaved

NothingLost ==
    \A w \in original :
        Found(w, DOMAIN tables) \/ (\E l \in DOMAIN logs : w \in logs[l]) \/ w \in unsaved

\* What a descriptor names, also after later runs: it is made when no log is left.
DescriptorSound ==
    manifest # <<>> =>
        /\ DOMAIN logs = {}
        /\ manifest[1].files \subseteq Readable(tables)
        /\ \A n \in manifest[1].files :
             n < manifest[1].next /\ \A w \in tables[n].has : w <= manifest[1].last
        /\ \A w \in original : Found(w, manifest[1].files) \/ w \in unsaved

RepairInv == RepairTypes /\ ListsTrue /\ ConvertedSaved /\ NothingLost /\ DescriptorSound

LEMMA RepairInitHolds == RepairInit => RepairInv
<1> SUFFICES ASSUME RepairInit PROVE RepairInv
  OBVIOUS
<1>1. PICK T \in SUBSET OldTables, L \in SUBSET OldLogs, bad \in SUBSET OldTables :
         \E place \in [Writes -> OldTables \cup OldLogs] :
             /\ tables = [n \in T |-> [has |-> {w \in Writes : place[w] = n}, good |-> n \notin bad]]
             /\ logs = [n \in L |-> {w \in Writes : place[w] = n}]
             /\ \A n \in T : tables[n].has # {}
  BY DEF RepairInit
<1>2. /\ original = In(Restrict(tables, Readable(tables))) \cup UNION {logs[n] : n \in DOMAIN logs}
      /\ manifest = <<>> /\ unsaved = {} /\ repairer = NoRepairer
  BY DEF RepairInit
<1>3. RepairTypes
  <2>1. IsFiniteSet(T) /\ IsFiniteSet(L) /\ T \subseteq Nat /\ L \subseteq Nat \ {0}
    BY RepairAssumption, FS_Subset
  <2>2. PICK place \in [Writes -> OldTables \cup OldLogs] :
             /\ tables = [n \in T |-> [has |-> {w \in Writes : place[w] = n}, good |-> n \notin bad]]
             /\ logs = [n \in L |-> {w \in Writes : place[w] = n}]
    BY <1>1
  <2>3. DOMAIN tables = T /\ DOMAIN logs = L /\ tables \in [T -> [has : SUBSET Writes, good : BOOLEAN]]
    BY <2>2
  <2>4. repairer \in [at : {"none", "logs", "tables", "install"}, next : Nat, logs : SUBSET Nat,
                      converted : Nat, tables : SUBSET Nat, kept : SUBSET Nat]
    BY <1>2 DEF NoRepairer
  <2>5. logs \in [L -> SUBSET Writes]
    BY <2>2
  <2> QED
    BY <2>1, <2>3, <2>4, <2>5 DEF RepairTypes
<1>4. ListsTrue /\ ConvertedSaved /\ DescriptorSound
  BY <1>2 DEF NoRepairer, ListsTrue, ConvertedSaved, DescriptorSound
<1>5. NothingLost
  BY <1>2 DEF NothingLost, Found, In, Restrict, Readable
<1> QED
  BY <1>3, <1>4, <1>5 DEF RepairInv

\* The property, from the invariant.
LEMMA RepairFollows == RepairInv => RepairKeeps
<1> SUFFICES ASSUME RepairInv PROVE RepairKeeps
  OBVIOUS
<1>1. RepairTypes /\ NothingLost /\ DescriptorSound
  BY DEF RepairInv
<1> DEFINE InTables == In(Restrict(tables, Readable(tables)))
           InLogs == UNION {logs[n] : n \in DOMAIN logs}
<1>2. original \subseteq InTables \cup unsaved \cup InLogs
  <2>1. \A w : Found(w, DOMAIN tables) => w \in InTables
    BY DEF Found, In, Restrict, Readable
  <2>2. \A w : (\E l \in DOMAIN logs : w \in logs[l]) => w \in InLogs
    OBVIOUS
  <2> HIDE DEF InTables, InLogs
  <2> QED
    BY <1>1, <2>1, <2>2 DEF NothingLost
<1>3. ASSUME manifest # <<>>
      PROVE  LET d == manifest[1] IN
             /\ d.files \subseteq Readable(tables)
             /\ \A n \in d.files : n < d.next /\ \A w \in tables[n].has : w <= d.last
             /\ repairer.at = "none" =>
                  original \subseteq In(Restrict(tables, d.files)) \cup unsaved
                                     \cup UNION {logs[n] : n \in DOMAIN logs}
  <2>1. /\ manifest[1].files \subseteq Readable(tables)
        /\ \A n \in manifest[1].files :
             n < manifest[1].next /\ \A w \in tables[n].has : w <= manifest[1].last
        /\ \A w \in original : Found(w, manifest[1].files) \/ w \in unsaved
    BY <1>1, <1>3 DEF DescriptorSound
  <2> DEFINE Named == In(Restrict(tables, manifest[1].files))
  <2>2. \A w : Found(w, manifest[1].files) => w \in Named
    BY DEF Found, In, Restrict
  <2> HIDE DEF Named, InLogs
  <2>3. original \subseteq Named \cup unsaved \cup InLogs
    BY <2>1, <2>2
  <2> QED
    BY <2>1, <2>3, Zenon DEF Named, InLogs
<1> QED
  BY <1>2, <1>3, Zenon DEF RepairKeeps

\* Runs that leave the files and the descriptor alone, and move the Repairer.
LEMMA FilesStay ==
    ASSUME RepairInv, UNCHANGED <<tables, logs, manifest, unsaved, original>>,
           repairer' \in [at : {"none", "logs", "tables", "install"}, next : Nat, logs : SUBSET Nat,
                          converted : Nat, tables : SUBSET Nat, kept : SUBSET Nat],
           ListsTrue', repairer'.converted = 0
    PROVE  RepairInv'
<1>1. RepairTypes /\ NothingLost /\ DescriptorSound
  BY DEF RepairInv
<1>2. RepairTypes'
  BY <1>1 DEF RepairTypes
<1>3. NothingLost' /\ DescriptorSound'
  BY <1>1 DEF NothingLost, DescriptorSound, Found, Readable
<1>4. ConvertedSaved'
  BY DEF ConvertedSaved
<1> QED
  BY <1>2, <1>3, <1>4 DEF RepairInv

LEMMA FindFilesKeeps == RepairInv /\ FindFiles => RepairInv'
<1> SUFFICES ASSUME RepairInv, FindFiles PROVE RepairInv'
  OBVIOUS
<1>1. RepairTypes
  BY DEF RepairInv
<1>2. /\ UNCHANGED <<tables, logs, manifest, unsaved, original>>
      /\ repairer' = [at |-> "logs", next |-> LastOf(DOMAIN tables \cup DOMAIN logs) + 1, logs |-> DOMAIN logs,
                      converted |-> 0, tables |-> DOMAIN tables, kept |-> {}]
  BY DEF FindFiles, NoRepairer
<1>3. /\ LastOf(DOMAIN tables \cup DOMAIN logs) \in Nat
      /\ \A n \in DOMAIN tables \cup DOMAIN logs : n <= LastOf(DOMAIN tables \cup DOMAIN logs)
  <2>1. DOMAIN tables \cup DOMAIN logs \in SUBSET Nat /\ IsFiniteSet(DOMAIN tables \cup DOMAIN logs)
    BY <1>1, FS_Union DEF RepairTypes
  <2> QED
    BY <2>1, LastAbove
<1>4. \A n \in DOMAIN tables \cup DOMAIN logs : n < LastOf(DOMAIN tables \cup DOMAIN logs) + 1
  <2> DEFINE top == LastOf(DOMAIN tables \cup DOMAIN logs)
  <2>1. DOMAIN tables \cup DOMAIN logs \subseteq Nat
    BY <1>1 DEF RepairTypes
  <2>2. top \in Nat /\ \A n \in DOMAIN tables \cup DOMAIN logs : n \in Nat /\ n <= top
    BY <1>3, <2>1
  <2> HIDE DEF top
  <2>3. \A n \in DOMAIN tables \cup DOMAIN logs : n < top + 1
    BY <2>2
  <2> QED
    BY <2>3 DEF top
<1>5. ListsTrue'
  BY <1>2, <1>4 DEF ListsTrue
<1>6. repairer' \in [at : {"none", "logs", "tables", "install"}, next : Nat, logs : SUBSET Nat,
                     converted : Nat, tables : SUBSET Nat, kept : SUBSET Nat]
  <2>1. DOMAIN tables \in SUBSET Nat /\ DOMAIN logs \in SUBSET Nat
    BY <1>1 DEF RepairTypes
  <2>2. LastOf(DOMAIN tables \cup DOMAIN logs) + 1 \in Nat
    BY <1>3
  <2> QED
    BY <1>2, <2>1, <2>2
<1> QED
  BY <1>2, <1>5, <1>6, FilesStay

\* The table that a log was converted to, or a part of one: a new number, so no file is written over.
LEMMA TableMade ==
    ASSUME RepairInv, repairer.at = "logs", NEW entry \in [has : SUBSET Writes, good : BOOLEAN],
           tables' = [n \in DOMAIN tables \cup {repairer.next} |->
                        IF n = repairer.next THEN entry ELSE tables[n]]
    PROVE  /\ repairer.next \in Nat \ DOMAIN tables
           /\ DOMAIN tables' = DOMAIN tables \cup {repairer.next} /\ tables'[repairer.next] = entry
           /\ \A n \in DOMAIN tables : tables'[n] = tables[n]
           /\ IsFiniteSet(DOMAIN tables') /\ DOMAIN tables' \subseteq Nat
           /\ tables' \in [DOMAIN tables' -> [has : SUBSET Writes, good : BOOLEAN]]
<1>1. RepairTypes /\ ListsTrue
  BY DEF RepairInv
<1>2. repairer.next \in Nat /\ \A n \in DOMAIN tables : n \in Nat /\ n < repairer.next
  BY <1>1 DEF RepairTypes, ListsTrue
<1>3. repairer.next \notin DOMAIN tables
  BY <1>2
<1>4. /\ DOMAIN tables' = DOMAIN tables \cup {repairer.next} /\ tables'[repairer.next] = entry
      /\ \A n \in DOMAIN tables : tables'[n] = tables[n]
  BY <1>3
<1>5. tables' \in [DOMAIN tables' -> [has : SUBSET Writes, good : BOOLEAN]]
  BY <1>1, <1>4 DEF RepairTypes
<1>6. IsFiniteSet(DOMAIN tables') /\ DOMAIN tables' \subseteq Nat
  BY <1>1, <1>2, <1>4, FS_AddElement DEF RepairTypes
<1> QED
  BY <1>2, <1>3, <1>4, <1>5, <1>6

LEMMA ConvertLogKeeps ==
    ASSUME RepairInv, NEW l \in repairer.logs, ConvertLog(l)
    PROVE  RepairInv'
<1>1. RepairTypes /\ ListsTrue /\ NothingLost /\ DescriptorSound
  BY DEF RepairInv
<1>2. repairer.at = "logs" /\ repairer.converted = 0 /\ UNCHANGED <<logs, manifest, original>>
  BY DEF ConvertLog
<1>3. l \in DOMAIN logs /\ l \in Nat \ {0} /\ manifest = <<>> /\ repairer.next \in Nat
  BY <1>1, <1>2 DEF ListsTrue, DescriptorSound, RepairTypes
<1>4. \A n \in DOMAIN tables \cup DOMAIN logs : n \in Nat /\ n < repairer.next
  BY <1>1, <1>2 DEF ListsTrue, RepairTypes
<1>5. PICK built \in BOOLEAN :
        /\ tables' = IF built /\ logs[l] # {} THEN [n \in DOMAIN tables \cup {repairer.next} |->
                                                      IF n = repairer.next THEN [has |-> logs[l], good |-> TRUE]
                                                                           ELSE tables[n]]
                                              ELSE tables
        /\ repairer' = [repairer EXCEPT !.next = @ + 1, !.converted = l,
                          !.tables = IF built /\ logs[l] # {} THEN @ \cup {repairer.next} ELSE @]
        /\ unsaved' = IF built THEN unsaved ELSE unsaved \cup logs[l]
  BY Zenon DEF ConvertLog
<1>6. /\ repairer'.at = "logs" /\ repairer'.next = repairer.next + 1 /\ repairer'.converted = l
      /\ repairer'.logs = DOMAIN logs /\ repairer'.kept = {}
  BY <1>1, <1>2, <1>5 DEF RepairTypes, ListsTrue
<1>7. ASSUME DOMAIN tables' \subseteq DOMAIN tables \cup {repairer.next}, IsFiniteSet(DOMAIN tables'),
             tables' \in [DOMAIN tables' -> [has : SUBSET Writes, good : BOOLEAN]],
             DOMAIN tables \subseteq DOMAIN tables', \A n \in DOMAIN tables : tables'[n] = tables[n],
             repairer'.tables = DOMAIN tables', \A w \in logs[l] : Found(w, DOMAIN tables)' \/ w \in unsaved'
      PROVE  RepairInv'
  <2>1. unsaved \subseteq unsaved'
    BY <1>5
  <2>2. \A n \in DOMAIN tables' \cup DOMAIN logs : n \in Nat /\ n < repairer'.next
    BY <1>3, <1>4, <1>6, <1>7
  <2>3. RepairTypes'
    <3>1. repairer' \in [at : {"none", "logs", "tables", "install"}, next : Nat, logs : SUBSET Nat,
                         converted : Nat, tables : SUBSET Nat, kept : SUBSET Nat]
      <4>1. DOMAIN tables' \in SUBSET Nat /\ repairer.next + 1 \in Nat
        BY <1>3, <2>2
      <4>2. repairer' = [at |-> "logs", next |-> repairer.next + 1, logs |-> DOMAIN logs, converted |-> l,
                         tables |-> DOMAIN tables', kept |-> {}]
        BY <1>1, <1>5, <1>6, <1>7 DEF RepairTypes
      <4>3. DOMAIN logs \in SUBSET Nat /\ l \in Nat
        BY <1>1, <1>3 DEF RepairTypes
      <4> QED
        BY <4>1, <4>2, <4>3
    <3> QED
      BY <1>1, <1>2, <1>7, <2>2, <3>1 DEF RepairTypes
  <2>4. ListsTrue'
    BY <1>2, <1>6, <1>7, <2>2 DEF ListsTrue
  <2>5. ConvertedSaved'
    BY <1>2, <1>3, <1>6, <1>7 DEF ConvertedSaved
  <2>6. NothingLost'
    BY <1>1, <1>2, <1>7, <2>1 DEF NothingLost, Found
  <2>7. DescriptorSound'
    BY <1>2, <1>3 DEF DescriptorSound
  <2> QED
    BY <2>3, <2>4, <2>5, <2>6, <2>7 DEF RepairInv
<1>8. CASE built /\ logs[l] # {}
  <2> DEFINE entry == [has |-> logs[l], good |-> TRUE]
  <2>1. entry \in [has : SUBSET Writes, good : BOOLEAN]
    BY <1>1, <1>3 DEF RepairTypes
  <2>2. /\ DOMAIN tables' = DOMAIN tables \cup {repairer.next} /\ tables'[repairer.next] = entry
        /\ \A n \in DOMAIN tables : tables'[n] = tables[n]
        /\ IsFiniteSet(DOMAIN tables') /\ tables' \in [DOMAIN tables' -> [has : SUBSET Writes, good : BOOLEAN]]
    BY <1>2, <1>5, <1>8, <2>1, TableMade
  <2>3. repairer'.tables = DOMAIN tables'
    BY <1>1, <1>2, <1>5, <1>8, <2>2 DEF RepairTypes, ListsTrue
  <2>4. \A w \in logs[l] : Found(w, DOMAIN tables)'
    BY <2>2 DEF Found
  <2> QED
    BY <1>7, <2>2, <2>3, <2>4
<1>9. CASE ~(built /\ logs[l] # {})
  <2>1. tables' = tables /\ \A w \in logs[l] : w \in unsaved'
    BY <1>5, <1>9
  <2>2. repairer'.tables = DOMAIN tables'
    BY <1>1, <1>2, <1>5, <1>9, <2>1 DEF RepairTypes, ListsTrue
  <2> QED
    BY <1>1, <1>7, <2>1, <2>2 DEF RepairTypes
<1> QED
  BY <1>8, <1>9

LEMMA ArchiveLogKeeps == RepairInv /\ ArchiveLog => RepairInv'
<1> SUFFICES ASSUME RepairInv, ArchiveLog PROVE RepairInv'
  OBVIOUS
<1>1. RepairTypes /\ ListsTrue /\ ConvertedSaved /\ NothingLost /\ DescriptorSound
  BY DEF RepairInv
<1> DEFINE l == repairer.converted
<1>2. /\ l # 0 /\ repairer.at = "logs" /\ l \in DOMAIN logs
      /\ \A w \in logs[l] : Found(w, DOMAIN tables) \/ w \in unsaved
  BY <1>1 DEF ArchiveLog, ConvertedSaved
<1>3. /\ UNCHANGED <<tables, manifest, unsaved, original>>
      /\ repairer' = [repairer EXCEPT !.logs = @ \ {l}, !.converted = 0]
      /\ DOMAIN logs' = DOMAIN logs \ {l} /\ \A n \in DOMAIN logs' : logs'[n] = logs[n]
      /\ logs' \in [DOMAIN logs' -> SUBSET Writes]
  BY <1>1 DEF ArchiveLog, Restrict, RepairTypes
<1>4. manifest = <<>>
  BY <1>1, <1>2 DEF DescriptorSound
<1> HIDE DEF l
<1>5. repairer' = [at |-> "logs", next |-> repairer.next, logs |-> DOMAIN logs', converted |-> 0,
                   tables |-> DOMAIN tables, kept |-> {}]
  BY <1>1, <1>2, <1>3 DEF RepairTypes, ListsTrue
<1>6. IsFiniteSet(DOMAIN logs') /\ DOMAIN logs' \subseteq Nat \ {0} /\ DOMAIN logs' \subseteq DOMAIN logs
  BY <1>1, <1>3, FS_RemoveElement DEF RepairTypes
<1>7. RepairTypes'
  <2>1. DOMAIN tables \in SUBSET Nat /\ DOMAIN logs' \in SUBSET Nat /\ repairer.next \in Nat
    BY <1>1, <1>6 DEF RepairTypes
  <2>2. repairer' \in [at : {"none", "logs", "tables", "install"}, next : Nat, logs : SUBSET Nat,
                       converted : Nat, tables : SUBSET Nat, kept : SUBSET Nat]
    BY <1>5, <2>1
  <2> QED
    BY <1>1, <1>3, <1>6, <2>2 DEF RepairTypes
<1>8. ListsTrue' /\ ConvertedSaved'
  <2>1. \A n \in DOMAIN tables \cup DOMAIN logs' : n < repairer.next
    BY <1>1, <1>2, <1>6 DEF ListsTrue
  <2>2. /\ repairer'.at = "logs" /\ repairer'.next = repairer.next /\ repairer'.logs = DOMAIN logs'
        /\ repairer'.converted = 0 /\ repairer'.tables = DOMAIN tables /\ repairer'.kept = {}
    BY <1>5
  <2>3. ListsTrue'
    BY <1>3, <2>1, <2>2 DEF ListsTrue
  <2>4. ConvertedSaved'
    BY <2>2 DEF ConvertedSaved
  <2> QED
    BY <2>3, <2>4
<1>9. NothingLost'
  <2> SUFFICES ASSUME NEW w \in original, ~Found(w, DOMAIN tables), w \notin unsaved
               PROVE  \E n \in DOMAIN logs' : w \in logs'[n]
    BY <1>3 DEF NothingLost, Found
  <2>1. PICK n \in DOMAIN logs : w \in logs[n]
    BY <1>1 DEF NothingLost
  <2>2. n # l
    BY <1>2, <2>1
  <2> QED
    BY <1>3, <2>1, <2>2
<1>10. DescriptorSound'
  BY <1>3, <1>4 DEF DescriptorSound
<1> QED
  BY <1>7, <1>8, <1>9, <1>10 DEF RepairInv

LEMMA LogsDoneKeeps == RepairInv /\ LogsDone => RepairInv'
<1> SUFFICES ASSUME RepairInv, LogsDone PROVE RepairInv'
  OBVIOUS
<1>1. RepairTypes /\ ListsTrue /\ ConvertedSaved
  BY DEF RepairInv
<1>2. /\ repairer.at = "logs" /\ repairer.logs = {} /\ repairer' = [repairer EXCEPT !.at = "tables"]
      /\ UNCHANGED <<tables, logs, manifest, unsaved, original>>
  BY DEF LogsDone
<1>3. repairer.converted = 0 /\ DOMAIN logs = {}
  BY <1>1, <1>2 DEF ListsTrue, ConvertedSaved
<1>4. repairer' = [at |-> "tables", next |-> repairer.next, logs |-> {}, converted |-> 0,
                   tables |-> DOMAIN tables, kept |-> {}]
  BY <1>1, <1>2, <1>3 DEF RepairTypes, ListsTrue
<1>5. ListsTrue'
  BY <1>1, <1>2, <1>3, <1>4 DEF ListsTrue, Readable
<1>6. repairer' \in [at : {"none", "logs", "tables", "install"}, next : Nat, logs : SUBSET Nat,
                     converted : Nat, tables : SUBSET Nat, kept : SUBSET Nat]
  <2>1. DOMAIN tables \in SUBSET Nat /\ repairer.next \in Nat
    BY <1>1 DEF RepairTypes
  <2> QED
    BY <1>4, <2>1
<1>7. repairer'.converted = 0
  BY <1>4
<1> QED
  BY <1>2, <1>5, <1>6, <1>7, FilesStay

LEMMA ScanTableKeeps ==
    ASSUME RepairInv, NEW n \in repairer.tables, ScanTable(n)
    PROVE  RepairInv'
<1>1. RepairTypes /\ ListsTrue /\ ConvertedSaved /\ NothingLost /\ DescriptorSound
  BY DEF RepairInv
<1>2. repairer.at = "tables" /\ UNCHANGED <<logs, manifest, unsaved, original>>
  BY DEF ScanTable
<1>3. n \in DOMAIN tables /\ repairer.converted = 0 /\ tables[n].good \in BOOLEAN
  BY <1>1, <1>2 DEF ListsTrue, ConvertedSaved, RepairTypes
<1>4. repairer' = [at |-> "tables", next |-> repairer.next, logs |-> repairer.logs, converted |-> 0,
                   tables |-> repairer.tables \ {n},
                   kept |-> IF tables[n].good THEN repairer.kept \cup {n} ELSE repairer.kept]
  BY <1>1, <1>2, <1>3 DEF ScanTable, RepairTypes
<1>5. repairer' \in [at : {"none", "logs", "tables", "install"}, next : Nat, logs : SUBSET Nat,
                     converted : Nat, tables : SUBSET Nat, kept : SUBSET Nat]
  <2>1. /\ repairer.tables \in SUBSET Nat /\ repairer.next \in Nat /\ repairer.kept \in SUBSET Nat
        /\ repairer.logs \in SUBSET Nat /\ n \in Nat
    BY <1>1 DEF RepairTypes
  <2> QED
    BY <1>4, <2>1
<1>6. /\ DOMAIN logs = {} /\ repairer.kept \subseteq Readable(tables)
      /\ Readable(tables) \subseteq repairer.kept \cup repairer.tables /\ repairer.tables \subseteq DOMAIN tables
      /\ \A k \in DOMAIN tables : k < repairer.next
  BY <1>1, <1>2 DEF ListsTrue
<1>7. CASE tables[n].good
  <2>1. UNCHANGED tables
    BY <1>7 DEF ScanTable
  <2>2. Readable(tables') = Readable(tables) /\ n \in Readable(tables)
    BY <1>3, <1>7, <2>1 DEF Readable
  <2>3. ListsTrue'
    BY <1>2, <1>4, <1>6, <1>7, <2>1, <2>2 DEF ListsTrue
  <2>4. repairer'.converted = 0
    BY <1>4
  <2> QED
    BY <1>2, <1>5, <2>1, <2>3, <2>4, FilesStay
<1>8. CASE ~tables[n].good
  <2>1. /\ DOMAIN tables' = DOMAIN tables \ {n} /\ \A k \in DOMAIN tables' : tables'[k] = tables[k]
        /\ tables' \in [DOMAIN tables' -> [has : SUBSET Writes, good : BOOLEAN]]
    BY <1>1, <1>8 DEF ScanTable, Restrict, RepairTypes
  <2>2. Readable(tables') = Readable(tables) /\ n \notin Readable(tables)
    BY <1>8, <2>1 DEF Readable
  <2>3. IsFiniteSet(DOMAIN tables') /\ DOMAIN tables' \subseteq Nat
    BY <1>1, <2>1, FS_RemoveElement DEF RepairTypes
  <2>4. RepairTypes'
    BY <1>1, <1>2, <1>5, <2>1, <2>3 DEF RepairTypes
  <2>5. ListsTrue'
    BY <1>2, <1>4, <1>6, <1>8, <2>1, <2>2 DEF ListsTrue
  <2>6. ConvertedSaved'
    BY <1>4 DEF ConvertedSaved
  <2>7. \A w, S : Found(w, S) => Found(w, S)'
    BY <1>8, <2>1 DEF Found
  <2>8. \A w : Found(w, DOMAIN tables) => \E k \in DOMAIN tables' : tables'[k].good /\ w \in tables'[k].has
    BY <1>8, <2>1 DEF Found
  <2>9. NothingLost'
    BY <1>1, <1>2, <2>8 DEF NothingLost, Found
  <2>10. DescriptorSound'
    <3> SUFFICES ASSUME manifest # <<>> PROVE DescriptorSound'
      BY <1>2 DEF DescriptorSound
    <3>1. manifest[1].files \subseteq Readable(tables) /\ \A k \in manifest[1].files : tables'[k] = tables[k]
      BY <1>1, <2>1, <2>2 DEF DescriptorSound, Readable
    <3>2. \A w \in original : Found(w, manifest[1].files)' \/ w \in unsaved
      <4>1. \A w \in original : Found(w, manifest[1].files) \/ w \in unsaved
        BY <1>1 DEF DescriptorSound
      <4> QED
        BY <1>2, <1>8, <2>1, <4>1 DEF Found
    <3>3. \A k \in manifest[1].files : k < manifest[1].next /\ \A w \in tables'[k].has : w <= manifest[1].last
      BY <1>1, <3>1 DEF DescriptorSound
    <3> QED
      BY <1>2, <1>6, <2>2, <3>1, <3>2, <3>3 DEF DescriptorSound
  <2> QED
    BY <2>4, <2>5, <2>6, <2>9, <2>10 DEF RepairInv
<1> QED
  BY <1>3, <1>7, <1>8

LEMMA WriteDescriptorKeeps == RepairInv /\ WriteDescriptor => RepairInv'
<1> SUFFICES ASSUME RepairInv, WriteDescriptor PROVE RepairInv'
  OBVIOUS
<1>1. RepairTypes /\ ListsTrue /\ ConvertedSaved /\ NothingLost
  BY DEF RepairInv
<1>2. repairer.at = "tables" /\ repairer.tables = {} /\ UNCHANGED <<tables, logs, unsaved, original>>
  BY DEF WriteDescriptor
<1>3. CASE repairer' = NoRepairer /\ UNCHANGED manifest
  <2>1. /\ repairer' \in [at : {"none", "logs", "tables", "install"}, next : Nat, logs : SUBSET Nat,
                          converted : Nat, tables : SUBSET Nat, kept : SUBSET Nat]
        /\ repairer'.converted = 0 /\ repairer'.at = "none"
    BY <1>3 DEF NoRepairer
  <2>2. ListsTrue'
    BY <2>1 DEF ListsTrue
  <2> QED
    BY <1>2, <1>3, <2>1, <2>2, FilesStay
<1>4. CASE repairer' = [repairer EXCEPT !.at = "install"] /\ manifest' = <<>>
  <2>1. /\ repairer' \in [at : {"none", "logs", "tables", "install"}, next : Nat, logs : SUBSET Nat,
                          converted : Nat, tables : SUBSET Nat, kept : SUBSET Nat]
        /\ repairer'.converted = repairer.converted /\ repairer'.at = "install"
        /\ repairer'.kept = repairer.kept /\ repairer'.next = repairer.next
    BY <1>1, <1>4 DEF RepairTypes
  <2>2. repairer.converted = 0
    BY <1>1, <1>2 DEF ConvertedSaved
  <2>3. repairer.kept = Readable(tables) /\ DOMAIN logs = {} /\ \A n \in DOMAIN tables \cup DOMAIN logs : n < repairer.next
    BY <1>1, <1>2 DEF ListsTrue
  <2>4. RepairTypes'
    BY <1>1, <1>2, <2>1 DEF RepairTypes
  <2>5. ListsTrue'
    BY <1>2, <1>4, <2>1, <2>3 DEF ListsTrue
  <2>6. NothingLost'
    BY <1>1, <1>2 DEF NothingLost, Found
  <2>7. ConvertedSaved' /\ DescriptorSound'
    BY <1>4, <2>1, <2>2 DEF ConvertedSaved, DescriptorSound
  <2> QED
    BY <2>4, <2>5, <2>6, <2>7 DEF RepairInv
<1> QED
  BY <1>3, <1>4, Zenon DEF WriteDescriptor

LEMMA InstallDescriptorKeeps == RepairInv /\ InstallDescriptor => RepairInv'
<1> SUFFICES ASSUME RepairInv, InstallDescriptor PROVE RepairInv'
  OBVIOUS
<1>1. RepairTypes /\ ListsTrue /\ NothingLost
  BY DEF RepairInv
<1> DEFINE held == In(Restrict(tables, repairer.kept))
<1>2. /\ repairer.at = "install" /\ repairer' = NoRepairer /\ UNCHANGED <<tables, logs, unsaved, original>>
      /\ manifest' = <<[files |-> repairer.kept, next |-> repairer.next, last |-> LastOf(held)]>>
  BY DEF InstallDescriptor
<1>3. repairer.kept = Readable(tables) /\ DOMAIN logs = {} /\ \A n \in DOMAIN tables : n < repairer.next
  BY <1>1, <1>2 DEF ListsTrue
<1>4. \A n \in repairer.kept : n \in DOMAIN tables /\ tables[n].good /\ tables[n].has \subseteq held
  BY <1>3 DEF Readable, In, Restrict
<1>5. held \in SUBSET Nat /\ IsFiniteSet(held)
  <2>1. held \subseteq Writes
    <3>1. \A w \in held : \E n \in repairer.kept : w \in tables[n].has
      BY DEF In, Restrict
    <3>2. \A n \in repairer.kept : tables[n].has \subseteq Writes
      BY <1>1, <1>4 DEF RepairTypes
    <3> QED
      BY <3>1, <3>2
  <2> HIDE DEF held
  <2> QED
    BY <2>1, RepairAssumption, FS_Subset
<1> HIDE DEF held
<1>6. \A w \in held : w <= LastOf(held)
  BY <1>5, LastAbove
<1>7. /\ manifest'[1].files = repairer.kept /\ manifest'[1].next = repairer.next
      /\ manifest'[1].last = LastOf(held)
  BY <1>2
<1>8. DescriptorSound'
  <2>1. \A n \in repairer.kept : n < repairer.next /\ \A w \in tables[n].has : w <= LastOf(held)
    BY <1>3, <1>4, <1>6
  <2>2. \A w \in original : Found(w, repairer.kept) \/ w \in unsaved
    BY <1>1, <1>3 DEF NothingLost, Found, Readable
  <2>3. \A w : Found(w, repairer.kept) => (\E n \in manifest'[1].files :
                                             n \in DOMAIN tables' /\ tables'[n].good /\ w \in tables'[n].has)
    BY <1>2, <1>7 DEF Found
  <2>4. \A w \in original' : Found(w, manifest[1].files)' \/ w \in unsaved'
    BY <1>2, <2>2, <2>3 DEF Found
  <2>5. manifest'[1].files \subseteq Readable(tables)'
    BY <1>2, <1>3, <1>7 DEF Readable
  <2> QED
    BY <1>2, <1>3, <1>7, <2>1, <2>4, <2>5 DEF DescriptorSound
<1>9. RepairTypes' /\ ListsTrue' /\ ConvertedSaved'
  <2>1. /\ repairer' \in [at : {"none", "logs", "tables", "install"}, next : Nat, logs : SUBSET Nat,
                          converted : Nat, tables : SUBSET Nat, kept : SUBSET Nat]
        /\ repairer'.converted = 0 /\ repairer'.at = "none"
    BY <1>2 DEF NoRepairer
  <2>2. RepairTypes'
    BY <1>1, <1>2, <2>1 DEF RepairTypes
  <2> QED
    BY <2>1, <2>2 DEF ListsTrue, ConvertedSaved
<1>10. NothingLost'
  BY <1>1, <1>2 DEF NothingLost, Found
<1> QED
  BY <1>8, <1>9, <1>10 DEF RepairInv

LEMMA StopRepairKeeps == RepairInv /\ StopRepair => RepairInv'
<1> SUFFICES ASSUME RepairInv, StopRepair PROVE RepairInv'
  OBVIOUS
<1>1. RepairTypes /\ ListsTrue /\ NothingLost /\ DescriptorSound
  BY DEF RepairInv
<1>2. /\ repairer' \in [at : {"none", "logs", "tables", "install"}, next : Nat, logs : SUBSET Nat,
                        converted : Nat, tables : SUBSET Nat, kept : SUBSET Nat]
      /\ repairer'.converted = 0 /\ repairer'.at = "none" /\ UNCHANGED <<logs, manifest, unsaved, original>>
  BY DEF StopRepair, NoRepairer
<1>3. ListsTrue' /\ ConvertedSaved'
  BY <1>2 DEF ListsTrue, ConvertedSaved
<1>4. CASE UNCHANGED tables
  BY <1>2, <1>3, <1>4, FilesStay
<1>5. CASE ~UNCHANGED tables
  <2> DEFINE part == [has |-> {}, good |-> FALSE]
  <2>1. /\ repairer.at = "logs" /\ repairer.logs # {}
        /\ tables' = [n \in DOMAIN tables \cup {repairer.next} |-> IF n = repairer.next THEN part ELSE tables[n]]
    BY <1>5 DEF StopRepair
  <2>2. part \in [has : SUBSET Writes, good : BOOLEAN]
    OBVIOUS
  <2>3. /\ DOMAIN tables' = DOMAIN tables \cup {repairer.next} /\ \A n \in DOMAIN tables : tables'[n] = tables[n]
        /\ IsFiniteSet(DOMAIN tables') /\ DOMAIN tables' \subseteq Nat
        /\ tables' \in [DOMAIN tables' -> [has : SUBSET Writes, good : BOOLEAN]]
    BY <2>1, <2>2, TableMade
  <2>4. manifest = <<>>
    BY <1>1, <2>1 DEF ListsTrue, DescriptorSound
  <2>5. RepairTypes'
    BY <1>1, <1>2, <2>3 DEF RepairTypes
  <2>6. NothingLost'
    BY <1>1, <1>2, <2>3 DEF NothingLost, Found
  <2>7. DescriptorSound'
    BY <1>2, <2>4 DEF DescriptorSound
  <2> QED
    BY <1>3, <2>5, <2>6, <2>7 DEF RepairInv
<1> QED
  BY <1>4, <1>5

\* For any files found, however they are damaged, and however often RepairDB fails or is stopped and
\* run again: nothing that could be read is lost, and a descriptor that is made names tables that
\* can be read, with numbers above all of theirs.
THEOREM RepairLosesNothing == RepairSpec => []RepairKeeps
<1>1. RepairInv /\ [RepairNext]_repairVars => RepairInv'
  <2> SUFFICES ASSUME RepairInv, [RepairNext]_repairVars PROVE RepairInv'
    OBVIOUS
  <2>1. CASE UNCHANGED repairVars
    BY <2>1 DEF repairVars, RepairInv, RepairTypes, ListsTrue, ConvertedSaved, NothingLost, DescriptorSound,
                Found, Readable
  <2>2. CASE FindFiles \/ ArchiveLog \/ LogsDone
    BY <2>2, FindFilesKeeps, ArchiveLogKeeps, LogsDoneKeeps
  <2>3. CASE WriteDescriptor \/ InstallDescriptor \/ StopRepair
    BY <2>3, WriteDescriptorKeeps, InstallDescriptorKeeps, StopRepairKeeps
  <2>4. CASE \E l \in repairer.logs : ConvertLog(l)
    BY <2>4, ConvertLogKeeps
  <2>5. CASE \E n \in repairer.tables : ScanTable(n)
    BY <2>5, ScanTableKeeps
  <2> QED
    BY <2>1, <2>2, <2>3, <2>4, <2>5 DEF RepairNext
<1> QED
  BY <1>1, RepairInitHolds, RepairFollows, PTL DEF RepairSpec

----------------------------------------------------------------------------
(* The file written through a moving window.                               *)

MmTypes ==
    /\ mmapped \in BOOLEAN /\ pendingSync \in BOOLEAN /\ mmCall \in {"none", "append", "closed"}
    /\ mmLimit \in Nat /\ mmDst \in Nat /\ mmLastSync \in Nat /\ mmOffset \in Nat /\ mmLeft \in Nat
    /\ mapSize \in Nat \ {0} /\ written \in 0 .. MaxWritten /\ syncedTo \in 0 .. written
    /\ DOMAIN durable = 1 .. MaxWritten
    /\ mmCall = "append" => written + mmLeft <= MaxWritten

\* Up to what was copied, the file has the bytes appended, and zeros from there on.
CachedExact(n) ==
    /\ cached = [p \in 1 .. n |-> cached[p]] /\ Len(cached) = n
    /\ \A p \in 1 .. n : cached[p] = IF p <= written THEN p ELSE 0

\* The window ends where the file does and what was copied ends in it; a file without one is empty.
WindowInv ==
    mmCall # "closed" =>
        /\ mmLastSync <= mmDst /\ mmDst <= mmLimit /\ mmOffset + mmDst = written
        /\ ~mmapped => mmLimit = 0 /\ mmOffset = 0
        /\ CachedExact(mmOffset + mmLimit)

\* What is not on the disk yet is in the window behind the last byte synced, or announced by pending_sync_.
DurableInv ==
    /\ \A k \in 1 .. syncedTo : durable[k] = k
    /\ mmCall # "closed" /\ ~pendingSync => \A k \in 1 .. mmOffset + mmLastSync : durable[k] = k

ClosedInv == mmCall = "closed" => CachedExact(written)

MmInv == mmFine => MmTypes /\ WindowInv /\ DurableInv /\ ClosedInv

LEMMA ClosedIsWritten ==
    ASSUME MmTypes, CachedExact(written)
    PROVE  cached = [k \in 1 .. written |-> k]
<1>1. \A p \in 1 .. written : p <= written
  BY DEF MmTypes
<1> QED
  BY <1>1 DEF CachedExact

LEMMA MmAppendKeeps ==
    ASSUME mmFine, MmInv, NEW n \in AppendSizes, AppendData(n)
    PROVE  MmInv'
<1>1. MmTypes /\ WindowInv /\ DurableInv /\ ClosedInv
  BY DEF MmInv
<1>2. /\ mmCall = "none" /\ mmCall' = "append" /\ mmLeft' = n /\ written + n <= MaxWritten /\ n \in Nat
      /\ UNCHANGED <<mmapped, mmLimit, mmDst, mmLastSync, mmOffset, mapSize, pendingSync,
                     cached, durable, written, syncedTo, mmFine>>
  BY PosixEnvAssumption DEF AppendData
<1>3. MmTypes'
  BY <1>1, <1>2 DEF MmTypes
<1>4. WindowInv' /\ DurableInv' /\ ClosedInv'
  BY <1>1, <1>2 DEF WindowInv, DurableInv, ClosedInv, CachedExact
<1> QED
  BY <1>3, <1>4 DEF MmInv

LEMMA MmCopyKeeps ==
    ASSUME mmFine, MmInv, CopyChunk
    PROVE  MmInv'
<1>1. MmTypes /\ WindowInv /\ DurableInv
  BY DEF MmInv
<1> DEFINE n == IF mmLeft <= mmLimit - mmDst THEN mmLeft ELSE mmLimit - mmDst
           at == mmOffset + mmDst
<1>2. /\ mmCall = "append" /\ mmDst < mmLimit
      /\ cached' = [p \in DOMAIN cached |-> IF p \in at + 1 .. at + n THEN written + (p - at) ELSE cached[p]]
      /\ mmDst' = mmDst + n /\ written' = written + n /\ mmLeft' = mmLeft - n
      /\ mmCall' = IF mmLeft = n THEN "none" ELSE "append"
      /\ UNCHANGED <<mmapped, mmLimit, mmLastSync, mmOffset, mapSize, pendingSync, durable, syncedTo, mmFine>>
  BY DEF CopyChunk
<1>3. /\ n \in Nat /\ n <= mmLeft /\ mmDst + n <= mmLimit /\ at = written /\ at \in Nat
      /\ mmLimit \in Nat /\ mmOffset \in Nat /\ written \in Nat
  BY <1>1, <1>2 DEF MmTypes, WindowInv
<1> HIDE DEF n, at
<1>4. MmTypes'
  <2>1. /\ mmLeft \in Nat /\ mmDst \in Nat /\ MaxWritten \in Nat /\ syncedTo \in 0 .. written
        /\ written + mmLeft <= MaxWritten
    BY <1>1, <1>2, PosixEnvAssumption DEF MmTypes
  <2>2. mmLeft' \in Nat /\ written' + mmLeft' <= MaxWritten /\ mmDst' \in Nat
    BY <1>2, <1>3, <2>1
  <2>3. written' \in 0 .. MaxWritten /\ syncedTo' \in 0 .. written'
    BY <1>2, <1>3, <2>1
  <2> QED
    BY <1>1, <1>2, <2>2, <2>3 DEF MmTypes
<1>5. CachedExact(mmOffset + mmLimit)'
  <2> DEFINE len == mmOffset + mmLimit
  <2>1. /\ cached = [p \in 1 .. len |-> cached[p]] /\ len \in Nat
        /\ \A p \in 1 .. len : cached[p] = IF p <= written THEN p ELSE 0
    BY <1>1, <1>2, <1>3 DEF WindowInv, CachedExact
  <2> HIDE DEF len
  <2>2. cached' = [p \in 1 .. len |-> IF p \in at + 1 .. at + n THEN written + (p - at) ELSE cached[p]]
    BY <1>2, <2>1
  <2>3. Len(cached') = len /\ cached' = [p \in 1 .. len |-> cached'[p]]
    BY <2>1, <2>2
  <2>4. \A p \in 1 .. len : cached'[p] = IF p <= written + n THEN p ELSE 0
    BY <1>3, <2>1, <2>2
  <2> QED
    BY <1>2, <2>3, <2>4 DEF CachedExact, len
<1>6. WindowInv'
  <2>1. mmLastSync <= mmDst /\ mmDst \in Nat /\ mmLastSync \in Nat /\ (~mmapped => mmLimit = 0 /\ mmOffset = 0)
    BY <1>1, <1>2 DEF WindowInv, MmTypes
  <2>2. mmLastSync <= mmDst' /\ mmDst' <= mmLimit /\ mmOffset + mmDst' = written'
    BY <1>2, <1>3, <2>1 DEF at
  <2> QED
    BY <1>2, <1>5, <2>1, <2>2 DEF WindowInv
<1>7. DurableInv' /\ ClosedInv'
  BY <1>1, <1>2 DEF DurableInv, ClosedInv
<1> QED
  BY <1>4, <1>6, <1>7 DEF MmInv

LEMMA MmMoveKeeps ==
    ASSUME mmFine, MmInv, MoveWindow
    PROVE  MmInv'
<1>1. MmTypes /\ WindowInv /\ DurableInv
  BY DEF MmInv
<1> SUFFICES ASSUME mmFine' PROVE MmInv'
  BY DEF MmInv
<1>2. /\ mmCall = "append" /\ mmDst = mmLimit /\ mmOffset' = mmOffset + mmLimit
      /\ pendingSync' = (pendingSync \/ (mmapped /\ mmLastSync < mmLimit))
      /\ mapSize' = NextMapSize /\ mmLastSync' = 0 /\ mmDst' = 0 /\ mmapped' = TRUE /\ mmLimit' = NextMapSize
      /\ cached' = Resized(cached, mmOffset' + NextMapSize)
      /\ UNCHANGED <<mmLeft, mmCall, durable, written, syncedTo>>
  BY DEF MoveWindow, PendingAfterUnmap
<1>3. NextMapSize \in Nat \ {0}
  BY <1>1 DEF NextMapSize, MmTypes
<1>4. mmOffset + mmLimit = written /\ written \in Nat /\ mmOffset' = written
  BY <1>1, <1>2 DEF WindowInv, MmTypes
<1>5. MmTypes'
  BY <1>1, <1>2, <1>3, <1>4 DEF MmTypes
<1>6. CachedExact(mmOffset + mmLimit)'
  <2> DEFINE len == written + NextMapSize
  <2>1. Len(cached) = written /\ \A p \in 1 .. written : cached[p] = p
    BY <1>1, <1>2, <1>4 DEF WindowInv, CachedExact
  <2>2. len \in Nat /\ cached' = [p \in 1 .. len |-> IF p <= Len(cached) THEN cached[p] ELSE 0]
    BY <1>2, <1>3, <1>4 DEF Resized
  <2> HIDE DEF len
  <2>3. \A p \in 1 .. len : cached'[p] = IF p <= written THEN p ELSE 0
    BY <1>4, <2>1, <2>2
  <2>4. cached' = [p \in 1 .. len |-> cached'[p]] /\ Len(cached') = len
    BY <2>2
  <2>5. (mmOffset + mmLimit)' = len
    BY <1>2, <1>4 DEF len
  <2> QED
    BY <1>2, <2>3, <2>4, <2>5 DEF CachedExact
<1>7. WindowInv'
  BY <1>2, <1>3, <1>4, <1>6 DEF WindowInv
<1>8. DurableInv'
  <2>1. \A k \in 1 .. syncedTo : durable[k] = k
    BY <1>1 DEF DurableInv
  <2>2. ASSUME ~pendingSync' PROVE \A k \in 1 .. written : durable[k] = k
    <3>1. ~pendingSync /\ ~(mmapped /\ mmLastSync < mmLimit)
      BY <1>2, <2>2
    <3>2. mmLastSync \in Nat /\ mmLimit \in Nat /\ mmLastSync <= mmLimit /\ (~mmapped => mmLimit = 0)
      BY <1>1, <1>2 DEF WindowInv, MmTypes
    <3>3. mmOffset + mmLastSync = written
      BY <1>4, <3>1, <3>2
    <3> QED
      BY <1>1, <1>2, <3>1, <3>3 DEF DurableInv
  <2> QED
    BY <1>2, <1>4, <2>1, <2>2 DEF DurableInv
<1> QED
  BY <1>2, <1>5, <1>7, <1>8 DEF MmInv, ClosedInv

\* What is written back is what was appended.
LEMMA WrittenBackExact ==
    ASSUME mmFine, MmInv, NEW S, durable' = WrittenBack(S)
    PROVE  /\ DOMAIN durable' = 1 .. MaxWritten
           /\ \A k \in 1 .. written : k \in S \/ durable[k] = k => durable'[k] = k
<1>1. MmTypes /\ WindowInv /\ ClosedInv
  BY DEF MmInv
<1>2. DOMAIN durable = 1 .. MaxWritten /\ written \in 0 .. MaxWritten
  BY <1>1 DEF MmTypes
<1>3. /\ Len(cached) \in Nat /\ written <= Len(cached)
      /\ \A k \in 1 .. written : cached[k] = k
  <2>1. CASE mmCall = "closed"
    <3>1. CachedExact(written)
      BY <1>1, <2>1 DEF ClosedInv
    <3> QED
      BY <1>2, <3>1 DEF CachedExact
  <2>2. CASE mmCall # "closed"
    <3>1. CachedExact(mmOffset + mmLimit) /\ mmOffset + mmLimit \in Nat /\ written <= mmOffset + mmLimit
      BY <1>1, <2>2 DEF WindowInv, MmTypes
    <3>2. \A k \in 1 .. written : k \in 1 .. mmOffset + mmLimit /\ k <= written
      BY <1>2, <3>1
    <3> QED
      BY <3>1, <3>2 DEF CachedExact
  <2> QED
    BY <2>1, <2>2
<1>4. \A k \in 1 .. written : k \in 1 .. MaxWritten /\ k <= Len(cached)
  BY <1>2, <1>3, PosixEnvAssumption
<1> QED
  BY <1>2, <1>3, <1>4 DEF WrittenBack

\* The pages of the window that msync writes hold every byte from the last one synced on.
LEMMA PagesCover ==
    ASSUME NEW from \in Nat, NEW to \in Nat, from < to
    PROVE  from + 1 .. to \subseteq TruncateToPageBoundary(from) + 1 .. TruncateToPageBoundary(to - 1) + MapPage
<1>1. MapPage \in Nat \ {0} /\ to - 1 \in Nat
  BY PosixEnvAssumption
<1>2. /\ from % MapPage \in 0 .. MapPage - 1 /\ (to - 1) % MapPage \in 0 .. MapPage - 1
  BY <1>1
<1>3. /\ TruncateToPageBoundary(from) \in Int /\ TruncateToPageBoundary(from) <= from
      /\ TruncateToPageBoundary(to - 1) \in Int /\ to <= TruncateToPageBoundary(to - 1) + MapPage
  BY <1>1, <1>2 DEF TruncateToPageBoundary
<1> QED
  BY <1>1, <1>3

LEMMA ShiftedRange ==
    ASSUME NEW o \in Nat, NEW a \in Int, NEW b \in Int, NEW m \in Nat, NEW k \in Nat,
           k - o \in a + 1 .. b + m
    PROVE  k \in o + a + 1 .. o + b + m
  OBVIOUS

LEMMA MmSyncKeeps ==
    ASSUME mmFine, MmInv, SyncFile
    PROVE  MmInv'
<1>1. MmTypes /\ WindowInv /\ DurableInv
  BY DEF MmInv
<1> SUFFICES ASSUME mmFine' PROVE MmInv'
  BY DEF MmInv
<1>2. /\ mmCall = "none" /\ pendingSync' = FALSE
      /\ mmLastSync' = IF mmDst > mmLastSync THEN mmDst ELSE mmLastSync
      /\ durable' = WrittenBack(SyncedPositions) /\ syncedTo' = written
      /\ UNCHANGED <<mmapped, mmLimit, mmDst, mmOffset, mapSize, mmLeft, mmCall, cached, written>>
  BY DEF SyncFile
<1>3. /\ mmDst \in Nat /\ mmLastSync \in Nat /\ mmOffset \in Nat /\ mmLastSync <= mmDst
      /\ mmOffset + mmDst = written /\ mmLastSync' = mmDst /\ written \in 0 .. MaxWritten
  BY <1>1, <1>2 DEF MmTypes, WindowInv
<1>4. /\ DOMAIN durable' = 1 .. MaxWritten
      /\ \A k \in 1 .. written : k \in SyncedPositions \/ durable[k] = k => durable'[k] = k
  BY <1>2, WrittenBackExact
<1>5. \A k \in 1 .. written : k \in SyncedPositions \/ durable[k] = k
  <2>1. CASE pendingSync
    <3>1. DOMAIN durable \subseteq SyncedPositions
      BY <2>1 DEF SyncedPositions
    <3> QED
      BY <1>1, <1>3, <3>1, PosixEnvAssumption DEF MmTypes
  <2>2. CASE ~pendingSync
    <3>1. \A k \in 1 .. mmOffset + mmLastSync : durable[k] = k
      BY <1>1, <1>2, <2>2 DEF DurableInv
    <3>2. CASE mmDst > mmLastSync
      <4> DEFINE p1 == TruncateToPageBoundary(mmLastSync)
                 p2 == TruncateToPageBoundary(mmDst - 1)
      <4>1. mmLastSync + 1 .. mmDst \subseteq p1 + 1 .. p2 + MapPage
        BY <1>3, <3>2, PagesCover
      <4>2. mmOffset + p1 + 1 .. mmOffset + p2 + MapPage \subseteq SyncedPositions
        BY <3>2 DEF SyncedPositions
      <4>3. p1 \in Int /\ p2 \in Int /\ MapPage \in Nat
        BY <1>3, <3>2, PosixEnvAssumption DEF TruncateToPageBoundary
      <4> HIDE DEF p1, p2
      <4>4. ASSUME NEW k \in 1 .. written, k \notin 1 .. mmOffset + mmLastSync
            PROVE  k \in SyncedPositions
        <5>1. k - mmOffset \in mmLastSync + 1 .. mmDst
          BY <1>3, <4>4
        <5>2. k - mmOffset \in p1 + 1 .. p2 + MapPage
          BY <4>1, <5>1
        <5>3. k \in mmOffset + p1 + 1 .. mmOffset + p2 + MapPage
          <6>1. k \in Nat
            BY <1>3, <4>4
          <6> QED
            BY <1>3, <4>3, <5>2, <6>1, ShiftedRange
        <5> QED
          BY <4>2, <5>3
      <4> QED
        BY <3>1, <4>4
    <3>3. CASE ~(mmDst > mmLastSync)
      <4>1. mmOffset + mmLastSync = written
        BY <1>3, <3>3
      <4> QED
        BY <3>1, <4>1
    <3> QED
      BY <3>2, <3>3
  <2> QED
    BY <2>1, <2>2
<1>6. MmTypes'
  <2>1. mmLastSync' \in Nat
    BY <1>3
  <2>2. syncedTo' \in 0 .. written
    <3>1. written \in 0 .. written
      BY <1>3
    <3> QED
      BY <1>2, <3>1
  <2> QED
    BY <1>1, <1>2, <1>4, <2>1, <2>2 DEF MmTypes
<1>7. WindowInv' /\ ClosedInv'
  BY <1>1, <1>2, <1>3 DEF WindowInv, ClosedInv, CachedExact
<1>8. DurableInv'
  <2>1. \A k \in 1 .. written : durable'[k] = k
    BY <1>4, <1>5
  <2> QED
    BY <1>2, <1>3, <2>1 DEF DurableInv
<1> QED
  BY <1>6, <1>7, <1>8 DEF MmInv

LEMMA MmCloseKeeps ==
    ASSUME mmFine, MmInv, CloseMapped
    PROVE  MmInv'
<1>1. MmTypes /\ WindowInv /\ DurableInv
  BY DEF MmInv
<1> SUFFICES ASSUME mmFine' PROVE MmInv'
  BY DEF MmInv
<1>2. /\ mmCall = "none" /\ mmCall' = "closed" /\ mmOffset' = mmOffset + mmLimit
      /\ pendingSync' = PendingAfterUnmap /\ mapSize' = NextMapSize
      /\ mmapped' = FALSE /\ mmLimit' = 0 /\ mmDst' = 0 /\ mmLastSync' = 0
      /\ cached' = IF mmLimit > mmDst THEN Resized(cached, mmOffset' - (mmLimit - mmDst)) ELSE cached
      /\ UNCHANGED <<mmLeft, durable, written, syncedTo>>
  BY DEF CloseMapped
<1>3. NextMapSize \in Nat \ {0} /\ PendingAfterUnmap \in BOOLEAN
  BY <1>1 DEF NextMapSize, PendingAfterUnmap, MmTypes
<1>4. /\ mmOffset \in Nat /\ mmLimit \in Nat /\ mmDst \in Nat /\ mmDst <= mmLimit
      /\ mmOffset + mmDst = written /\ written \in Nat
  BY <1>1, <1>2 DEF WindowInv, MmTypes
<1>5. MmTypes'
  <2>1. mmOffset' \in Nat /\ mmLimit' \in Nat /\ mmDst' \in Nat /\ mmLastSync' \in Nat
    BY <1>2, <1>4
  <2>2. /\ mapSize' \in Nat \ {0} /\ pendingSync' \in BOOLEAN /\ mmapped' \in BOOLEAN
        /\ mmCall' \in {"none", "append", "closed"} /\ mmCall' # "append"
    BY <1>2, <1>3
  <2> QED
    BY <1>1, <1>2, <2>1, <2>2 DEF MmTypes
<1>6. CachedExact(written)'
  <2>1. /\ Len(cached) = mmOffset + mmLimit /\ CachedExact(mmOffset + mmLimit)
        /\ \A p \in 1 .. written : cached[p] = p
    <3>1. CachedExact(mmOffset + mmLimit)
      BY <1>1, <1>2 DEF WindowInv
    <3>2. \A p \in 1 .. written : p \in 1 .. mmOffset + mmLimit /\ p <= written
      BY <1>4
    <3> QED
      BY <3>1, <3>2 DEF CachedExact
  <2>2. CASE mmLimit > mmDst
    <3>1. mmOffset' - (mmLimit - mmDst) = written /\ \A p \in 1 .. written : p <= Len(cached)
      BY <1>2, <1>4, <2>1
    <3>2. cached' = [p \in 1 .. written |-> cached[p]]
      BY <1>2, <2>2, <3>1 DEF Resized
    <3>3. Len(cached') = written /\ cached' = [p \in 1 .. written |-> cached'[p]]
      BY <1>4, <3>2
    <3>4. written' = written /\ \A p \in 1 .. written : cached'[p] = p /\ p <= written
      BY <1>2, <1>4, <2>1, <3>2
    <3> QED
      BY <3>3, <3>4 DEF CachedExact
  <2>3. CASE ~(mmLimit > mmDst)
    <3>1. mmOffset + mmLimit = written /\ cached' = cached
      BY <1>2, <1>4, <2>3
    <3> QED
      BY <1>2, <2>1, <3>1 DEF CachedExact
  <2> QED
    BY <2>2, <2>3
<1>7. WindowInv' /\ DurableInv'
  BY <1>1, <1>2 DEF WindowInv, DurableInv
<1> QED
  BY <1>5, <1>6, <1>7 DEF MmInv, ClosedInv

LEMMA MmWriteBackKeeps ==
    ASSUME mmFine, MmInv, NEW page, WriteBack(page)
    PROVE  MmInv'
<1>1. MmTypes /\ WindowInv /\ DurableInv /\ ClosedInv
  BY DEF MmInv
<1> DEFINE S == page * MapPage + 1 .. (page + 1) * MapPage
<1>2. /\ durable' = WrittenBack(S)
      /\ UNCHANGED <<mmapped, mmLimit, mmDst, mmLastSync, mmOffset, mapSize, pendingSync, mmLeft,
                     mmCall, cached, written, syncedTo, mmFine>>
  BY DEF WriteBack
<1> HIDE DEF S
<1>3. /\ DOMAIN durable' = 1 .. MaxWritten
      /\ \A k \in 1 .. written : durable[k] = k => durable'[k] = k
  BY <1>2, WrittenBackExact
<1>4. MmTypes'
  BY <1>1, <1>2, <1>3 DEF MmTypes
<1>5. WindowInv' /\ ClosedInv'
  BY <1>1, <1>2 DEF WindowInv, ClosedInv, CachedExact
<1>6. DurableInv'
  <2>1. /\ \A k \in 1 .. syncedTo : k \in 1 .. written
        /\ mmCall # "closed" => \A k \in 1 .. mmOffset + mmLastSync : k \in 1 .. written
    BY <1>1 DEF MmTypes, WindowInv
  <2> QED
    BY <1>1, <1>2, <1>3, <2>1 DEF DurableInv
<1> QED
  BY <1>4, <1>5, <1>6 DEF MmInv

\* For any page size, window limit and sizes of the data: while no system call has failed, what was
\* appended before a Sync that returned OK is on the disk, however often the window has moved, and
\* a closed file has exactly the bytes appended (PosixMmapFile).
THEOREM MappedFilesExact == MmSpec => []MappedFileExact
<1>1. MmInit => MmInv
  <2> SUFFICES ASSUME MmInit PROVE MmTypes /\ WindowInv /\ DurableInv /\ ClosedInv
    BY DEF MmInv
  <2>1. MmTypes
    <3>1. MapPage \in Nat \ {0} /\ 0 \in 0 .. MaxWritten /\ 0 \in 0 .. 0
      BY PosixEnvAssumption
    <3>2. DOMAIN durable = 1 .. MaxWritten
      BY DEF MmInit
    <3> QED
      BY <3>1, <3>2 DEF MmInit, MmTypes
  <2>2. WindowInv /\ DurableInv /\ ClosedInv
    BY DEF MmInit, WindowInv, DurableInv, ClosedInv, CachedExact
  <2> QED
    BY <2>1, <2>2
<1>2. MmInv /\ [MmNext]_mmVars => MmInv'
  <2> SUFFICES ASSUME MmInv, [MmNext]_mmVars PROVE MmInv'
    OBVIOUS
  <2>1. CASE UNCHANGED mmVars
    BY <2>1 DEF mmVars, MmInv, MmTypes, WindowInv, DurableInv, ClosedInv, CachedExact
  <2>2. CASE MmNext /\ mmFine
    BY <2>2, MmAppendKeeps, MmCopyKeeps, MmMoveKeeps, MmSyncKeeps, MmCloseKeeps, MmWriteBackKeeps DEF MmNext
  <2>3. CASE MmNext /\ ~mmFine
    <3>1. ~mmFine'
      BY <2>3 DEF MmNext, AppendData, CopyChunk, MoveWindow, SyncFile, CloseMapped, WriteBack
    <3> QED
      BY <3>1 DEF MmInv
  <2> QED
    BY <2>1, <2>2, <2>3
<1>3. MmInv => MappedFileExact
  BY ClosedIsWritten DEF MmInv, MappedFileExact, DurableInv, ClosedInv
<1> QED
  BY <1>1, <1>2, <1>3, PTL DEF MmSpec

----------------------------------------------------------------------------
(* The levels of the database: entries and their order.                    *)

TreeEntry == [key : TreeKeys, seq : Nat, type : {"value", "deletion"}]

\* Entries that the internal key order tells apart.
Ordered(E) ==
    /\ IsFiniteSet(E) /\ E \subseteq TreeEntry
    /\ \A e, o \in E : e.seq = o.seq => e = o

LEMMA SubOrdered ==
    ASSUME NEW E, Ordered(E), NEW D \in SUBSET E
    PROVE  Ordered(D)
  BY FS_Subset DEF Ordered

LEMMA Trichotomy ==
    ASSUME NEW E, Ordered(E)
    PROVE  /\ \A e, o \in E : e # o => Before(e, o) \/ Before(o, e)
           /\ \A e, o \in E : ~ (Before(e, o) /\ Before(o, e))
           /\ \A e, o, q \in E : Before(e, o) /\ Before(o, q) => Before(e, q)
<1>1. \A e \in E : e.key \in Nat /\ e.seq \in Nat
  BY TreeAssumption DEF Ordered, TreeEntry
<1>2. \A e, o \in E : e # o => e.seq # o.seq
  BY DEF Ordered
<1> QED  BY <1>1, <1>2 DEF Before

\* How many entries precede one.
Rank(E, e) == Cardinality({o \in E : Before(o, e)})

LEMMA RankGrows ==
    ASSUME NEW E, Ordered(E), NEW e \in E, NEW o \in E, Before(e, o)
    PROVE  Rank(E, e) \in Nat /\ Rank(E, o) \in Nat /\ Rank(E, e) < Rank(E, o)
<1> DEFINE A == {q \in E : Before(q, e)}
           B == {q \in E : Before(q, o)}
<1>1. A \subseteq B /\ e \in B /\ e \notin A
  BY Trichotomy
<1>2. IsFiniteSet(A) /\ IsFiniteSet(B) /\ Cardinality(A) \in Nat /\ Cardinality(B) \in Nat
  <2>1. IsFiniteSet(E) /\ A \in SUBSET E /\ B \in SUBSET E
    BY DEF Ordered
  <2> QED  BY <2>1, FS_Subset, FS_CardinalityType
<1>3. Cardinality(A) <= Cardinality(B) /\ Cardinality(A) # Cardinality(B)
  BY <1>1, <1>2, FS_Subset
<1> QED  BY <1>2, <1>3 DEF Rank

LEMMA Extremes ==
    ASSUME NEW E, Ordered(E), E # {}
    PROVE  /\ FirstIn(E) \in E /\ \A o \in E \ {FirstIn(E)} : Before(FirstIn(E), o)
           /\ LastIn(E) \in E /\ \A o \in E \ {LastIn(E)} : Before(o, LastIn(E))
<1> DEFINE Ranks == {Rank(E, e) : e \in E}
           Left == {Cardinality(E) - Rank(E, e) : e \in E}
<1>1. \A e \in E : Rank(E, e) \in Nat /\ Rank(E, e) <= Cardinality(E) /\ Cardinality(E) \in Nat
  <2> SUFFICES ASSUME NEW e \in E PROVE Rank(E, e) \in Nat /\ Rank(E, e) <= Cardinality(E) /\ Cardinality(E) \in Nat
    OBVIOUS
  <2>1. IsFiniteSet(E) /\ {o \in E : Before(o, e)} \in SUBSET E
    BY DEF Ordered
  <2> QED  BY <2>1, FS_Subset, FS_CardinalityType DEF Rank
<1>2. PICK e \in E : \A o \in E : Rank(E, e) <= Rank(E, o)
  <2>1. Ranks \in SUBSET Nat /\ Ranks # {}
    BY <1>1
  <2>2. PICK x \in Ranks : \A y \in Ranks : x <= y
    <3> HIDE DEF Ranks
    <3> QED  BY <2>1, LeastNumber
  <2>3. PICK q \in E : x = Rank(E, q)
    OBVIOUS
  <2> QED  BY <2>2, <2>3
<1>3. \A o \in E \ {e} : Before(e, o)
  BY <1>2, RankGrows, Trichotomy
<1>4. PICK l \in E : \A o \in E : Rank(E, o) <= Rank(E, l)
  <2>1. Left \in SUBSET Nat /\ Left # {}
    BY <1>1
  <2>2. PICK x \in Left : \A y \in Left : x <= y
    <3> HIDE DEF Left
    <3> QED  BY <2>1, LeastNumber
  <2>3. PICK q \in E : x = Cardinality(E) - Rank(E, q)
    OBVIOUS
  <2>4. \A o \in E : Cardinality(E) - Rank(E, q) <= Cardinality(E) - Rank(E, o)
    BY <2>2, <2>3
  <2> QED  BY <1>1, <2>4
<1>5. \A o \in E \ {l} : Before(o, l)
  BY <1>4, RankGrows, Trichotomy
<1> QED  BY <1>3, <1>5 DEF FirstIn, LastIn

\* The rank of an entry is its place in the merge.
LEMMA EveryRankTaken ==
    ASSUME NEW E, Ordered(E), NEW i \in 1..Cardinality(E)
    PROVE  \E e \in E : Rank(E, e) = i - 1
<1>1. IsFiniteSet(E) /\ Cardinality(E) \in Nat
  BY FS_CardinalityType DEF Ordered
<1> DEFINE n == Cardinality(E) - 1
           S == {j \in 0..n : \E e \in E : Rank(E, e) = j}
<1>2. n \in Nat /\ E # {}
  BY <1>1, FS_EmptySet
<1>3. 0 \in S
  <2>1. {o \in E : Before(o, FirstIn(E))} = {} /\ FirstIn(E) \in E
    BY <1>2, Extremes, Trichotomy
  <2> QED  BY <1>2, <2>1, FS_EmptySet DEF Rank
<1>4. ASSUME NEW j \in 1..n, j - 1 \in S PROVE j \in S
  <2>1. PICK e \in E : Rank(E, e) = j - 1
    BY <1>4
  <2> DEFINE A == {o \in E : Before(o, e)}
             B == {o \in E : Before(e, o)}
  <2>2. IsFiniteSet(A) /\ Cardinality(A) = j - 1 /\ e \notin A
    <3>1. A \in SUBSET E
      OBVIOUS
    <3> QED  BY <1>1, <2>1, <3>1, FS_Subset, Trichotomy DEF Rank
  <2>3. IsFiniteSet(A \cup {e}) /\ Cardinality(A \cup {e}) = j
    <3> HIDE DEF A
    <3>1. j \in Nat /\ j - 1 + 1 = j
      BY <1>2
    <3> QED  BY <2>2, <3>1, FS_AddElement
  <2>4. B # {}
    <3> SUFFICES ASSUME B = {} PROVE FALSE
      OBVIOUS
    <3>1. E = A \cup {e}
      BY Trichotomy
    <3> QED  BY <1>1, <1>2, <2>3, <3>1
  <2>5. Ordered(B)
    BY SubOrdered
  <2> DEFINE f == FirstIn(B)
  <2>6. f \in B /\ \A o \in B \ {f} : Before(f, o)
    BY <2>4, <2>5, Extremes
  <2>7. {o \in E : Before(o, f)} = A \cup {e}
    <3>1. ASSUME NEW o \in E, Before(o, f) PROVE o \in A \cup {e}
      <4>1. o \notin B
        BY <2>6, <3>1, Trichotomy
      <4> QED  BY <4>1, Trichotomy
    <3>2. ASSUME NEW o \in A \cup {e} PROVE o \in E /\ Before(o, f)
      BY <2>6, <3>2, Trichotomy
    <3> QED  BY <3>1, <3>2
  <2> HIDE DEF f
  <2>8. Rank(E, f) = j /\ f \in E /\ j \in 0..n
    BY <1>2, <2>3, <2>6, <2>7 DEF Rank
  <2> QED  BY <2>8
<1> HIDE DEF S
<1>5. \A j \in 0..n : j \in S
  BY <1>2, <1>3, <1>4, UpTo
<1>6. i - 1 \in 0..n
  BY <1>1
<1> QED  BY <1>5, <1>6 DEF S

\* The merge visits every entry once, in the order of their keys.
LEMMA MergeOrder ==
    ASSUME NEW E, Ordered(E)
    PROVE  LET entry == MakeInputIterator(E) IN
           /\ Cardinality(E) \in Nat
           /\ \A i \in 1..Cardinality(E) : entry[i] \in E
           /\ \A i, j \in 1..Cardinality(E) : i < j => Before(entry[i], entry[j])
           /\ \A e \in E : \E i \in 1..Cardinality(E) : entry[i] = e
<1> DEFINE n == Cardinality(E)
           entry == MakeInputIterator(E)
<1>1. IsFiniteSet(E) /\ n \in Nat
  BY FS_CardinalityType DEF Ordered
<1>2. \A i \in 1..n : entry[i] \in E /\ Rank(E, entry[i]) = i - 1
  BY EveryRankTaken DEF MakeInputIterator, Rank
<1>3. \A i, j \in 1..n : i < j => Before(entry[i], entry[j])
  <2> SUFFICES ASSUME NEW i \in 1..n, NEW j \in 1..n, i < j PROVE Before(entry[i], entry[j])
    OBVIOUS
  <2> HIDE DEF entry
  <2>1. entry[i] # entry[j]
    BY <1>2
  <2>2. ~ Before(entry[j], entry[i])
    BY <1>1, <1>2, RankGrows
  <2> QED  BY <1>2, <2>1, <2>2, Trichotomy
<1>4. \A e \in E : \E i \in 1..n : entry[i] = e
  <2> SUFFICES ASSUME NEW e \in E PROVE \E i \in 1..n : entry[i] = e
    OBVIOUS
  <2> DEFINE A == {o \in E : Before(o, e)}
  <2>1. A \in SUBSET E /\ A # E
    BY Trichotomy
  <2>2. Rank(E, e) \in Nat /\ Rank(E, e) < n
    <3>1. IsFiniteSet(A) /\ Cardinality(A) <= n /\ Cardinality(A) # n
      BY <1>1, <2>1, FS_Subset
    <3>2. Cardinality(A) \in Nat
      BY <3>1, FS_CardinalityType
    <3> QED  BY <1>1, <3>1, <3>2 DEF Rank
  <2>3. Rank(E, e) + 1 \in 1..n
    BY <1>1, <2>2
  <2> HIDE DEF entry
  <2>4. entry[Rank(E, e) + 1] \in E /\ Rank(E, entry[Rank(E, e) + 1]) = Rank(E, e)
    BY <1>2, <2>2, <2>3
  <2>5. entry[Rank(E, e) + 1] = e
    BY <2>2, <2>4, RankGrows, Trichotomy
  <2> QED  BY <2>3, <2>5
<1> QED  BY <1>1, <1>2, <1>3, <1>4
----------------------------------------------------------------------------
(* The levels of the database: the inductive invariant.                    *)

\* Entries of a whole key are newer in A than in B; keys that A and B share are divided.
Newer(A, B, S) == \A a \in A, b \in B : a.key = b.key /\ a.key \notin S => a.seq > b.seq
Apart(A, B, S) == \A a \in A, b \in B : a.key = b.key => a.key \in S

\* One ends before the other begins, in the order of the entries.
Precede(A, B) == \A a \in A, b \in B : Before(a, b)
Beside(A, B) == Precede(A, B) \/ Precede(B, A)

\* A version with entries of H, numbers below n, and the divided keys S.
TreeFile(H, n) == [num : 1 .. n - 1, entries : (SUBSET H) \ {{}}]
FilesTyped(v, H, n) ==
    /\ v \in [TreeLevels -> SUBSET TreeFile(H, n)]
    /\ \A l \in TreeLevels : IsFiniteSet(v[l])
NumbersUnique(v) ==
    \A l, m \in TreeLevels : \A f \in v[l], g \in v[m] : f.num = g.num => f = g /\ l = m
LevelZeroOrdered(v, S) ==
    \A f, g \in v[0] : f.num > g.num => Newer(f.entries, g.entries, S)
LevelsApart(v, S) ==
    \A l \in TreeLevels \ {0} : \A f, g \in v[l] :
        f # g => Beside(f.entries, g.entries) /\ Apart(f.entries, g.entries, S)
LevelsOrdered(v, S) ==
    \A l, m \in TreeLevels : l < m => \A f \in v[l], g \in v[m] : Newer(f.entries, g.entries, S)
VersionSound(v, H, n, S) ==
    /\ FilesTyped(v, H, n) /\ NumbersUnique(v)
    /\ LevelZeroOrdered(v, S) /\ LevelsApart(v, S) /\ LevelsOrdered(v, S)

\* No range of user keys fits between the files.
Spanned(F) ==
    \A lo, hi \in TreeKeys :
        lo <= hi /\ Overlapping(F, lo, hi) = {} =>
            (\A e \in EntriesOf(F) : e.key < lo) \/ (\A e \in EntriesOf(F) : e.key > hi)

\* What stays true of a compaction's inputs while memtables are flushed around them.
Inputs(c) == EntriesOf(c.in0 \cup c.in1)
InputsSound(c, v, S) ==
    /\ c.level \in 0 .. kNumLevels - 2
    /\ c.in0 # {} /\ c.in0 \subseteq v[c.level] /\ c.in1 \subseteq v[c.level + 1]
    /\ \A f \in v[c.level] \ c.in0 : Newer(f.entries, Inputs(c), S)
    /\ \A g \in v[c.level + 1] \ c.in1 : Beside(g.entries, Inputs(c)) /\ Apart(g.entries, Inputs(c), S)
    /\ \A l \in c.level + 2 .. kNumLevels - 1 : \A g \in v[l] :
           g \in c.version[l] \/ Apart(g.entries, Inputs(c), {})
    /\ c.level >= kMaxMemCompactLevel \/ Spanned(c.in0 \cup c.in1)
CompactionSound(c) ==
    /\ InputsSound(c, files, split)
    /\ EntriesOf(c.grandparents) \subseteq hist
    /\ c.smallestSnapshot \in Nat
    /\ \A s \in snapshots \cup {LastSequence} : c.smallestSnapshot <= s

\* The newest entry a read may ask for is there, or it is a deletion that hides nothing.
Filed(v) == UNION {EntriesOf(v[l]) : l \in TreeLevels}
Visible(P, H, k, s) ==
    \A h \in NewestIn(H, k, s) :
        h \in P \/ (h.type = "deletion" /\ \A e \in P : e.key = k => e.seq > s)

HistorySound ==
    /\ Ordered(hist) /\ \A e \in hist : e.seq \in 1 .. LastSequence
    /\ memtable \subseteq hist
    /\ \A a \in memtable, b \in Filed(files) : a.seq > b.seq
    /\ snapshots \subseteq 0 .. LastSequence
ChoiceSound ==
    /\ nextFile \in Nat \ {0}
    /\ \A l \in TreeLevels : \A f \in files[l] : f.num = fileToCompact => l <= kNumLevels - 2
    /\ manual = [level |-> manual.level, begin |-> manual.begin, queued |-> manual.queued]
    /\ manual.queued => manual.level \in ManualLevels
TreeInv ==
    /\ HistorySound /\ ChoiceSound
    /\ VersionSound(files, hist, nextFile, split)
    /\ compaction # NoCompaction => CompactionSound(compaction)
    /\ \A k \in TreeKeys \ split, s \in snapshots \cup {LastSequence} :
           Visible(memtable \cup Filed(files), hist, k, s)

----------------------------------------------------------------------------
(* The levels of the database: files and ranges.                           *)

IsFile(f) == Ordered(f.entries) /\ f.entries # {}

LEMMA FileEnds ==
    ASSUME NEW f, IsFile(f)
    PROVE  /\ Smallest(f) \in f.entries /\ Largest(f) \in f.entries
           /\ \A e \in f.entries : e.key \in TreeKeys /\ e.key \in Nat /\ e.seq \in Nat
           /\ \A e \in f.entries : Smallest(f).key <= e.key /\ e.key <= Largest(f).key
           /\ \A e \in f.entries : e # Smallest(f) => Before(Smallest(f), e)
           /\ \A e \in f.entries : e # Largest(f) => Before(e, Largest(f))
<1>1. Ordered(f.entries) /\ f.entries # {}
  BY DEF IsFile
<1>2. /\ Smallest(f) \in f.entries /\ \A e \in f.entries : e # Smallest(f) => Before(Smallest(f), e)
      /\ Largest(f) \in f.entries /\ \A e \in f.entries : e # Largest(f) => Before(e, Largest(f))
  BY <1>1, Extremes DEF Smallest, Largest
<1>3. \A e \in f.entries : e.key \in TreeKeys /\ e.key \in Nat /\ e.seq \in Nat
  BY <1>1, TreeAssumption DEF Ordered, TreeEntry
<1>4. \A e \in f.entries : Smallest(f).key <= e.key /\ e.key <= Largest(f).key
  BY <1>2, <1>3 DEF Before
<1> QED  BY <1>2, <1>3, <1>4

\* A file misses a range when it ends before it or begins after it.
LEMMA Missed ==
    ASSUME NEW f, IsFile(f), NEW lo \in Nat, NEW hi \in Nat, lo <= hi
    PROVE  /\ OverlapsUser(f, lo, hi) <=> ~ (Largest(f).key < lo \/ Smallest(f).key > hi)
           /\ Largest(f).key < lo <=> \A e \in f.entries : e.key < lo
           /\ Smallest(f).key > hi <=> \A e \in f.entries : e.key > hi
  BY FileEnds DEF OverlapsUser

LEMMA RangeEnds ==
    ASSUME NEW F, Ordered(EntriesOf(F)), EntriesOf(F) # {}
    PROVE  /\ RangeLo(F) \in TreeKeys /\ RangeHi(F) \in TreeKeys
           /\ RangeLo(F) \in Nat /\ RangeHi(F) \in Nat /\ RangeLo(F) <= RangeHi(F)
           /\ \A e \in EntriesOf(F) : e.key \in Nat /\ RangeLo(F) <= e.key /\ e.key <= RangeHi(F)
           /\ \E e \in EntriesOf(F) : e.key = RangeLo(F)
           /\ \E e \in EntriesOf(F) : e.key = RangeHi(F)
<1> DEFINE E == EntriesOf(F)
<1>1. /\ FirstIn(E) \in E /\ \A e \in E : e # FirstIn(E) => Before(FirstIn(E), e)
      /\ LastIn(E) \in E /\ \A e \in E : e # LastIn(E) => Before(e, LastIn(E))
  BY Extremes
<1>2. \A e \in E : e.key \in TreeKeys /\ e.key \in Nat /\ e.seq \in Nat
  BY TreeAssumption DEF Ordered, TreeEntry
<1>3. \A e \in E : FirstIn(E).key <= e.key /\ e.key <= LastIn(E).key
  BY <1>1, <1>2 DEF Before
<1> QED  BY <1>1, <1>2, <1>3 DEF RangeLo, RangeHi

\* The files that a search of a level finds.
LEMMA FoundInLevel ==
    ASSUME NEW v, NEW level, NEW lo \in Nat, NEW hi \in Nat, lo <= hi,
           \A f \in v[level] : IsFile(f)
    PROVE  LET R == GetOverlappingInputs(v, level, lo, hi) IN
           /\ R \subseteq v[level] /\ Overlapping(v[level], lo, hi) \subseteq R
           /\ level # 0 => R = Overlapping(v[level], lo, hi)
           /\ level = 0 => \A g \in R : Overlapping(v[0], Smallest(g).key, Largest(g).key) \subseteq R
           /\ \A a, b \in Nat :
                 a <= b /\ Overlapping(R, a, b) = {} =>
                     /\ hi < a => \A f \in R : \A e \in f.entries : e.key < a
                     /\ b < lo => \A f \in R : \A e \in f.entries : e.key > b
<1> DEFINE R == GetOverlappingInputs(v, level, lo, hi)
<1>1. R \subseteq v[level] /\ Overlapping(v[level], lo, hi) \subseteq R
  BY DEF GetOverlappingInputs, Overlapping, ClosedUnderOverlap
<1>2. level # 0 => R = Overlapping(v[level], lo, hi)
  BY DEF GetOverlappingInputs
<1>3. level = 0 => \A g \in R : Overlapping(v[0], Smallest(g).key, Largest(g).key) \subseteq R
  <2> SUFFICES ASSUME level = 0, NEW g \in R, NEW f \in Overlapping(v[0], Smallest(g).key, Largest(g).key)
               PROVE  f \in R
    OBVIOUS
  <2>1. f \in v[0]
    BY DEF Overlapping
  <2>2. ASSUME NEW S \in SUBSET v[0], ClosedUnderOverlap(v[0], S, lo, hi) PROVE f \in S
    <3>1. g \in S
      BY <2>2 DEF GetOverlappingInputs
    <3> QED  BY <2>2, <3>1 DEF ClosedUnderOverlap
  <2> QED  BY <2>1, <2>2 DEF GetOverlappingInputs
<1>4. \A f \in v[level] : /\ Smallest(f) \in f.entries /\ Largest(f) \in f.entries
                           /\ Smallest(f).key \in Nat /\ Largest(f).key \in Nat
                           /\ Smallest(f).key <= Largest(f).key
                           /\ \A e \in f.entries : e.key \in Nat /\ Smallest(f).key <= e.key /\ e.key <= Largest(f).key
  BY FileEnds
<1>5. ASSUME NEW a \in Nat, NEW b \in Nat, a <= b, Overlapping(R, a, b) = {}
      PROVE  /\ hi < a => \A f \in R : \A e \in f.entries : e.key < a
             /\ b < lo => \A f \in R : \A e \in f.entries : e.key > b
  <2> HIDE DEF R
  <2>1. \A f \in R : Smallest(f).key > b \/ Largest(f).key < a
    BY <1>1, <1>4, <1>5 DEF Overlapping, OverlapsUser
  <2>2. CASE level # 0
    <3>1. \A f \in R : Smallest(f).key <= hi /\ Largest(f).key >= lo
      BY <1>2, <2>2 DEF Overlapping, OverlapsUser
    <3> QED  BY <1>1, <1>4, <1>5, <2>1, <3>1
  <2>3. CASE level = 0
    <3> DEFINE Left == {f \in R : Largest(f).key < a}
               Right == {f \in R : Smallest(f).key > b}
    <3>1. ASSUME hi < a PROVE R \subseteq Left
      <4>1. Overlapping(v[0], lo, hi) \subseteq Left
        <5> SUFFICES ASSUME NEW f \in Overlapping(v[0], lo, hi) PROVE f \in Left
          OBVIOUS
        <5>1. f \in R /\ Smallest(f).key <= hi
          BY <1>1, <2>3 DEF Overlapping, OverlapsUser
        <5> QED  BY <1>1, <1>4, <1>5, <2>1, <3>1, <5>1
      <4>2. ASSUME NEW g \in Left, NEW f \in Overlapping(v[0], Smallest(g).key, Largest(g).key) PROVE f \in Left
        <5>1. f \in R /\ g \in R /\ Smallest(f).key <= Largest(g).key
          BY <1>3, <2>3, <4>2 DEF Overlapping, OverlapsUser
        <5> QED  BY <1>1, <1>4, <1>5, <2>1, <5>1
      <4>3. Left \in SUBSET v[0] /\ ClosedUnderOverlap(v[0], Left, lo, hi)
        BY <1>1, <2>3, <4>1, <4>2 DEF ClosedUnderOverlap
      <4> HIDE DEF Left
      <4> QED  BY <2>3, <4>3 DEF GetOverlappingInputs, R
    <3>2. ASSUME b < lo PROVE R \subseteq Right
      <4>1. Overlapping(v[0], lo, hi) \subseteq Right
        <5> SUFFICES ASSUME NEW f \in Overlapping(v[0], lo, hi) PROVE f \in Right
          OBVIOUS
        <5>1. f \in R /\ Largest(f).key >= lo
          BY <1>1, <2>3 DEF Overlapping, OverlapsUser
        <5> QED  BY <1>1, <1>4, <1>5, <2>1, <3>2, <5>1
      <4>2. ASSUME NEW g \in Right, NEW f \in Overlapping(v[0], Smallest(g).key, Largest(g).key) PROVE f \in Right
        <5>1. f \in R /\ g \in R /\ Largest(f).key >= Smallest(g).key
          BY <1>3, <2>3, <4>2 DEF Overlapping, OverlapsUser
        <5> QED  BY <1>1, <1>4, <1>5, <2>1, <5>1
      <4>3. Right \in SUBSET v[0] /\ ClosedUnderOverlap(v[0], Right, lo, hi)
        BY <1>1, <2>3, <4>1, <4>2 DEF ClosedUnderOverlap
      <4> HIDE DEF Right
      <4> QED  BY <2>3, <4>3 DEF GetOverlappingInputs, R
    <3> QED  BY <1>1, <1>4, <1>5, <2>3, <3>1, <3>2
  <2> QED  BY <2>2, <2>3
<1> HIDE DEF R
<1> QED  BY <1>1, <1>2, <1>3, <1>5 DEF R

----------------------------------------------------------------------------
(* The levels of the database: the choice of the inputs of a compaction.   *)

LEMMA TypedFiles ==
    ASSUME NEW v, NEW H, NEW n \in Nat, Ordered(H), FilesTyped(v, H, n), NEW l \in TreeLevels
    PROVE  /\ \A f \in v[l] : IsFile(f) /\ f.num \in 1 .. n - 1 /\ f.entries \subseteq H
           /\ IsFiniteSet(v[l])
           /\ \A F \in SUBSET v[l] : EntriesOf(F) \subseteq H /\ (F # {} => EntriesOf(F) # {})
<1>1. \A f \in v[l] : f \in TreeFile(H, n)
  BY DEF FilesTyped
<1>2. \A f \in v[l] : f.num \in 1 .. n - 1 /\ f.entries \in SUBSET H /\ f.entries # {}
  BY <1>1 DEF TreeFile
<1>3. \A f \in v[l] : IsFile(f)
  BY <1>2, SubOrdered DEF IsFile
<1> QED  BY <1>2, <1>3 DEF FilesTyped, EntriesOf

LEMMA UnionOrdered ==
    ASSUME NEW H, Ordered(H), NEW F, NEW G, EntriesOf(F) \subseteq H, EntriesOf(G) \subseteq H
    PROVE  Ordered(EntriesOf(F)) /\ Ordered(EntriesOf(F \cup G)) /\ EntriesOf(F \cup G) = EntriesOf(F) \cup EntriesOf(G)
<1>1. EntriesOf(F \cup G) = EntriesOf(F) \cup EntriesOf(G)
  BY DEF EntriesOf
<1> QED  BY <1>1, SubOrdered

\* What is found around files without a gap leaves no gap.
LEMMA SpannedGrows ==
    ASSUME NEW D, NEW level, Ordered(EntriesOf(D)), EntriesOf(D) # {}, Spanned(D),
           \A f \in files[level] : IsFile(f)
    PROVE  Spanned(D \cup GetOverlappingInputs(files, level, RangeLo(D), RangeHi(D)))
<1> DEFINE R == GetOverlappingInputs(files, level, RangeLo(D), RangeHi(D))
<1> SUFFICES ASSUME NEW lo \in TreeKeys, NEW hi \in TreeKeys, lo <= hi, Overlapping(D \cup R, lo, hi) = {}
             PROVE  (\A e \in EntriesOf(D \cup R) : e.key < lo) \/ (\A e \in EntriesOf(D \cup R) : e.key > hi)
  BY DEF Spanned
<1>1. lo \in Nat /\ hi \in Nat
  BY TreeAssumption
<1>2. Overlapping(D, lo, hi) = {} /\ Overlapping(R, lo, hi) = {}
  BY DEF Overlapping
<1>3. (\A e \in EntriesOf(D) : e.key < lo) \/ (\A e \in EntriesOf(D) : e.key > hi)
  BY <1>2 DEF Spanned
<1>4. /\ RangeHi(D) < lo => \A f \in R : \A e \in f.entries : e.key < lo
      /\ hi < RangeLo(D) => \A f \in R : \A e \in f.entries : e.key > hi
  BY <1>1, <1>2, RangeEnds, FoundInLevel
<1> HIDE DEF R
<1>5. (RangeHi(D) < lo /\ \A e \in EntriesOf(D) : e.key < lo) \/ (hi < RangeLo(D) /\ \A e \in EntriesOf(D) : e.key > hi)
  BY <1>3, RangeEnds
<1> QED  BY <1>4, <1>5 DEF EntriesOf

\* The inputs of the upper level have every file that overlaps one of them, where
\* files may overlap, and no range that a memtable may fit into.
UpperSound(level, in0) ==
    /\ level = 0 => \A g \in in0 : Overlapping(files[0], Smallest(g).key, Largest(g).key) \subseteq in0
    /\ level >= kMaxMemCompactLevel \/ Spanned(in0)

\* SetupOtherInputs: the inputs of the upper level may grow, those of the lower
\* level are the files that overlap them.
LEMMA GrownInputs ==
    ASSUME Ordered(hist), nextFile \in Nat, VersionSound(files, hist, nextFile, split),
           NEW level \in 0 .. kNumLevels - 2, NEW in0 \in SUBSET files[level], in0 # {},
           UpperSound(level, in0)
    PROVE  LET in1 == GetOverlappingInputs(files, level + 1, RangeLo(in0), RangeHi(in0))
               all0 == Expanded(level, in0, in1) IN
           /\ all0 \in SUBSET files[level] /\ all0 # {}
           /\ in1 = Overlapping(files[level + 1], RangeLo(all0), RangeHi(all0))
           /\ level = 0 => \A g \in all0 : Overlapping(files[0], Smallest(g).key, Largest(g).key) \subseteq all0
           /\ level >= kMaxMemCompactLevel \/ Spanned(all0 \cup in1)
<1> DEFINE in1 == GetOverlappingInputs(files, level + 1, RangeLo(in0), RangeHi(in0))
           all0 == Expanded(level, in0, in1)
           lo == RangeLo(in0 \cup in1)
           hi == RangeHi(in0 \cup in1)
           e0 == GetOverlappingInputs(files, level, lo, hi)
<1>1. level \in TreeLevels /\ level + 1 \in TreeLevels /\ level \in Nat /\ level + 1 # 0
  BY TreeAssumption DEF TreeLevels
<1>2. FilesTyped(files, hist, nextFile)
  BY DEF VersionSound
<1>3. /\ \A f \in files[level] : IsFile(f)
      /\ \A f \in files[level + 1] : IsFile(f)
      /\ IsFiniteSet(files[level + 1])
  BY <1>1, <1>2, TypedFiles
<1>4. in1 = Overlapping(files[level + 1], RangeLo(in0), RangeHi(in0)) /\ in1 \in SUBSET files[level + 1]
  BY <1>1 DEF GetOverlappingInputs, Overlapping
<1>5. /\ EntriesOf(in0) \subseteq hist /\ EntriesOf(in0) # {} /\ EntriesOf(in1) \subseteq hist
  <2> HIDE DEF in1
  <2> QED  BY <1>1, <1>2, <1>4, TypedFiles
<1>6. /\ Ordered(EntriesOf(in0)) /\ Ordered(EntriesOf(in0 \cup in1))
      /\ EntriesOf(in0 \cup in1) = EntriesOf(in0) \cup EntriesOf(in1)
  BY <1>5, UnionOrdered
<1>7. level >= kMaxMemCompactLevel \/ Spanned(in0 \cup in1)
  BY <1>3, <1>5, <1>6, SpannedGrows DEF UpperSound
<1>8. CASE all0 = in0
  BY <1>4, <1>7, <1>8 DEF UpperSound
<1>9. CASE all0 # in0
  <2> HIDE DEF in1
  <2>1. /\ all0 = e0
        /\ Cardinality(GetOverlappingInputs(files, level + 1, RangeLo(e0), RangeHi(e0))) = Cardinality(in1)
    BY <1>9 DEF Expanded
  <2>2. /\ lo \in Nat /\ hi \in Nat /\ lo <= hi
        /\ \A e \in EntriesOf(in0 \cup in1) : e.key \in Nat /\ lo <= e.key /\ e.key <= hi
    <3>1. EntriesOf(in0 \cup in1) # {}
      BY <1>5, <1>6
    <3> QED  BY <1>6, <3>1, RangeEnds
  <2> HIDE DEF lo, hi, all0
  <2>3. /\ e0 \subseteq files[level] /\ Overlapping(files[level], lo, hi) \subseteq e0
        /\ level = 0 => \A g \in e0 : Overlapping(files[0], Smallest(g).key, Largest(g).key) \subseteq e0
    BY <1>3, <2>2, FoundInLevel
  <2>4. in0 \subseteq e0
    <3> SUFFICES ASSUME NEW f \in in0 PROVE f \in Overlapping(files[level], lo, hi)
      BY <2>3
    <3>1. Smallest(f) \in f.entries /\ Largest(f) \in f.entries /\ f.entries \subseteq EntriesOf(in0 \cup in1)
      BY <1>3, FileEnds DEF EntriesOf
    <3> QED  BY <2>2, <3>1 DEF Overlapping, OverlapsUser
  <2> DEFINE e1 == GetOverlappingInputs(files, level + 1, RangeLo(e0), RangeHi(e0))
  <2> HIDE DEF e0
  <2>5. e1 = Overlapping(files[level + 1], RangeLo(e0), RangeHi(e0)) /\ e1 \subseteq files[level + 1]
    BY <1>1 DEF GetOverlappingInputs, Overlapping
  <2>6. in1 \subseteq e1
    <3> SUFFICES ASSUME NEW f \in in1 PROVE f \in e1
      OBVIOUS
    <3>1. f \in files[level + 1] /\ Smallest(f).key <= RangeHi(in0) /\ Largest(f).key >= RangeLo(in0)
      BY <1>4 DEF Overlapping, OverlapsUser
    <3>2. EntriesOf(e0) \subseteq hist /\ EntriesOf(in0) \subseteq EntriesOf(e0) /\ EntriesOf(e0) # {}
      <4>1. e0 \in SUBSET files[level] /\ e0 # {}
        BY <2>3, <2>4
      <4> QED  BY <1>1, <1>2, <2>4, <4>1, TypedFiles DEF EntriesOf
    <3>3. /\ RangeLo(e0) \in Nat /\ RangeHi(e0) \in Nat
          /\ \A e \in EntriesOf(e0) : e.key \in Nat /\ RangeLo(e0) <= e.key /\ e.key <= RangeHi(e0)
      BY <3>2, SubOrdered, RangeEnds
    <3>4. RangeLo(e0) <= RangeLo(in0) /\ RangeHi(in0) <= RangeHi(e0) /\ RangeLo(in0) \in Nat /\ RangeHi(in0) \in Nat
      BY <1>5, <1>6, <3>2, <3>3, RangeEnds
    <3>5. Smallest(f).key \in Nat /\ Largest(f).key \in Nat
      BY <1>3, <3>1, FileEnds
    <3> QED  BY <2>5, <3>1, <3>3, <3>4, <3>5 DEF Overlapping, OverlapsUser
  <2>7. e1 = in1
    <3> HIDE DEF e1
    <3>1. IsFiniteSet(e1)
      BY <1>3, <2>5, FS_Subset
    <3> QED  BY <2>1, <2>6, <3>1, FS_Subset DEF e1
  <2>8. level >= kMaxMemCompactLevel \/ Spanned(e0 \cup in1)
    <3>1. (in0 \cup in1) \cup e0 = e0 \cup in1
      BY <2>4
    <3>2. EntriesOf(in0 \cup in1) # {}
      BY <1>5, <1>6
    <3> QED  BY <1>3, <1>6, <1>7, <3>1, <3>2, SpannedGrows DEF e0, lo, hi
  <2> HIDE DEF e1
  <2>9. e0 # {}
    BY <2>4
  <2>10. /\ all0 \in SUBSET files[level] /\ all0 # {}
         /\ in1 = Overlapping(files[level + 1], RangeLo(all0), RangeHi(all0))
         /\ level = 0 => \A g \in all0 : Overlapping(files[0], Smallest(g).key, Largest(g).key) \subseteq all0
         /\ level >= kMaxMemCompactLevel \/ Spanned(all0 \cup in1)
    BY <2>1, <2>3, <2>5, <2>7, <2>8, <2>9
  <2> QED  BY <2>10 DEF in1, all0
<1> QED  BY <1>8, <1>9

LEMMA InputsChosen ==
    ASSUME Ordered(hist), nextFile \in Nat, VersionSound(files, hist, nextFile, split),
           NEW level \in 0 .. kNumLevels - 2, NEW in0 \in SUBSET files[level], in0 # {},
           UpperSound(level, in0), NEW isManual
    PROVE  LET c == SetupOtherInputs(level, in0, isManual) IN
           /\ InputsSound(c, files, split)
           /\ EntriesOf(c.grandparents) \subseteq hist
           /\ c.level = level /\ c.manual = isManual
           /\ c.smallestSnapshot = IF snapshots = {} THEN LastSequence ELSE Oldest(snapshots)
<1> DEFINE in1 == GetOverlappingInputs(files, level + 1, RangeLo(in0), RangeHi(in0))
           all0 == Expanded(level, in0, in1)
           c == SetupOtherInputs(level, in0, isManual)
<1>1. level \in TreeLevels /\ level + 1 \in TreeLevels /\ level \in Nat /\ level + 1 # 0 /\ 0 \in TreeLevels
  BY TreeAssumption DEF TreeLevels
<1>2. /\ FilesTyped(files, hist, nextFile) /\ LevelsApart(files, split) /\ LevelsOrdered(files, split)
  BY DEF VersionSound
<1>3. /\ all0 \in SUBSET files[level] /\ all0 # {}
      /\ in1 = Overlapping(files[level + 1], RangeLo(all0), RangeHi(all0))
      /\ level = 0 => \A g \in all0 : Overlapping(files[0], Smallest(g).key, Largest(g).key) \subseteq all0
      /\ level >= kMaxMemCompactLevel \/ Spanned(all0 \cup in1)
  BY GrownInputs
<1>4. /\ c.level = level /\ c.in0 = all0 /\ c.in1 = in1 /\ c.manual = isManual /\ c.version = files
      /\ c.smallestSnapshot = IF snapshots = {} THEN LastSequence ELSE Oldest(snapshots)
      /\ EntriesOf(c.grandparents) \subseteq hist
  <2>1. ASSUME level + 2 < kNumLevels, NEW lo, NEW hi
        PROVE  EntriesOf(GetOverlappingInputs(files, level + 2, lo, hi)) \subseteq hist
    <3>1. level + 2 \in TreeLevels /\ level + 2 # 0
      BY <1>1, <2>1, TreeAssumption DEF TreeLevels
    <3>2. GetOverlappingInputs(files, level + 2, lo, hi) \in SUBSET files[level + 2]
      BY <3>1 DEF GetOverlappingInputs, Overlapping
    <3> QED  BY <1>2, <3>1, <3>2, TypedFiles
  <2>2. EntriesOf({}) \subseteq hist
    BY DEF EntriesOf
  <2> HIDE DEF in1, all0
  <2> QED  BY <2>1, <2>2 DEF SetupOtherInputs, in1, all0
<1> HIDE DEF in1, all0, c
<1>5. /\ \A f \in files[level] : IsFile(f)
      /\ \A f \in files[level + 1] : IsFile(f)
      /\ EntriesOf(all0) \subseteq hist /\ EntriesOf(all0) # {}
  BY <1>1, <1>2, <1>3, TypedFiles
<1>6. /\ RangeLo(all0) \in Nat /\ RangeHi(all0) \in Nat /\ RangeLo(all0) <= RangeHi(all0)
      /\ \A e \in EntriesOf(all0) : e.key \in Nat /\ RangeLo(all0) <= e.key /\ e.key <= RangeHi(all0)
  BY <1>5, SubOrdered, RangeEnds
<1>7. ASSUME NEW b \in Inputs(c) PROVE \E g \in all0 \cup in1 : b \in g.entries
  BY <1>4, <1>7 DEF Inputs, EntriesOf
<1>8. ASSUME NEW f \in files[level] \ all0 PROVE Newer(f.entries, Inputs(c), split)
  <2> SUFFICES ASSUME NEW a \in f.entries, NEW b \in Inputs(c), a.key = b.key, a.key \notin split PROVE a.seq > b.seq
    BY DEF Newer
  <2>1. PICK g \in all0 \cup in1 : b \in g.entries
    BY <1>7
  <2>2. CASE g \in in1
    <3>1. g \in files[level + 1] /\ level < level + 1
      BY <1>1, <1>3, <2>2 DEF Overlapping
    <3> QED  BY <1>1, <1>2, <2>1, <3>1 DEF LevelsOrdered, Newer
  <2>3. CASE g \in all0 /\ level # 0
    BY <1>1, <1>2, <1>3, <2>1, <2>3 DEF LevelsApart, Apart
  <2>4. CASE g \in all0 /\ level = 0
    <3>1. ~ OverlapsUser(f, Smallest(g).key, Largest(g).key)
      BY <1>3, <2>4 DEF Overlapping
    <3>2. IsFile(f) /\ IsFile(g)
      BY <1>3, <1>5, <2>4
    <3> QED  BY <2>1, <3>1, <3>2, FileEnds DEF OverlapsUser
  <2> QED  BY <2>1, <2>2, <2>3, <2>4
<1>9. ASSUME NEW g \in files[level + 1] \ in1 PROVE Beside(g.entries, Inputs(c)) /\ Apart(g.entries, Inputs(c), split)
  <2>1. IsFile(g) /\ (Largest(g).key < RangeLo(all0) \/ Smallest(g).key > RangeHi(all0))
    BY <1>3, <1>5, <1>6, Missed DEF Overlapping
  <2>2. \A h \in in1 : /\ h \in files[level + 1] /\ h # g /\ IsFile(h)
                       /\ Smallest(h).key <= RangeHi(all0) /\ Largest(h).key >= RangeLo(all0)
    BY <1>3, <1>5 DEF Overlapping, OverlapsUser
  <2>3. \A h \in in1 : Beside(g.entries, h.entries) /\ Apart(g.entries, h.entries, split)
    BY <1>1, <1>2, <2>2 DEF LevelsApart
  <2>4. /\ \A a \in g.entries : a.key \in Nat /\ a.seq \in Nat /\ Smallest(g).key <= a.key /\ a.key <= Largest(g).key
        /\ Smallest(g) \in g.entries /\ Largest(g) \in g.entries
    BY <2>1, FileEnds
  <2>5. CASE Largest(g).key < RangeLo(all0)
    <3>1. \A h \in in1 : Precede(g.entries, h.entries)
      <4> SUFFICES ASSUME NEW h \in in1, Precede(h.entries, g.entries) PROVE FALSE
        BY <2>3 DEF Beside
      <4>1. Largest(h) \in h.entries /\ Largest(h).key \in Nat /\ Largest(h).key >= RangeLo(all0)
        BY <2>2, FileEnds
      <4>2. Before(Largest(h), Smallest(g))
        BY <2>4, <4>1 DEF Precede
      <4> QED  BY <1>6, <2>4, <2>5, <4>1, <4>2 DEF Before
    <3>2. ASSUME NEW a \in g.entries, NEW b \in Inputs(c) PROVE Before(a, b) /\ (a.key = b.key => a.key \in split)
      <4>1. PICK h \in all0 \cup in1 : b \in h.entries
        BY <1>7
      <4>2. CASE h \in in1
        BY <2>3, <3>1, <4>1, <4>2 DEF Precede, Apart
      <4>3. CASE h \in all0
        <5>1. b \in EntriesOf(all0)
          BY <4>1, <4>3 DEF EntriesOf
        <5> QED  BY <1>6, <2>4, <2>5, <5>1 DEF Before
      <4> QED  BY <4>2, <4>3
    <3> QED  BY <3>2 DEF Beside, Precede, Apart
  <2>6. CASE Smallest(g).key > RangeHi(all0)
    <3>1. \A h \in in1 : Precede(h.entries, g.entries)
      <4> SUFFICES ASSUME NEW h \in in1, Precede(g.entries, h.entries) PROVE FALSE
        BY <2>3 DEF Beside
      <4>1. Smallest(h) \in h.entries /\ Smallest(h).key \in Nat /\ Smallest(h).key <= RangeHi(all0)
        BY <2>2, FileEnds
      <4>2. Before(Largest(g), Smallest(h))
        BY <2>4, <4>1 DEF Precede
      <4> QED  BY <1>6, <2>4, <2>6, <4>1, <4>2 DEF Before
    <3>2. ASSUME NEW a \in g.entries, NEW b \in Inputs(c) PROVE Before(b, a) /\ (a.key = b.key => a.key \in split)
      <4>1. PICK h \in all0 \cup in1 : b \in h.entries
        BY <1>7
      <4>2. CASE h \in in1
        BY <2>3, <3>1, <4>1, <4>2 DEF Precede, Apart
      <4>3. CASE h \in all0
        <5>1. b \in EntriesOf(all0)
          BY <4>1, <4>3 DEF EntriesOf
        <5> QED  BY <1>6, <2>4, <2>6, <5>1 DEF Before
      <4> QED  BY <4>2, <4>3
    <3> QED  BY <3>2 DEF Beside, Precede, Apart
  <2> QED  BY <2>1, <2>5, <2>6
<1>10. InputsSound(c, files, split)
  <2>1. all0 \subseteq files[level] /\ in1 \subseteq files[level + 1]
    BY <1>3 DEF Overlapping
  <2> QED  BY <1>3, <1>4, <1>8, <1>9, <2>1 DEF InputsSound
<1> QED  BY <1>4, <1>10 DEF c

\* The inputs PickCompaction begins with.
LEMMA PickedInputs ==
    ASSUME Ordered(hist), nextFile \in Nat, VersionSound(files, hist, nextFile, split),
           NEW level \in 0 .. kNumLevels - 2, NEW f \in files[level]
    PROVE  LET in0 == IF level = 0 THEN GetOverlappingInputs(files, 0, Smallest(f).key, Largest(f).key) ELSE {f} IN
           in0 \in SUBSET files[level] /\ in0 # {} /\ UpperSound(level, in0)
<1>1. level \in TreeLevels /\ FilesTyped(files, hist, nextFile)
  BY TreeAssumption DEF TreeLevels, VersionSound
<1>2. \A g \in files[level] : IsFile(g)
  BY <1>1, TypedFiles
<1>3. /\ Smallest(f) \in f.entries /\ Largest(f) \in f.entries
      /\ Smallest(f).key \in Nat /\ Largest(f).key \in Nat /\ Smallest(f).key <= Largest(f).key
  BY <1>2, FileEnds
<1>4. EntriesOf({f}) = f.entries
  BY DEF EntriesOf
<1>5. Spanned({f})
  <2> SUFFICES ASSUME NEW lo \in TreeKeys, NEW hi \in TreeKeys, lo <= hi, ~ OverlapsUser(f, lo, hi)
               PROVE  (\A e \in f.entries : e.key < lo) \/ (\A e \in f.entries : e.key > hi)
    BY <1>4 DEF Spanned, Overlapping
  <2>1. lo \in Nat /\ hi \in Nat
    BY TreeAssumption
  <2> QED  BY <1>2, <2>1, Missed
<1>6. CASE level # 0
  BY <1>5, <1>6 DEF UpperSound
<1>7. CASE level = 0
  <2> DEFINE R == GetOverlappingInputs(files, 0, Smallest(f).key, Largest(f).key)
  <2>1. /\ R \subseteq files[0] /\ Overlapping(files[0], Smallest(f).key, Largest(f).key) \subseteq R
        /\ \A g \in R : Overlapping(files[0], Smallest(g).key, Largest(g).key) \subseteq R
    BY <1>2, <1>3, <1>7, FoundInLevel
  <2>2. f \in R
    BY <1>3, <1>7, <2>1 DEF Overlapping, OverlapsUser
  <2>3. Spanned(R)
    <3>1. RangeLo({f}) = Smallest(f).key /\ RangeHi({f}) = Largest(f).key
      BY <1>4 DEF RangeLo, RangeHi, Smallest, Largest
    <3>2. Ordered(EntriesOf({f})) /\ EntriesOf({f}) # {}
      BY <1>2, <1>4 DEF IsFile
    <3>3. Spanned({f} \cup R)
      BY <1>2, <1>5, <1>7, <3>1, <3>2, SpannedGrows
    <3>4. {f} \cup R = R
      BY <2>2
    <3> QED  BY <3>3, <3>4
  <2> HIDE DEF R
  <2>4. R \in SUBSET files[level] /\ R # {} /\ UpperSound(level, R)
    BY <1>7, <2>1, <2>2, <2>3 DEF UpperSound
  <2> QED  BY <1>7, <2>4 DEF R
<1> QED  BY <1>6, <1>7

\* CompactRange takes the first of the files in its range, and files may not overlap there.
LEMMA ManualTaken ==
    ASSUME Ordered(hist), nextFile \in Nat, VersionSound(files, hist, nextFile, split), ManualBelowFlushes,
           NEW level \in ManualLevels, NEW lo, ManualInputs(level, lo) # {}
    PROVE  LET inputs == ManualInputs(level, lo)
               SizeBefore(f) == TotalFileSize({g \in inputs \ {f} : BySmallestKey(g, f)})
               in0 == {f \in inputs : SizeBefore(f) < kTargetFileSize} IN
           /\ level \in 0 .. kNumLevels - 2 /\ level # 0 /\ level >= kMaxMemCompactLevel
           /\ in0 \in SUBSET files[level] /\ in0 # {}
<1> DEFINE inputs == ManualInputs(level, lo)
           SizeBefore(f) == TotalFileSize({g \in inputs \ {f} : BySmallestKey(g, f)})
           in0 == {f \in inputs : SizeBefore(f) < kTargetFileSize}
<1>1. level \in 0 .. kNumLevels - 2 /\ level # 0 /\ level >= kMaxMemCompactLevel /\ level \in TreeLevels
  BY TreeAssumption DEF ManualBelowFlushes, TreeLevels
<1>2. inputs \in SUBSET files[level]
  BY <1>1 DEF ManualInputs, GetOverlappingInputs, Overlapping
<1>3. inputs # {}
  OBVIOUS
<1> HIDE DEF inputs
<1>4. FilesTyped(files, hist, nextFile) /\ LevelsApart(files, split)
  BY DEF VersionSound
<1>5. EntriesOf(inputs) \subseteq hist /\ EntriesOf(inputs) # {} /\ \A f \in inputs : IsFile(f)
  BY <1>1, <1>2, <1>3, <1>4, TypedFiles
<1> DEFINE E == EntriesOf(inputs)
<1>6. Ordered(E)
  BY <1>5, SubOrdered
<1>7. FirstIn(E) \in E /\ \A o \in E : o # FirstIn(E) => Before(FirstIn(E), o)
  BY <1>5, <1>6, Extremes
<1>8. PICK f \in inputs : FirstIn(E) \in f.entries
  BY <1>7 DEF EntriesOf
<1>9. ASSUME NEW g \in inputs \ {f}, BySmallestKey(g, f) PROVE FALSE
  <2>1. Smallest(g) \in g.entries /\ Smallest(f) \in f.entries
    BY <1>5, FileEnds
  <2>2. Smallest(g) \in E /\ Smallest(f) \in E
    BY <2>1 DEF EntriesOf
  <2>3. Precede(f.entries, g.entries)
    <3>1. Beside(f.entries, g.entries)
      BY <1>1, <1>2, <1>4 DEF LevelsApart
    <3>2. ~ Precede(g.entries, f.entries)
      <4>1. ~ Before(Smallest(g), FirstIn(E))
        <5>1. \A e \in E : ~ Before(e, FirstIn(E))
          BY <1>6, <1>7, Trichotomy
        <5> QED  BY <2>2, <5>1
      <4> QED  BY <1>8, <2>1, <4>1 DEF Precede
    <3> QED  BY <3>1, <3>2 DEF Beside
  <2>4. Before(Smallest(f), Smallest(g))
    BY <2>1, <2>3 DEF Precede
  <2>5. Smallest(g) # Smallest(f) /\ ~ Before(Smallest(g), Smallest(f))
    BY <1>6, <2>2, <2>4, Trichotomy
  <2> QED  BY <1>9, <2>5 DEF BySmallestKey
<1>10. {g \in inputs \ {f} : BySmallestKey(g, f)} = {}
  BY <1>9
<1>11. SizeBefore(f) = 0
  <2>1. EntriesOf({}) = {}
    BY DEF EntriesOf
  <2> QED  BY <1>10, <2>1, FS_EmptySet DEF TotalFileSize
<1>12. f \in in0 /\ in0 \in SUBSET files[level]
  <2>1. f \in in0
    BY <1>11, TreeAssumption
  <2> QED  BY <1>2, <2>1
<1> QED  BY <1>1, <1>12 DEF inputs

----------------------------------------------------------------------------
(* The levels of the database: the merge.                                  *)

MergeStart == [outputs |-> 0, placed |-> {}, seen |-> FALSE, passed |-> {}, overlap |-> 0, open |-> FALSE]
MergeState(c, E) ==
    [outputs : Nat, placed : SUBSET (Nat \X E), seen : BOOLEAN, passed : SUBSET c.grandparents,
     overlap : Nat, open : BOOLEAN]

\* One unfolding of the merge.
UnfoldMerge(c, E, entry, g) ==
    [i \in 0 .. Cardinality(E) |-> IF i = 0 THEN MergeStart ELSE MergeStep(c, E, g[i - 1], entry[i])]

\* After i entries: what was kept of them is placed, output by output in their order.
MergeSound(c, E, entry, i, st) ==
    /\ st \in MergeState(c, E)
    /\ \A p \in st.placed : p[1] \in 1 .. st.outputs /\ \E j \in 1 .. i : p[2] = entry[j]
    /\ \A o \in 1 .. st.outputs : \E p \in st.placed : p[1] = o
    /\ \A j \in 1 .. i : Kept(c, E, entry[j]) <=> \E p \in st.placed : p[2] = entry[j]
    /\ \A p, q \in st.placed : p[1] < q[1] => Before(p[2], q[2])
    /\ st.open => st.outputs >= 1

LEMMA MergeStepTyped ==
    ASSUME NEW c, IsFiniteSet(EntriesOf(c.grandparents)), NEW E, NEW st \in MergeState(c, E), NEW e \in E
    PROVE  MergeStep(c, E, st, e) \in MergeState(c, E)
<1> DEFINE gone == {g \in c.grandparents : Before(Largest(g), e)}
           ov == IF st.seen THEN st.overlap + TotalFileSize(gone \ st.passed) ELSE st.overlap
           stop == ov > kMaxGrandParentOverlap
           begun == st.open /\ ~ stop
           kept == Kept(c, E, e)
           out == IF kept /\ ~ begun THEN st.outputs + 1 ELSE st.outputs
           placed == IF kept THEN st.placed \cup {<<out, e>>} ELSE st.placed
           still == (begun \/ kept) /\ Cardinality(Output(placed, out)) < kTargetFileSize
<1>1. /\ st.outputs \in Nat /\ st.placed \in SUBSET (Nat \X E) /\ st.overlap \in Nat
  BY DEF MergeState
<1>2. TotalFileSize(gone \ st.passed) \in Nat
  <2>1. EntriesOf(gone \ st.passed) \in SUBSET EntriesOf(c.grandparents)
    BY DEF EntriesOf
  <2> HIDE DEF gone
  <2> QED  BY <2>1, FS_Subset, FS_CardinalityType DEF TotalFileSize
<1>3. gone \in SUBSET c.grandparents
  OBVIOUS
<1> HIDE DEF gone
<1>4. ov \in Nat
  BY <1>1, <1>2
<1> HIDE DEF ov, kept, begun
<1>5. out \in Nat
  BY <1>1
<1> HIDE DEF out
<1>6. placed \in SUBSET (Nat \X E)
  BY <1>1, <1>5
<1> HIDE DEF placed
<1>7. still \in BOOLEAN /\ (IF stop THEN 0 ELSE ov) \in Nat
  BY <1>4
<1> HIDE DEF still, stop
<1>8. MergeStep(c, E, st, e) =
        [outputs |-> out, placed |-> placed, seen |-> TRUE, passed |-> gone,
         overlap |-> IF stop THEN 0 ELSE ov, open |-> still]
  BY DEF MergeStep, gone, ov, stop, begun, kept, out, placed, still
<1> QED  BY <1>3, <1>5, <1>6, <1>7, <1>8 DEF MergeState

LEMMA MergeStepSound ==
    ASSUME NEW c, IsFiniteSet(EntriesOf(c.grandparents)), NEW E, NEW n \in Nat, NEW entry,
           \A j \in 1 .. n : entry[j] \in E,
           \A j, k \in 1 .. n : j < k => Before(entry[j], entry[k]),
           \A o \in E : ~ Before(o, o), \A o, q \in E : ~ (Before(o, q) /\ Before(q, o)),
           NEW i \in 1 .. n, NEW st, MergeSound(c, E, entry, i - 1, st)
    PROVE  MergeSound(c, E, entry, i, MergeStep(c, E, st, entry[i]))
<1> DEFINE e == entry[i]
           t == MergeStep(c, E, st, e)
           kept == Kept(c, E, e)
<1>1. /\ st \in MergeState(c, E) /\ st.outputs \in Nat /\ st.placed \in SUBSET (Nat \X E)
      /\ e \in E /\ i - 1 \in Nat /\ i \in Nat
      /\ \A j : j \in 1 .. i <=> (j \in 1 .. i - 1 \/ j = i)
  BY DEF MergeSound, MergeState
<1>2. PICK out \in Nat : /\ t.outputs = out
                         /\ out = st.outputs \/ (out = st.outputs + 1 /\ kept)
                         /\ kept => out >= 1
                         /\ t.placed = IF kept THEN st.placed \cup {<<out, e>>} ELSE st.placed
                         /\ t.open => out >= 1
  <2> DEFINE gone == {g \in c.grandparents : Before(Largest(g), e)}
             ov == IF st.seen THEN st.overlap + TotalFileSize(gone \ st.passed) ELSE st.overlap
             begun == st.open /\ ~ (ov > kMaxGrandParentOverlap)
             out == IF kept /\ ~ begun THEN st.outputs + 1 ELSE st.outputs
             placed == IF kept THEN st.placed \cup {<<out, e>>} ELSE st.placed
             still == (begun \/ kept) /\ Cardinality(Output(placed, out)) < kTargetFileSize
  <2>1. begun => st.outputs >= 1
    BY DEF MergeSound
  <2>2. t.outputs = out /\ t.placed = placed /\ t.open = still
    BY DEF MergeStep
  <2> HIDE DEF t, kept, begun
  <2>3. out \in Nat /\ (out = st.outputs \/ (out = st.outputs + 1 /\ kept)) /\ (kept => out >= 1) /\ (begun => out >= 1)
    BY <1>1, <2>1
  <2> HIDE DEF out
  <2>4. t.open => begun \/ kept
    BY <2>2
  <2> QED  BY <2>2, <2>3, <2>4
<1>3. t \in MergeState(c, E)
  BY <1>1, MergeStepTyped
<1>4. \A p \in t.placed : p \in st.placed \/ (kept /\ p = <<out, e>>)
  BY <1>2
<1>5. st.placed \subseteq t.placed /\ (kept => <<out, e>> \in t.placed)
  BY <1>2
<1>6. \A p \in st.placed : p[1] \in 1 .. st.outputs /\ \E j \in 1 .. i - 1 : p[2] = entry[j]
  BY DEF MergeSound
<1>7. \A p \in st.placed : p[2] # e /\ Before(p[2], e)
  BY <1>1, <1>6
<1> HIDE DEF t, kept
<1>8. \A p \in t.placed : p[1] \in 1 .. t.outputs /\ \E j \in 1 .. i : p[2] = entry[j]
  <2> SUFFICES ASSUME NEW p \in t.placed PROVE p[1] \in 1 .. t.outputs /\ \E j \in 1 .. i : p[2] = entry[j]
    OBVIOUS
  <2>1. CASE p \in st.placed
    BY <1>1, <1>2, <1>6, <2>1
  <2>2. CASE kept /\ p = <<out, e>>
    BY <1>1, <1>2, <2>2
  <2> QED  BY <1>4, <2>1, <2>2
<1>9. \A o \in 1 .. t.outputs : \E p \in t.placed : p[1] = o
  <2> SUFFICES ASSUME NEW o \in 1 .. t.outputs PROVE \E p \in t.placed : p[1] = o
    OBVIOUS
  <2>1. CASE o \in 1 .. st.outputs
    BY <1>5, <2>1 DEF MergeSound
  <2>2. CASE o \notin 1 .. st.outputs
    <3>1. kept /\ o = out
      BY <1>1, <1>2, <2>2
    <3> QED  BY <1>5, <3>1
  <2> QED  BY <2>1, <2>2
<1>10. \A j \in 1 .. i : Kept(c, E, entry[j]) <=> \E p \in t.placed : p[2] = entry[j]
  <2>1. ASSUME NEW j \in 1 .. i - 1 PROVE Kept(c, E, entry[j]) <=> \E p \in t.placed : p[2] = entry[j]
    <3>1. Kept(c, E, entry[j]) <=> \E p \in st.placed : p[2] = entry[j]
      BY DEF MergeSound
    <3>2. entry[j] # e
      <4>1. entry[j] \in E /\ Before(entry[j], e)
        BY <1>1
      <4> QED  BY <1>1, <4>1
    <3> QED  BY <1>4, <1>5, <3>1, <3>2
  <2>2. kept <=> \E p \in t.placed : p[2] = e
    BY <1>4, <1>5, <1>7
  <2> QED  BY <1>1, <2>1, <2>2 DEF kept
<1>11. \A p, q \in t.placed : p[1] < q[1] => Before(p[2], q[2])
  <2> SUFFICES ASSUME NEW p \in t.placed, NEW q \in t.placed, p[1] < q[1] PROVE Before(p[2], q[2])
    OBVIOUS
  <2>1. CASE q = <<out, e>>
    <3>1. p # <<out, e>>
      BY <1>1, <1>2, <2>1
    <3> QED  BY <1>4, <1>7, <2>1, <3>1
  <2>2. CASE q \in st.placed
    <3>1. q[1] <= out /\ q[1] \in Nat
      BY <1>1, <1>2, <1>6, <2>2
    <3>2. p \in st.placed
      <4>1. p # <<out, e>>
        BY <3>1
      <4> QED  BY <1>4, <4>1
    <3> QED  BY <2>2, <3>2 DEF MergeSound
  <2> QED  BY <1>4, <2>1, <2>2
<1>12. t.open => t.outputs >= 1
  BY <1>2
<1>13. MergeSound(c, E, entry, i, t)
  BY <1>3, <1>8, <1>9, <1>10, <1>11, <1>12 DEF MergeSound
<1> QED  BY <1>13 DEF t

\* What a merge puts where.
LEMMA MergeResult ==
    ASSUME NEW c, IsFiniteSet(EntriesOf(c.grandparents)), Ordered(Inputs(c))
    PROVE  LET m == Merged(c) IN
           /\ m.outputs \in Nat
           /\ \A p \in m.placed : p[1] \in 1 .. m.outputs /\ p[2] \in Inputs(c)
           /\ \A o \in 1 .. m.outputs : \E p \in m.placed : p[1] = o
           /\ \A e \in Inputs(c) : Kept(c, Inputs(c), e) <=> \E p \in m.placed : p[2] = e
           /\ \A p, q \in m.placed : p[1] < q[1] => Before(p[2], q[2])
<1> DEFINE E == Inputs(c)
           entry == MakeInputIterator(E)
           n == Cardinality(E)
           X == MergeState(c, E)
           T == [q \in (1 .. n) \X X |-> MergeStep(c, E, q[2], entry[q[1]])]
<1>1. /\ n \in Nat
      /\ \A i \in 1 .. n : entry[i] \in E
      /\ \A i, j \in 1 .. n : i < j => Before(entry[i], entry[j])
      /\ \A e \in E : \E i \in 1 .. n : entry[i] = e
  BY MergeOrder
<1>2. \A o \in E : ~ Before(o, o)
  BY Trichotomy
<1>3. \A o, q \in E : ~ (Before(o, q) /\ Before(q, o))
  BY Trichotomy
<1> HIDE DEF E, entry
<1>4. MergeStart \in X
  <2>1. {} \in SUBSET (Nat \X E) /\ {} \in SUBSET c.grandparents /\ 0 \in Nat /\ FALSE \in BOOLEAN
    OBVIOUS
  <2> QED  BY <2>1 DEF MergeStart, MergeState
<1>5. \A i \in 1 .. n, x \in X : MergeStep(c, E, x, entry[i]) \in X
  <2> HIDE DEF n
  <2> QED  BY <1>1, MergeStepTyped
<1> HIDE DEF X
<1>6. T \in [(1 .. n) \X X -> X] /\ \A i \in 1 .. n, x \in X : T[<<i, x>>] = MergeStep(c, E, x, entry[i])
  <2> HIDE DEF n
  <2> QED  BY <1>5
<1> HIDE DEF T
<1>7. PICK g \in [0 .. n -> X] : g = UnfoldOver(n, MergeStart, T, g)
  <2> HIDE DEF n
  <2>1. LoopOver(X, MergeStart, n, T)
    BY <1>1, <1>4, <1>6 DEF LoopOver
  <2> QED  BY <2>1, FiniteRecursion
<1>8. g = UnfoldMerge(c, E, entry, g)
  <2>1. \A i \in 0 .. n : UnfoldOver(n, MergeStart, T, g)[i] = UnfoldMerge(c, E, entry, g)[i]
    <3> SUFFICES ASSUME NEW i \in 0 .. n PROVE UnfoldOver(n, MergeStart, T, g)[i] = UnfoldMerge(c, E, entry, g)[i]
      OBVIOUS
    <3>1. i # 0 => i \in 1 .. n /\ g[i - 1] \in X
      BY <1>1, <1>7
    <3> QED  BY <1>1, <1>6, <3>1 DEF UnfoldOver, UnfoldMerge
  <2> QED  BY <1>7, <2>1 DEF UnfoldOver, UnfoldMerge
<1>9. PICK st : st = UnfoldMerge(c, E, entry, st) /\ Merged(c) = st[n]
  <2> DEFINE st == CHOOSE x : x = UnfoldMerge(c, E, entry, x)
  <2>1. st = UnfoldMerge(c, E, entry, st)
    BY <1>8
  <2>2. Merged(c) = st[n]
    BY DEF Merged, UnfoldMerge, MergeStart, entry, E, Inputs
  <2> QED  BY <2>1, <2>2
<1>10. 0 \in 0 .. n /\ st[0] = MergeStart /\ \A i \in 1 .. n : st[i] = MergeStep(c, E, st[i - 1], entry[i])
  <2>1. DOMAIN st = 0 .. n /\ \A i \in 0 .. n : st[i] = UnfoldMerge(c, E, entry, st)[i]
    BY <1>9 DEF UnfoldMerge
  <2>2. \A i \in 0 .. n : UnfoldMerge(c, E, entry, st)[i] = IF i = 0 THEN MergeStart ELSE MergeStep(c, E, st[i - 1], entry[i])
    BY DEF UnfoldMerge
  <2>3. 0 \in 0 .. n /\ \A i \in 1 .. n : i \in 0 .. n /\ i # 0
    BY <1>1
  <2> QED  BY <2>1, <2>2, <2>3
<1> HIDE DEF n
<1> DEFINE S == {i \in 0 .. n : MergeSound(c, E, entry, i, st[i])}
<1>11. 0 \in S
  BY <1>4, <1>10 DEF MergeSound, MergeStart, X
<1>12. ASSUME NEW i \in 1 .. n, i - 1 \in S PROVE i \in S
  <2>1. MergeSound(c, E, entry, i, MergeStep(c, E, st[i - 1], entry[i]))
    BY <1>1, <1>2, <1>3, <1>12, MergeStepSound
  <2>2. i \in 0 .. n
    OBVIOUS
  <2> QED  BY <1>10, <2>1, <2>2
<1>13. n \in S
  <2> HIDE DEF S
  <2>1. \A i \in 0 .. n : i \in S
    BY <1>1, <1>11, <1>12, UpTo
  <2> QED  BY <1>1, <2>1
<1>14. MergeSound(c, E, entry, n, Merged(c))
  BY <1>9, <1>13
<1> DEFINE m == Merged(c)
<1> HIDE DEF m
<1>15. /\ m.outputs \in Nat
       /\ \A p \in m.placed : p[1] \in 1 .. m.outputs /\ \E j \in 1 .. n : p[2] = entry[j]
       /\ \A o \in 1 .. m.outputs : \E p \in m.placed : p[1] = o
       /\ \A j \in 1 .. n : Kept(c, E, entry[j]) <=> \E p \in m.placed : p[2] = entry[j]
       /\ \A p, q \in m.placed : p[1] < q[1] => Before(p[2], q[2])
  BY <1>14 DEF MergeSound, MergeState, m
<1>16. \A e \in E : Kept(c, E, e) <=> \E p \in m.placed : p[2] = e
  BY <1>1, <1>15
<1>17. \A p \in m.placed : p[1] \in 1 .. m.outputs /\ p[2] \in E
  BY <1>1, <1>15
<1> QED  BY <1>15, <1>16, <1>17 DEF m, E

----------------------------------------------------------------------------
(* The levels of the database: putting files in the place of the inputs.   *)

\* Outputs O made of the inputs' entries, in files of numbers below n.
OutputsSound(c, v, H, n, S, O) ==
    /\ O \in SUBSET TreeFile(H, n) /\ IsFiniteSet(O)
    /\ \A o \in O : o.entries \subseteq Inputs(c)
    /\ \A o, p \in O : o # p => Beside(o.entries, p.entries) /\ Apart(o.entries, p.entries, S)
    /\ \A o, p \in O : o.num = p.num => o = p
    /\ \A o \in O : \A l \in TreeLevels : \A f \in v[l] : f.num = o.num => l = c.level /\ f \in c.in0

\* The version with the outputs.
Replaced(c, v, O) ==
    [l \in TreeLevels |->
        IF l = c.level THEN v[l] \ c.in0
        ELSE IF l = c.level + 1 THEN (v[l] \ c.in1) \cup O ELSE v[l]]

\* Whether a file of a level is an input.
IsInput(c, l, f) == (l = c.level /\ f \in c.in0) \/ (l = c.level + 1 /\ f \in c.in1)

LEMMA InputPlaces ==
    ASSUME NEW c, NEW v, NEW S, InputsSound(c, v, S)
    PROVE  /\ c.level \in TreeLevels /\ c.level + 1 \in TreeLevels /\ c.level \in Nat
           /\ \A b \in Inputs(c) : \/ \E g \in v[c.level] : g \in c.in0 /\ b \in g.entries
                                   \/ \E g \in v[c.level + 1] : g \in c.in1 /\ b \in g.entries
<1>1. c.level \in TreeLevels /\ c.level + 1 \in TreeLevels /\ c.level \in Nat
  BY TreeAssumption DEF InputsSound, TreeLevels
<1>2. c.in0 \subseteq v[c.level] /\ c.in1 \subseteq v[c.level + 1]
  BY DEF InputsSound
<1>3. \A b \in Inputs(c) : \E g \in c.in0 \cup c.in1 : b \in g.entries
  BY DEF Inputs, EntriesOf
<1> QED  BY <1>1, <1>2, <1>3

LEMMA ReplacedSound ==
    ASSUME NEW H, Ordered(H), NEW v, NEW n \in Nat, NEW n2 \in Nat, n <= n2, NEW S, NEW S2, S \subseteq S2,
           VersionSound(v, H, n, S), NEW c, InputsSound(c, v, S), NEW O, OutputsSound(c, v, H, n2, S2, O)
    PROVE  LET w == Replaced(c, v, O) IN
           /\ VersionSound(w, H, n2, S2)
           /\ \A l \in TreeLevels : \A f \in v[l] : IsInput(c, l, f) \/ f \in w[l]
           /\ \A l \in TreeLevels : \A f \in w[l] : (f \in v[l] /\ ~ IsInput(c, l, f)) \/ (l = c.level + 1 /\ f \in O)
           /\ O \subseteq w[c.level + 1]
           /\ Filed(w) \subseteq Filed(v)
<1> DEFINE w == Replaced(c, v, O)
           L == c.level
<1>1. L \in TreeLevels /\ L + 1 \in TreeLevels /\ L \in Nat /\ L + 1 # L /\ L + 1 # 0
  BY InputPlaces
<1>2. \A l \in TreeLevels : w[l] = IF l = L THEN v[l] \ c.in0 ELSE IF l = L + 1 THEN (v[l] \ c.in1) \cup O ELSE v[l]
  BY DEF Replaced
<1>3. /\ \A l \in TreeLevels : \A f \in v[l] : IsInput(c, l, f) \/ f \in w[l]
      /\ \A l \in TreeLevels : \A f \in w[l] : (f \in v[l] /\ ~ IsInput(c, l, f)) \/ (l = L + 1 /\ f \in O)
      /\ O \subseteq w[L + 1]
  BY <1>1, <1>2 DEF IsInput
<1>4. /\ \A b \in Inputs(c) : \/ \E g \in v[L] : g \in c.in0 /\ b \in g.entries
                              \/ \E g \in v[L + 1] : g \in c.in1 /\ b \in g.entries
  BY InputPlaces
<1>5. /\ O \in SUBSET TreeFile(H, n2) /\ IsFiniteSet(O)
      /\ \A o \in O : o.entries \subseteq Inputs(c)
  BY DEF OutputsSound
<1>6. /\ FilesTyped(v, H, n) /\ NumbersUnique(v) /\ LevelZeroOrdered(v, S) /\ LevelsApart(v, S) /\ LevelsOrdered(v, S)
  BY DEF VersionSound
<1>7. Filed(w) \subseteq Filed(v)
  <2> SUFFICES ASSUME NEW l \in TreeLevels, NEW f \in w[l], NEW e \in f.entries PROVE e \in Filed(v)
    BY DEF Filed, EntriesOf
  <2>1. CASE f \in v[l]
    BY <2>1 DEF Filed, EntriesOf
  <2>2. CASE f \in O
    <3>1. e \in Inputs(c)
      BY <1>5, <2>2
    <3> HIDE DEF w, L
    <3>2. \E m \in TreeLevels : \E g \in v[m] : e \in g.entries
      BY <1>1, <1>4, <3>1
    <3> QED  BY <3>2 DEF Filed, EntriesOf
  <2> QED  BY <1>3, <2>1, <2>2
<1> HIDE DEF w
<1>8. FilesTyped(w, H, n2)
  <2>1. TreeFile(H, n) \subseteq TreeFile(H, n2)
    BY DEF TreeFile
  <2>2. \A l \in TreeLevels : v[l] \subseteq TreeFile(H, n) /\ IsFiniteSet(v[l])
    BY <1>6 DEF FilesTyped
  <2>3. ASSUME NEW l \in TreeLevels PROVE w[l] \in SUBSET TreeFile(H, n2) /\ IsFiniteSet(w[l])
    <3>1. \A Q : IsFiniteSet(v[l] \ Q)
      BY <2>2, FS_Subset
    <3>2. IsFiniteSet((v[l] \ c.in1) \cup O)
      BY <1>5, <3>1, FS_Union
    <3> QED  BY <1>2, <1>5, <2>1, <2>2, <3>1, <3>2
  <2>4. w \in [TreeLevels -> SUBSET TreeFile(H, n2)]
    BY <2>3 DEF w, Replaced
  <2> QED  BY <2>3, <2>4 DEF FilesTyped
<1>9. NumbersUnique(w)
  <2> SUFFICES ASSUME NEW l \in TreeLevels, NEW m \in TreeLevels, NEW f \in w[l], NEW g \in w[m], f.num = g.num
               PROVE  f = g /\ l = m
    BY DEF NumbersUnique
  <2>1. CASE f \in v[l] /\ g \in v[m]
    BY <1>6, <2>1 DEF NumbersUnique
  <2>2. CASE f \in O /\ g \in O /\ l = L + 1 /\ m = L + 1
    BY <2>2 DEF OutputsSound
  <2>3. CASE f \in O /\ g \in v[m] /\ ~ IsInput(c, m, g)
    BY <2>3 DEF OutputsSound, IsInput
  <2>4. CASE f \in v[l] /\ g \in O /\ ~ IsInput(c, l, f)
    BY <2>4 DEF OutputsSound, IsInput
  <2> QED  BY <1>3, <2>1, <2>2, <2>3, <2>4
<1>10. LevelZeroOrdered(w, S2)
  <2>1. 0 \in TreeLevels /\ w[0] \subseteq v[0]
    BY <1>1, <1>3, TreeAssumption DEF TreeLevels
  <2> QED  BY <1>6, <2>1 DEF LevelZeroOrdered, Newer
<1>11. LevelsApart(w, S2)
  <2> SUFFICES ASSUME NEW l \in TreeLevels \ {0}, NEW f \in w[l], NEW g \in w[l], f # g
               PROVE  Beside(f.entries, g.entries) /\ Apart(f.entries, g.entries, S2)
    BY DEF LevelsApart
  <2>1. CASE f \in v[l] /\ g \in v[l]
    BY <1>6, <2>1 DEF LevelsApart, Apart
  <2>2. CASE f \in O /\ g \in O
    BY <2>2 DEF OutputsSound
  <2>3. ASSUME NEW x \in v[L + 1] \ c.in1, NEW o \in O
        PROVE  /\ Beside(x.entries, o.entries) /\ Beside(o.entries, x.entries)
               /\ Apart(x.entries, o.entries, S2) /\ Apart(o.entries, x.entries, S2)
    <3>1. Beside(x.entries, Inputs(c)) /\ Apart(x.entries, Inputs(c), S)
      BY <2>3 DEF InputsSound
    <3> QED  BY <1>5, <3>1 DEF Beside, Precede, Apart
  <2>4. CASE f \in v[l] /\ ~ IsInput(c, l, f) /\ l = L + 1 /\ g \in O
    BY <2>3, <2>4 DEF IsInput
  <2>5. CASE g \in v[l] /\ ~ IsInput(c, l, g) /\ l = L + 1 /\ f \in O
    BY <2>3, <2>5 DEF IsInput
  <2> QED  BY <1>3, <2>1, <2>2, <2>4, <2>5
<1>12. LevelsOrdered(w, S2)
  <2> SUFFICES ASSUME NEW l \in TreeLevels, NEW m \in TreeLevels, l < m, NEW f \in w[l], NEW g \in w[m],
                      NEW a \in f.entries, NEW b \in g.entries, a.key = b.key, a.key \notin S2
               PROVE  a.seq > b.seq
    BY DEF LevelsOrdered, Newer
  <2>1. \A i, j \in TreeLevels : i < j => \A x \in v[i], y \in v[j] : Newer(x.entries, y.entries, S)
    BY <1>6 DEF LevelsOrdered
  <2>2. CASE f \in v[l] /\ g \in v[m]
    BY <2>1, <2>2 DEF Newer
  <2>3. CASE f \in v[l] /\ ~ IsInput(c, l, f) /\ g \in O /\ m = L + 1
    <3>1. b \in Inputs(c)
      BY <1>5, <2>3
    <3>2. CASE l = L
      <4>1. Newer(f.entries, Inputs(c), S)
        BY <2>3, <3>2 DEF InputsSound, IsInput
      <4> QED  BY <3>1, <4>1 DEF Newer
    <3>3. CASE l # L
      <4>1. l < L /\ l < L + 1
        BY <1>1, <2>3, <3>3 DEF TreeLevels
      <4>2. PICK j \in {L, L + 1} : \E y \in v[j] : b \in y.entries
        BY <1>4, <3>1
      <4>3. PICK y \in v[j] : b \in y.entries
        BY <4>2
      <4>4. Newer(f.entries, y.entries, S)
        BY <1>1, <2>1, <2>3, <4>1, <4>2
      <4> QED  BY <4>3, <4>4 DEF Newer
    <3> QED  BY <3>2, <3>3
  <2>4. CASE f \in O /\ l = L + 1
    <3>1. a \in Inputs(c)
      BY <1>5, <2>4
    <3>2. g \in v[m] /\ L < m /\ L + 1 < m
      BY <1>1, <1>3, <2>4 DEF TreeLevels
    <3>3. PICK j \in {L, L + 1} : \E y \in v[j] : a \in y.entries
      BY <1>4, <3>1
    <3>4. PICK y \in v[j] : a \in y.entries
      BY <3>3
    <3>5. Newer(y.entries, g.entries, S)
      BY <1>1, <2>1, <3>2, <3>3
    <3> QED  BY <3>4, <3>5 DEF Newer
  <2> QED  BY <1>3, <2>2, <2>3, <2>4
<1>13. VersionSound(w, H, n2, S2)
  BY <1>8, <1>9, <1>10, <1>11, <1>12 DEF VersionSound
<1> QED  BY <1>3, <1>7, <1>13 DEF w

\* The outputs of a merge can take the place of its inputs.
LEMMA MergedOutputs ==
    ASSUME Ordered(hist), nextFile \in Nat \ {0}, VersionSound(files, hist, nextFile, split),
           NEW c, CompactionSound(c)
    PROVE  LET m == Merged(c)
               O == {[num |-> nextFile + i - 1, entries |-> Output(m.placed, i)] : i \in 1 .. m.outputs} IN
           /\ m.outputs \in Nat
           /\ OutputsSound(c, files, hist, nextFile + m.outputs, split \cup Divided(m), O)
           /\ \A e \in Inputs(c) : Kept(c, Inputs(c), e) <=> e \in EntriesOf(O)
           /\ Installed(c, m) = Replaced(c, files, O)
<1> DEFINE m == Merged(c)
           FileOf(i) == [num |-> nextFile + i - 1, entries |-> Output(m.placed, i)]
           O == {FileOf(i) : i \in 1 .. m.outputs}
<1>1. InputsSound(c, files, split) /\ FilesTyped(files, hist, nextFile)
  BY DEF CompactionSound, VersionSound
<1>2. Inputs(c) \subseteq hist
  <2>1. c.level \in TreeLevels /\ c.level + 1 \in TreeLevels
    BY <1>1, InputPlaces
  <2>2. c.in0 \in SUBSET files[c.level] /\ c.in1 \in SUBSET files[c.level + 1]
    BY <1>1 DEF InputsSound
  <2>3. EntriesOf(c.in0) \subseteq hist /\ EntriesOf(c.in1) \subseteq hist
    BY <1>1, <2>1, <2>2, TypedFiles
  <2> QED  BY <2>3 DEF Inputs, EntriesOf
<1>3. Ordered(Inputs(c))
  BY <1>2, SubOrdered
<1>4. IsFiniteSet(EntriesOf(c.grandparents))
  BY FS_Subset DEF CompactionSound, Ordered
<1>5. /\ m.outputs \in Nat
      /\ \A p \in m.placed : p[1] \in 1 .. m.outputs /\ p[2] \in Inputs(c)
      /\ \A o \in 1 .. m.outputs : \E p \in m.placed : p[1] = o
      /\ \A e \in Inputs(c) : Kept(c, Inputs(c), e) <=> \E p \in m.placed : p[2] = e
      /\ \A p, q \in m.placed : p[1] < q[1] => Before(p[2], q[2])
  BY <1>3, <1>4, MergeResult
<1> HIDE DEF m
<1>6. \A i, e : e \in Output(m.placed, i) <=> \E p \in m.placed : p[1] = i /\ p[2] = e
  BY DEF Output
<1>7. \A i \in 1 .. m.outputs : Output(m.placed, i) \in SUBSET Inputs(c) /\ Output(m.placed, i) # {}
  <2> SUFFICES ASSUME NEW i \in 1 .. m.outputs PROVE Output(m.placed, i) \in SUBSET Inputs(c) /\ Output(m.placed, i) # {}
    OBVIOUS
  <2>1. \A e \in Output(m.placed, i) : e \in Inputs(c)
    BY <1>5, <1>6
  <2>2. \E p \in m.placed : p[1] = i
    BY <1>5
  <2> QED  BY <1>6, <2>1, <2>2
<1>8. ASSUME NEW i \in 1 .. m.outputs, NEW j \in 1 .. m.outputs, i # j
      PROVE  /\ Beside(Output(m.placed, i), Output(m.placed, j))
             /\ Apart(Output(m.placed, i), Output(m.placed, j), split \cup Divided(m))
  <2>1. ASSUME NEW x \in 1 .. m.outputs, NEW y \in 1 .. m.outputs, x < y PROVE Precede(Output(m.placed, x), Output(m.placed, y))
    BY <1>5, <1>6, <2>1 DEF Precede
  <2>2. ASSUME NEW a \in Output(m.placed, i), NEW b \in Output(m.placed, j), a.key = b.key PROVE a.key \in Divided(m)
    <3>1. a.key \in TreeKeys
      BY <1>2, <1>7 DEF Ordered, TreeEntry
    <3> QED  BY <1>6, <1>8, <2>2, <3>1 DEF Divided
  <2>3. i < j \/ j < i
    BY <1>5, <1>8
  <2> QED  BY <2>1, <2>2, <2>3 DEF Beside, Apart
<1>9. \A i \in 1 .. m.outputs : FileOf(i).num = nextFile + i - 1 /\ FileOf(i).entries = Output(m.placed, i)
  OBVIOUS
<1>10. O \in SUBSET TreeFile(hist, nextFile + m.outputs)
  <2>1. \A i \in 1 .. m.outputs : nextFile + i - 1 \in 1 .. (nextFile + m.outputs) - 1
    BY <1>5
  <2>2. \A i \in 1 .. m.outputs : Output(m.placed, i) \in (SUBSET hist) \ {{}}
    BY <1>2, <1>7
  <2> QED  BY <2>1, <2>2 DEF TreeFile
<1>11. IsFiniteSet(O)
  <2> DEFINE h == [i \in 1 .. m.outputs |-> FileOf(i)]
  <2>1. h \in Surjection(1 .. m.outputs, O)
    <3>1. h \in [1 .. m.outputs -> O]
      OBVIOUS
    <3>2. \A o \in O : \E i \in 1 .. m.outputs : h[i] = o
      OBVIOUS
    <3> QED  BY <3>1, <3>2 DEF Surjection
  <2> HIDE DEF h
  <2>2. IsFiniteSet(1 .. m.outputs)
    <3>1. 1 \in Int /\ m.outputs \in Int
      BY <1>5
    <3> QED  BY <3>1, FS_Interval
  <2> QED  BY <2>1, <2>2, FS_Surjection
<1>12. \A o \in O : \E i \in 1 .. m.outputs : o.num = nextFile + i - 1 /\ o.entries = Output(m.placed, i) /\ o = FileOf(i)
  OBVIOUS
<1> HIDE DEF FileOf
<1>13. OutputsSound(c, files, hist, nextFile + m.outputs, split \cup Divided(m), O)
  <2> HIDE DEF O
  <2>1. \A o \in O : o.entries \subseteq Inputs(c)
    BY <1>7, <1>12
  <2>2. ASSUME NEW o \in O, NEW p \in O, o # p PROVE Beside(o.entries, p.entries) /\ Apart(o.entries, p.entries, split \cup Divided(m))
    <3>1. PICK i \in 1 .. m.outputs : o.entries = Output(m.placed, i) /\ o = FileOf(i)
      BY <1>12
    <3>2. PICK j \in 1 .. m.outputs : p.entries = Output(m.placed, j) /\ p = FileOf(j)
      BY <1>12
    <3>3. i # j
      BY <2>2, <3>1, <3>2
    <3> QED  BY <1>8, <3>1, <3>2, <3>3
  <2>3. ASSUME NEW o \in O, NEW p \in O, o.num = p.num PROVE o = p
    <3>1. PICK i \in 1 .. m.outputs : o.num = nextFile + i - 1 /\ o = FileOf(i)
      BY <1>12
    <3>2. PICK j \in 1 .. m.outputs : p.num = nextFile + j - 1 /\ p = FileOf(j)
      BY <1>12
    <3>3. m.outputs \in Nat
      BY <1>5
    <3>4. i = j
      <4>1. nextFile + i - 1 = nextFile + j - 1
        BY <2>3, <3>1, <3>2
      <4>2. i \in Nat /\ j \in Nat
        BY <3>3
      <4> QED  BY <4>1, <4>2
    <3> QED  BY <3>1, <3>2, <3>4
  <2>4. ASSUME NEW o \in O, NEW l \in TreeLevels, NEW f \in files[l] PROVE f.num # o.num
    <3>1. f.num \in 1 .. nextFile - 1
      BY <1>1, TypedFiles
    <3>2. PICK i \in 1 .. m.outputs : o.num = nextFile + i - 1
      BY <1>12
    <3> QED  BY <1>5, <3>1, <3>2
  <2> QED  BY <1>10, <1>11, <2>1, <2>2, <2>3, <2>4 DEF OutputsSound
<1>14. \A e \in Inputs(c) : Kept(c, Inputs(c), e) <=> e \in EntriesOf(O)
  <2>1. \A e : e \in EntriesOf(O) <=> \E i \in 1 .. m.outputs : e \in Output(m.placed, i)
    BY <1>9 DEF EntriesOf
  <2> QED  BY <1>5, <1>6, <2>1
<1>15. Installed(c, m) = Replaced(c, files, O)
  <2>1. c.level # c.level + 1
    BY <1>1, InputPlaces
  <2>2. O = {[num |-> nextFile + i - 1, entries |-> Output(m.placed, i)] : i \in 1 .. m.outputs}
    BY DEF FileOf
  <2> HIDE DEF O
  <2> QED  BY <2>1, <2>2 DEF Installed, Replaced
<1> QED  BY <1>5, <1>13, <1>14, <1>15 DEF m, O, FileOf

\* A file that is moved can take its own place a level down.
LEMMA MovedOutputs ==
    ASSUME Ordered(hist), nextFile \in Nat, VersionSound(files, hist, nextFile, split),
           NEW c, InputsSound(c, files, split), IsTrivialMove(c)
    PROVE  /\ OutputsSound(c, files, hist, nextFile, split, c.in0)
           /\ [files EXCEPT ![c.level] = @ \ c.in0, ![c.level + 1] = @ \cup c.in0] = Replaced(c, files, c.in0)
           /\ Filed(Replaced(c, files, c.in0)) = Filed(files)
<1>1. c.level \in TreeLevels /\ c.level + 1 \in TreeLevels /\ c.level # c.level + 1
  BY InputPlaces
<1>2. c.in0 \subseteq files[c.level] /\ c.in1 = {}
  BY DEF InputsSound, IsTrivialMove
<1>3. FilesTyped(files, hist, nextFile) /\ NumbersUnique(files)
  BY DEF VersionSound
<1>4. IsFiniteSet(c.in0) /\ c.in0 \in SUBSET TreeFile(hist, nextFile)
  BY <1>1, <1>2, <1>3, FS_Subset DEF FilesTyped
<1>5. PICK f : c.in0 = {f}
  BY <1>4, FS_Singleton DEF IsTrivialMove
<1>6. OutputsSound(c, files, hist, nextFile, split, c.in0)
  <2>1. \A o \in c.in0 : o.entries \subseteq Inputs(c)
    BY DEF Inputs, EntriesOf
  <2>2. \A o \in c.in0 : \A l \in TreeLevels : \A g \in files[l] : g.num = o.num => l = c.level /\ g \in c.in0
    BY <1>1, <1>2, <1>3 DEF NumbersUnique
  <2> QED  BY <1>4, <1>5, <2>1, <2>2 DEF OutputsSound
<1>7. [files EXCEPT ![c.level] = @ \ c.in0, ![c.level + 1] = @ \cup c.in0] = Replaced(c, files, c.in0)
  BY <1>1, <1>2, <1>3 DEF Replaced, FilesTyped
<1>8. Filed(Replaced(c, files, c.in0)) = Filed(files)
  <2> DEFINE w == Replaced(c, files, c.in0)
  <2>1. /\ \A l \in TreeLevels : \A g \in files[l] : IsInput(c, l, g) \/ g \in w[l]
        /\ c.in0 \subseteq w[c.level + 1]
        /\ Filed(w) \subseteq Filed(files)
    <3>1. nextFile <= nextFile /\ split \subseteq split
      OBVIOUS
    <3> DEFINE O == c.in0
    <3>2. OutputsSound(c, files, hist, nextFile, split, O)
      BY <1>6
    <3> HIDE DEF O
    <3>3. LET x == Replaced(c, files, O) IN
          /\ \A l \in TreeLevels : \A g \in files[l] : IsInput(c, l, g) \/ g \in x[l]
          /\ O \subseteq x[c.level + 1]
          /\ Filed(x) \subseteq Filed(files)
      BY <3>1, <3>2, ReplacedSound
    <3> QED  BY <3>3 DEF O
  <2> HIDE DEF w
  <2>2. \A l \in TreeLevels : \A g \in files[l] : g \in w[l] \/ g \in w[c.level + 1]
    BY <1>2, <2>1 DEF IsInput
  <2>3. Filed(files) \subseteq Filed(w)
    BY <1>1, <2>2 DEF Filed, EntriesOf
  <2> QED  BY <2>1, <2>3 DEF w
<1> QED  BY <1>6, <1>7, <1>8

\* What the inputs kept is in the outputs, what they dropped is not missed.
LEMMA VisibleAfter ==
    ASSUME HistorySound, nextFile \in Nat, VersionSound(files, hist, nextFile, split),
           NEW c, CompactionSound(c), NEW n \in Nat, nextFile <= n, NEW S, split \subseteq S,
           NEW O, OutputsSound(c, files, hist, n, S, O),
           \A e \in Inputs(c) : Kept(c, Inputs(c), e) <=> e \in EntriesOf(O),
           NEW k \in TreeKeys, k \notin S, NEW s \in snapshots \cup {LastSequence},
           Visible(memtable \cup Filed(files), hist, k, s)
    PROVE  Visible(memtable \cup Filed(Replaced(c, files, O)), hist, k, s)
<1> DEFINE w == Replaced(c, files, O)
           P == memtable \cup Filed(files)
           P2 == memtable \cup Filed(w)
           L == c.level
<1>1. InputsSound(c, files, split) /\ c.smallestSnapshot \in Nat /\ c.smallestSnapshot <= s
  BY DEF CompactionSound
<1>2. /\ Ordered(hist) /\ memtable \subseteq hist /\ \A a \in memtable, b \in Filed(files) : a.seq > b.seq
      /\ s \in Nat
  <2>1. LastSequence \in Nat
    BY FS_CardinalityType DEF LastSequence, HistorySound, Ordered
  <2> QED  BY <2>1 DEF HistorySound
<1>3. /\ FilesTyped(files, hist, nextFile) /\ LevelsOrdered(files, split)
  BY DEF VersionSound
<1>4. /\ \A l \in TreeLevels : \A f \in files[l] : IsInput(c, l, f) \/ f \in w[l]
      /\ \A l \in TreeLevels : \A f \in w[l] : (f \in files[l] /\ ~ IsInput(c, l, f)) \/ (l = L + 1 /\ f \in O)
      /\ O \subseteq w[L + 1]
      /\ Filed(w) \subseteq Filed(files)
  BY <1>1, <1>2, ReplacedSound
<1>5. /\ L \in TreeLevels /\ L + 1 \in TreeLevels /\ L \in Nat
      /\ \A b \in Inputs(c) : \/ \E g \in files[L] : g \in c.in0 /\ b \in g.entries
                              \/ \E g \in files[L + 1] : g \in c.in1 /\ b \in g.entries
  BY <1>1, InputPlaces
<1> HIDE DEF w, L
<1>6. \A e : e \in Filed(files) <=> \E l \in TreeLevels : \E f \in files[l] : e \in f.entries
  BY DEF Filed, EntriesOf
<1>7. \A e : e \in Filed(w) <=> \E l \in TreeLevels : \E f \in w[l] : e \in f.entries
  BY DEF Filed, EntriesOf
<1>8. \A l \in TreeLevels : \A f \in files[l] : f.entries \subseteq hist /\ IsFile(f)
  BY <1>2, <1>3, TypedFiles
<1>9. \A e \in hist : e.key \in TreeKeys /\ e.key \in Nat /\ e.seq \in Nat
  BY <1>2, TreeAssumption DEF Ordered, TreeEntry
<1>10. Inputs(c) \subseteq Filed(files) /\ Filed(files) \subseteq hist
  BY <1>5, <1>6, <1>8
<1>11. ASSUME NEW l \in TreeLevels, NEW f \in files[l], IsInput(c, l, f), NEW e \in f.entries PROVE e \in Inputs(c)
  BY <1>11 DEF IsInput, Inputs, EntriesOf
<1>12. ASSUME NEW e \in Filed(files), e \notin Inputs(c) \/ Kept(c, Inputs(c), e) PROVE e \in Filed(w)
  <2>1. CASE e \in Inputs(c)
    <3>1. \E f \in O : e \in f.entries
      BY <1>12, <2>1 DEF EntriesOf
    <3> QED  BY <1>4, <1>5, <1>7, <3>1
  <2>2. CASE e \notin Inputs(c)
    <3>1. PICK l \in TreeLevels : \E f \in files[l] : e \in f.entries
      BY <1>6
    <3>2. PICK f \in files[l] : e \in f.entries
      BY <3>1
    <3> QED  BY <1>4, <1>7, <1>11, <2>2, <3>2
  <2> QED  BY <2>1, <2>2
<1> SUFFICES ASSUME NEW h \in NewestIn(hist, k, s), h \notin P2
             PROVE  h.type = "deletion" /\ \A e \in P2 : e.key = k => e.seq > s
  BY DEF Visible, w
<1>13. h \in hist /\ h.key = k /\ h.seq <= s /\ \A o \in hist : o.key = k /\ o.seq <= s => o.seq <= h.seq
  BY DEF NewestIn
<1>14. CASE h \notin P
  <2>1. h.type = "deletion" /\ \A e \in P : e.key = k => e.seq > s
    BY <1>14 DEF Visible
  <2> QED  BY <1>4, <2>1
<1>15. CASE h \in P
  <2>1. h \in Filed(files) /\ h \in Inputs(c) /\ ~ Kept(c, Inputs(c), h)
    BY <1>12, <1>15
  <2>2. ~ Hidden(c, Inputs(c), h)
    <3> SUFFICES ASSUME NEW o \in Inputs(c), o.key = h.key, o.seq > h.seq, o.seq <= c.smallestSnapshot PROVE FALSE
      BY DEF Hidden
    <3>1. o \in hist /\ o.seq \in Nat /\ h.seq \in Nat
      BY <1>9, <1>10, <1>13
    <3> QED  BY <1>1, <1>2, <1>13, <3>1
  <2>3. h.type = "deletion" /\ h.seq <= c.smallestSnapshot /\ IsBaseLevelForKey(c, k)
    BY <1>13, <2>1, <2>2 DEF Kept, DropObsoleteDeletion
  <2> SUFFICES ASSUME NEW e \in P2, e.key = k, e.seq <= s PROVE FALSE
    <3>1. \A e \in P2 : e \in hist /\ e.seq \in Nat
      BY <1>2, <1>4, <1>9, <1>10
    <3> QED  BY <1>2, <2>3, <3>1
  <2>4. e \in hist /\ e.seq \in Nat /\ h.seq \in Nat /\ e.seq <= h.seq
    BY <1>2, <1>4, <1>9, <1>10, <1>13
  <2>5. e \in Filed(w) /\ h \notin Filed(w)
    BY <1>2, <2>1, <2>4
  <2>6. e.seq < h.seq /\ e # h
    <3>1. e # h
      BY <2>5
    <3>2. e.seq # h.seq
      BY <1>2, <1>13, <2>4, <3>1 DEF Ordered
    <3> QED  BY <2>4, <3>1, <3>2
  <2>7. PICK l \in TreeLevels : \E f \in w[l] : e \in f.entries
    BY <1>7, <2>5
  <2>8. PICK f \in w[l] : e \in f.entries
    BY <2>7
  <2>9. CASE f \in O
    <3>1. e \in EntriesOf(O) /\ e \in Inputs(c)
      BY <2>8, <2>9 DEF EntriesOf, OutputsSound
    <3>2. Hidden(c, Inputs(c), e)
      BY <1>13, <2>1, <2>3, <2>6 DEF Hidden
    <3> QED  BY <3>1, <3>2 DEF Kept
  <2>10. CASE f \in files[l] /\ ~ IsInput(c, l, f)
    <3>1. l \in Nat /\ L + 2 \in Nat
      BY <1>5 DEF TreeLevels
    <3>2. CASE l < L
      <4>1. PICK j \in {L, L + 1} : \E g \in files[j] : h \in g.entries
        BY <1>5, <2>1
      <4>2. l < j /\ j \in TreeLevels
        BY <1>5, <3>1, <3>2
      <4>3. PICK g \in files[j] : h \in g.entries
        BY <4>1
      <4>4. Newer(f.entries, g.entries, split)
        BY <1>3, <2>10, <4>2, <4>3 DEF LevelsOrdered
      <4>5. e.seq > h.seq
        BY <1>13, <2>8, <4>3, <4>4 DEF Newer
      <4> QED  BY <2>4, <2>6, <4>5
    <3>3. CASE l = L
      <4>1. Newer(f.entries, Inputs(c), split)
        BY <1>1, <2>10, <3>3 DEF InputsSound, IsInput, L
      <4>2. e.seq > h.seq
        BY <1>13, <2>1, <2>8, <4>1 DEF Newer
      <4> QED  BY <2>4, <2>6, <4>2
    <3>4. CASE l = L + 1
      <4>1. Apart(f.entries, Inputs(c), split)
        BY <1>1, <2>10, <3>4 DEF InputsSound, IsInput, L
      <4> QED  BY <1>13, <2>1, <2>8, <4>1 DEF Apart
    <3>5. CASE l >= L + 2
      <4>1. l \in L + 2 .. kNumLevels - 1
        BY <3>1, <3>5 DEF TreeLevels
      <4>2. f \in c.version[l] \/ Apart(f.entries, Inputs(c), {})
        BY <1>1, <2>10, <4>1 DEF InputsSound, L
      <4>3. ~ Apart(f.entries, Inputs(c), {})
        BY <1>13, <2>1, <2>8 DEF Apart
      <4>4. ~ OverlapsUser(f, k, k)
        BY <2>3, <4>1, <4>2, <4>3 DEF IsBaseLevelForKey, OverlapInLevel, Overlapping, L
      <4>5. Smallest(f).key <= k /\ k <= Largest(f).key
        BY <1>8, <2>8, <2>10, FileEnds
      <4> QED  BY <4>4, <4>5 DEF OverlapsUser
    <3> QED  BY <1>5, <3>1, <3>2, <3>3, <3>4, <3>5
  <2> QED  BY <1>4, <2>8, <2>9, <2>10
<1> QED  BY <1>14, <1>15

----------------------------------------------------------------------------
(* The levels of the database: reading.                                    *)

LEMMA NewestAlone ==
    ASSUME NEW E, Ordered(E), NEW k, NEW s
    PROVE  /\ \A h \in NewestIn(E, k, s) : h \in E /\ h.key = k /\ h.seq <= s /\ NewestIn(E, k, s) = {h}
           /\ \A e \in E : e.key = k /\ e.seq <= s => NewestIn(E, k, s) # {}
<1>1. \A e \in E : e.seq \in Nat
  BY DEF Ordered, TreeEntry
<1>2. ASSUME NEW h \in NewestIn(E, k, s)
      PROVE  h \in E /\ h.key = k /\ h.seq <= s /\ NewestIn(E, k, s) = {h}
  <2>1. \A o \in NewestIn(E, k, s) : o \in E /\ o.key = k /\ o.seq <= s /\ o.seq <= h.seq /\ h.seq <= o.seq
    BY <1>2 DEF NewestIn
  <2>2. \A o \in NewestIn(E, k, s) : o = h
    BY <1>1, <1>2, <2>1 DEF Ordered
  <2> QED  BY <1>2, <2>1, <2>2
<1>3. ASSUME NEW e \in E, e.key = k, e.seq <= s PROVE NewestIn(E, k, s) # {}
  <2> DEFINE C == {o \in E : o.key = k /\ o.seq <= s}
  <2>1. C \in SUBSET E /\ C # {}
    BY <1>3
  <2>2. Ordered(C)
    BY <2>1, SubOrdered
  <2>3. FirstIn(C) \in C /\ \A o \in C \ {FirstIn(C)} : Before(FirstIn(C), o)
    BY <2>1, <2>2, Extremes
  <2>4. \A o \in C : o.key = k /\ o.seq \in Nat
    BY <1>1
  <2>5. k \in Nat
    BY <1>3, TreeAssumption DEF Ordered, TreeEntry
  <2>6. \A o \in C : o.seq <= FirstIn(C).seq
    <3> HIDE DEF C
    <3> QED  BY <2>3, <2>4, <2>5 DEF Before
  <2> QED  BY <2>3, <2>6 DEF NewestIn
<1> QED  BY <1>2, <1>3

\* The binary search finds the only file of a level that has a whole key.
LEMMA FileFound ==
    ASSUME Ordered(hist), nextFile \in Nat, VersionSound(files, hist, nextFile, split),
           NEW l \in TreeLevels, l # 0, NEW f \in files[l], NEW h \in f.entries, h.key \notin split,
           NEW s \in Nat, h.seq <= s
    PROVE  f \in FindFile(files[l], [key |-> h.key, seq |-> s]) /\ Smallest(f).key <= h.key
<1> DEFINE key == [key |-> h.key, seq |-> s]
           C == {g \in files[l] : ~ Before(Largest(g), key)}
<1>1. FilesTyped(files, hist, nextFile) /\ LevelsApart(files, split)
  BY DEF VersionSound
<1>2. \A g \in files[l] : IsFile(g)
  BY <1>1, TypedFiles
<1>3. /\ h.key \in Nat /\ h.seq \in Nat /\ Smallest(f).key <= h.key /\ h.key <= Largest(f).key
      /\ h # Largest(f) => Before(h, Largest(f))
      /\ Smallest(f) \in f.entries
      /\ Largest(f).key \in Nat /\ Largest(f).seq \in Nat
  BY <1>2, FileEnds
<1>4. f \in C
  <2>1. ~ Before(Largest(f), key)
    BY <1>3 DEF Before
  <2> QED  BY <2>1
<1>5. ASSUME NEW g \in C \ {f} PROVE BySmallestKey(f, g)
  <2>1. /\ Smallest(g) \in g.entries /\ Largest(g) \in g.entries
        /\ Largest(g).key \in Nat /\ Largest(g).seq \in Nat
    BY <1>2, FileEnds
  <2>2. Beside(f.entries, g.entries) /\ Apart(g.entries, f.entries, split)
    BY <1>1 DEF LevelsApart
  <2>3. ~ Precede(g.entries, f.entries)
    <3>1. ASSUME Before(Largest(g), h) PROVE FALSE
      <4>1. Largest(g).key # h.key
        BY <2>1, <2>2 DEF Apart
      <4>2. Before(Largest(g), key)
        BY <1>3, <2>1, <3>1, <4>1 DEF Before
      <4> QED  BY <1>5, <4>2
    <3> QED  BY <2>1, <3>1 DEF Precede
  <2>4. Before(Smallest(f), Smallest(g))
    BY <1>3, <2>1, <2>2, <2>3 DEF Beside, Precede
  <2> QED  BY <2>4 DEF BySmallestKey
<1> QED  BY <1>3, <1>4, <1>5 DEF FindFile, IsFirstOf

LEMMA VersionReads ==
    ASSUME HistorySound, nextFile \in Nat, VersionSound(files, hist, nextFile, split),
           NEW k \in TreeKeys, k \notin split, NEW s \in Nat
    PROVE  /\ (\A e \in Filed(files) : e.key = k => e.seq > s) => VersionGet(files, k, s) = {}
           /\ \A h \in NewestIn(hist, k, s) : h \in Filed(files) => VersionGet(files, k, s) = {h}
<1> DEFINE hits == {a \in Searched(files, k, s) : NewestIn(a[2].entries, k, s) # {}}
<1>1. /\ FilesTyped(files, hist, nextFile) /\ NumbersUnique(files)
      /\ LevelZeroOrdered(files, split) /\ LevelsApart(files, split) /\ LevelsOrdered(files, split)
      /\ Ordered(hist) /\ 0 \in TreeLevels
  BY TreeAssumption DEF VersionSound, HistorySound, TreeLevels
<1>2. \A l \in TreeLevels : \A f \in files[l] : f.entries \subseteq hist /\ IsFile(f) /\ Ordered(f.entries) /\ f.num \in Nat
  BY <1>1, TypedFiles DEF IsFile
<1>3. \A e \in hist : e.seq \in Nat
  BY <1>1 DEF Ordered, TreeEntry
<1>4. \A a \in Searched(files, k, s) : a[1] \in TreeLevels /\ a[2] \in files[a[1]] /\ a = <<a[1], a[2]>>
  BY DEF Searched, Overlapping, FindFile
<1>5. ASSUME NEW a \in hits
      PROVE  /\ a[1] \in TreeLevels /\ a[2] \in files[a[1]] /\ a = <<a[1], a[2]>>
             /\ \E e \in a[2].entries : e.key = k /\ e.seq <= s
  BY <1>2, <1>4, <1>5, NewestAlone
<1>6. ASSUME \A e \in Filed(files) : e.key = k => e.seq > s PROVE VersionGet(files, k, s) = {}
  <2>1. hits = {}
    <3> SUFFICES ASSUME NEW a \in hits PROVE FALSE
      OBVIOUS
    <3>1. PICK e \in a[2].entries : e.key = k /\ e.seq <= s
      BY <1>5
    <3>2. e \in Filed(files) /\ e.seq \in Nat
      BY <1>2, <1>3, <1>5 DEF Filed, EntriesOf
    <3> QED  BY <1>6, <3>1, <3>2
  <2>2. {a \in hits : SearchedFirst(a, hits)} = {}
    BY <2>1
  <2> HIDE DEF hits
  <2>3. VersionGet(files, k, s) = UNION {NewestIn(a[2].entries, k, s) : a \in {b \in hits : SearchedFirst(b, hits)}}
    BY DEF VersionGet, hits
  <2> QED  BY <2>2, <2>3
<1>7. ASSUME NEW h \in NewestIn(hist, k, s), h \in Filed(files) PROVE VersionGet(files, k, s) = {h}
  <2>1. /\ h \in hist /\ h.key = k /\ h.seq <= s /\ h.seq \in Nat
        /\ \A o \in hist : o.key = k /\ o.seq <= s => o.seq <= h.seq
    BY <1>3, <1>7 DEF NewestIn
  <2>2. PICK l \in TreeLevels : \E f \in files[l] : h \in f.entries
    BY <1>7 DEF Filed, EntriesOf
  <2>3. PICK f \in files[l] : h \in f.entries
    BY <2>2
  <2> DEFINE a == <<l, f>>
  <2>4. NewestIn(f.entries, k, s) = {h}
    <3>1. h \in NewestIn(f.entries, k, s)
      BY <1>2, <2>1, <2>3 DEF NewestIn
    <3> QED  BY <1>2, <3>1, NewestAlone
  <2>5. a \in hits
    <3>1. a \in TreeLevels \X UNION {files[m] : m \in TreeLevels} /\ a[1] = l /\ a[2] = f
      BY <2>3
    <3>2. f \in IF l = 0 THEN Overlapping(files[0], k, k)
                ELSE {g \in FindFile(files[l], [key |-> k, seq |-> s]) : Smallest(g).key <= k}
      <4>1. CASE l = 0
        <5>1. Smallest(f).key <= k /\ Largest(f).key >= k /\ Largest(f).key \in Nat /\ k \in Nat
          BY <1>2, <2>1, <2>3, FileEnds
        <5> QED  BY <2>3, <4>1, <5>1 DEF Overlapping, OverlapsUser
      <4>2. CASE l # 0
        BY <1>1, <2>1, <2>3, <4>2, FileFound
      <4> QED  BY <4>1, <4>2
    <3>3. a \in Searched(files, k, s)
      BY <3>1, <3>2 DEF Searched
    <3> QED  BY <2>4, <3>1, <3>3
  <2>6. ASSUME NEW b \in hits, b # a PROVE l < b[1] \/ (l = 0 /\ b[1] = 0 /\ f.num > b[2].num)
    <3> DEFINE m == b[1]
               g == b[2]
    <3>1. m \in TreeLevels /\ g \in files[m] /\ b = <<m, g>>
      BY <1>5, <2>6
    <3>2. PICK e \in g.entries : e.key = k /\ e.seq <= s
      BY <1>5, <2>6
    <3> HIDE DEF m, g
    <3>3. e \in hist /\ e.seq \in Nat /\ e.seq <= h.seq
      BY <1>2, <1>3, <2>1, <3>1, <3>2
    <3>4. CASE m < l
      <4>1. Newer(g.entries, f.entries, split)
        BY <1>1, <2>3, <3>1, <3>4 DEF LevelsOrdered
      <4>2. e.seq > h.seq
        BY <2>1, <2>3, <3>2, <4>1 DEF Newer
      <4> QED  BY <2>1, <3>3, <4>2
    <3>5. CASE m = l
      <4>1. g # f
        BY <2>6, <3>1, <3>5
      <4>2. l = 0
        <5> SUFFICES ASSUME l # 0 PROVE FALSE
          OBVIOUS
        <5>1. Apart(g.entries, f.entries, split)
          BY <1>1, <2>3, <3>1, <3>5, <4>1 DEF LevelsApart
        <5> QED  BY <2>1, <2>3, <3>2, <5>1 DEF Apart
      <4>3. f.num # g.num
        BY <1>1, <2>3, <3>1, <4>1 DEF NumbersUnique
      <4>4. ~ (g.num > f.num)
        <5> SUFFICES ASSUME g.num > f.num PROVE FALSE
          OBVIOUS
        <5>1. Newer(g.entries, f.entries, split)
          BY <1>1, <2>3, <3>1, <3>5, <4>2 DEF LevelZeroOrdered
        <5>2. e.seq > h.seq
          BY <2>1, <2>3, <3>2, <5>1 DEF Newer
        <5> QED  BY <2>1, <3>3, <5>2
      <4>5. f.num > g.num
        BY <1>2, <2>3, <3>1, <4>3, <4>4
      <4> QED  BY <3>5, <4>2, <4>5 DEF m, g
    <3> QED  BY <3>1, <3>4, <3>5 DEF TreeLevels, m, g
  <2> HIDE DEF hits
  <2>7. SearchedFirst(a, hits)
    BY <2>5, <2>6 DEF SearchedFirst
  <2>8. ASSUME NEW b \in hits, SearchedFirst(b, hits) PROVE b = a
    <3> SUFFICES ASSUME b # a PROVE FALSE
      OBVIOUS
    <3>1. b[1] < l \/ (b[1] = 0 /\ l = 0 /\ b[2].num > f.num)
      BY <2>5, <2>8 DEF SearchedFirst
    <3>2. l < b[1] \/ (l = 0 /\ b[1] = 0 /\ f.num > b[2].num)
      BY <2>6, <2>8
    <3>3. b[1] \in Int /\ l \in Int /\ f.num \in Nat /\ b[2].num \in Nat
      BY <1>2, <1>4, <2>3, <2>8 DEF TreeLevels, hits
    <3> QED  BY <3>1, <3>2, <3>3
  <2>9. {b \in hits : SearchedFirst(b, hits)} = {a}
    BY <2>5, <2>7, <2>8
  <2>10. VersionGet(files, k, s) = UNION {NewestIn(b[2].entries, k, s) : b \in {q \in hits : SearchedFirst(q, hits)}}
    BY DEF VersionGet, hits
  <2>11. a[2] = f
    OBVIOUS
  <2> HIDE DEF a
  <2> QED  BY <2>4, <2>9, <2>10, <2>11
<1> QED  BY <1>6, <1>7

LEMMA ReadsRight ==
    ASSUME HistorySound, nextFile \in Nat, VersionSound(files, hist, nextFile, split),
           NEW k \in TreeKeys, k \notin split, NEW s \in Nat,
           Visible(memtable \cup Filed(files), hist, k, s)
    PROVE  Get(k, s) = Live(NewestIn(hist, k, s))
<1> DEFINE N == NewestIn(hist, k, s)
           m == NewestIn(memtable, k, s)
<1>1. /\ Ordered(hist) /\ memtable \in SUBSET hist /\ \A a \in memtable, b \in Filed(files) : a.seq > b.seq
      /\ \A e \in hist : e.seq \in Nat
  BY DEF HistorySound, Ordered, TreeEntry
<1>2. Ordered(memtable)
  BY <1>1, SubOrdered
<1>3. Filed(files) \subseteq hist
  <2>1. \A l \in TreeLevels : \A f \in files[l] : f.entries \subseteq hist
    BY <1>1, TypedFiles DEF VersionSound
  <2> QED  BY <2>1 DEF Filed, EntriesOf
<1>4. \A h \in N : h \in hist /\ h.key = k /\ h.seq <= s /\ N = {h} /\ \A o \in hist : o.key = k /\ o.seq <= s => o.seq <= h.seq
  BY <1>1, NewestAlone DEF NewestIn
<1>5. \A e \in hist : e.key = k /\ e.seq <= s => N # {}
  BY <1>1, NewestAlone
<1>6. \A h \in m : h \in memtable /\ h.key = k /\ h.seq <= s /\ m = {h}
  BY <1>2, NewestAlone
<1>7. \A e \in memtable : e.key = k /\ e.seq <= s => m # {}
  BY <1>2, NewestAlone
<1> HIDE DEF N, m
<1>8. CASE N = {}
  <2>1. m = {}
    BY <1>1, <1>5, <1>6, <1>8
  <2>2. VersionGet(files, k, s) = {}
    <3>1. \A e \in Filed(files) : e.key = k => e.seq > s
      BY <1>1, <1>3, <1>5, <1>8
    <3> QED  BY <3>1, VersionReads
  <2> QED  BY <1>8, <2>1, <2>2 DEF Get, N, m
<1>9. ASSUME NEW h \in N, h \in memtable PROVE Get(k, s) = Live(N)
  <2>1. h.key = k /\ h.seq <= s /\ N = {h}
    BY <1>4, <1>9
  <2>2. PICK g \in m : TRUE
    BY <1>7, <1>9, <2>1
  <2>3. h \in m
    BY <1>1, <1>4, <1>9 DEF m, NewestIn
  <2>4. m = {h}
    BY <1>6, <2>3
  <2> QED  BY <2>1, <2>4 DEF Get, m
<1>10. ASSUME NEW h \in N, h \notin memtable, h \in Filed(files) PROVE Get(k, s) = Live(N)
  <2>1. m = {}
    <3> SUFFICES ASSUME NEW g \in m PROVE FALSE
      OBVIOUS
    <3>1. g.seq > h.seq /\ g.seq <= h.seq /\ g.seq \in Nat /\ h.seq \in Nat
      BY <1>1, <1>4, <1>6, <1>10
    <3> QED  BY <3>1
  <2>2. VersionGet(files, k, s) = {h}
    BY <1>10, VersionReads DEF N
  <2>3. N = {h}
    BY <1>4, <1>10
  <2> QED  BY <2>1, <2>2, <2>3 DEF Get, m
<1>11. ASSUME NEW h \in N, h \notin memtable \cup Filed(files) PROVE Get(k, s) = Live(N)
  <2>1. h.type = "deletion" /\ \A e \in memtable \cup Filed(files) : e.key = k => e.seq > s
    BY <1>11 DEF Visible, N
  <2>2. m = {}
    BY <1>1, <1>6, <2>1
  <2>3. VersionGet(files, k, s) = {}
    BY <2>1, VersionReads
  <2>4. N = {h}
    BY <1>4, <1>11
  <2>5. Live({}) = {} /\ Live({h}) = {}
    BY <2>1 DEF Live
  <2> QED  BY <2>2, <2>3, <2>4, <2>5 DEF Get, m
<1> QED  BY <1>8, <1>9, <1>10, <1>11 DEF N

----------------------------------------------------------------------------
(* The levels of the database: the invariant.                              *)

LEMMA Times ==
    ASSUME HistorySound
    PROVE  LastSequence \in Nat /\ \A s \in snapshots \cup {LastSequence} : s \in Nat /\ s <= LastSequence
<1>1. LastSequence \in Nat
  BY FS_CardinalityType DEF LastSequence, HistorySound, Ordered
<1> QED  BY <1>1 DEF HistorySound

LEMMA TreeInvSound ==
    ASSUME TreeInv PROVE TreeSound
<1>1. HistorySound /\ nextFile \in Nat /\ VersionSound(files, hist, nextFile, split)
  BY DEF TreeInv, ChoiceSound
<1>2. WholeKeysCorrect
  <2> SUFFICES ASSUME NEW k \in TreeKeys \ split, NEW s \in snapshots \cup {LastSequence}
               PROVE  Get(k, s) = Live(NewestIn(hist, k, s))
    BY DEF WholeKeysCorrect, LookupCorrect
  <2>1. Visible(memtable \cup Filed(files), hist, k, s)
    BY DEF TreeInv
  <2>2. s \in Nat
    BY <1>1, Times
  <2> QED  BY <1>1, <2>1, <2>2, ReadsRight
<1>3. LevelsDisjoint
  <2>1. FilesTyped(files, hist, nextFile) /\ NumbersUnique(files) /\ LevelsApart(files, split) /\ Ordered(hist)
    BY <1>1 DEF VersionSound, HistorySound
  <2>2. ASSUME NEW l \in 1 .. kNumLevels - 1, NEW f \in files[l], NEW g \in files[l], f # g
        PROVE  Before(Largest(f), Smallest(g)) \/ Before(Largest(g), Smallest(f))
    <3>1. l \in TreeLevels \ {0}
      BY DEF TreeLevels
    <3>2. Beside(f.entries, g.entries)
      BY <2>1, <2>2, <3>1 DEF LevelsApart
    <3>3. IsFile(f) /\ IsFile(g)
      BY <1>1, <2>1, <3>1, TypedFiles
    <3>4. /\ Smallest(f) \in f.entries /\ Largest(f) \in f.entries
          /\ Smallest(g) \in g.entries /\ Largest(g) \in g.entries
      BY <3>3, FileEnds
    <3> QED  BY <3>2, <3>4 DEF Beside, Precede
  <2>3. compaction # NoCompaction => compaction.in0 \subseteq files[compaction.level]
                                  /\ compaction.in1 \subseteq files[compaction.level + 1]
    BY DEF TreeInv, CompactionSound, InputsSound
  <2> QED  BY <2>1, <2>2, <2>3 DEF LevelsDisjoint, NumbersUnique
<1> QED  BY <1>2, <1>3 DEF TreeSound

LEMMA TreeInitial ==
    ASSUME TreeInit PROVE TreeInv
<1>1. IsFiniteSet({}) /\ Cardinality({}) = 0
  BY FS_EmptySet
<1>2. HistorySound
  <2>1. Filed(files) = {}
    BY DEF TreeInit, Filed, EntriesOf
  <2> QED  BY <1>1, <2>1 DEF TreeInit, HistorySound, Ordered
<1>3. ChoiceSound
  BY DEF TreeInit, ChoiceSound, NoRequest
<1>4. VersionSound(files, hist, nextFile, split)
  <2>1. \A l \in TreeLevels : files[l] = {}
    BY DEF TreeInit
  <2>2. 0 \in TreeLevels
    BY TreeAssumption DEF TreeLevels
  <2>3. files \in [TreeLevels -> SUBSET TreeFile(hist, nextFile)]
    BY DEF TreeInit
  <2> QED  BY <1>1, <2>1, <2>2, <2>3 DEF VersionSound, FilesTyped, NumbersUnique, LevelZeroOrdered, LevelsApart, LevelsOrdered
<1>5. \A k, s : Visible(memtable \cup Filed(files), hist, k, s)
  BY DEF TreeInit, Visible, NewestIn
<1> QED  BY <1>2, <1>3, <1>4, <1>5 DEF TreeInv, TreeInit

\* What a step has to show that neither writes nor moves an entry.
LEMMA SameEntries ==
    ASSUME TreeInv, UNCHANGED <<hist, split, memtable, files, nextFile>>,
           snapshots' \subseteq snapshots \cup {LastSequence}, ChoiceSound',
           compaction' # NoCompaction => CompactionSound(compaction')
    PROVE  TreeInv'
<1>1. LastSequence' = LastSequence /\ Filed(files)' = Filed(files)
  BY DEF LastSequence
<1>2. snapshots' \cup {LastSequence'} \subseteq snapshots \cup {LastSequence}
  BY <1>1
<1>3. HistorySound'
  <2>1. HistorySound /\ LastSequence \in Nat
    BY Times DEF TreeInv
  <2> QED  BY <1>1, <2>1 DEF HistorySound
<1>4. VersionSound(files, hist, nextFile, split)'
  BY DEF TreeInv
<1>5. (compaction # NoCompaction => CompactionSound(compaction))'
  BY <1>1, <1>2 DEF CompactionSound
<1>6. \A k \in TreeKeys \ split', s \in snapshots' \cup {LastSequence'} :
        Visible(memtable' \cup Filed(files'), hist', k, s)
  BY <1>1, <1>2 DEF TreeInv
<1> QED  BY <1>3, <1>4, <1>5, <1>6 DEF TreeInv

----------------------------------------------------------------------------
(* The levels of the database: the steps.                                  *)

LEMMA WriteKeeps ==
    ASSUME TreeInv, NEW k \in TreeKeys, NEW t \in {"value", "deletion"}, TreeWrite(k, t)
    PROVE  TreeInv'
<1> DEFINE e == [key |-> k, seq |-> LastSequence + 1, type |-> t]
           P == memtable \cup Filed(files)
<1>1. /\ HistorySound /\ ChoiceSound /\ VersionSound(files, hist, nextFile, split)
      /\ hist' = hist \cup {e} /\ memtable' = memtable \cup {e}
      /\ UNCHANGED <<split, files, nextFile, compactPtr, fileToCompact, snapshots, manual, compaction>>
  BY DEF TreeInv, TreeWrite
<1>2. /\ LastSequence \in Nat /\ \A s \in snapshots : s \in Nat /\ s <= LastSequence
  BY <1>1, Times
<1>3. /\ e \in TreeEntry /\ e.key = k /\ e.seq = LastSequence + 1
  BY <1>2 DEF TreeEntry
<1> HIDE DEF e
<1>4. /\ Ordered(hist) /\ \A o \in hist : o.seq \in Nat /\ o.seq <= LastSequence /\ o.seq # e.seq
      /\ Filed(files) \subseteq hist /\ memtable \subseteq hist
  <2>1. Ordered(hist) /\ memtable \subseteq hist /\ \A o \in hist : o.seq \in 1 .. LastSequence
    BY <1>1 DEF HistorySound
  <2>2. \A l \in TreeLevels : \A f \in files[l] : f.entries \subseteq hist
    BY <1>1, <2>1, TypedFiles DEF VersionSound, ChoiceSound
  <2> QED  BY <1>2, <1>3, <2>1, <2>2 DEF Filed, EntriesOf
<1>5. LastSequence' = LastSequence + 1 /\ IsFiniteSet(hist')
  <2>1. e \notin hist /\ IsFiniteSet(hist)
    BY <1>4 DEF Ordered
  <2> QED  BY <1>1, <2>1, FS_AddElement DEF LastSequence
<1>6. HistorySound'
  <2>1. Ordered(hist')
    BY <1>1, <1>3, <1>4, <1>5 DEF Ordered
  <2>2. \A o \in hist' : o.seq \in 1 .. LastSequence'
    BY <1>1, <1>2, <1>3, <1>4, <1>5 DEF HistorySound
  <2>3. \A a \in memtable', b \in Filed(files') : a.seq > b.seq
    <3>1. \A b \in Filed(files) : e.seq > b.seq
      BY <1>2, <1>3, <1>4
    <3> QED  BY <1>1, <3>1 DEF HistorySound
  <2>4. memtable' \subseteq hist' /\ snapshots' \subseteq 0 .. LastSequence'
    BY <1>1, <1>2, <1>4, <1>5
  <2> QED  BY <2>1, <2>2, <2>3, <2>4 DEF HistorySound
<1>7. VersionSound(files, hist, nextFile, split)'
  <2>1. \A l \in TreeLevels : files[l] \in SUBSET TreeFile(hist, nextFile)
    BY <1>1 DEF VersionSound, FilesTyped
  <2>2. TreeFile(hist, nextFile) \subseteq TreeFile(hist', nextFile)
    BY <1>1 DEF TreeFile
  <2>3. FilesTyped(files, hist', nextFile)
    BY <1>1, <2>1, <2>2 DEF VersionSound, FilesTyped
  <2> QED  BY <1>1, <2>3 DEF VersionSound
<1>8. (compaction # NoCompaction => CompactionSound(compaction))'
  <2>1. ASSUME compaction # NoCompaction, CompactionSound(compaction) PROVE CompactionSound(compaction)'
    <3>1. compaction.smallestSnapshot \in Nat /\ \A s \in snapshots \cup {LastSequence} : compaction.smallestSnapshot <= s
      BY <2>1 DEF CompactionSound
    <3>2. compaction.smallestSnapshot <= LastSequence + 1
      BY <1>2, <3>1
    <3>3. \A s \in snapshots' \cup {LastSequence'} : compaction.smallestSnapshot <= s
      BY <1>1, <1>5, <3>1, <3>2
    <3> QED  BY <1>1, <2>1, <3>3 DEF CompactionSound
  <2> QED  BY <1>1, <2>1 DEF TreeInv
<1>9. ASSUME NEW j \in TreeKeys \ split, NEW s \in snapshots \cup {LastSequence + 1}
      PROVE  Visible(P \cup {e}, hist', j, s)
  <2> SUFFICES ASSUME NEW h \in NewestIn(hist', j, s), h # e, h \notin P
               PROVE  h.type = "deletion" /\ \A o \in P \cup {e} : o.key = j => o.seq > s
    BY DEF Visible
  <2>1. h \in hist /\ h.key = j /\ h.seq <= s /\ \A o \in hist' : o.key = j /\ o.seq <= s => o.seq <= h.seq
    BY <1>1 DEF NewestIn
  <2>2. CASE s \in snapshots
    <3>1. h \in NewestIn(hist, j, s)
      BY <1>1, <2>1 DEF NewestIn
    <3>2. Visible(P, hist, j, s)
      BY <2>2 DEF TreeInv
    <3>3. h.type = "deletion" /\ \A o \in P : o.key = j => o.seq > s
      BY <3>1, <3>2 DEF Visible
    <3>4. e.seq > s
      BY <1>2, <1>3, <2>2
    <3> QED  BY <3>3, <3>4
  <2>3. CASE s = LastSequence + 1
    <3>1. j # k
      BY <1>1, <1>2, <1>3, <1>4, <2>1, <2>3
    <3>2. h \in NewestIn(hist, j, LastSequence)
      BY <1>1, <1>2, <1>4, <2>1, <2>3 DEF NewestIn
    <3>3. Visible(P, hist, j, LastSequence)
      BY DEF TreeInv
    <3>4. h.type = "deletion" /\ \A o \in P : o.key = j => o.seq > LastSequence
      BY <3>2, <3>3 DEF Visible
    <3>5. \A o \in P : o.key # j
      BY <1>2, <1>4, <3>4
    <3> QED  BY <1>3, <3>1, <3>4, <3>5
  <2> QED  BY <2>2, <2>3
<1>10. memtable' \cup Filed(files') = P \cup {e}
  BY <1>1
<1>11. \A j \in TreeKeys \ split', s \in snapshots' \cup {LastSequence'} :
        Visible(memtable' \cup Filed(files'), hist', j, s)
  <2> HIDE DEF P
  <2> QED  BY <1>1, <1>5, <1>9, <1>10
<1>12. ChoiceSound'
  BY <1>1 DEF ChoiceSound
<1> QED  BY <1>6, <1>7, <1>8, <1>11, <1>12 DEF TreeInv

\* A memtable goes to level 0, or below levels that have nothing in its range.
LEMMA LevelFree ==
    ASSUME NEW lo \in TreeKeys, NEW hi \in TreeKeys, lo <= hi, NEW l \in PickLevelForMemTableOutput(files, lo, hi)
    PROVE  /\ l \in TreeLevels /\ l <= kMaxMemCompactLevel
           /\ l # 0 => \A m \in 0 .. l : Overlapping(files[m], lo, hi) = {}
<1>1. CASE OverlapInLevel(files, 0, lo, hi)
  BY <1>1, TreeAssumption DEF PickLevelForMemTableOutput, TreeLevels
<1>2. CASE ~ OverlapInLevel(files, 0, lo, hi)
  <2>1. l \in 0 .. kMaxMemCompactLevel /\ \A m \in 0 .. l - 1 : MayPush(files, m, lo, hi)
    BY <1>2 DEF PickLevelForMemTableOutput
  <2>2. l \in TreeLevels
    BY <2>1, TreeAssumption DEF TreeLevels
  <2>3. \A m \in 0 .. l : m = 0 \/ m - 1 \in 0 .. l - 1
    BY <2>1
  <2>4. ASSUME NEW m \in 0 .. l PROVE Overlapping(files[m], lo, hi) = {}
    <3>1. CASE m = 0
      BY <1>2, <3>1 DEF OverlapInLevel
    <3>2. CASE m # 0
      <4>1. MayPush(files, m - 1, lo, hi) /\ m - 1 + 1 = m
        BY <2>1, <2>3, <3>2
      <4> QED  BY <4>1 DEF MayPush, OverlapInLevel
    <3> QED  BY <3>1, <3>2
  <2>5. l <= kMaxMemCompactLevel
    BY <2>1
  <2> QED  BY <2>2, <2>4, <2>5
<1> QED  BY <1>1, <1>2

LEMMA FlushKeeps ==
    ASSUME TreeInv, CompactMemTable
    PROVE  TreeInv'
<1> DEFINE f == [num |-> nextFile, entries |-> memtable]
<1>1. PICK l \in PickLevelForMemTableOutput(files, Smallest(f).key, Largest(f).key) :
          files' = [files EXCEPT ![l] = @ \cup {f}]
  BY DEF CompactMemTable
<1>2. /\ HistorySound /\ ChoiceSound /\ VersionSound(files, hist, nextFile, split)
      /\ memtable # {} /\ memtable' = {} /\ nextFile' = nextFile + 1 /\ fileToCompact' = NoneYet
      /\ UNCHANGED <<hist, split, compactPtr, snapshots, manual, compaction>>
  BY DEF TreeInv, CompactMemTable
<1>3. /\ Ordered(hist) /\ memtable \in SUBSET hist /\ nextFile \in Nat \ {0}
      /\ FilesTyped(files, hist, nextFile) /\ NumbersUnique(files)
      /\ LevelZeroOrdered(files, split) /\ LevelsApart(files, split) /\ LevelsOrdered(files, split)
  BY <1>2 DEF HistorySound, ChoiceSound, VersionSound
<1>4. f.num = nextFile /\ f.entries = memtable
  OBVIOUS
<1>5. f \in TreeFile(hist, nextFile + 1) /\ IsFile(f)
  BY <1>2, <1>3, SubOrdered DEF TreeFile, IsFile
<1> HIDE DEF f
<1> DEFINE lo == Smallest(f).key
           hi == Largest(f).key
<1>6. /\ lo \in TreeKeys /\ hi \in TreeKeys /\ lo \in Nat /\ hi \in Nat /\ lo <= hi
      /\ \A e \in memtable : e.key \in Nat /\ lo <= e.key /\ e.key <= hi
  BY <1>4, <1>5, FileEnds
<1>7. /\ l \in TreeLevels /\ l \in Nat /\ l <= kMaxMemCompactLevel
      /\ l # 0 => \A m \in 0 .. l : Overlapping(files[m], lo, hi) = {}
  <2>1. /\ l \in TreeLevels /\ l <= kMaxMemCompactLevel
        /\ l # 0 => \A m \in 0 .. l : Overlapping(files[m], lo, hi) = {}
    BY <1>6, LevelFree
  <2> QED  BY <2>1 DEF TreeLevels
<1> HIDE DEF lo, hi
<1>8. \A m \in TreeLevels : files'[m] = IF m = l THEN files[l] \cup {f} ELSE files[m]
  BY <1>1, <1>3 DEF FilesTyped
<1>9. \A m \in TreeLevels : \A g \in files[m] :
        /\ IsFile(g) /\ g.num \in 1 .. nextFile - 1 /\ g.entries \subseteq Filed(files)
  <2>1. \A m \in TreeLevels : \A g \in files[m] : IsFile(g) /\ g.num \in 1 .. nextFile - 1
    BY <1>3, TypedFiles
  <2> QED  BY <2>1 DEF Filed, EntriesOf
<1>10. \A a \in memtable, b \in Filed(files) : a.seq > b.seq
  BY <1>2 DEF HistorySound
<1>11. \A m \in TreeLevels : \A g \in files[m] : f # g
  BY <1>3, <1>4, <1>9
<1>12. ASSUME l # 0, NEW m \in 0 .. l, NEW g \in files[m]
       PROVE  /\ (\A b \in g.entries : b.key < lo) \/ (\A b \in g.entries : b.key > hi)
              /\ \A b \in g.entries : b.key \in Nat
  <2>1. m \in TreeLevels
    BY <1>7, <1>12, TreeAssumption DEF TreeLevels
  <2>2. IsFile(g) /\ ~ OverlapsUser(g, lo, hi)
    BY <1>7, <1>9, <1>12, <2>1 DEF Overlapping
  <2> QED  BY <1>6, <2>2, Missed, FileEnds
<1>13. FilesTyped(files', hist, nextFile + 1)
  <2>1. TreeFile(hist, nextFile) \subseteq TreeFile(hist, nextFile + 1)
    BY <1>3 DEF TreeFile
  <2>2. \A m \in TreeLevels : files'[m] \in SUBSET TreeFile(hist, nextFile + 1) /\ IsFiniteSet(files'[m])
    BY <1>3, <1>5, <1>7, <1>8, <2>1, FS_AddElement DEF FilesTyped
  <2>3. files' \in [TreeLevels -> SUBSET TreeFile(hist, nextFile + 1)]
    BY <1>1, <1>3, <2>2 DEF FilesTyped
  <2> QED  BY <2>2, <2>3 DEF FilesTyped
<1>14. NumbersUnique(files')
  <2> SUFFICES ASSUME NEW i \in TreeLevels, NEW j \in TreeLevels, NEW x \in files'[i], NEW y \in files'[j], x.num = y.num
               PROVE  x = y /\ i = j
    BY DEF NumbersUnique
  <2>1. x \in files[i] \/ (x = f /\ i = l)
    BY <1>8
  <2>2. y \in files[j] \/ (y = f /\ j = l)
    BY <1>8
  <2>3. CASE x \in files[i] /\ y \in files[j]
    BY <1>3, <2>3 DEF NumbersUnique
  <2>4. CASE x \in files[i] /\ y = f
    BY <1>3, <1>4, <1>9, <2>4
  <2>5. CASE y \in files[j] /\ x = f
    BY <1>3, <1>4, <1>9, <2>5
  <2> QED  BY <2>1, <2>2, <2>3, <2>4, <2>5
<1>15. LevelZeroOrdered(files', split)
  <2> SUFFICES ASSUME NEW x \in files'[0], NEW y \in files'[0], x.num > y.num PROVE Newer(x.entries, y.entries, split)
    BY DEF LevelZeroOrdered
  <2>0. 0 \in TreeLevels
    BY TreeAssumption DEF TreeLevels
  <2>1. (x \in files[0] \/ x = f) /\ (y \in files[0] \/ y = f)
    BY <1>8, <2>0
  <2>2. CASE x \in files[0] /\ y \in files[0]
    BY <1>3, <2>2 DEF LevelZeroOrdered
  <2>3. CASE x = f /\ y \in files[0]
    BY <1>4, <1>9, <1>10, <2>0, <2>3 DEF Newer
  <2>4. CASE y = f
    BY <1>3, <1>4, <1>9, <2>0, <2>1, <2>4
  <2> QED  BY <2>1, <2>2, <2>3, <2>4
<1>16. LevelsApart(files', split)
  <2> SUFFICES ASSUME NEW i \in TreeLevels \ {0}, NEW x \in files'[i], NEW y \in files'[i], x # y
               PROVE  Beside(x.entries, y.entries) /\ Apart(x.entries, y.entries, split)
    BY DEF LevelsApart
  <2>1. (x \in files[i] \/ (x = f /\ i = l)) /\ (y \in files[i] \/ (y = f /\ i = l))
    BY <1>8
  <2>2. CASE x \in files[i] /\ y \in files[i]
    BY <1>3, <2>2 DEF LevelsApart
  <2>3. ASSUME i = l, NEW g \in files[l]
        PROVE  /\ Beside(f.entries, g.entries) /\ Beside(g.entries, f.entries)
               /\ Apart(f.entries, g.entries, split) /\ Apart(g.entries, f.entries, split)
    <3>1. (\A b \in g.entries : b.key < lo) \/ (\A b \in g.entries : b.key > hi)
      BY <1>7, <1>12, <2>3
    <3>2. \A b \in g.entries : b.key \in Nat
      BY <1>7, <1>12, <2>3
    <3>3. CASE \A b \in g.entries : b.key < lo
      BY <1>4, <1>6, <3>2, <3>3 DEF Beside, Precede, Apart, Before
    <3>4. CASE \A b \in g.entries : b.key > hi
      BY <1>4, <1>6, <3>2, <3>4 DEF Beside, Precede, Apart, Before
    <3> QED  BY <3>1, <3>3, <3>4
  <2> QED  BY <2>1, <2>2, <2>3
<1>17. LevelsOrdered(files', split)
  <2> SUFFICES ASSUME NEW i \in TreeLevels, NEW j \in TreeLevels, i < j, NEW x \in files'[i], NEW y \in files'[j]
               PROVE  Newer(x.entries, y.entries, split)
    BY DEF LevelsOrdered
  <2>1. (x \in files[i] \/ (x = f /\ i = l)) /\ (y \in files[j] \/ (y = f /\ j = l))
    BY <1>8
  <2>2. CASE x \in files[i] /\ y \in files[j]
    BY <1>3, <2>2 DEF LevelsOrdered
  <2>3. CASE x = f /\ y \in files[j]
    BY <1>4, <1>9, <1>10, <2>3 DEF Newer
  <2>4. CASE x \in files[i] /\ y = f /\ j = l
    <3>1. l # 0 /\ i \in 0 .. l
      BY <1>7, <2>4 DEF TreeLevels
    <3>2. (\A b \in x.entries : b.key < lo) \/ (\A b \in x.entries : b.key > hi)
      BY <1>12, <2>4, <3>1
    <3>3. \A b \in x.entries : b.key \in Nat
      BY <1>12, <2>4, <3>1
    <3>4. \A a \in x.entries, b \in memtable : a.key # b.key
      BY <1>6, <3>2, <3>3
    <3> QED  BY <1>4, <2>4, <3>4 DEF Newer
  <2> QED  BY <1>7, <2>1, <2>2, <2>3, <2>4
<1>18. VersionSound(files', hist, nextFile + 1, split)
  BY <1>13, <1>14, <1>15, <1>16, <1>17 DEF VersionSound
<1>19. Filed(files') = Filed(files) \cup memtable
  <2>1. \A m \in TreeLevels : EntriesOf(files'[m]) = IF m = l THEN EntriesOf(files[l]) \cup memtable ELSE EntriesOf(files[m])
    BY <1>4, <1>8 DEF EntriesOf
  <2> QED  BY <1>7, <2>1 DEF Filed
<1>20. ASSUME NEW c, InputsSound(c, files, split) PROVE InputsSound(c, files', split)
  <2>1. /\ c.level \in TreeLevels /\ c.level + 1 \in TreeLevels /\ c.level \in Nat
        /\ \A b \in Inputs(c) : \/ \E g \in files[c.level] : g \in c.in0 /\ b \in g.entries
                                \/ \E g \in files[c.level + 1] : g \in c.in1 /\ b \in g.entries
    BY <1>20, InputPlaces
  <2>2. c.in0 \subseteq files[c.level] /\ c.in1 \subseteq files[c.level + 1]
    BY <1>20 DEF InputsSound
  <2>3. Inputs(c) \subseteq Filed(files)
    BY <1>9, <2>1
  <2>4. \A g \in files'[c.level] \ c.in0 : Newer(g.entries, Inputs(c), split)
    <3> SUFFICES ASSUME NEW g \in files'[c.level] \ c.in0 PROVE Newer(g.entries, Inputs(c), split)
      OBVIOUS
    <3>1. CASE g \in files[c.level]
      BY <1>20, <3>1 DEF InputsSound
    <3>2. CASE g = f
      BY <1>4, <1>10, <2>3, <3>2 DEF Newer
    <3> QED  BY <1>8, <2>1, <3>1, <3>2
  <2>5. ASSUME c.level + 1 <= l, NEW b \in Inputs(c) PROVE b.key \in Nat /\ (b.key < lo \/ b.key > hi)
    <3>1. l # 0 /\ c.level \in 0 .. l /\ c.level + 1 \in 0 .. l
      BY <1>7, <2>1, <2>5
    <3> QED  BY <1>12, <2>1, <3>1
  <2>6. c.level + 1 <= l => Apart(f.entries, Inputs(c), {})
    BY <1>4, <1>6, <2>5 DEF Apart
  <2>7. \A g \in files'[c.level + 1] \ c.in1 : Beside(g.entries, Inputs(c)) /\ Apart(g.entries, Inputs(c), split)
    <3> SUFFICES ASSUME NEW g \in files'[c.level + 1] \ c.in1 PROVE Beside(g.entries, Inputs(c)) /\ Apart(g.entries, Inputs(c), split)
      OBVIOUS
    <3>1. CASE g \in files[c.level + 1]
      BY <1>20, <3>1 DEF InputsSound
    <3>2. CASE g = f /\ l = c.level + 1
      <4>1. Spanned(c.in0 \cup c.in1)
        <5>1. ~ (c.level >= kMaxMemCompactLevel)
          BY <1>7, <2>1, <3>2, TreeAssumption
        <5> QED  BY <1>20, <5>1 DEF InputsSound
      <4>2. Overlapping(c.in0 \cup c.in1, lo, hi) = {}
        <5>1. Overlapping(files[c.level], lo, hi) = {} /\ Overlapping(files[c.level + 1], lo, hi) = {}
          <6>1. l # 0 /\ c.level \in 0 .. l /\ c.level + 1 \in 0 .. l
            BY <2>1, <3>2
          <6> QED  BY <1>7, <6>1
        <5> QED  BY <2>2, <5>1 DEF Overlapping
      <4>3. (\A e \in Inputs(c) : e.key < lo) \/ (\A e \in Inputs(c) : e.key > hi)
        <5>1. lo \in TreeKeys /\ hi \in TreeKeys /\ lo <= hi
          BY <1>6
        <5>2. \/ \A e \in EntriesOf(c.in0 \cup c.in1) : e.key < lo
              \/ \A e \in EntriesOf(c.in0 \cup c.in1) : e.key > hi
          <6> HIDE DEF lo, hi
          <6> QED  BY <4>1, <4>2, <5>1 DEF Spanned
        <5> QED  BY <5>2 DEF Inputs
      <4>4. \A b \in Inputs(c) : b.key \in Nat
        <5>1. c.level + 1 <= l
          BY <2>1, <3>2
        <5> QED  BY <2>5, <5>1
      <4>5. Beside(f.entries, Inputs(c))
        BY <1>4, <1>6, <4>3, <4>4 DEF Beside, Precede, Before
      <4> QED  BY <2>6, <3>2, <4>5 DEF Apart
    <3> QED  BY <1>8, <2>1, <3>1, <3>2
  <2>8. ASSUME NEW m \in c.level + 2 .. kNumLevels - 1, NEW g \in files'[m]
        PROVE  g \in c.version[m] \/ Apart(g.entries, Inputs(c), {})
    <3>1. m \in TreeLevels
      BY <2>1 DEF TreeLevels
    <3>2. CASE g \in files[m]
      BY <1>20, <3>2 DEF InputsSound
    <3>3. CASE g = f /\ l = m
      BY <2>1, <2>6, <3>3
    <3> QED  BY <1>8, <3>1, <3>2, <3>3
  <2>9. c.in0 \subseteq files'[c.level] /\ c.in1 \subseteq files'[c.level + 1]
    BY <1>8, <2>1, <2>2
  <2> QED  BY <1>20, <2>4, <2>7, <2>8, <2>9 DEF InputsSound
<1>21. LastSequence' = LastSequence
  BY <1>2 DEF LastSequence
<1>22. (compaction # NoCompaction => CompactionSound(compaction))'
  BY <1>2, <1>20, <1>21 DEF TreeInv, CompactionSound
<1>23. HistorySound'
  BY <1>2, <1>21 DEF HistorySound
<1>24. ChoiceSound'
  <2>1. \A m \in TreeLevels : \A g \in files'[m] : g.num # 0
    BY <1>13 DEF FilesTyped, TreeFile
  <2> QED  BY <1>2, <1>3, <2>1 DEF ChoiceSound, NoneYet
<1>25. \A k \in TreeKeys \ split', s \in snapshots' \cup {LastSequence'} :
         Visible(memtable' \cup Filed(files'), hist', k, s)
  <2>1. memtable' \cup Filed(files') = memtable \cup Filed(files)
    BY <1>2, <1>19
  <2> QED  BY <1>2, <1>21, <2>1 DEF TreeInv
<1> QED  BY <1>2, <1>18, <1>22, <1>23, <1>24, <1>25 DEF TreeInv

\* A compaction that Begin may start from the inputs chosen.
LEMMA ChosenSound ==
    ASSUME TreeInv, NEW level \in 0 .. kNumLevels - 2, NEW in0 \in SUBSET files[level], in0 # {},
           UpperSound(level, in0), NEW isManual
    PROVE  CompactionSound(SetupOtherInputs(level, in0, isManual))
<1> DEFINE c == SetupOtherInputs(level, in0, isManual)
<1>1. HistorySound /\ Ordered(hist) /\ nextFile \in Nat /\ VersionSound(files, hist, nextFile, split)
  BY DEF TreeInv, ChoiceSound, HistorySound
<1>2. /\ InputsSound(c, files, split)
      /\ EntriesOf(c.grandparents) \subseteq hist
      /\ c.smallestSnapshot = IF snapshots = {} THEN LastSequence ELSE Oldest(snapshots)
  BY <1>1, InputsChosen
<1> HIDE DEF c
<1>3. LastSequence \in Nat /\ \A s \in snapshots : s \in Nat /\ s <= LastSequence
  BY <1>1, Times
<1>4. c.smallestSnapshot \in Nat /\ \A s \in snapshots \cup {LastSequence} : c.smallestSnapshot <= s
  <2>1. CASE snapshots = {}
    BY <1>2, <1>3, <2>1
  <2>2. CASE snapshots # {}
    <3>1. snapshots \in SUBSET Nat
      BY <1>3
    <3>2. \E s \in snapshots : \A t \in snapshots : s <= t
      BY <2>2, <3>1, LeastNumber
    <3>3. Oldest(snapshots) \in snapshots /\ \A t \in snapshots : Oldest(snapshots) <= t
      BY <3>2 DEF Oldest
    <3> QED  BY <1>2, <1>3, <2>2, <3>3
  <2> QED  BY <2>1, <2>2
<1>5. CompactionSound(c)
  BY <1>2, <1>4 DEF CompactionSound
<1> QED  BY <1>5 DEF c

LEMMA BeginKeeps ==
    ASSUME TreeInv, compaction = NoCompaction, NEW c, CompactionSound(c), Begin(c)
    PROVE  TreeInv'
<1>1. HistorySound /\ ChoiceSound /\ nextFile \in Nat /\ VersionSound(files, hist, nextFile, split) /\ Ordered(hist)
  BY DEF TreeInv, ChoiceSound, HistorySound
<1>2. UNCHANGED <<hist, split, memtable, nextFile, snapshots, manual>>
  BY DEF Begin
<1>3. CASE ~ IsTrivialMove(c)
  <2>1. compaction' = c /\ UNCHANGED <<files, fileToCompact>>
    BY <1>3 DEF Begin
  <2>2. ChoiceSound'
    BY <1>1, <1>2, <2>1 DEF ChoiceSound
  <2>3. CompactionSound(compaction')
    BY <2>1
  <2> QED  BY <1>2, <2>1, <2>2, <2>3, SameEntries
<1>4. CASE IsTrivialMove(c)
  <2> DEFINE w == Replaced(c, files, c.in0)
  <2>1. InputsSound(c, files, split)
    BY DEF CompactionSound
  <2>2. /\ OutputsSound(c, files, hist, nextFile, split, c.in0)
        /\ [files EXCEPT ![c.level] = @ \ c.in0, ![c.level + 1] = @ \cup c.in0] = w
        /\ Filed(w) = Filed(files)
    BY <1>1, <1>4, <2>1, MovedOutputs
  <2>3. VersionSound(w, hist, nextFile, split)
    <3>1. nextFile <= nextFile /\ split \subseteq split
      BY <1>1
    <3> DEFINE O == c.in0
    <3>2. OutputsSound(c, files, hist, nextFile, split, O)
      BY <2>2
    <3> HIDE DEF O
    <3>3. VersionSound(Replaced(c, files, O), hist, nextFile, split)
      BY <1>1, <2>1, <3>1, <3>2, ReplacedSound
    <3> QED  BY <3>3 DEF O
  <2> HIDE DEF w
  <2>4. files' = w /\ fileToCompact' = NoneYet /\ UNCHANGED compaction
    BY <1>4, <2>2 DEF Begin
  <2>5. LastSequence' = LastSequence
    BY <1>2 DEF LastSequence
  <2>6. HistorySound'
    BY <1>1, <1>2, <2>2, <2>4, <2>5 DEF HistorySound
  <2>7. ChoiceSound'
    <3>1. \A m \in TreeLevels : \A g \in files'[m] : g.num # 0
      BY <2>3, <2>4 DEF VersionSound, FilesTyped, TreeFile
    <3> QED  BY <1>1, <1>2, <2>4, <3>1 DEF ChoiceSound, NoneYet
  <2>8. \A k \in TreeKeys \ split', s \in snapshots' \cup {LastSequence'} :
           Visible(memtable' \cup Filed(files'), hist', k, s)
    BY <1>2, <2>2, <2>4, <2>5 DEF TreeInv
  <2> QED  BY <1>2, <1>4, <2>3, <2>4, <2>6, <2>7, <2>8 DEF TreeInv
<1> QED  BY <1>3, <1>4

LEMMA AutomaticKeeps ==
    ASSUME TreeInv, BeginAutomatic
    PROVE  TreeInv'
<1>1. PICK level \in TreeLevels : \E f \in files[level] : MayPick(level, f) /\ Begin(PickCompaction(level, f))
  BY DEF BeginAutomatic
<1>2. PICK f \in files[level] : MayPick(level, f) /\ Begin(PickCompaction(level, f))
  BY <1>1
<1>3. level \in 0 .. kNumLevels - 2
  <2>1. level <= kNumLevels - 2
    BY <1>2 DEF MayPick, IsCompactionLevel, TreeInv, ChoiceSound
  <2> QED  BY <2>1, TreeAssumption DEF TreeLevels
<1> DEFINE in0 == IF level = 0 THEN GetOverlappingInputs(files, 0, Smallest(f).key, Largest(f).key) ELSE {f}
<1>4. in0 \in SUBSET files[level] /\ in0 # {} /\ UpperSound(level, in0)
  <2>1. Ordered(hist) /\ nextFile \in Nat /\ VersionSound(files, hist, nextFile, split)
    BY DEF TreeInv, ChoiceSound, HistorySound
  <2> QED  BY <1>3, <2>1, PickedInputs
<1>5. PickCompaction(level, f) = SetupOtherInputs(level, in0, FALSE)
  BY DEF PickCompaction
<1> HIDE DEF in0
<1>6. CompactionSound(PickCompaction(level, f))
  BY <1>3, <1>4, <1>5, ChosenSound
<1>7. compaction = NoCompaction
  BY DEF BeginAutomatic
<1> QED  BY <1>2, <1>6, <1>7, BeginKeeps

LEMMA ManualKeeps ==
    ASSUME TreeInv, ManualBelowFlushes, BeginManual
    PROVE  TreeInv'
<1> DEFINE level == manual.level
           inputs == ManualInputs(level, manual.begin)
           SizeBefore(f) == TotalFileSize({g \in inputs \ {f} : BySmallestKey(g, f)})
           in0 == {f \in inputs : SizeBefore(f) < kTargetFileSize}
<1>1. level \in ManualLevels /\ inputs # {} /\ Begin(CompactRange(level, manual.begin))
  BY DEF BeginManual, TreeInv, ChoiceSound
<1>2. /\ level \in 0 .. kNumLevels - 2 /\ level # 0 /\ level >= kMaxMemCompactLevel
      /\ in0 \in SUBSET files[level] /\ in0 # {}
  <2>1. Ordered(hist) /\ nextFile \in Nat /\ VersionSound(files, hist, nextFile, split)
    BY DEF TreeInv, ChoiceSound, HistorySound
  <2> HIDE DEF level
  <2> QED  BY <1>1, <2>1, ManualTaken
<1>3. CompactRange(level, manual.begin) = SetupOtherInputs(level, in0, TRUE)
  BY DEF CompactRange
<1> HIDE DEF in0, level
<1>4. UpperSound(level, in0)
  BY <1>2 DEF UpperSound
<1>5. CompactionSound(CompactRange(level, manual.begin))
  BY <1>2, <1>3, <1>4, ChosenSound
<1>6. compaction = NoCompaction
  BY DEF BeginManual
<1> QED  BY <1>1, <1>5, <1>6, BeginKeeps

LEMMA FinishKeeps ==
    ASSUME TreeInv, FinishCompaction
    PROVE  TreeInv'
<1> DEFINE c == compaction
           m == Merged(c)
           O == {[num |-> nextFile + i - 1, entries |-> Output(m.placed, i)] : i \in 1 .. m.outputs}
           n == nextFile + m.outputs
           S == split \cup Divided(m)
           w == Replaced(c, files, O)
<1>1. /\ HistorySound /\ ChoiceSound /\ nextFile \in Nat \ {0} /\ VersionSound(files, hist, nextFile, split)
      /\ Ordered(hist) /\ CompactionSound(c)
  BY DEF TreeInv, ChoiceSound, HistorySound, FinishCompaction
<1>2. /\ files' = Installed(c, m) /\ nextFile' = n /\ split' = S
      /\ compaction' = NoCompaction /\ fileToCompact' = NoneYet
      /\ UNCHANGED <<hist, memtable, compactPtr, snapshots>>
      /\ manual' = manual \/ \E k : manual' = [manual EXCEPT !.queued = FALSE, !.begin = k]
  BY DEF FinishCompaction
<1> HIDE DEF c
<1>3. /\ m.outputs \in Nat
      /\ OutputsSound(c, files, hist, n, S, O)
      /\ \A e \in Inputs(c) : Kept(c, Inputs(c), e) <=> e \in EntriesOf(O)
      /\ Installed(c, m) = w
  BY <1>1, MergedOutputs
<1> HIDE DEF m
<1>4. n \in Nat /\ nextFile <= n /\ split \subseteq S /\ n # 0
  BY <1>1, <1>3
<1> HIDE DEF O, n, S
<1>5. VersionSound(w, hist, n, S) /\ Filed(w) \subseteq Filed(files)
  BY <1>1, <1>3, <1>4, ReplacedSound DEF CompactionSound
<1>6. \A k \in TreeKeys \ S, s \in snapshots \cup {LastSequence} : Visible(memtable \cup Filed(w), hist, k, s)
  <2> SUFFICES ASSUME NEW k \in TreeKeys, k \notin S, NEW s \in snapshots \cup {LastSequence}
               PROVE  Visible(memtable \cup Filed(w), hist, k, s)
    OBVIOUS
  <2>1. Visible(memtable \cup Filed(files), hist, k, s)
    BY <1>4 DEF TreeInv
  <2> QED  BY <1>1, <1>3, <1>4, <2>1, VisibleAfter
<1> HIDE DEF w
<1>7. LastSequence' = LastSequence
  BY <1>2 DEF LastSequence
<1>8. files' = w
  BY <1>2, <1>3
<1>9. HistorySound'
  BY <1>1, <1>2, <1>5, <1>7, <1>8 DEF HistorySound
<1>10. ChoiceSound'
  <2>1. \A l \in TreeLevels : \A g \in files'[l] : g.num # 0
    BY <1>5, <1>8 DEF VersionSound, FilesTyped, TreeFile
  <2>2. /\ manual' = [level |-> manual'.level, begin |-> manual'.begin, queued |-> manual'.queued]
        /\ manual'.queued => manual'.level \in ManualLevels
    <3>1. CASE manual' = manual
      BY <1>1, <3>1 DEF ChoiceSound
    <3>2. ASSUME NEW k, manual' = [manual EXCEPT !.queued = FALSE, !.begin = k]
          PROVE  /\ manual' = [level |-> manual'.level, begin |-> manual'.begin, queued |-> manual'.queued]
                 /\ manual'.queued => manual'.level \in ManualLevels
      <4>1. manual = [level |-> manual.level, begin |-> manual.begin, queued |-> manual.queued]
        BY <1>1 DEF ChoiceSound
      <4>2. manual' = [level |-> manual.level, begin |-> k, queued |-> FALSE]
        BY <3>2, <4>1
      <4> QED  BY <4>2
    <3> QED  BY <1>2, <3>1, <3>2
  <2> QED  BY <1>2, <1>4, <2>1, <2>2 DEF ChoiceSound, NoneYet
<1>11. \A k \in TreeKeys \ split', s \in snapshots' \cup {LastSequence'} :
         Visible(memtable' \cup Filed(files'), hist', k, s)
  BY <1>2, <1>6, <1>7, <1>8
<1>12. VersionSound(files', hist', nextFile', split')
  BY <1>2, <1>5, <1>8
<1> QED  BY <1>2, <1>9, <1>10, <1>11, <1>12 DEF TreeInv

\* Only a file with another one below it is charged with a seek.
LEMMA SeekKeeps ==
    ASSUME TreeInv, NEW k, NEW s, SeekCharged(k, s)
    PROVE  TreeInv'
<1>1. UNCHANGED <<hist, split, memtable, files, nextFile, compactPtr, snapshots, manual, compaction>>
  BY DEF SeekCharged
<1>2. ChoiceSound /\ NumbersUnique(files)
  BY DEF TreeInv, VersionSound
<1>3. PICK a \in Searched(files, k, s) : /\ SearchedFirst(a, Searched(files, k, s))
                                        /\ Searched(files, k, s) # {a} /\ fileToCompact' = a[2].num
  BY DEF SeekCharged
<1>4. PICK b \in Searched(files, k, s) : b # a
  BY <1>3
<1>5. a[1] \in TreeLevels /\ b[1] \in TreeLevels /\ a[2] \in files[a[1]]
  BY DEF Searched, Overlapping, FindFile
<1>6. a[1] < b[1] \/ a[1] = 0
  BY <1>3, <1>4 DEF SearchedFirst
<1>7. a[1] <= kNumLevels - 2
  BY <1>5, <1>6, TreeAssumption DEF TreeLevels
<1>8. \A l \in TreeLevels : \A f \in files[l] : f.num = fileToCompact' => l <= kNumLevels - 2
  BY <1>2, <1>3, <1>5, <1>7 DEF NumbersUnique
<1>9. ChoiceSound'
  BY <1>1, <1>2, <1>8 DEF ChoiceSound
<1> QED  BY <1>1, <1>9, SameEntries DEF TreeInv

LEMMA RequestKeeps ==
    ASSUME TreeInv,
           \/ \E l \in ManualLevels : AskManual(l)
           \/ ManualNothing \/ CompactionFails \/ GetSnapshot \/ \E s \in snapshots : ReleaseSnapshot(s)
    PROVE  TreeInv'
<1>1. UNCHANGED <<hist, split, memtable, files, nextFile, fileToCompact>>
  BY DEF AskManual, ManualNothing, CompactionFails, GetSnapshot, ReleaseSnapshot
<1>2. snapshots' \subseteq snapshots \cup {LastSequence}
  BY DEF AskManual, ManualNothing, CompactionFails, GetSnapshot, ReleaseSnapshot
<1>3. compaction' = compaction \/ compaction' = NoCompaction
  BY DEF AskManual, ManualNothing, CompactionFails, GetSnapshot, ReleaseSnapshot
<1>4. ChoiceSound
  BY DEF TreeInv
<1>5. \/ manual' = manual \/ manual' = NoRequest
      \/ \E l \in ManualLevels : manual' = [level |-> l, begin |-> FirstTreeKey, queued |-> TRUE]
      \/ manual.level \in ManualLevels /\ manual' = [manual EXCEPT !.queued = TRUE]
  BY DEF AskManual, ManualNothing, CompactionFails, GetSnapshot, ReleaseSnapshot
<1>6. /\ manual' = [level |-> manual'.level, begin |-> manual'.begin, queued |-> manual'.queued]
      /\ manual'.queued => manual'.level \in ManualLevels
  <2>1. CASE manual' = manual
    BY <1>4, <2>1 DEF ChoiceSound
  <2>2. CASE manual' = NoRequest
    BY <2>2 DEF NoRequest
  <2>3. CASE \E l \in ManualLevels : manual' = [level |-> l, begin |-> FirstTreeKey, queued |-> TRUE]
    BY <2>3
  <2>4. CASE manual.level \in ManualLevels /\ manual' = [manual EXCEPT !.queued = TRUE]
    <3>1. manual = [level |-> manual.level, begin |-> manual.begin, queued |-> manual.queued]
      BY <1>4 DEF ChoiceSound
    <3>2. manual' = [level |-> manual.level, begin |-> manual.begin, queued |-> TRUE]
      BY <2>4, <3>1
    <3> QED  BY <2>4, <3>2
  <2> QED  BY <1>5, <2>1, <2>2, <2>3, <2>4
<1>7. ChoiceSound'
  BY <1>1, <1>4, <1>6 DEF ChoiceSound
<1>8. compaction' # NoCompaction => CompactionSound(compaction')
  BY <1>3 DEF TreeInv
<1> QED  BY <1>1, <1>2, <1>7, <1>8, SameEntries

\* Every step of the database thread and of the background thread keeps the invariant.
LEMMA TreeInvariant ==
    ASSUME ManualBelowFlushes PROVE TreeSpec => []TreeInv
<1>1. TreeInit => TreeInv
  BY TreeInitial
<1>2. TreeInv /\ [TreeNext]_treeVars => TreeInv'
  <2> SUFFICES ASSUME TreeInv, [TreeNext]_treeVars PROVE TreeInv'
    OBVIOUS
  <2>1. CASE UNCHANGED treeVars
    <3>1. ChoiceSound'
      BY <2>1 DEF treeVars, TreeInv, ChoiceSound
    <3> QED  BY <2>1, <3>1, SameEntries DEF treeVars, TreeInv
  <2>2. CASE \E k \in TreeKeys, t \in {"value", "deletion"} : TreeWrite(k, t)
    BY <2>2, WriteKeeps
  <2>3. CASE CompactMemTable
    BY <2>3, FlushKeeps
  <2>4. CASE \E k \in TreeKeys, s \in snapshots \cup {LastSequence} : SeekCharged(k, s)
    BY <2>4, SeekKeeps
  <2>5. CASE BeginAutomatic
    BY <2>5, AutomaticKeeps
  <2>6. CASE BeginManual
    BY <2>6, ManualKeeps
  <2>7. CASE FinishCompaction
    BY <2>7, FinishKeeps
  <2>8. CASE \/ \E l \in ManualLevels : AskManual(l)
             \/ ManualNothing \/ CompactionFails \/ GetSnapshot \/ \E s \in snapshots : ReleaseSnapshot(s)
    BY <2>8, RequestKeeps
  <2> QED  BY <2>1, <2>2, <2>3, <2>4, <2>5, <2>6, <2>7, <2>8 DEF TreeNext
<1> QED  BY <1>1, <1>2, PTL DEF TreeSpec

\* Version::Get returns the newest write to a key at or below a snapshot, the files of a level below
\* the first do not overlap and a running compaction's inputs stay in the version, whatever the order
\* in which Write, CompactMemTable, PickCompaction, CompactRange and DoCompactionWork take their steps.
\* A request of CompactRange is for a level no memtable is pushed into past the first, as in this
\* program, which makes none; the keys of "split" are those a merge divided between two files.
THEOREM TreeStaysSound ==
    ASSUME ManualBelowFlushes PROVE TreeSpec => []TreeSound
<1>1. TreeInv => TreeSound
  BY TreeInvSound
<1> QED  BY <1>1, TreeInvariant, PTL

----------------------------------------------------------------------------
(* Memory files: the blocks of a file.                                     *)

BlockSet == [1 .. MemBlock -> Seq(Nat)]

\* The blocks of a file of that size: as many as it needs, each byte in its place.
FileHolds(blocks, size) ==
    /\ blocks \in Seq(BlockSet)
    /\ size <= Len(blocks) * MemBlock /\ Len(blocks) * MemBlock < size + MemBlock
    /\ \A i \in 0 .. Len(blocks) * MemBlock - 1 : Byte(blocks, i) = IF i < size THEN <<i>> ELSE <<>>

\* An offset is below the end of the first q blocks when its block is.
LEMMA BlockOfByte ==
    ASSUME NEW x \in Nat, NEW q \in Nat
    PROVE  /\ x \div MemBlock \in Nat /\ x % MemBlock \in 0 .. MemBlock - 1 /\ q * MemBlock \in Nat
           /\ x = (x \div MemBlock) * MemBlock + (x % MemBlock)
           /\ x < q * MemBlock <=> x \div MemBlock < q
<1> DEFINE d == x \div MemBlock
           r == x % MemBlock
<1>1. MemBlock \in Nat \ {0}
  BY MemAssumption
<1>2. d \in Nat /\ r \in 0 .. MemBlock - 1 /\ x = d * MemBlock + r
  BY <1>1, DivMod
<1> HIDE DEF d, r
<1>3. q * MemBlock \in Nat /\ d * MemBlock \in Nat
  BY <1>1, <1>2, TimesGrows
<1>4. CASE d < q
  <2>1. d + 1 <= q /\ d + 1 \in Nat
    BY <1>2, <1>4
  <2>2. (d + 1) * MemBlock <= q * MemBlock /\ (d + 1) * MemBlock = d * MemBlock + MemBlock
    BY <1>1, <1>2, <2>1, TimesGrows
  <2> QED  BY <1>1, <1>2, <1>3, <1>4, <2>2 DEF d, r
<1>5. CASE ~ d < q
  <2>1. q * MemBlock <= d * MemBlock
    BY <1>1, <1>2, <1>5, TimesGrows
  <2> QED  BY <1>1, <1>2, <1>3, <1>5, <2>1 DEF d, r
<1> QED  BY <1>4, <1>5

LEMMA FileSize ==
    ASSUME NEW blocks, NEW size \in Nat, FileHolds(blocks, size)
    PROVE  SizeIn(blocks) = size
<1> DEFINE all == Len(blocks) * MemBlock
<1>1. Len(blocks) \in Nat /\ all \in Nat /\ size <= all
  BY BlockOfByte DEF FileHolds
<1>2. \A i \in 0 .. all - 1 : Byte(blocks, i) # <<>> <=> i < size
  <2> SUFFICES ASSUME NEW i \in 0 .. all - 1 PROVE Byte(blocks, i) # <<>> <=> i < size
    OBVIOUS
  <2>1. Byte(blocks, i) = IF i < size THEN <<i>> ELSE <<>>
    BY DEF FileHolds
  <2>2. <<i>> # <<>>
    OBVIOUS
  <2> QED  BY <2>1, <2>2
<1> HIDE DEF all
<1>3. {i \in 0 .. all - 1 : Byte(blocks, i) # <<>>} = 0 .. size - 1
  BY <1>1, <1>2
<1>4. Cardinality(0 .. size - 1) = size
  BY FS_Interval
<1> QED  BY <1>3, <1>4 DEF SizeIn, all

LEMMA EmptyFile == FileHolds(<<>>, 0)
<1>1. Len(<<>>) * MemBlock = 0 /\ MemBlock \in Nat \ {0}
  BY MemAssumption
<1> QED  BY <1>1 DEF FileHolds

\* The number of blocks of a file, and whether the last one is full.
LEMMA BlocksOfFile ==
    ASSUME NEW blocks, NEW size \in Nat, FileHolds(blocks, size)
    PROVE  Len(blocks) = IF size % MemBlock = 0 THEN size \div MemBlock ELSE size \div MemBlock + 1
<1> DEFINE L == Len(blocks)
           d == size \div MemBlock
           r == size % MemBlock
<1>1. L \in Nat /\ MemBlock \in Nat \ {0} /\ size <= L * MemBlock /\ L * MemBlock < size + MemBlock
  BY MemAssumption DEF FileHolds
<1>2. d \in Nat /\ r \in 0 .. MemBlock - 1 /\ size = d * MemBlock + r
  BY <1>1, BlockOfByte
<1> HIDE DEF L, d, r
<1>3. d * MemBlock \in Nat /\ L * MemBlock \in Nat
  BY <1>1, <1>2, TimesGrows
<1>4. CASE L < d
  <2>1. (L + 1) * MemBlock <= d * MemBlock
    BY <1>1, <1>2, <1>4, TimesGrows
  <2>2. (L + 1) * MemBlock = L * MemBlock + MemBlock
    BY <1>1, TimesGrows
  <2> QED  BY <1>1, <1>2, <1>3, <2>1, <2>2
<1>5. CASE L = d
  <2>1. r = 0
    BY <1>1, <1>2, <1>3, <1>5
  <2> QED  BY <1>5, <2>1 DEF L, d, r
<1>6. CASE L = d + 1
  <2>1. (d + 1) * MemBlock = d * MemBlock + MemBlock
    BY <1>1, <1>2, TimesGrows
  <2>2. r # 0
    BY <1>1, <1>2, <1>3, <1>6, <2>1
  <2> QED  BY <1>6, <2>2 DEF L, d, r
<1>7. CASE L > d + 1
  <2>1. (d + 2) * MemBlock <= L * MemBlock
    BY <1>1, <1>2, <1>7, TimesGrows
  <2>2. (d + 1) * MemBlock = d * MemBlock + MemBlock /\ (d + 1 + 1) * MemBlock = (d + 1) * MemBlock + MemBlock
    BY <1>1, <1>2, TimesGrows
  <2>3. d + 2 = d + 1 + 1
    BY <1>2
  <2> QED  BY <1>1, <1>2, <1>3, <2>1, <2>2, <2>3
<1> QED  BY <1>1, <1>2, <1>4, <1>5, <1>6, <1>7

\* Reading, across the blocks.
ReadCount(at, n, size) == IF at + n > size THEN size - at ELSE n
BytesFrom(at, count) == [i \in 1 .. count |-> <<at + i - 1>>]

LEMMA ReadHolds ==
    ASSUME NEW blocks, NEW size, size \in Nat, FileHolds(blocks, size), NEW at, at \in 0 .. size, NEW n, n \in Nat
    PROVE  /\ ReadBytes(blocks, at, n) = BytesFrom(at, ReadCount(at, n, size))
           /\ ReadCount(at, n, size) \in Nat /\ at + ReadCount(at, n, size) <= size
<1> DEFINE count == IF n > size - at THEN size - at ELSE n
<1>1. count = ReadCount(at, n, size)
  BY DEF ReadCount
<1>2. count \in Nat /\ at + count <= size
  OBVIOUS
<1> HIDE DEF count
<1>3. ASSUME NEW i \in 1 .. count PROVE Byte(blocks, at + i - 1) = <<at + i - 1>>
  <2> DEFINE k == at + i - 1
  <2>1. k \in Nat /\ k < size
    BY <1>2
  <2>2. Len(blocks) \in Nat /\ Len(blocks) * MemBlock \in Nat /\ size <= Len(blocks) * MemBlock
    BY BlockOfByte DEF FileHolds
  <2> HIDE DEF k
  <2>3. k \in 0 .. Len(blocks) * MemBlock - 1
    BY <2>1, <2>2
  <2>4. Byte(blocks, k) = <<k>>
    BY <2>1, <2>3 DEF FileHolds
  <2> QED  BY <2>4 DEF k
<1>4. ReadBytes(blocks, at, n) = [i \in 1 .. count |-> Byte(blocks, at + i - 1)]
  BY FileSize DEF ReadBytes, count
<1>5. ReadBytes(blocks, at, n) = BytesFrom(at, count)
  BY <1>3, <1>4 DEF BytesFrom
<1> QED  BY <1>1, <1>2, <1>5

\* One byte more, in the last block or a new one.
LEMMA AppendByteHolds ==
    ASSUME NEW blocks, NEW size \in Nat, FileHolds(blocks, size)
    PROVE  FileHolds(AppendByte(blocks), size + 1)
<1> DEFINE q == size \div MemBlock
           r == size % MemBlock
           room == IF r = 0 THEN Append(blocks, NewBlock) ELSE blocks
           last == [room[q + 1] EXCEPT ![r + 1] = <<size>>]
           new == [room EXCEPT ![q + 1] = last]
<1>1. /\ MemBlock \in Nat \ {0} /\ blocks \in Seq(BlockSet) /\ Len(blocks) \in Nat
      /\ Len(blocks) = IF r = 0 THEN q ELSE q + 1
  <2>1. MemBlock \in Nat \ {0} /\ blocks \in Seq(BlockSet) /\ Len(blocks) \in Nat
    BY MemAssumption DEF FileHolds
  <2>2. Len(blocks) = IF r = 0 THEN q ELSE q + 1
    BY BlocksOfFile
  <2> HIDE DEF q, r
  <2> QED  BY <2>1, <2>2
<1>2. q \in Nat /\ r \in 0 .. MemBlock - 1 /\ size = q * MemBlock + r
  BY BlockOfByte
<1> HIDE DEF q, r
<1>3. NewBlock \in BlockSet /\ \A o \in 1 .. MemBlock : NewBlock[o] = <<>>
  BY DEF NewBlock, BlockSet
<1>4. /\ room \in Seq(BlockSet) /\ Len(room) = q + 1
      /\ \A b \in 1 .. Len(blocks) : room[b] = blocks[b]
      /\ r = 0 => room[q + 1] = NewBlock
  <2>1. CASE r = 0
    BY <1>1, <1>2, <1>3, <2>1, AppendProperties
  <2>2. CASE r # 0
    BY <1>1, <1>2, <2>2
  <2> QED  BY <2>1, <2>2
<1> HIDE DEF room
<1>5. room[q + 1] \in BlockSet /\ last \in BlockSet
      /\ \A o \in 1 .. MemBlock : last[o] = IF o = r + 1 THEN <<size>> ELSE room[q + 1][o]
  <2>1. room[q + 1] \in BlockSet
    BY <1>2, <1>4
  <2>2. r + 1 \in 1 .. MemBlock /\ <<size>> \in Seq(Nat)
    BY <1>1, <1>2
  <2> QED  BY <2>1, <2>2 DEF BlockSet
<1> HIDE DEF last
<1>6. /\ new \in Seq(BlockSet) /\ Len(new) = q + 1
      /\ \A b \in 1 .. q + 1 : new[b] = IF b = q + 1 THEN last ELSE room[b]
  BY <1>2, <1>4, <1>5
<1>7. AppendByte(blocks) = new
  <2>1. SizeIn(blocks) = size
    BY FileSize
  <2> QED  BY <1>4, <2>1 DEF AppendByte, new, last, room, q, r
<1> HIDE DEF new
<1>8. /\ q * MemBlock \in Nat /\ (q + 1) * MemBlock = q * MemBlock + MemBlock
      /\ size + 1 <= (q + 1) * MemBlock /\ (q + 1) * MemBlock < size + 1 + MemBlock
  <2>1. q * MemBlock \in Nat /\ (q + 1) * MemBlock = q * MemBlock + MemBlock
    BY <1>1, <1>2, TimesGrows
  <2> QED  BY <1>1, <1>2, <2>1
<1>9. ASSUME NEW i \in 0 .. (q + 1) * MemBlock - 1
      PROVE  Byte(new, i) = IF i < size + 1 THEN <<i>> ELSE <<>>
  <2> DEFINE b == i \div MemBlock
             o == i % MemBlock
  <2>1. i \in Nat /\ i < (q + 1) * MemBlock
    BY <1>1, <1>2, <1>8
  <2>2. /\ b \in Nat /\ o \in 0 .. MemBlock - 1 /\ i = b * MemBlock + o /\ b < q + 1
        /\ i < q * MemBlock <=> b < q
        /\ i < Len(blocks) * MemBlock <=> b < Len(blocks)
    <3>1. /\ b \in Nat /\ o \in 0 .. MemBlock - 1 /\ i = b * MemBlock + o
          /\ i < q * MemBlock <=> b < q
      BY <1>2, <2>1, BlockOfByte
    <3>2. i < Len(blocks) * MemBlock <=> b < Len(blocks)
      BY <1>1, <2>1, BlockOfByte
    <3>3. i < (q + 1) * MemBlock <=> b < q + 1
      <4>1. q + 1 \in Nat
        BY <1>2
      <4> QED  BY <2>1, <4>1, BlockOfByte
    <3> HIDE DEF b, o
    <3> QED  BY <2>1, <3>1, <3>2, <3>3
  <2>3. Byte(new, i) = new[b + 1][o + 1] /\ Byte(blocks, i) = blocks[b + 1][o + 1]
    BY DEF Byte
  <2> HIDE DEF b, o
  <2>4. b + 1 \in 1 .. q + 1 /\ o + 1 \in 1 .. MemBlock
    BY <1>1, <1>2, <2>2
  <2>5. CASE i = size
    <3>1. b = q /\ o = r
      BY <2>5 DEF b, o, q, r
    <3>2. new[b + 1] = last /\ last[o + 1] = <<size>>
      BY <1>5, <1>6, <2>4, <3>1
    <3> QED  BY <2>3, <2>5, <3>2
  <2>6. CASE i # size /\ b < Len(blocks)
    <3>1. ~ (b = q /\ o = r)
      BY <1>2, <2>2, <2>6
    <3>2. b + 1 \in 1 .. Len(blocks)
      BY <1>1, <2>2, <2>6
    <3>3. room[b + 1] = blocks[b + 1]
      BY <1>4, <3>2
    <3>4. new[b + 1][o + 1] = room[b + 1][o + 1]
      <4>1. CASE b = q
        <5>1. o + 1 # r + 1 /\ b + 1 = q + 1
          BY <1>2, <2>2, <3>1, <4>1
        <5> QED  BY <1>5, <1>6, <2>4, <5>1
      <4>2. CASE b # q
        <5>1. b + 1 # q + 1
          BY <1>2, <2>2, <4>2
        <5> QED  BY <1>6, <2>4, <5>1
      <4> QED  BY <4>1, <4>2
    <3>5. Byte(blocks, i) = IF i < size THEN <<i>> ELSE <<>>
      <4>1. Len(blocks) * MemBlock \in Nat
        BY <1>1, BlockOfByte
      <4>2. i \in 0 .. Len(blocks) * MemBlock - 1
        BY <2>1, <2>2, <2>6, <4>1
      <4> QED  BY <4>2 DEF FileHolds
    <3>6. i < size <=> i < size + 1
      BY <2>1, <2>6
    <3> QED  BY <2>3, <3>3, <3>4, <3>5, <3>6
  <2>7. CASE i # size /\ ~ b < Len(blocks)
    <3>1. r = 0 /\ b = q /\ Len(blocks) = q
      BY <1>1, <1>2, <2>2, <2>7
    <3>2. o # r /\ i > size
      <4>1. i = q * MemBlock + o /\ size = q * MemBlock
        BY <1>2, <1>8, <2>2, <3>1
      <4> QED  BY <1>2, <1>8, <2>2, <2>7, <3>1, <4>1
    <3>3. new[b + 1] = last /\ last[o + 1] = room[q + 1][o + 1]
      <4>1. b + 1 = q + 1 /\ q + 1 \in 1 .. q + 1 /\ o + 1 # r + 1
        BY <1>2, <2>2, <3>1, <3>2
      <4> QED  BY <1>5, <1>6, <2>4, <4>1
    <3>4. room[q + 1][o + 1] = <<>>
      BY <1>3, <1>4, <2>4, <3>1
    <3>5. ~ i < size + 1
      BY <2>1, <3>2
    <3> QED  BY <2>3, <3>3, <3>4, <3>5
  <2> QED  BY <2>5, <2>6, <2>7
<1> QED  BY <1>6, <1>7, <1>8, <1>9 DEF FileHolds

\* Files that are at least so long.
FilesFrom(size) == {b \in Seq(BlockSet) : \E s \in Nat : size <= s /\ FileHolds(b, s)}

\* One unfolding of the loop of Append.
UnfoldBytes(blocks, n, after) == [i \in 0 .. n |-> IF i = 0 THEN blocks ELSE AppendByte(after[i - 1])]

LEMMA AppendBytesHolds ==
    ASSUME NEW blocks, NEW size \in Nat, FileHolds(blocks, size), NEW n \in Nat
    PROVE  \E s \in Nat : size <= s /\ FileHolds(AppendBytes(blocks, n), s)
<1> DEFINE X == FilesFrom(size)
           T == [q \in (1 .. n) \X X |-> AppendByte(q[2])]
<1>1. blocks \in X
  BY DEF FilesFrom, FileHolds
<1>2. \A b \in X : AppendByte(b) \in X
  <2> SUFFICES ASSUME NEW b \in X PROVE AppendByte(b) \in X
    OBVIOUS
  <2>1. PICK s \in Nat : size <= s /\ FileHolds(b, s)
    BY DEF FilesFrom
  <2>2. FileHolds(AppendByte(b), s + 1) /\ s + 1 \in Nat /\ size <= s + 1
    BY <2>1, AppendByteHolds
  <2>3. AppendByte(b) \in Seq(BlockSet)
    BY <2>2 DEF FileHolds
  <2> QED  BY <2>2, <2>3 DEF FilesFrom
<1> HIDE DEF X
<1>3. T \in [(1 .. n) \X X -> X]
  BY <1>2
<1>4. LoopOver(X, blocks, n, T)
  BY <1>1, <1>3 DEF LoopOver
<1> HIDE DEF T
<1>5. PICK g \in [0 .. n -> X] : g = UnfoldOver(n, blocks, T, g)
  <2> DEFINE m == n
  <2>1. LoopOver(X, blocks, m, T)
    BY <1>4
  <2> HIDE DEF m
  <2>2. \E g \in [0 .. m -> X] : g = UnfoldOver(m, blocks, T, g)
    BY <2>1, FiniteRecursion
  <2> QED  BY <2>2 DEF m
<1>6. \A i \in 1 .. n : T[<<i, g[i - 1]>>] = AppendByte(g[i - 1])
  <2> SUFFICES ASSUME NEW i \in 1 .. n PROVE T[<<i, g[i - 1]>>] = AppendByte(g[i - 1])
    OBVIOUS
  <2>1. g[i - 1] \in X
    BY <1>5
  <2> QED  BY <2>1 DEF T
<1>7. g = UnfoldBytes(blocks, n, g)
  <2>1. \A i \in 0 .. n : UnfoldOver(n, blocks, T, g)[i] = UnfoldBytes(blocks, n, g)[i]
    BY <1>6 DEF UnfoldOver, UnfoldBytes
  <2>2. UnfoldOver(n, blocks, T, g) = UnfoldBytes(blocks, n, g)
    BY <2>1 DEF UnfoldOver, UnfoldBytes
  <2> QED  BY <1>5, <2>2
<1> DEFINE after == CHOOSE f : f = UnfoldBytes(blocks, n, f)
<1>8. after = UnfoldBytes(blocks, n, after)
  BY <1>7
<1>9. AppendBytes(blocks, n) = after[n]
  BY DEF AppendBytes, UnfoldBytes
<1> HIDE DEF after
<1>10. \A i \in 0 .. n : after[i] = IF i = 0 THEN blocks ELSE AppendByte(after[i - 1])
  BY <1>8 DEF UnfoldBytes
<1> DEFINE S == {i \in 0 .. n : after[i] \in X}
<1>11. 0 \in S
  BY <1>1, <1>10
<1>12. \A i \in 1 .. n : i - 1 \in S => i \in S
  BY <1>2, <1>10
<1> HIDE DEF S
<1>13. n \in S
  <2>1. \A i \in 0 .. n : i \in S
    BY <1>11, <1>12, UpTo
  <2> QED  BY <2>1
<1>14. after[n] \in X
  BY <1>13 DEF S
<1> QED  BY <1>9, <1>14 DEF X, FilesFrom

----------------------------------------------------------------------------
(* Memory files: names, open files and references.                         *)

Same(d, b) == IF d = b THEN 1 ELSE 0
Count(g, S, d) == Cardinality({x \in S : g[x] = d})

LEMMA CountType ==
    ASSUME NEW S, IsFiniteSet(S), NEW g, NEW d
    PROVE  Count(g, S, d) \in Nat /\ IsFiniteSet({x \in S : g[x] = d})
<1> DEFINE T == {x \in S : g[x] = d}
<1>1. IsFiniteSet(T)
  BY FS_Subset
<1> HIDE DEF T
<1>2. Cardinality(T) \in Nat
  BY <1>1, FS_CardinalityType
<1> QED  BY <1>1, <1>2 DEF T, Count

\* One place of a function gets another value.
MovesAt(g, h, S, x) == x \in S /\ \A y \in S : y # x => h[y] = g[y]

LEMMA CountMoves ==
    ASSUME NEW S, IsFiniteSet(S), NEW g, NEW h, NEW x, MovesAt(g, h, S, x), NEW d
    PROVE  Count(h, S, d) = Count(g, S, d) + Same(d, h[x]) - Same(d, g[x])
<1> DEFINE a == g[x]
           b == h[x]
<1>0. x \in S /\ \A y \in S : y # x => h[y] = g[y]
  BY DEF MovesAt
<1> DEFINE G == {y \in S : g[y] = d}
           H == {y \in S : h[y] = d}
<1>1. IsFiniteSet(G) /\ IsFiniteSet(H) /\ Count(g, S, d) = Cardinality(G) /\ Count(h, S, d) = Cardinality(H)
      /\ Count(g, S, d) \in Nat
  <2>1. Count(g, S, d) \in Nat /\ IsFiniteSet(G) /\ IsFiniteSet(H)
    BY CountType
  <2>2. Count(g, S, d) = Cardinality(G) /\ Count(h, S, d) = Cardinality(H)
    BY DEF Count
  <2> QED  BY <2>1, <2>2
<1>2. CASE d = a /\ d = b
  <2>1. G = H
    BY <1>0, <1>2
  <2>2. Count(h, S, d) = Count(g, S, d)
    BY <1>1, <2>1
  <2>3. Same(d, b) = 1 /\ Same(d, a) = 1
    BY <1>2 DEF Same
  <2> QED  BY <1>1, <2>2, <2>3
<1>3. CASE d # a /\ d # b
  <2>1. G = H
    BY <1>0, <1>3
  <2>2. Count(h, S, d) = Count(g, S, d)
    BY <1>1, <2>1
  <2>3. Same(d, b) = 0 /\ Same(d, a) = 0
    BY <1>3 DEF Same
  <2> QED  BY <1>1, <2>2, <2>3
<1>4. CASE d # a /\ d = b
  <2>1. H = G \cup {x} /\ x \notin G
    BY <1>0, <1>4
  <2> HIDE DEF G, H
  <2>2. Cardinality(G \cup {x}) = Cardinality(G) + 1
    BY <1>1, <2>1, FS_AddElement
  <2> QED  BY <1>1, <1>4, <2>1, <2>2 DEF Same
<1>5. CASE d = a /\ d # b
  <2>1. H = G \ {x} /\ x \in G
    BY <1>0, <1>5
  <2> HIDE DEF G, H
  <2>2. Cardinality(G \ {x}) = Cardinality(G) - 1
    BY <1>1, <2>1, FS_RemoveElement
  <2> QED  BY <1>1, <1>5, <2>1, <2>2 DEF Same
<1> QED  BY <1>2, <1>3, <1>4, <1>5

\* What the places of a function other than an unused one use.
LEMMA FewUsed ==
    ASSUME NEW S, IsFiniteSet(S), NEW g, NEW z \in S, NEW I, IsFiniteSet(I), g[z] \notin I
    PROVE  LET used == {d \in I : Count(g, S, d) > 0} IN
           IsFiniteSet(used) /\ Cardinality(used) \in Nat /\ Cardinality(used) <= Cardinality(S) - 1
<1> DEFINE used == {d \in I : Count(g, S, d) > 0}
           others == S \ {z}
<1>1. IsFiniteSet(used) /\ IsFiniteSet(others)
  BY FS_Subset
<1>2. Cardinality(others) = Cardinality(S) - 1 /\ Cardinality(others) \in Nat
  BY <1>1, FS_RemoveElement, FS_CardinalityType
<1>3. \A d \in used : \E x \in S : g[x] = d
  <2> SUFFICES ASSUME NEW d \in used, \A x \in S : g[x] # d PROVE FALSE
    OBVIOUS
  <2>1. {x \in S : g[x] = d} = {}
    OBVIOUS
  <2>2. Count(g, S, d) = 0
    BY <2>1, FS_EmptySet DEF Count
  <2> QED  BY <2>2
<1>4. \A d \in used : d \in I
  OBVIOUS
<1> DEFINE user == [d \in used |-> CHOOSE x \in S : g[x] = d]
<1>5. \A d \in used : user[d] \in S /\ g[user[d]] = d
  BY <1>3
<1>6. user \in [used -> others]
  <2> SUFFICES ASSUME NEW d \in used PROVE user[d] \in others
    OBVIOUS
  <2> HIDE DEF user, used
  <2> QED  BY <1>4, <1>5
<1> HIDE DEF used, others, user
<1>7. Cardinality(used) \in Nat
  BY <1>1, FS_CardinalityType
<1>8. Cardinality(used) <= Cardinality(others)
  <2> SUFFICES ASSUME Cardinality(others) < Cardinality(used) PROVE FALSE
    BY <1>2, <1>7
  <2>1. \E x, y \in used : x # y /\ user[x] = user[y]
    BY <1>1, <1>6, FS_PigeonHole
  <2> QED  BY <1>5, <2>1
<1> QED  BY <1>1, <1>2, <1>7, <1>8 DEF used

LEMMA FileIdsFinite ==
    /\ IsFiniteSet(FileIds) /\ FileIds \subseteq Nat /\ 0 \notin FileIds
    /\ Cardinality(FileIds) = Cardinality(MemNames) + Cardinality(Slots)
    /\ Cardinality(MemNames) \in Nat /\ Cardinality(Slots) \in Nat
<1>1. Cardinality(MemNames) \in Nat /\ Cardinality(Slots) \in Nat
  BY MemAssumption, FS_CardinalityType
<1> DEFINE N == Cardinality(MemNames) + Cardinality(Slots)
<1>2. N \in Nat /\ 1 \in Int /\ N \in Int
  BY <1>1
<1>3. IsFiniteSet(1 .. N) /\ Cardinality(1 .. N) = IF 1 > N THEN 0 ELSE N - 1 + 1
  BY <1>2, FS_Interval
<1> QED  BY <1>1, <1>2, <1>3 DEF FileIds

OpenSet == [kind : {"closed", "sequential", "random", "write"}, id : FileIds \cup {0}, pos : Nat]
IdOf(o) == [s \in Slots |-> o[s].id]

\* References of names and of open files.
Refs(m, o, d) == Count(m, MemNames, d) + Count(IdOf(o), Slots, d)
RefsGood(r, m, o) ==
    /\ r \in [FileIds -> Int]
    /\ \A d \in FileIds : r[d] = Refs(m, o, d)

LEMMA RefsNatural ==
    ASSUME NEW r, NEW m, NEW o, RefsGood(r, m, o)
    PROVE  /\ r \in [FileIds -> Nat]
           /\ \A d \in FileIds : /\ Count(m, MemNames, d) \in Nat /\ Count(IdOf(o), Slots, d) \in Nat
                                 /\ r[d] = Count(m, MemNames, d) + Count(IdOf(o), Slots, d)
<1>1. \A d \in FileIds : Count(m, MemNames, d) \in Nat /\ Count(IdOf(o), Slots, d) \in Nat
  BY MemAssumption, CountType
<1>2. \A d \in FileIds : r[d] \in Nat
  BY <1>1 DEF RefsGood, Refs
<1> QED  BY <1>1, <1>2 DEF RefsGood, Refs

\* A file that something refers to has references.
LEMMA UsedHasRefs ==
    ASSUME NEW r, NEW m, NEW o, RefsGood(r, m, o), NEW d \in FileIds,
           (\E f \in MemNames : m[f] = d) \/ (\E s \in Slots : o[s].id = d)
    PROVE  r[d] > 0
<1>1. CASE \E f \in MemNames : m[f] = d
  <2>1. {f \in MemNames : m[f] = d} # {}
    BY <1>1
  <2>2. Count(m, MemNames, d) # 0
    BY <2>1, MemAssumption, CountType, FS_EmptySet DEF Count
  <2> QED  BY <2>2, RefsNatural
<1>2. CASE \E s \in Slots : o[s].id = d
  <2>1. {s \in Slots : IdOf(o)[s] = d} # {}
    BY <1>2 DEF IdOf
  <2>2. Count(IdOf(o), Slots, d) # 0
    BY <2>1, MemAssumption, CountType, FS_EmptySet DEF Count
  <2> QED  BY <2>2, RefsNatural
<1> QED  BY <1>1, <1>2

\* A name, or an open file, refers to another file.
LEMMA NameMoves ==
    ASSUME NEW r, NEW m, NEW o, RefsGood(r, m, o), NEW h, NEW f, MovesAt(m, h, MemNames, f), NEW d, d \in FileIds
    PROVE  Refs(h, o, d) = r[d] + Same(d, h[f]) - Same(d, m[f])
<1>1. Count(h, MemNames, d) = Count(m, MemNames, d) + Same(d, h[f]) - Same(d, m[f])
  BY MemAssumption, CountMoves
<1>2. /\ r[d] \in Nat /\ Count(m, MemNames, d) \in Nat /\ Count(IdOf(o), Slots, d) \in Nat
      /\ r[d] = Count(m, MemNames, d) + Count(IdOf(o), Slots, d)
  BY RefsNatural
<1>3. Same(d, h[f]) \in Int /\ Same(d, m[f]) \in Int
  BY DEF Same
<1> QED  BY <1>1, <1>2, <1>3 DEF Refs

LEMMA SlotMoves ==
    ASSUME NEW r, NEW m, NEW o, RefsGood(r, m, o), NEW h, NEW s, MovesAt(IdOf(o), IdOf(h), Slots, s),
           NEW d, d \in FileIds
    PROVE  Refs(m, h, d) = r[d] + Same(d, h[s].id) - Same(d, o[s].id)
<1> DEFINE G == IdOf(o)
           H == IdOf(h)
<1>1. G[s] = o[s].id /\ H[s] = h[s].id /\ MovesAt(G, H, Slots, s)
  BY DEF MovesAt, IdOf
<1> HIDE DEF G, H
<1>2. Count(H, Slots, d) = Count(G, Slots, d) + Same(d, H[s]) - Same(d, G[s])
  BY <1>1, MemAssumption, CountMoves
<1>3. /\ r[d] \in Nat /\ Count(m, MemNames, d) \in Nat /\ Count(G, Slots, d) \in Nat
      /\ r[d] = Count(m, MemNames, d) + Count(G, Slots, d)
  BY RefsNatural DEF G
<1>4. Same(d, H[s]) \in Int /\ Same(d, G[s]) \in Int
  BY DEF Same
<1>5. Refs(m, h, d) = r[d] + Same(d, H[s]) - Same(d, G[s])
  BY <1>2, <1>3, <1>4 DEF Refs, H
<1> QED  BY <1>1, <1>5

MapSet == [MemNames -> FileIds \cup {0}]

\* References move from one file, or from none, to another.
RefsMove(r, r2, a, b) ==
    r2 \in [FileIds -> Int] /\ \A x \in FileIds : r2[x] = r[x] + Same(x, b) - Same(x, a)
NameMove(m, h, f, b) ==
    m \in MapSet /\ f \in MemNames /\ b \in FileIds \cup {0} /\ h = [m EXCEPT ![f] = b]
SlotMove(o, h, s, v) ==
    o \in [Slots -> OpenSet] /\ s \in Slots /\ v \in OpenSet /\ h = [o EXCEPT ![s] = v]

LEMMA NameStep ==
    ASSUME NEW r, NEW m, NEW o, RefsGood(r, m, o), NEW h, NEW f, NEW b, NameMove(m, h, f, b),
           NEW r2, RefsMove(r, r2, m[f], b)
    PROVE  RefsGood(r2, h, o) /\ h \in MapSet
<1>1. MovesAt(m, h, MemNames, f) /\ h[f] = b /\ h \in MapSet
  BY DEF MovesAt, MapSet, NameMove
<1>2. \A x \in FileIds : Refs(h, o, x) = r[x] + Same(x, h[f]) - Same(x, m[f])
  BY <1>1, NameMoves
<1> QED  BY <1>1, <1>2 DEF RefsGood, RefsMove

LEMMA SlotStep ==
    ASSUME NEW r, NEW m, NEW o, RefsGood(r, m, o), NEW h, NEW s, NEW v, SlotMove(o, h, s, v),
           NEW r2, RefsMove(r, r2, o[s].id, v.id)
    PROVE  RefsGood(r2, m, h)
<1>1. MovesAt(IdOf(o), IdOf(h), Slots, s) /\ h[s] = v
  BY DEF MovesAt, IdOf, SlotMove
<1>2. \A x \in FileIds : Refs(m, h, x) = r[x] + Same(x, h[s].id) - Same(x, o[s].id)
  BY <1>1, SlotMoves
<1> QED  BY <1>1, <1>2 DEF RefsGood, RefsMove

LEMMA UnrefIs ==
    ASSUME NEW r, r \in [FileIds -> Int], NEW d, d \in FileIds \cup {0}
    PROVE  /\ UnrefFile(r, d) \in [FileIds -> Int]
           /\ RefsMove(r, UnrefFile(r, d), d, 0)
<1>1. \A x \in FileIds : Same(x, 0) = 0
  BY FileIdsFinite DEF Same
<1>2. CASE d = 0
  <2>1. UnrefFile(r, d) = r
    BY <1>2 DEF UnrefFile
  <2>2. \A x \in FileIds : r[x] \in Int
    OBVIOUS
  <2> QED  BY <1>1, <1>2, <2>1, <2>2 DEF RefsMove
<1>3. CASE d # 0
  <2>1. d \in FileIds /\ UnrefFile(r, d) = [r EXCEPT ![d] = @ - 1]
    BY <1>3 DEF UnrefFile
  <2>2. \A x \in FileIds : UnrefFile(r, d)[x] = r[x] - Same(x, d)
    BY <2>1 DEF Same
  <2>3. UnrefFile(r, d) \in [FileIds -> Int]
    BY <2>1
  <2>4. \A x \in FileIds : Same(x, d) \in Int /\ r[x] \in Int
    BY DEF Same
  <2> QED  BY <1>1, <2>2, <2>3, <2>4 DEF RefsMove
<1> QED  BY <1>2, <1>3

\* A file object is closed, or in a file and not beyond its end.
SlotOK(v, contents) == v = Closed \/ (v.id \in FileIds /\ v.pos <= SizeIn(contents[v.id]))
OpenGood(o, contents) == o \in [Slots -> OpenSet] /\ \A s \in Slots : SlotOK(o[s], contents)
FilesGood(contents) == \A d \in FileIds : \E size \in Nat : FileHolds(contents[d], size)

MemInv ==
    /\ fileMap \in MapSet /\ RefsGood(fileRefs, fileMap, open)
    /\ fileBlocks \in [FileIds -> Seq(BlockSet)] /\ FilesGood(fileBlocks)
    /\ OpenGood(open, fileBlocks)

LEMMA ClosedType == Closed \in OpenSet /\ Closed.id = 0 /\ Closed.kind = "closed" /\ \A contents : SlotOK(Closed, contents)
<1>1. Closed \in OpenSet /\ Closed.id = 0 /\ Closed.kind = "closed"
  BY DEF Closed, OpenSet
<1>2. \A contents : SlotOK(Closed, contents)
  BY DEF SlotOK
<1> QED  BY <1>1, <1>2

LEMMA SizeType ==
    ASSUME NEW contents, FilesGood(contents), NEW d \in FileIds
    PROVE  SizeIn(contents[d]) \in Nat /\ FileHolds(contents[d], SizeIn(contents[d]))
<1>1. PICK size \in Nat : FileHolds(contents[d], size)
  BY DEF FilesGood
<1> QED  BY <1>1, FileSize

LEMMA SlotGood ==
    ASSUME NEW o, NEW contents, OpenGood(o, contents), NEW h, NEW s, NEW v, SlotMove(o, h, s, v), SlotOK(v, contents)
    PROVE  OpenGood(h, contents)
<1>1. h \in [Slots -> OpenSet] /\ \A t \in Slots : h[t] = IF t = s THEN v ELSE o[t]
  BY DEF SlotMove
<1>2. \A t \in Slots : SlotOK(h[t], contents)
  BY <1>1 DEF OpenGood
<1> QED  BY <1>1, <1>2 DEF OpenGood

\* Files that are open are kept, or grow.
LEMMA OpenKept ==
    ASSUME NEW o, NEW contents, OpenGood(o, contents), FilesGood(contents), NEW new, FilesGood(new),
           \A s \in Slots : o[s].id \in FileIds => SizeIn(contents[o[s].id]) <= SizeIn(new[o[s].id])
    PROVE  OpenGood(o, new)
<1> SUFFICES ASSUME NEW s \in Slots PROVE SlotOK(o[s], new)
  BY DEF OpenGood
<1>1. CASE o[s] = Closed
  BY <1>1 DEF SlotOK
<1>2. CASE o[s] # Closed
  <2>1. o[s].id \in FileIds /\ o[s].pos <= SizeIn(contents[o[s].id]) /\ o[s].pos \in Nat
    BY <1>2 DEF OpenGood, SlotOK, OpenSet
  <2>2. SizeIn(contents[o[s].id]) \in Nat /\ SizeIn(new[o[s].id]) \in Nat
    BY <2>1, SizeType
  <2>3. o[s].pos <= SizeIn(new[o[s].id])
    BY <2>1, <2>2
  <2> QED  BY <2>1, <2>3 DEF SlotOK
<1> QED  BY <1>1, <1>2

\* "delete this" takes no file that is open.
Without(contents, gone) == [d \in FileIds |-> IF d \in gone THEN <<>> ELSE contents[d]]

LEMMA GoneGood ==
    ASSUME NEW o, NEW contents, OpenGood(o, contents), contents \in [FileIds -> Seq(BlockSet)], FilesGood(contents),
           NEW gone, \A s \in Slots : o[s].id \notin gone
    PROVE  /\ Without(contents, gone) \in [FileIds -> Seq(BlockSet)] /\ FilesGood(Without(contents, gone))
           /\ OpenGood(o, Without(contents, gone))
<1> DEFINE new == Without(contents, gone)
<1>1. \A d \in FileIds : new[d] = IF d \in gone THEN <<>> ELSE contents[d]
  BY DEF Without
<1>2. new \in [FileIds -> Seq(BlockSet)]
  BY DEF Without
<1> HIDE DEF new
<1>3. FilesGood(new)
  <2> SUFFICES ASSUME NEW d \in FileIds PROVE \E size \in Nat : FileHolds(new[d], size)
    BY DEF FilesGood
  <2>1. CASE d \in gone
    BY <1>1, <2>1, EmptyFile
  <2>2. CASE d \notin gone
    BY <1>1, <2>2 DEF FilesGood
  <2> QED  BY <2>1, <2>2
<1>4. \A s \in Slots : o[s].id \in FileIds => SizeIn(contents[o[s].id]) <= SizeIn(new[o[s].id])
  <2> SUFFICES ASSUME NEW s \in Slots, o[s].id \in FileIds
               PROVE  SizeIn(contents[o[s].id]) <= SizeIn(new[o[s].id])
    OBVIOUS
  <2>1. new[o[s].id] = contents[o[s].id] /\ SizeIn(contents[o[s].id]) \in Nat
    BY <1>1, SizeType
  <2> QED  BY <2>1
<1>5. OpenGood(o, new)
  BY <1>3, <1>4, OpenKept
<1> QED  BY <1>2, <1>3, <1>5 DEF new

LEMMA Unreferenced ==
    ASSUME NEW r, NEW m, NEW o, RefsGood(r, m, o), NEW contents, OpenGood(o, contents),
           contents \in [FileIds -> Seq(BlockSet)], FilesGood(contents),
           NEW new, new = Without(contents, {d \in FileIds : r[d] = 0})
    PROVE  new \in [FileIds -> Seq(BlockSet)] /\ FilesGood(new) /\ OpenGood(o, new)
<1> DEFINE gone == {d \in FileIds : r[d] = 0}
<1>1. \A s \in Slots : o[s].id \notin gone
  <2> SUFFICES ASSUME NEW s \in Slots, o[s].id \in FileIds PROVE r[o[s].id] # 0
    OBVIOUS
  <2>1. r[o[s].id] > 0
    BY UsedHasRefs
  <2> QED  BY <2>1
<1> HIDE DEF gone
<1>2. new = Without(contents, gone)
  BY DEF gone
<1>3. /\ Without(contents, gone) \in [FileIds -> Seq(BlockSet)] /\ FilesGood(Without(contents, gone))
      /\ OpenGood(o, Without(contents, gone))
  BY <1>1, GoneGood
<1> QED
  <2> HIDE DEF gone
  <2> QED  BY ONLY <1>2, <1>3

LEMMA MemTypes ==
    ASSUME MemInv
    PROVE  /\ fileMap \in MapSet /\ RefsGood(fileRefs, fileMap, open) /\ fileRefs \in [FileIds -> Int]
           /\ fileBlocks \in [FileIds -> Seq(BlockSet)] /\ FilesGood(fileBlocks)
           /\ open \in [Slots -> OpenSet] /\ OpenGood(open, fileBlocks)
           /\ \A s \in Slots : SlotOK(open[s], fileBlocks)
           /\ \A f \in MemNames : fileMap[f] \in FileIds \cup {0}
  BY DEF MemInv, OpenGood, RefsGood, MapSet

\* Nothing but the files that lose their last reference goes with it.
LEMMA DeletesGood ==
    ASSUME MemInv, RefsGood(fileRefs', fileMap', open'), fileMap' \in MapSet,
           OpenGood(open', fileBlocks), DeleteUnreferenced
    PROVE  MemInv'
<1>1. /\ fileBlocks' \in [FileIds -> Seq(BlockSet)] /\ FilesGood(fileBlocks')
      /\ OpenGood(open', fileBlocks')
  <2>1. fileBlocks' = Without(fileBlocks, {d \in FileIds : fileRefs'[d] = 0})
    BY DEF DeleteUnreferenced, Without
  <2> QED  BY <2>1, MemTypes, Unreferenced
<1> QED  BY <1>1 DEF MemInv

LEMMA MemInitGood ==
    ASSUME MemInit
    PROVE  MemInv
<1>1. fileMap \in MapSet
  BY DEF MemInit, MapSet
<1>2. open \in [Slots -> OpenSet] /\ \A s \in Slots : open[s] = Closed /\ open[s].id = 0
  BY ClosedType DEF MemInit
<1>3. OpenGood(open, fileBlocks)
  BY <1>2, ClosedType DEF OpenGood
<1>4. fileBlocks \in [FileIds -> Seq(BlockSet)] /\ FilesGood(fileBlocks)
  BY EmptyFile DEF MemInit, FilesGood
<1>5. RefsGood(fileRefs, fileMap, open)
  <2> SUFFICES ASSUME NEW d \in FileIds PROVE fileRefs[d] = Refs(fileMap, open, d)
    BY DEF RefsGood, MemInit
  <2>1. {f \in MemNames : fileMap[f] = d} = {}
    BY FileIdsFinite DEF MemInit
  <2>2. {s \in Slots : IdOf(open)[s] = d} = {}
    BY <1>2, FileIdsFinite DEF IdOf
  <2>3. Count(fileMap, MemNames, d) = 0 /\ Count(IdOf(open), Slots, d) = 0
    BY <2>1, <2>2, FS_EmptySet DEF Count
  <2> QED  BY <2>3 DEF Refs, MemInit
<1> QED  BY <1>1, <1>3, <1>4, <1>5 DEF MemInv

LEMMA OpenForReadingGood ==
    ASSUME MemInv, NEW s \in Slots, NEW f \in MemNames, NEW kind \in {"sequential", "random"},
           OpenForReading(s, f, kind)
    PROVE  MemInv'
<1> DEFINE d == fileMap[f]
           v == [kind |-> kind, id |-> d, pos |-> 0]
<1>1. /\ d \in FileIds /\ open[s] = Closed /\ open[s].id = 0
      /\ fileRefs' = [fileRefs EXCEPT ![d] = @ + 1] /\ open' = [open EXCEPT ![s] = v]
      /\ fileMap' = fileMap /\ fileBlocks' = fileBlocks
  BY MemTypes, ClosedType DEF OpenForReading, FreeSlot
<1> HIDE DEF d
<1>2. v \in OpenSet /\ v.id = d /\ v.pos = 0
  BY <1>1 DEF OpenSet
<1>3. SlotOK(v, fileBlocks)
  BY <1>1, <1>2, MemTypes, SizeType DEF SlotOK
<1> HIDE DEF v
<1>4. RefsMove(fileRefs, fileRefs', 0, d)
  BY <1>1, MemTypes, FileIdsFinite DEF Same, RefsMove
<1>5. SlotMove(open, open', s, v)
  BY <1>1, <1>2, MemTypes DEF SlotMove
<1>6. RefsGood(fileRefs', fileMap', open')
  BY <1>1, <1>2, <1>4, <1>5, MemTypes, SlotStep
<1>7. OpenGood(open', fileBlocks')
  BY <1>1, <1>3, <1>5, MemTypes, SlotGood
<1> QED  BY <1>1, <1>6, <1>7, MemTypes DEF MemInv

\* While a name has no file and a file object is closed, there is memory for one more file.
LEMMA FreeFile ==
    ASSUME NEW r, NEW m, NEW o, RefsGood(r, m, o), NEW f \in MemNames, m[f] = 0, NEW s \in Slots, o[s].id = 0
    PROVE  \E x \in FileIds : r[x] = 0 /\ \A y \in FileIds : r[y] = 0 => x <= y
<1> DEFINE A == {d \in FileIds : Count(m, MemNames, d) > 0}
           B == {d \in FileIds : Count(IdOf(o), Slots, d) > 0}
           Free == {x \in FileIds : r[x] = 0}
<1>1. IsFiniteSet(A) /\ Cardinality(A) \in Nat /\ Cardinality(A) <= Cardinality(MemNames) - 1
  BY FewUsed, FileIdsFinite, MemAssumption
<1>2. IsFiniteSet(B) /\ Cardinality(B) \in Nat /\ Cardinality(B) <= Cardinality(Slots) - 1
  <2>1. IdOf(o)[s] = 0
    BY DEF IdOf
  <2> QED  BY <2>1, FewUsed, FileIdsFinite, MemAssumption
<1>3. Free # {}
  <2> SUFFICES ASSUME Free = {} PROVE FALSE
    OBVIOUS
  <2>1. FileIds = A \cup B
    <3> SUFFICES ASSUME NEW d \in FileIds PROVE d \in A \/ d \in B
      OBVIOUS
    <3>1. /\ r[d] # 0 /\ r[d] = Count(m, MemNames, d) + Count(IdOf(o), Slots, d)
          /\ Count(m, MemNames, d) \in Nat /\ Count(IdOf(o), Slots, d) \in Nat
      BY RefsNatural
    <3> QED  BY <3>1
  <2> HIDE DEF A, B, Free
  <2>2. Cardinality(A \cup B) = Cardinality(A) + Cardinality(B) - Cardinality(A \cap B)
    BY <1>1, <1>2, FS_Union
  <2>3. Cardinality(A \cap B) \in Nat
    BY <1>1, FS_Intersection, FS_CardinalityType
  <2> QED  BY <1>1, <1>2, <2>1, <2>2, <2>3, FileIdsFinite
<1>4. \E x \in Free : \A y \in Free : x <= y
  <2>1. Free \in SUBSET Nat
    BY FileIdsFinite
  <2> HIDE DEF Free
  <2> QED  BY <1>3, <2>1, LeastNumber
<1> QED  BY <1>4

LEMMA OpenForWritingGood ==
    ASSUME MemInv, NEW s \in Slots, NEW f \in MemNames, OpenForWriting(s, f)
    PROVE  MemInv'
<1> DEFINE r == UnrefFile(fileRefs, fileMap[f])
           d == CHOOSE x \in FileIds : r[x] = 0 /\ \A y \in FileIds : r[y] = 0 => x <= y
           m == [fileMap EXCEPT ![f] = 0]
           v == [kind |-> "write", id |-> d, pos |-> 0]
           gone == {x \in FileIds : x = d \/ r[x] = 0}
<1>1. /\ open[s] = Closed /\ open[s].id = 0
      /\ fileRefs' = [r EXCEPT ![d] = 2] /\ fileMap' = [fileMap EXCEPT ![f] = d]
      /\ fileBlocks' = Without(fileBlocks, gone) /\ open' = [open EXCEPT ![s] = v]
  BY ClosedType DEF OpenForWriting, FreeSlot, Without
<1>2. r \in [FileIds -> Int] /\ RefsMove(fileRefs, r, fileMap[f], 0)
  BY MemTypes, UnrefIs
<1> HIDE DEF r, d
<1>3. RefsGood(r, m, open) /\ m \in MapSet
  <2>1. NameMove(fileMap, m, f, 0)
    BY MemTypes DEF NameMove
  <2> HIDE DEF m
  <2> QED  BY <1>2, <2>1, MemTypes, NameStep
<1>4. m[f] = 0 /\ [m EXCEPT ![f] = d] = [fileMap EXCEPT ![f] = d]
  <2>1. fileMap \in [MemNames -> FileIds \cup {0}]
    BY MemTypes DEF MapSet
  <2> QED  BY <2>1
<1> HIDE DEF m
<1>5. d \in FileIds /\ r[d] = 0
  <2>1. \E x \in FileIds : r[x] = 0 /\ \A y \in FileIds : r[y] = 0 => x <= y
    BY <1>1, <1>3, <1>4, FreeFile
  <2> QED  BY <2>1 DEF d
<1> DEFINE r1 == [r EXCEPT ![d] = 1]
<1>6. /\ RefsMove(r, r1, 0, d)
      /\ r1 \in [FileIds -> Int] /\ r1[d] = 1 /\ fileRefs' = [r1 EXCEPT ![d] = 2]
  BY <1>1, <1>2, <1>5, FileIdsFinite DEF Same, RefsMove
<1> HIDE DEF r1
<1>7. RefsGood(r1, fileMap', open) /\ fileMap' \in MapSet
  <2>1. NameMove(m, fileMap', f, d)
    BY <1>1, <1>3, <1>4, <1>5 DEF NameMove
  <2> QED  BY <1>3, <1>4, <1>6, <2>1, NameStep
<1>8. v \in OpenSet /\ v.id = d /\ v.pos = 0
  BY <1>5 DEF OpenSet
<1> HIDE DEF v
<1>9. RefsMove(r1, fileRefs', 0, d) /\ SlotMove(open, open', s, v)
  <2>1. RefsMove(r1, fileRefs', 0, d)
    BY <1>5, <1>6, FileIdsFinite DEF Same, RefsMove
  <2>2. SlotMove(open, open', s, v)
    BY <1>1, <1>8, MemTypes DEF SlotMove
  <2> QED  BY <2>1, <2>2
<1>10. RefsGood(fileRefs', fileMap', open')
  BY <1>1, <1>7, <1>8, <1>9, SlotStep
<1>11. \A t \in Slots : open[t].id \notin gone
  <2> SUFFICES ASSUME NEW t \in Slots, open[t].id \in FileIds PROVE r[open[t].id] # 0
    BY <1>5
  <2>1. r[open[t].id] > 0
    BY <1>3, UsedHasRefs
  <2> QED  BY <2>1
<1> HIDE DEF gone
<1>12. /\ fileBlocks' \in [FileIds -> Seq(BlockSet)] /\ FilesGood(fileBlocks')
       /\ OpenGood(open, fileBlocks')
  BY <1>1, <1>11, MemTypes, GoneGood
<1>13. SlotOK(v, fileBlocks')
  BY <1>5, <1>8, <1>12, SizeType DEF SlotOK
<1>14. OpenGood(open', fileBlocks')
  BY <1>9, <1>12, <1>13, SlotGood
<1> QED  BY <1>7, <1>10, <1>12, <1>14 DEF MemInv

LEMMA AppendFileGood ==
    ASSUME MemInv, NEW s \in Slots, NEW n \in Nat, AppendFile(s, n)
    PROVE  MemInv'
<1> DEFINE d == open[s].id
           more == AppendBytes(fileBlocks[d], n)
<1>1. d \in FileIds /\ fileBlocks' = [fileBlocks EXCEPT ![d] = more] /\ UNCHANGED <<fileMap, fileRefs, open>>
  BY MemTypes, ClosedType DEF AppendFile, SlotOK
<1> HIDE DEF d
<1>2. SizeIn(fileBlocks[d]) \in Nat /\ FileHolds(fileBlocks[d], SizeIn(fileBlocks[d]))
  BY <1>1, MemTypes, SizeType
<1>3. PICK size \in Nat : SizeIn(fileBlocks[d]) <= size /\ FileHolds(more, size)
  BY <1>2, AppendBytesHolds
<1>4. more \in Seq(BlockSet) /\ SizeIn(more) = size
  BY <1>3, FileSize DEF FileHolds
<1> HIDE DEF more
<1>5. /\ fileBlocks' \in [FileIds -> Seq(BlockSet)]
      /\ \A x \in FileIds : fileBlocks'[x] = IF x = d THEN more ELSE fileBlocks[x]
  BY <1>1, <1>4, MemTypes
<1>6. FilesGood(fileBlocks')
  <2> SUFFICES ASSUME NEW x \in FileIds PROVE \E z \in Nat : FileHolds(fileBlocks'[x], z)
    BY DEF FilesGood
  <2>1. CASE x = d
    BY <1>3, <1>5, <2>1
  <2>2. CASE x # d
    BY <1>5, <2>2, MemTypes DEF FilesGood
  <2> QED  BY <2>1, <2>2
<1>7. \A t \in Slots : open[t].id \in FileIds => SizeIn(fileBlocks[open[t].id]) <= SizeIn(fileBlocks'[open[t].id])
  <2> SUFFICES ASSUME NEW t \in Slots, open[t].id \in FileIds
               PROVE  SizeIn(fileBlocks[open[t].id]) <= SizeIn(fileBlocks'[open[t].id])
    OBVIOUS
  <2>1. CASE open[t].id = d
    BY <1>3, <1>4, <1>5, <2>1
  <2>2. CASE open[t].id # d
    <3>1. fileBlocks'[open[t].id] = fileBlocks[open[t].id] /\ SizeIn(fileBlocks[open[t].id]) \in Nat
      BY <1>5, <2>2, MemTypes, SizeType
    <3> QED  BY <3>1
  <2> QED  BY <2>1, <2>2
<1>8. OpenGood(open, fileBlocks')
  BY <1>6, <1>7, MemTypes, OpenKept
<1> QED  BY <1>1, <1>5, <1>6, <1>8, MemTypes DEF MemInv

\* A reader moves on in its file.
LEMMA PositionMoves ==
    ASSUME MemInv, NEW s \in Slots, open[s] # Closed, NEW p \in Nat, p <= SizeIn(fileBlocks[open[s].id]),
           open' = [open EXCEPT ![s] = [@ EXCEPT !.pos = p]], UNCHANGED <<fileMap, fileRefs, fileBlocks>>
    PROVE  MemInv'
<1> DEFINE v == [open[s] EXCEPT !.pos = p]
<1>1. open[s] \in OpenSet /\ open[s].id \in FileIds
  BY MemTypes DEF SlotOK
<1>2. v \in OpenSet /\ v.id = open[s].id /\ v.pos = p
  BY <1>1 DEF OpenSet
<1>3. open' = [open EXCEPT ![s] = v]
  OBVIOUS
<1> HIDE DEF v
<1>4. OpenGood(open', fileBlocks)
  <2>1. SlotOK(v, fileBlocks)
    BY <1>1, <1>2 DEF SlotOK
  <2>2. SlotMove(open, open', s, v)
    BY <1>2, <1>3, MemTypes DEF SlotMove
  <2> QED  BY <2>1, <2>2, MemTypes, SlotGood
<1>5. RefsMove(fileRefs, fileRefs, open[s].id, v.id)
  <2>1. \A x \in FileIds : Same(x, v.id) = Same(x, open[s].id) /\ Same(x, v.id) \in Int /\ fileRefs[x] \in Int
    BY <1>2, MemTypes DEF Same
  <2> QED  BY <2>1, MemTypes DEF RefsMove
<1>6. RefsGood(fileRefs, fileMap, open')
  <2>1. SlotMove(open, open', s, v)
    BY <1>2, <1>3, MemTypes DEF SlotMove
  <2> QED  BY <1>5, <2>1, MemTypes, SlotStep
<1> QED  BY <1>4, <1>6, MemTypes DEF MemInv

LEMMA ReaderAt ==
    ASSUME MemInv, NEW s \in Slots, open[s].kind = "sequential"
    PROVE  /\ open[s] # Closed /\ open[s].id \in FileIds /\ open[s].pos \in Nat
           /\ SizeIn(fileBlocks[open[s].id]) \in Nat /\ open[s].pos <= SizeIn(fileBlocks[open[s].id])
           /\ FileHolds(fileBlocks[open[s].id], SizeIn(fileBlocks[open[s].id]))
<1>1. open[s] # Closed
  BY ClosedType
<1>2. open[s].id \in FileIds /\ open[s].pos <= SizeIn(fileBlocks[open[s].id]) /\ open[s].pos \in Nat
  BY <1>1, MemTypes DEF SlotOK, OpenSet
<1> QED  BY <1>1, <1>2, MemTypes, SizeType

LEMMA ReadFileGood ==
    ASSUME MemInv, NEW s \in Slots, NEW n \in Nat, ReadFile(s, n)
    PROVE  MemInv'
<1> DEFINE blocks == fileBlocks[open[s].id]
           size == SizeIn(blocks)
           at == open[s].pos
           got == ReadBytes(blocks, at, n)
           count == ReadCount(at, n, size)
<1>1. open[s].kind = "sequential" /\ UNCHANGED <<fileMap, fileRefs, fileBlocks>>
      /\ open' = [open EXCEPT ![s] = [@ EXCEPT !.pos = at + Len(got)]]
  BY DEF ReadFile
<1>2. open[s] # Closed /\ at \in Nat /\ size \in Nat /\ at <= size /\ FileHolds(blocks, size)
  BY <1>1, ReaderAt
<1> HIDE DEF blocks, size, at
<1>3. at \in 0 .. size
  BY <1>2
<1>4. got = BytesFrom(at, count) /\ count \in Nat /\ at + count <= size
  BY <1>2, <1>3, ReadHolds
<1> HIDE DEF got, count
<1>5. Len(got) = count
  BY <1>4 DEF BytesFrom
<1>6. at + Len(got) \in Nat /\ at + Len(got) <= size
  BY <1>2, <1>4, <1>5
<1> DEFINE p == at + Len(got)
<1> HIDE DEF p
<1>7. p \in Nat /\ p <= SizeIn(fileBlocks[open[s].id]) /\ open' = [open EXCEPT ![s] = [@ EXCEPT !.pos = p]]
  BY <1>1, <1>6 DEF p, size, blocks
<1> QED  BY <1>1, <1>2, <1>7, PositionMoves

LEMMA SkipBytesGood ==
    ASSUME MemInv, NEW s \in Slots, NEW n \in Nat, SkipBytes(s, n)
    PROVE  MemInv'
<1> DEFINE size == SizeIn(fileBlocks[open[s].id])
           p == IF open[s].pos + n > size THEN size ELSE open[s].pos + n
<1>1. open[s].kind = "sequential" /\ UNCHANGED <<fileMap, fileRefs, fileBlocks>>
      /\ open' = [open EXCEPT ![s] = [@ EXCEPT !.pos = p]]
  BY DEF SkipBytes
<1>2. open[s] # Closed /\ open[s].pos \in Nat /\ size \in Nat /\ open[s].pos <= size
  BY <1>1, ReaderAt
<1>3. p \in Nat /\ p <= size
  BY <1>2
<1> HIDE DEF p
<1> QED  BY <1>1, <1>2, <1>3, PositionMoves

LEMMA CloseFileGood ==
    ASSUME MemInv, NEW s \in Slots, CloseFile(s)
    PROVE  MemInv'
<1> DEFINE d == open[s].id
<1>1. /\ d \in FileIds /\ fileRefs' = [fileRefs EXCEPT ![d] = @ - 1]
      /\ open' = [open EXCEPT ![s] = Closed] /\ DeleteUnreferenced /\ fileMap' = fileMap
  BY MemTypes DEF CloseFile, SlotOK
<1> HIDE DEF d
<1>2. RefsMove(fileRefs, fileRefs', d, 0)
  BY <1>1, MemTypes, FileIdsFinite DEF Same, RefsMove
<1>3. SlotMove(open, open', s, Closed)
  BY <1>1, MemTypes, ClosedType DEF SlotMove
<1>4. RefsGood(fileRefs', fileMap', open') /\ OpenGood(open', fileBlocks)
  <2>1. RefsMove(fileRefs, fileRefs', open[s].id, Closed.id)
    BY <1>2, ClosedType DEF d
  <2>2. RefsGood(fileRefs', fileMap, open')
    BY <1>3, <2>1, MemTypes, SlotStep
  <2>3. OpenGood(open', fileBlocks)
    BY <1>3, MemTypes, ClosedType, SlotGood
  <2> QED  BY <1>1, <2>2, <2>3
<1> QED  BY <1>1, <1>4, MemTypes, DeletesGood

LEMMA DeleteFileGood ==
    ASSUME MemInv, NEW f \in MemNames, DeleteFile(f)
    PROVE  MemInv'
<1>1. /\ fileRefs' = UnrefFile(fileRefs, fileMap[f]) /\ fileMap' = [fileMap EXCEPT ![f] = 0]
      /\ DeleteUnreferenced /\ open' = open
  BY DEF DeleteFile
<1>2. RefsMove(fileRefs, fileRefs', fileMap[f], 0)
  BY <1>1, MemTypes, UnrefIs
<1>3. RefsGood(fileRefs', fileMap', open') /\ fileMap' \in MapSet
  <2>1. NameMove(fileMap, fileMap', f, 0)
    BY <1>1, MemTypes DEF NameMove
  <2> QED  BY <1>1, <1>2, <2>1, MemTypes, NameStep
<1> QED  BY <1>1, <1>3, MemTypes, DeletesGood

LEMMA RenameFileGood ==
    ASSUME MemInv, NEW f \in MemNames, NEW g \in MemNames, RenameFile(f, g)
    PROVE  MemInv'
<1> DEFINE a == fileMap[f]
           b == fileMap[g]
           m == [fileMap EXCEPT ![g] = a]
           r == [x \in FileIds |-> fileRefs[x] + Same(x, a) - Same(x, b)]
<1>1. f # g /\ a \in FileIds \cup {0} /\ b \in FileIds \cup {0}
      /\ fileRefs' = UnrefFile(fileRefs, b) /\ fileMap' = [fileMap EXCEPT ![g] = a, ![f] = 0]
      /\ DeleteUnreferenced /\ open' = open
  BY MemTypes DEF RenameFile
<1>2. /\ fileRefs' \in [FileIds -> Int]
      /\ \A x \in FileIds : fileRefs'[x] = fileRefs[x] + Same(x, 0) - Same(x, b)
  BY <1>1, MemTypes, UnrefIs DEF RefsMove
<1>3. \A x \in FileIds : /\ Same(x, a) \in Int /\ Same(x, b) \in Int /\ Same(x, 0) \in Int
                         /\ fileRefs[x] \in Int
  BY MemTypes DEF Same
<1>4. r \in [FileIds -> Int] /\ \A x \in FileIds : r[x] = fileRefs[x] + Same(x, a) - Same(x, b)
  BY <1>3
<1> HIDE DEF r
<1>5. RefsGood(r, m, open) /\ m \in MapSet
  <2>1. NameMove(fileMap, m, g, a) /\ RefsMove(fileRefs, r, b, a)
    BY <1>1, <1>4, MemTypes DEF NameMove, RefsMove
  <2> HIDE DEF m
  <2> QED  BY <2>1, MemTypes, NameStep
<1>6. m[f] = a /\ fileMap' = [m EXCEPT ![f] = 0]
  BY <1>1, MemTypes DEF MapSet
<1> HIDE DEF m
<1>7. \A x \in FileIds : fileRefs'[x] = r[x] + Same(x, 0) - Same(x, m[f])
  BY <1>2, <1>3, <1>4, <1>6
<1>8. RefsGood(fileRefs', fileMap', open') /\ fileMap' \in MapSet
  <2>1. NameMove(m, fileMap', f, 0) /\ RefsMove(r, fileRefs', m[f], 0)
    BY <1>2, <1>5, <1>6, <1>7 DEF NameMove, RefsMove
  <2> QED  BY <1>1, <1>5, <2>1, NameStep
<1> QED  BY <1>1, <1>8, MemTypes, DeletesGood

LEMMA MemInvExact ==
    ASSUME MemInv
    PROVE  MemFilesExact
<1>1. ASSUME NEW d \in FileIds
      PROVE  fileRefs[d] = Cardinality({f \in MemNames : fileMap[f] = d})
                           + Cardinality({s \in Slots : open[s].id = d})
  <2>1. {s \in Slots : IdOf(open)[s] = d} = {s \in Slots : open[s].id = d}
    BY DEF IdOf
  <2> QED  BY <2>1, MemTypes DEF RefsGood, Refs, Count
<1>2. \A s \in Slots : open[s] # Closed => open[s].pos <= SizeIn(fileBlocks[open[s].id])
  BY MemTypes DEF SlotOK
<1>3. ASSUME NEW s \in Slots, open[s].kind \in {"sequential", "random"},
             NEW at \in 0 .. SizeIn(fileBlocks[open[s].id]), NEW n \in 1 .. MaxBytes
      PROVE  ReadBytes(fileBlocks[open[s].id], at, n) = Expected(open[s].id, at, n)
  <2> DEFINE d == open[s].id
             size == SizeIn(fileBlocks[d])
  <2>1. d \in FileIds
    BY <1>3, MemTypes, ClosedType DEF SlotOK
  <2> HIDE DEF d
  <2>2. size \in Nat /\ FileHolds(fileBlocks[d], size)
    BY <2>1, MemTypes, SizeType
  <2>3. at \in 0 .. size /\ n \in Nat
    BY MemAssumption DEF d
  <2> HIDE DEF size
  <2>4. ReadBytes(fileBlocks[d], at, n) = BytesFrom(at, ReadCount(at, n, size))
    BY <2>2, <2>3, ReadHolds
  <2>5. ReadBytes(fileBlocks[d], at, n) = Expected(d, at, n)
    BY <2>4 DEF Expected, BytesFrom, ReadCount, size
  <2> QED  BY <2>5 DEF d
<1> QED  BY <1>1, <1>2, <1>3 DEF MemFilesExact

LEMMA MemStepGood == MemInv /\ [MemNext]_memVars => MemInv'
<1> SUFFICES ASSUME MemInv, [MemNext]_memVars PROVE MemInv'
  OBVIOUS
<1>1. CASE UNCHANGED memVars
  BY <1>1 DEF memVars, MemInv
<1>2. ASSUME NEW s \in Slots, NEW f \in MemNames, OpenForReading(s, f, "sequential") PROVE MemInv'
  BY <1>2, OpenForReadingGood
<1>3. ASSUME NEW s \in Slots, NEW f \in MemNames, OpenForReading(s, f, "random") PROVE MemInv'
  BY <1>3, OpenForReadingGood
<1>4. ASSUME NEW s \in Slots, NEW f \in MemNames, OpenForWriting(s, f) PROVE MemInv'
  BY <1>4, OpenForWritingGood
<1>5. ASSUME NEW s \in Slots, NEW n \in 1 .. MaxBytes, AppendFile(s, n) PROVE MemInv'
  BY <1>5, AppendFileGood
<1>6. ASSUME NEW s \in Slots, NEW n \in 1 .. MaxBytes, ReadFile(s, n) PROVE MemInv'
  BY <1>6, ReadFileGood
<1>7. ASSUME NEW s \in Slots, NEW n \in 1 .. MaxBytes, SkipBytes(s, n) PROVE MemInv'
  BY <1>7, SkipBytesGood
<1>8. ASSUME NEW s \in Slots, CloseFile(s) PROVE MemInv'
  BY <1>8, CloseFileGood
<1>9. ASSUME NEW f \in MemNames, DeleteFile(f) PROVE MemInv'
  BY <1>9, DeleteFileGood
<1>10. ASSUME NEW f \in MemNames, NEW g \in MemNames, RenameFile(f, g) PROVE MemInv'
  BY <1>10, RenameFileGood
<1> QED
  BY <1>1, <1>2, <1>3, <1>4, <1>5, <1>6, <1>7, <1>8, <1>9, <1>10 DEF MemNext

\* For any names, open files and block size: a FileState has exactly one reference for its name and
\* one for every open file, so it is deleted with the last and never before; an open file keeps its
\* content when its name is deleted, replaced or renamed; no reader is beyond the end; and a read
\* gives the bytes appended, across the blocks they are kept in (memenv.cc).
THEOREM MemFilesStayExact == MemSpec => []MemFilesExact
<1>1. MemInit => MemInv
  BY MemInitGood
<1>2. MemInv => MemFilesExact
  BY MemInvExact
<1> QED  BY <1>1, <1>2, MemStepGood, PTL DEF MemSpec

\* The files of both environments keep what was written to them: those of InMemoryEnv, shared by
\* their users, and the one that PosixMmapFile writes through its moving window.
THEOREM EnvironmentFilesExact == MemSpec /\ MmSpec => []FilesExact
<1>1. MemFilesExact /\ MappedFileExact => FilesExact
  BY DEF FilesExact
<1> QED  BY <1>1, MemFilesStayExact, MappedFilesExact, PTL
=============================================================================
