-------------------------- MODULE BlockCheckProofs --------------------------
(***************************************************************************)
(* TLAPS proofs about what a node does with the transactions of a block:   *)
(* their scripts are checked by the threads of CheckQueue, for any number  *)
(* of workers and checks and any batch size, where Inv is inductive and    *)
(* every step is a step of CheckRound; their coins are written and read    *)
(* back (CoinStore); and the Merkle branch of each one proves its place    *)
(* (MerkleTree), in a block of any length.                                 *)
(***************************************************************************)
EXTENDS CheckQueue, CoinStore, MerkleTree,
        FiniteSetTheorems, SequenceTheorems, NumberFacts, TLAPS

----------------------------------------------------------------------------
(* Facts about the operators.                                              *)

\* Everything a thread can be in is finite, so cardinalities are naturals.
LEMMA ThreadSetsFinite ==
    /\ IsFiniteSet(Threads)
    /\ \A X \in SUBSET Threads : IsFiniteSet(X) /\ Cardinality(X) \in Nat
    /\ \A X \in SUBSET Checks : IsFiniteSet(X) /\ Cardinality(X) \in Nat
<1>1. IsFiniteSet(Threads)
  BY QueueAssumption, FS_AddElement DEF Threads
<1>2. \A X \in SUBSET Threads : IsFiniteSet(X) /\ Cardinality(X) \in Nat
  BY <1>1, FS_Subset, FS_CardinalityType
<1>3. \A X \in SUBSET Checks : IsFiniteSet(X) /\ Cardinality(X) \in Nat
  BY QueueAssumption, FS_Subset, FS_CardinalityType
<1> QED BY <1>1, <1>2, <1>3

\* What a counter of a set of threads does when one thread enters or leaves.
LEMMA CountThreads ==
    ASSUME NEW X \in SUBSET Threads, NEW t \in Threads
    PROVE  /\ t \notin X => Cardinality(X \cup {t}) = Cardinality(X) + 1
           /\ t \in X => Cardinality(X \ {t}) = Cardinality(X) - 1
BY ThreadSetsFinite, FS_AddElement, FS_RemoveElement

\* Removing a subset of a set of checks subtracts its size.
LEMMA BatchRemoval ==
    ASSUME NEW X \in SUBSET Checks, NEW B \in SUBSET X
    PROVE  Cardinality(X \ B) = Cardinality(X) - Cardinality(B)
<1>1. IsFiniteSet(B) /\ IsFiniteSet(X \ B) /\ B \in SUBSET Checks /\ X \ B \in SUBSET Checks
  BY ThreadSetsFinite
<1>2. (X \ B) \cup B = X /\ (X \ B) \cap B = {}
  OBVIOUS
<1>3. Cardinality((X \ B) \cup B) = Cardinality(X \ B) + Cardinality(B) - Cardinality((X \ B) \cap B)
  BY <1>1, FS_Union
<1> QED BY <1>1, <1>2, <1>3, FS_EmptySet, ThreadSetsFinite

\* Updating a Boolean-valued function at one thread.
LEMMA BooleanUpdate ==
    ASSUME NEW f \in [Threads -> BOOLEAN], NEW t \in Threads, NEW b \in BOOLEAN
    PROVE  /\ [f EXCEPT ![t] = b][t] = b
           /\ \A u \in Threads : u # t => [f EXCEPT ![t] = b][u] = f[u]
BY Zenon

\* The elements of Outstanding, spelt out.
LEMMA OutstandingElements ==
    /\ \A c : c \in Outstanding <=> c \in queue \/ \E t \in Threads : c \in batch[t]
    /\ \A c : (c \in Outstanding <=> c \in queue \/ \E t \in Threads : c \in batch[t])'
BY DEF Outstanding

\* The initial state satisfies the inductive invariant.
LEMMA InitInv == Init => Inv
<1> SUFFICES ASSUME Init PROVE Inv
  OBVIOUS
<1> USE DEF Init
<1>1. TypeOK
  BY QueueAssumption DEF TypeOK, Threads, InLoop
<1>2. ThreadState
  BY QueueAssumption DEF ThreadState, HasBatch, Threads
<1>3. MasterState
  BY QueueAssumption DEF MasterState, Threads
<1>4. Outstanding = {}
  BY DEF Outstanding
<1>5. ResultsSoFar
  BY <1>4 DEF ResultsSoFar, HasBatch
<1>6. TodoAccounting
  BY <1>4, FS_EmptySet DEF TodoAccounting
<1>7. Asleep = {} /\ Pool = {}
  BY DEF Asleep, Pool, InLoop
<1>8. PoolCounters
  BY <1>7, FS_EmptySet DEF PoolCounters
<1> QED BY <1>1, <1>2, <1>3, <1>5, <1>6, <1>8 DEF Inv
----------------------------------------------------------------------------
(* Each action preserves Inv.                                              *)

\* A change of the program counters that moves no thread in or out of Loop()
\* or of its wait leaves both counted sets alone.
LEMMA SamePool ==
    ASSUME TypeOK, pc' \in [Threads -> InLoop \cup {"out", "enter", "dead"}],
           \A t \in Threads : /\ pc'[t] \in InLoop <=> pc[t] \in InLoop
                              /\ pc'[t] \in {"wait", "woken"} <=> pc[t] \in {"wait", "woken"}
    PROVE  Pool' = Pool /\ Asleep' = Asleep
BY DEF Pool, Asleep

LEMMA ConstructInv == Inv /\ Construct => Inv'
<1> SUFFICES ASSUME Inv, Construct PROVE Inv'
  OBVIOUS
<1> USE DEF Construct, qvars, tvars
<1>1. TypeOK' /\ ThreadState'
  BY DEF Inv, TypeOK, ThreadState, HasBatch
<1>2. MasterState'
  BY DEF Inv, MasterState
<1>3. Outstanding' = Outstanding /\ Asleep' = Asleep /\ Pool' = Pool
  BY DEF Outstanding, Asleep, Pool
<1>4. ResultsSoFar' /\ TodoAccounting' /\ PoolCounters'
  BY <1>3 DEF Inv, ResultsSoFar, TodoAccounting, PoolCounters, HasBatch
<1> QED BY <1>1, <1>2, <1>4 DEF Inv

LEMMA AddInv ==
    ASSUME Inv, NEW S \in SUBSET (Checks \ added), NEW F \in SUBSET S, Add(S, F)
    PROVE  Inv'
<1> USE DEF Add
<1>1. PICK W \in SUBSET Blocked : pc' = Notify(W)
  OBVIOUS
<1>2. /\ pc' \in [Threads -> InLoop \cup {"out", "enter", "dead"}]
      /\ \A t \in Threads : pc'[t] = pc[t] \/ (pc[t] = "wait" /\ pc'[t] = "woken" /\ t \in Workers)
  BY <1>1 DEF Inv, TypeOK, Notify, InLoop, Blocked
<1>3. \A t \in Threads : HasBatch(t)' <=> HasBatch(t)
  BY <1>2 DEF HasBatch
<1>4. TypeOK'
  BY <1>2, ThreadSetsFinite DEF Inv, TypeOK
<1>5. ThreadState'
  BY <1>2, <1>3 DEF Inv, ThreadState
<1>6. MasterState'
  BY <1>2 DEF Inv, MasterState, Threads
<1>7. Outstanding' = Outstanding \cup S
  BY OutstandingElements
<1>8. ResultsSoFar'
  <2>1. Outstanding' \subseteq added' /\ bad' \subseteq added'
    BY <1>7 DEF Inv, ResultsSoFar
  <2>2. IF fAllOk' THEN (added' \ Outstanding') \cap bad' = {} ELSE bad' # {}
    BY <1>7 DEF Inv, ResultsSoFar
  <2>3. \A t \in Threads : batch[t] \subseteq added
    BY OutstandingElements DEF Inv, ResultsSoFar
  <2>4. \A t \in Threads : HasBatch(t)' =>
          IF fOk'[t] THEN (batch'[t] \ vChecks'[t]) \cap bad' = {} ELSE bad' # {}
    BY <1>3, <2>3 DEF Inv, ResultsSoFar
  <2> QED BY <2>1, <2>2, <2>4 DEF ResultsSoFar
<1>9. TodoAccounting'
  <2>1. Outstanding \in SUBSET Checks
    BY OutstandingElements DEF Inv, TypeOK
  <2>2. Outstanding \cap S = {}
    BY DEF Inv, ResultsSoFar
  <2>3. Cardinality(Outstanding \cup S) = Cardinality(Outstanding) + Cardinality(S)
    <3>1. IsFiniteSet(Outstanding) /\ IsFiniteSet(S) /\ S \in SUBSET Checks
      BY <2>1, ThreadSetsFinite
    <3>2. Cardinality(Outstanding \cup S)
             = Cardinality(Outstanding) + Cardinality(S) - Cardinality(Outstanding \cap S)
      BY <3>1, FS_Union
    <3> QED BY <2>1, <2>2, <3>1, <3>2, FS_EmptySet, ThreadSetsFinite
  <2>4. \A t \in Threads : batch[t] \cap S = {}
    BY <2>2, OutstandingElements
  <2> QED BY <1>7, <2>3, <2>4 DEF Inv, TodoAccounting
<1>10. PoolCounters'
  <2>1. Pool' = Pool /\ Asleep' = Asleep
    BY <1>2, SamePool DEF Inv, InLoop
  <2> QED BY <2>1 DEF Inv, PoolCounters
<1> QED BY <1>4, <1>5, <1>6, <1>8, <1>9, <1>10 DEF Inv

LEMMA CallWaitInv == Inv /\ CallWait => Inv'
<1> SUFFICES ASSUME Inv, CallWait PROVE Inv'
  OBVIOUS
<1> USE DEF CallWait, qvars, rvars
<1>1. Master \in Threads /\ Master \notin Workers /\ pc[Master] = "out"
  BY QueueAssumption DEF Threads
<1>2. TypeOK'
  BY <1>1 DEF Inv, TypeOK
<1>3. ThreadState' /\ MasterState'
  BY <1>1, QueueAssumption DEF Inv, TypeOK, ThreadState, MasterState, HasBatch, Threads
<1>4. Outstanding' = Outstanding
  BY DEF Outstanding
<1>5. ResultsSoFar' /\ TodoAccounting'
  BY <1>4, <1>1 DEF Inv, TypeOK, ResultsSoFar, TodoAccounting, HasBatch
<1>6. Pool' = Pool /\ Asleep' = Asleep
  BY <1>1 DEF Inv, TypeOK, Pool, Asleep, InLoop
<1>7. PoolCounters'
  BY <1>6 DEF Inv, PoolCounters
<1> QED BY <1>2, <1>3, <1>5, <1>7 DEF Inv

LEMMA EnterInv ==
    ASSUME Inv, NEW t \in Threads, Enter(t)
    PROVE  Inv'
<1> USE DEF Enter, rvars
<1>1. TypeOK'
  BY DEF Inv, TypeOK, InLoop, Threads
<1>2. ThreadState'
  BY QueueAssumption DEF Inv, TypeOK, ThreadState, HasBatch, Threads
<1>3. MasterState'
  BY DEF Inv, TypeOK, MasterState, Threads
<1>4. Outstanding' = Outstanding
  BY DEF Outstanding
<1>5. ResultsSoFar' /\ TodoAccounting'
  BY <1>4 DEF Inv, TypeOK, ResultsSoFar, TodoAccounting, HasBatch
<1>6. Pool' = Pool \cup {t} /\ Asleep' = Asleep /\ t \notin Pool
  BY DEF Inv, TypeOK, Pool, Asleep, InLoop
<1>7. Cardinality(Pool') = Cardinality(Pool) + 1
  BY <1>6, CountThreads DEF Pool
<1>8. PoolCounters'
  BY <1>6, <1>7, ThreadSetsFinite DEF Inv, TypeOK, PoolCounters, Pool
<1> QED BY <1>1, <1>2, <1>3, <1>5, <1>8 DEF Inv

LEMMA AccountInv ==
    ASSUME Inv, NEW t \in Threads, Account(t)
    PROVE  Inv'
<1> USE DEF Account, rvars, AllOkAfter, TodoAfter
<1>1. /\ pc' \in [Threads -> InLoop \cup {"out", "enter", "dead"}]
      /\ pc'[t] = "crit" /\ pc[t] = "loop"
      /\ \A u \in Threads : u # t =>
            pc'[u] = pc[u] \/ (pc[u] = "wait" /\ pc'[u] = "woken")
  BY DEF Inv, TypeOK, Notify, InLoop
<1>2. /\ ~HasBatch(t)' /\ HasBatch(t)
      /\ \A u \in Threads : u # t => (HasBatch(u)' <=> HasBatch(u))
  BY <1>1 DEF HasBatch
<1>3. \A u \in Threads : batch'[u] = IF u = t THEN {} ELSE batch[u]
  BY DEF Inv, TypeOK
<1>4. ThreadState'
  BY <1>1, <1>2, <1>3, QueueAssumption DEF Inv, TypeOK, ThreadState, Threads
<1>5. MasterState'
  BY <1>1 DEF Inv, MasterState, Threads
<1>6. Outstanding' = Outstanding \ batch[t]
  BY <1>3, OutstandingElements DEF Inv, TodoAccounting
<1>7. ResultsSoFar'
  <2>1. Outstanding' \subseteq added' /\ bad' \subseteq added'
    BY <1>6 DEF Inv, ResultsSoFar
  <2>2. IF fAllOk' THEN (added' \ Outstanding') \cap bad' = {} ELSE bad' # {}
    BY <1>1, <1>2, <1>6 DEF Inv, TypeOK, ResultsSoFar, ThreadState
  <2>3. \A u \in Threads : HasBatch(u)' =>
          IF fOk'[u] THEN (batch'[u] \ vChecks'[u]) \cap bad' = {} ELSE bad' # {}
    BY <1>2, <1>3 DEF Inv, ResultsSoFar
  <2> QED BY <2>1, <2>2, <2>3 DEF ResultsSoFar
<1>8. TodoAccounting'
  <2>1. Outstanding \in SUBSET Checks /\ batch[t] \subseteq Outstanding /\ batch[t] \in SUBSET Checks
    BY OutstandingElements DEF Inv, TypeOK
  <2>2. Cardinality(Outstanding \ batch[t]) = Cardinality(Outstanding) - Cardinality(batch[t])
    BY <2>1, BatchRemoval
  <2> QED BY <1>2, <1>3, <1>6, <2>2 DEF Inv, TodoAccounting, ThreadState
<1>9. Pool' = Pool /\ Asleep' = Asleep
  BY <1>1, SamePool DEF Inv, InLoop
<1>10. PoolCounters'
  BY <1>9 DEF Inv, PoolCounters
<1>11. TypeOK'
  <2>1. Outstanding' \in SUBSET Checks
    BY <1>6, OutstandingElements DEF Inv, TypeOK
  <2>2. nTodo' \in Nat
    BY <1>8, <2>1, ThreadSetsFinite DEF TodoAccounting
  <2> QED BY <1>1, <2>2 DEF Inv, TypeOK
<1> QED BY <1>4, <1>5, <1>7, <1>8, <1>10, <1>11 DEF Inv

\* Wake, SpuriousWake and Sleep move one thread between waiting and running.
LEMMA WakeInv ==
    ASSUME Inv, NEW t \in Threads, Wake(t)
    PROVE  Inv'
<1> USE DEF Wake, rvars
<1>1. ThreadState' /\ MasterState'
  BY QueueAssumption DEF Inv, TypeOK, ThreadState, MasterState, HasBatch, Threads
<1>2. Outstanding' = Outstanding
  BY DEF Outstanding
<1>3. ResultsSoFar' /\ TodoAccounting'
  BY <1>2 DEF Inv, TypeOK, ResultsSoFar, TodoAccounting, HasBatch
<1>4. Pool' = Pool /\ Asleep' = Asleep \ {t} /\ t \in Asleep
  BY DEF Inv, TypeOK, Pool, Asleep, InLoop
<1>5. Cardinality(Asleep') = Cardinality(Asleep) - 1
  BY <1>4, CountThreads DEF Asleep
<1>6. PoolCounters'
  BY <1>4, <1>5, ThreadSetsFinite DEF Inv, TypeOK, PoolCounters, Asleep
<1>7. nIdle' \in Nat
  BY <1>6, ThreadSetsFinite DEF PoolCounters, Inv, TypeOK, Asleep
<1>8. TypeOK'
  BY <1>7 DEF Inv, TypeOK, InLoop, Threads
<1> QED BY <1>1, <1>3, <1>6, <1>8 DEF Inv

LEMMA SleepInv ==
    ASSUME Inv, NEW t \in Threads, Sleep(t)
    PROVE  Inv'
<1> USE DEF Sleep, rvars
<1>1. TypeOK'
  BY DEF Inv, TypeOK, InLoop
<1>2. ThreadState' /\ MasterState'
  BY QueueAssumption DEF Inv, TypeOK, ThreadState, MasterState, HasBatch, Threads
<1>3. Outstanding' = Outstanding
  BY DEF Outstanding
<1>4. ResultsSoFar' /\ TodoAccounting'
  BY <1>3 DEF Inv, TypeOK, ResultsSoFar, TodoAccounting, HasBatch
<1>5. Pool' = Pool /\ Asleep' = Asleep \cup {t} /\ t \notin Asleep
  BY DEF Inv, TypeOK, Pool, Asleep, InLoop
<1>6. Cardinality(Asleep') = Cardinality(Asleep) + 1
  BY <1>5, CountThreads DEF Asleep
<1>7. PoolCounters'
  BY <1>5, <1>6, ThreadSetsFinite DEF Inv, TypeOK, PoolCounters, Asleep
<1> QED BY <1>1, <1>2, <1>4, <1>7 DEF Inv

LEMMA SpuriousWakeInv ==
    ASSUME Inv, NEW t \in Threads, SpuriousWake(t)
    PROVE  Inv'
<1> USE DEF SpuriousWake, qvars, rvars
<1>1. TypeOK'
  BY DEF Inv, TypeOK, InLoop
<1>2. ThreadState' /\ MasterState'
  BY QueueAssumption DEF Inv, TypeOK, ThreadState, MasterState, HasBatch, Threads
<1>3. Outstanding' = Outstanding
  BY DEF Outstanding
<1>4. ResultsSoFar' /\ TodoAccounting'
  BY <1>3 DEF Inv, TypeOK, ResultsSoFar, TodoAccounting, HasBatch
<1>5. Pool' = Pool /\ Asleep' = Asleep
  BY DEF Inv, TypeOK, Pool, Asleep, InLoop
<1>6. PoolCounters'
  BY <1>5 DEF Inv, PoolCounters
<1> QED BY <1>1, <1>2, <1>4, <1>6 DEF Inv

\* The interrupted thread leaves both counted sets, and intr counts it.
LEMMA InterruptInv ==
    ASSUME Inv, NEW t \in Threads, Interrupt(t)
    PROVE  Inv'
<1> USE DEF Interrupt, qvars
<1>1. TypeOK'
  BY DEF Inv, TypeOK, InLoop
<1>2. ThreadState'
  BY QueueAssumption DEF Inv, TypeOK, ThreadState, HasBatch, Threads
<1>3. MasterState'
  BY QueueAssumption DEF Inv, TypeOK, MasterState, Threads
<1>4. Outstanding' = Outstanding
  BY DEF Outstanding
<1>5. ResultsSoFar' /\ TodoAccounting'
  BY <1>4 DEF Inv, TypeOK, ResultsSoFar, TodoAccounting, HasBatch
<1>6. /\ Pool' = Pool \ {t} /\ t \in Pool
      /\ Asleep' = Asleep \ {t} /\ t \in Asleep
      /\ intr' = intr \cup {t} /\ t \notin intr
  BY DEF Inv, TypeOK, Pool, Asleep, InLoop
<1>7. /\ Cardinality(Asleep') = Cardinality(Asleep) - 1
      /\ Cardinality(Pool') = Cardinality(Pool) - 1
  BY <1>6, CountThreads DEF Asleep, Pool
<1>8. Cardinality(intr') = Cardinality(intr) + 1
  BY <1>6, CountThreads DEF Inv, TypeOK
<1>9. PoolCounters'
  <2>1. Cardinality(Asleep) \in Nat /\ Cardinality(Pool) \in Nat /\ Cardinality(intr) \in Nat
    BY ThreadSetsFinite DEF Inv, TypeOK, Asleep, Pool
  <2> QED BY <1>7, <1>8, <2>1 DEF Inv, PoolCounters
<1> QED BY <1>1, <1>2, <1>3, <1>5, <1>9 DEF Inv

\* Return: everything has been accounted for, so fAllOk is the conjunction
\* of the results of all the checks of the round.
LEMMA ReturnFacts ==
    ASSUME Inv, NEW t \in Threads, Return(t)
    PROVE  t = Master /\ Outstanding = {} /\ (fAllOk <=> bad = {}) /\ round = "open"
<1>1. t = Master /\ nTodo = 0
  BY DEF Return, MayReturn, fQuit
<1>2. Outstanding = {}
  BY <1>1, OutstandingElements, ThreadSetsFinite, FS_EmptySet DEF Inv, TypeOK, TodoAccounting
<1>3. fAllOk <=> bad = {}
  BY <1>2 DEF Inv, TypeOK, ResultsSoFar
<1>4. round = "open"
  BY <1>1 DEF Inv, TypeOK, MasterState, Return, Running
<1> QED BY <1>1, <1>2, <1>3, <1>4

LEMMA ReturnInv ==
    ASSUME Inv, NEW t \in Threads, Return(t)
    PROVE  Inv'
<1> USE DEF Return, StatusAfter
<1>1. t = Master /\ Outstanding = {} /\ (fAllOk <=> bad = {})
  BY ReturnFacts
<1>2. \A u \in Threads : batch[u] = {} /\ ~HasBatch(u)
  BY <1>1, OutstandingElements DEF Inv, ThreadState
<1>3. ThreadState'
  BY <1>1, <1>2, QueueAssumption DEF Inv, TypeOK, ThreadState, HasBatch, Threads
<1>4. MasterState'
  BY <1>1, QueueAssumption DEF Inv, TypeOK, MasterState, Threads
<1>5. Outstanding' = Outstanding
  BY DEF Outstanding
<1>6. ResultsSoFar'
  BY <1>1, <1>2, <1>5 DEF Inv, TypeOK, ResultsSoFar, HasBatch
<1>7. TodoAccounting'
  BY <1>5 DEF Inv, TodoAccounting
<1>8. Pool' = Pool \ {t} /\ t \in Pool /\ Asleep' = Asleep
  BY DEF Inv, TypeOK, Pool, Asleep, InLoop
<1>9. Cardinality(Pool') = Cardinality(Pool) - 1
  BY <1>8, CountThreads DEF Pool
<1>10. PoolCounters'
  BY <1>8, <1>9, ThreadSetsFinite DEF Inv, TypeOK, PoolCounters, Pool
<1>11. nTotal' \in Nat
  BY <1>10, ThreadSetsFinite DEF PoolCounters, Inv, TypeOK, Pool
<1>12. TypeOK'
  BY <1>1, <1>11 DEF Inv, TypeOK
<1> QED BY <1>3, <1>4, <1>6, <1>7, <1>10, <1>12 DEF Inv

LEMMA TakeInv ==
    ASSUME Inv, NEW t \in Threads, NEW S \in SUBSET queue, Take(t, S)
    PROVE  Inv'
<1> USE DEF Take, rvars
<1>1. Cardinality(S) = BatchSize /\ BatchSize \in Nat /\ S # {} /\ S \in SUBSET Checks
  <2>1. S \in SUBSET Checks
    BY DEF Inv, TypeOK
  <2>2. BatchSize >= 1 /\ Cardinality(S) \in Nat
    BY <2>1, ThreadSetsFinite, QueueAssumption DEF BatchSize, AtLeast, AtMost
  <2> QED BY <2>1, <2>2, FS_EmptySet
<1>2. TypeOK'
  BY <1>1 DEF Inv, TypeOK, InLoop
<1>3. /\ HasBatch(t)' /\ ~HasBatch(t)
      /\ \A u \in Threads : u # t => (HasBatch(u)' <=> HasBatch(u))
  BY DEF Inv, TypeOK, HasBatch
<1>4. /\ batch'[t] = S /\ vChecks'[t] = S
      /\ \A u \in Threads : u # t => batch'[u] = batch[u] /\ vChecks'[u] = vChecks[u]
  <2>1. /\ batch \in [Threads -> SUBSET Checks] /\ batch' = [batch EXCEPT ![t] = S]
        /\ vChecks \in [Threads -> SUBSET Checks] /\ vChecks' = [vChecks EXCEPT ![t] = S]
    BY DEF Inv, TypeOK
  <2> QED BY <2>1, Zenon
<1>4a. fOk'[t] = fAllOk /\ \A u \in Threads : u # t => fOk'[u] = fOk[u]
  BY BooleanUpdate DEF Inv, TypeOK
<1>5. batch[t] = {}
  BY <1>3 DEF Inv, ThreadState
<1>6. ThreadState'
  BY <1>1, <1>3, <1>4, QueueAssumption DEF Inv, TypeOK, ThreadState, Threads
<1>7. MasterState'
  BY DEF Inv, TypeOK, MasterState, Threads
<1>8. Outstanding' = Outstanding
  <2>1. \A c : (\E u \in Threads : c \in batch'[u]) <=> (c \in S \/ \E u \in Threads : c \in batch[u])
    BY <1>4, <1>5
  <2>2. \A c : c \in queue' \/ c \in S <=> c \in queue
    OBVIOUS
  <2> QED BY <2>1, <2>2, OutstandingElements
<1>9. ResultsSoFar'
  <2>1. \A u \in Threads : HasBatch(u)' =>
          IF fOk'[u] THEN (batch'[u] \ vChecks'[u]) \cap bad' = {} ELSE bad' # {}
    <3>1. ASSUME NEW u \in Threads, u # t, HasBatch(u)'
          PROVE  IF fOk'[u] THEN (batch'[u] \ vChecks'[u]) \cap bad' = {} ELSE bad' # {}
      BY <1>3, <1>4, <1>4a, <3>1 DEF Inv, ResultsSoFar
    <3>2. batch'[t] \ vChecks'[t] = {} /\ (~fAllOk => bad' # {})
      BY <1>4 DEF Inv, ResultsSoFar
    <3>3. IF fOk'[t] THEN (batch'[t] \ vChecks'[t]) \cap bad' = {} ELSE bad' # {}
      BY <1>4a, <3>2
    <3> QED BY <3>1, <3>3
  <2> QED BY <1>8, <2>1 DEF Inv, ResultsSoFar
<1>10. TodoAccounting'
  BY <1>4, <1>8 DEF Inv, TodoAccounting
<1>11. Pool' = Pool /\ Asleep' = Asleep
  BY DEF Inv, TypeOK, Pool, Asleep, InLoop
<1>12. PoolCounters'
  BY <1>11 DEF Inv, PoolCounters
<1> QED BY <1>2, <1>6, <1>7, <1>9, <1>10, <1>12 DEF Inv

LEMMA ExecuteInv ==
    ASSUME Inv, NEW t \in Threads, NEW c \in Checks, Execute(t, c)
    PROVE  Inv'
<1> USE DEF Execute, qvars, rvars
<1>1. TypeOK'
  BY DEF Inv, TypeOK, InLoop
<1>2. /\ HasBatch(t) /\ \A u \in Threads : HasBatch(u)' <=> HasBatch(u)
      /\ \A u \in Threads : pc'[u] # pc[u] => u = t /\ pc[u] = "run" /\ pc'[u] = "loop" /\ vChecks[t] = {c}
  BY DEF Inv, TypeOK, HasBatch
<1>3. \A u \in Threads : /\ vChecks'[u] = IF u = t THEN vChecks[u] \ {c} ELSE vChecks[u]
  BY DEF Inv, TypeOK
<1>3a. /\ fOk'[t] <=> fOk[t] /\ c \notin bad
       /\ \A u \in Threads : u # t => fOk'[u] = fOk[u]
  <2> DEFINE ok == fOk[t] /\ c \notin bad
  <2>1. fOk \in [Threads -> BOOLEAN] /\ fOk' = [fOk EXCEPT ![t] = ok] /\ ok \in BOOLEAN
    BY DEF Inv, TypeOK
  <2> HIDE DEF ok
  <2>2. fOk'[t] = ok /\ \A u \in Threads : u # t => fOk'[u] = fOk[u]
    BY <2>1, BooleanUpdate
  <2> QED BY <2>2 DEF ok
<1>4. ThreadState'
  BY <1>2, <1>3 DEF Inv, ThreadState
<1>5. MasterState'
  BY <1>2 DEF Inv, MasterState, Threads
<1>6. Outstanding' = Outstanding
  BY DEF Outstanding
<1>7. ResultsSoFar'
  <2>1. \A u \in Threads : HasBatch(u)' =>
          IF fOk'[u] THEN (batch'[u] \ vChecks'[u]) \cap bad' = {} ELSE bad' # {}
    <3>1. ASSUME NEW u \in Threads, u # t, HasBatch(u)'
          PROVE  IF fOk'[u] THEN (batch'[u] \ vChecks'[u]) \cap bad' = {} ELSE bad' # {}
      BY <1>2, <1>3, <1>3a, <3>1 DEF Inv, ResultsSoFar
    <3>2. IF fOk'[t] THEN (batch'[t] \ vChecks'[t]) \cap bad' = {} ELSE bad' # {}
      BY <1>2, <1>3, <1>3a DEF Inv, ResultsSoFar
    <3> QED BY <3>1, <3>2
  <2> QED BY <1>6, <2>1 DEF Inv, ResultsSoFar
<1>8. TodoAccounting'
  BY <1>6 DEF Inv, TodoAccounting
<1>9. Pool' = Pool /\ Asleep' = Asleep
  BY DEF Inv, TypeOK, Pool, Asleep, InLoop
<1>10. PoolCounters'
  BY <1>9 DEF Inv, PoolCounters
<1> QED BY <1>1, <1>4, <1>5, <1>7, <1>8, <1>10 DEF Inv

LEMMA StutterInv == Inv /\ UNCHANGED vars => Inv'
<1> SUFFICES ASSUME Inv, UNCHANGED vars PROVE Inv'
  OBVIOUS
<1> USE DEF vars, qvars, tvars, rvars
<1>1. Outstanding' = Outstanding /\ Asleep' = Asleep /\ Pool' = Pool
  BY DEF Outstanding, Asleep, Pool
<1> QED BY <1>1 DEF Inv, TypeOK, ThreadState, MasterState, ResultsSoFar, TodoAccounting,
                    PoolCounters, HasBatch

\* Inv is inductive.
LEMMA NextInv == Inv /\ [Next]_vars => Inv'
<1> SUFFICES ASSUME Inv, [Next]_vars PROVE Inv'
  OBVIOUS
<1>1. CASE Construct \/ CallWait
  BY <1>1, ConstructInv, CallWaitInv
<1>2. CASE \E S \in SUBSET (Checks \ added) : \E F \in SUBSET S : Add(S, F)
  BY <1>2, AddInv
<1>3. ASSUME NEW t \in Threads, Step(t) PROVE Inv'
  <2>1. CASE Acquire(t)
    BY <2>1, EnterInv, AccountInv, WakeInv DEF Acquire
  <2>2. CASE Decide(t)
    BY <2>2, ReturnInv, SleepInv, TakeInv DEF Decide
  <2>3. CASE \E c \in Checks : Execute(t, c)
    BY <2>3, ExecuteInv
  <2>4. CASE SpuriousWake(t) \/ Interrupt(t)
    BY <2>4, SpuriousWakeInv, InterruptInv
  <2> QED BY <1>3, <2>1, <2>2, <2>3, <2>4 DEF Step
<1>4. CASE UNCHANGED vars
  BY <1>4, StutterInv
<1> QED BY <1>1, <1>2, <1>3, <1>4 DEF Next
----------------------------------------------------------------------------
(* The theorems.                                                           *)

\* The whole inductive invariant holds of every reachable state.
THEOREM InvHolds == Spec => []Inv
BY InitInv, NextInv, PTL DEF Spec

\* Type correctness; in particular nIdle, nTotal and the unsigned nTodo
\* never go below zero, whatever is interrupted and whenever.
THEOREM TypeCorrect == Spec => []TypeOK
<1>1. Inv => TypeOK
  BY DEF Inv
<1> QED BY <1>1, InvHolds, PTL

\* nTodo is exactly the number of checks queued or in a batch, and no check
\* is taken by two threads.
THEOREM TodoExact == Spec => []TodoAccounting
<1>1. Inv => TodoAccounting
  BY DEF Inv
<1> QED BY <1>1, InvHolds, PTL

\* nIdle and nTotal are exactly the sleeping threads and the threads in
\* Loop(), each plus the interrupted threads.
THEOREM CountersExact == Spec => []PoolCounters
<1>1. Inv => PoolCounters
  BY DEF Inv
<1> QED BY <1>1, InvHolds, PTL

\* Whenever no round is open and the mutex is free, the asserts of the
\* CCheckQueueControl constructor hold.
THEOREM UnusedHolds == Spec => []UnusedBetweenRounds
<1>1. Inv => UnusedBetweenRounds
  <2> SUFFICES ASSUME Inv, round = "none", mutex = NoThread PROVE Unused
    BY DEF UnusedBetweenRounds
  <2>1. Outstanding = {} /\ bad = {}
    BY DEF Inv, MasterState, ResultsSoFar
  <2>2. nTodo = 0 /\ fAllOk
    BY <2>1, FS_EmptySet DEF Inv, TypeOK, TodoAccounting, ResultsSoFar
  <2>3. \A t \in Threads : ~HasBatch(t) /\ pc[t] # "crit"
    BY <2>1, OutstandingElements, QueueAssumption DEF Inv, ThreadState, Threads
  <2>4. Pool = Asleep
    BY <2>3 DEF Pool, Asleep, InLoop, HasBatch
  <2>5. nTotal = nIdle
    BY <2>4 DEF Inv, PoolCounters
  <2> QED BY <2>2, <2>5 DEF Unused
<1> QED BY <1>1, InvHolds, PTL

\* The queue implements the abstract round: Wait() returns TRUE exactly when
\* every check submitted in the round succeeds.
THEOREM Refinement == Spec => ImplementsRound
<1>1. Init => Round!Init
  BY DEF Init, Round!Init
<1>2. Inv /\ [Next]_vars => [Round!Next]_(Round!vars)
  <2> SUFFICES ASSUME Inv, [Next]_vars PROVE [Round!Next]_(Round!vars)
    OBVIOUS
  <2> USE DEF Round!vars, Round!Next
  <2>1. CASE Construct
    BY <2>1 DEF Construct, Round!Open, Round!Abort
  <2>2. CASE \E S \in SUBSET (Checks \ added) : \E F \in SUBSET S : Add(S, F)
    BY <2>2 DEF Add, Round!Submit
  <2>3. CASE CallWait
    BY <2>3 DEF CallWait, rvars
  <2>4. ASSUME NEW t \in Threads, Return(t) PROVE [Round!Next]_(Round!vars)
    <3>1. round = "open" /\ (fAllOk <=> bad = {})
      BY <2>4, ReturnFacts
    <3>2. round' = "none" /\ result' = fAllOk /\ bad' = {}
      BY <2>4 DEF Return
    <3>3. Round!Close
      BY <3>1, <3>2 DEF Round!Close, Inv, TypeOK
    <3> QED BY <3>3
  <2>5. ASSUME NEW t \in Threads, Interrupt(t) PROVE [Round!Next]_(Round!vars)
    BY <2>5 DEF Interrupt, Round!Abort
  <2>6. ASSUME NEW t \in Threads, Step(t), ~Return(t), ~Interrupt(t) PROVE UNCHANGED rvars
    BY <2>6 DEF Step, Acquire, Decide, Enter, Account, Wake, Sleep, Take, Execute, SpuriousWake
  <2>7. ASSUME UNCHANGED rvars PROVE [Round!Next]_(Round!vars)
    BY <2>7 DEF rvars
  <2>8. CASE UNCHANGED vars
    BY <2>7, <2>8 DEF vars
  <2> QED BY <2>1, <2>2, <2>3, <2>4, <2>5, <2>6, <2>7, <2>8 DEF Next
<1> QED BY <1>1, <1>2, InvHolds, PTL DEF Spec, ImplementsRound, Round!Spec

\* Wait() returns the verdict of its own round, with exact counters and an
\* unused queue between rounds.
THEOREM RoundsKept == Spec => RoundKept
<1>1. Inv => TodoAccounting /\ PoolCounters
  BY DEF Inv
<1> QED BY <1>1, InvHolds, UnusedHolds, Refinement, PTL DEF RoundKept

----------------------------------------------------------------------------
(* The coins.  What is written of a transaction is what is read of it: the *)
(* bits of the mask, the end of the mask, and the outputs that follow it.  *)

Set(vout, i) == ~IsNull(vout, i)

\* Bit k of byte b, counted from its last.
BitOf(v, b, k) == IF IsNull(v, 2 + b * MaskWidth + (MaskWidth - k)) THEN 0 ELSE 1

\* One unfolding of the loop over the bits of a byte.
UnfoldByte(v, b, byte) == [k \in 0..MaskWidth |-> IF k = 0 THEN 0 ELSE 2 * byte[k - 1] + BitOf(v, b, k)]

\* A byte of the mask is built bit by bit.
LEMMA ByteBuilt ==
    ASSUME NEW v, NEW b \in Nat
    PROVE  \E byte \in [0..MaskWidth -> Nat] :
              /\ MaskByte(v, b) = byte[MaskWidth] /\ byte[0] = 0
              /\ \A k \in 1..MaskWidth : byte[k] = 2 * byte[k - 1] + BitOf(v, b, k)
<1> DEFINE n == MaskWidth
           T == [q \in (1..n) \X Nat |-> 2 * q[2] + BitOf(v, b, q[1])]
<1>1. n \in Nat
  BY CoinSizes
<1>2. \A k : BitOf(v, b, k) \in {0, 1}
  BY DEF BitOf
<1>3. T \in [(1..n) \X Nat -> Nat]
  BY <1>2
<1>4. \A i \in 1..n, x \in Nat : T[<<i, x>>] = 2 * x + BitOf(v, b, i)
  OBVIOUS
<1> HIDE DEF T
<1>5. PICK g \in [0..n -> Nat] : g = UnfoldOver(n, 0, T, g)
  <2> HIDE DEF n
  <2>1. LoopOver(Nat, 0, n, T)
    BY <1>1, <1>3 DEF LoopOver
  <2> QED  BY <2>1, FiniteRecursion
<1>6. g = UnfoldByte(v, b, g)
  <2>1. \A i \in 0..n : UnfoldOver(n, 0, T, g)[i] = UnfoldByte(v, b, g)[i]
    <3> SUFFICES ASSUME NEW i \in 0..n PROVE UnfoldOver(n, 0, T, g)[i] = UnfoldByte(v, b, g)[i]
      OBVIOUS
    <3>1. i # 0 => i \in 1..n /\ g[i - 1] \in Nat
      BY <1>1, <1>5
    <3> QED  BY <1>1, <1>4, <3>1 DEF UnfoldOver, UnfoldByte
  <2> QED  BY <1>5, <2>1 DEF UnfoldOver, UnfoldByte
<1>7. PICK byte : byte = UnfoldByte(v, b, byte) /\ MaskByte(v, b) = byte[n]
  <2> DEFINE byte == CHOOSE x : x = UnfoldByte(v, b, x)
  <2>1. byte = UnfoldByte(v, b, byte)
    BY <1>6
  <2>2. MaskByte(v, b) = byte[n]
    BY DEF MaskByte, UnfoldByte, BitOf
  <2> QED  BY <2>1, <2>2
<1>8. byte = [k \in 0..n |-> byte[k]]
  BY <1>7 DEF UnfoldByte
<1>9. byte[0] = 0 /\ \A k \in 1..n : byte[k] = 2 * byte[k - 1] + BitOf(v, b, k)
  <2>1. DOMAIN byte = 0..n /\ \A k \in 0..n : byte[k] = UnfoldByte(v, b, byte)[k]
    BY <1>7 DEF UnfoldByte
  <2>2. \A k \in 0..n : UnfoldByte(v, b, byte)[k] = IF k = 0 THEN 0 ELSE 2 * byte[k - 1] + BitOf(v, b, k)
    BY DEF UnfoldByte
  <2>4. 0 \in 0..n /\ \A k \in 1..n : k \in 0..n /\ k # 0
    BY <1>1
  <2> QED  BY <2>1, <2>2, <2>4
<1> HIDE DEF n
<1>10. \A k \in 0..n : byte[k] \in Nat
  <2> DEFINE S == {k \in 0..n : byte[k] \in Nat}
  <2>1. 0 \in S
    BY <1>1, <1>9
  <2>2. ASSUME NEW k \in 1..n, k - 1 \in S PROVE k \in S
    <3>1. k \in 0..n /\ byte[k - 1] \in Nat /\ BitOf(v, b, k) \in {0, 1} /\ byte[k] = 2 * byte[k - 1] + BitOf(v, b, k)
      BY <1>1, <1>2, <1>9, <2>2
    <3> QED  BY <3>1
  <2> HIDE DEF S
  <2>3. \A k \in 0..n : k \in S
    BY <1>1, <2>1, <2>2, UpTo
  <2> QED  BY <2>3 DEF S
<1>11. byte \in [0..n -> Nat]
  BY <1>8, <1>10
<1> QED  BY <1>7, <1>9, <1>11 DEF n

\* One unfolding of a shift.
UnfoldShift(x, p, shifted) == [q \in 0..p |-> IF q = 0 THEN x ELSE shifted[q - 1] \div 2]

\* What was shifted in is the last bit, and the rest is what was there.
LEMMA LastBit ==
    ASSUME NEW a \in Nat, NEW bit, bit \in {0, 1}
    PROVE  (2 * a + bit) \div 2 = a /\ ((2 * a + bit) % 2 = 1 <=> bit = 1)
  OBVIOUS

LEMMA ShiftFact ==
    ASSUME NEW x \in Nat, NEW p \in Nat
    PROVE  \E shifted \in [0..p -> Nat] :
              /\ BitSet(x, p) <=> shifted[p] % 2 = 1
              /\ shifted[0] = x /\ \A q \in 1..p : shifted[q] = shifted[q - 1] \div 2
<1> DEFINE T == [q \in (1..p) \X Nat |-> q[2] \div 2]
<1>3. T \in [(1..p) \X Nat -> Nat]
  OBVIOUS
<1>4. \A i \in 1..p, y \in Nat : T[<<i, y>>] = y \div 2
  OBVIOUS
<1> HIDE DEF T
<1> DEFINE n == p
           x0 == x
<1>5. PICK g \in [0..n -> Nat] : g = UnfoldOver(n, x0, T, g)
  <2>1. LoopOver(Nat, x0, n, T)
    BY <1>3 DEF LoopOver
  <2> HIDE DEF n, x0
  <2> QED  BY <2>1, FiniteRecursion
<1>6. g = UnfoldShift(x, p, g)
  <2>1. \A i \in 0..p : UnfoldOver(p, x, T, g)[i] = UnfoldShift(x, p, g)[i]
    <3> SUFFICES ASSUME NEW i \in 0..p PROVE UnfoldOver(p, x, T, g)[i] = UnfoldShift(x, p, g)[i]
      OBVIOUS
    <3>1. i # 0 => i \in 1..p /\ g[i - 1] \in Nat
      BY <1>5
    <3> QED  BY <1>4, <3>1 DEF UnfoldOver, UnfoldShift
  <2> QED  BY <1>5, <2>1 DEF UnfoldOver, UnfoldShift
<1>7. PICK shifted : shifted = UnfoldShift(x, p, shifted) /\ (BitSet(x, p) <=> shifted[p] % 2 = 1)
  <2> DEFINE shifted == CHOOSE y : y = UnfoldShift(x, p, y)
  <2>1. shifted = UnfoldShift(x, p, shifted)
    BY <1>6
  <2>2. BitSet(x, p) <=> shifted[p] % 2 = 1
    BY DEF BitSet, UnfoldShift
  <2> QED  BY <2>1, <2>2
<1>8. shifted = [q \in 0..p |-> shifted[q]]
  BY <1>7 DEF UnfoldShift
<1>9. shifted[0] = x /\ \A q \in 1..p : shifted[q] = shifted[q - 1] \div 2
  <2>1. DOMAIN shifted = 0..p /\ \A k \in 0..p : shifted[k] = UnfoldShift(x, p, shifted)[k]
    BY <1>7 DEF UnfoldShift
  <2>2. \A k \in 0..p : UnfoldShift(x, p, shifted)[k] = IF k = 0 THEN x ELSE shifted[k - 1] \div 2
    BY DEF UnfoldShift
  <2>4. 0 \in 0..p /\ \A k \in 1..p : k \in 0..p /\ k # 0
    OBVIOUS
  <2> QED  BY <2>1, <2>2, <2>4
<1>10. \A k \in 0..p : shifted[k] \in Nat
  <2> DEFINE S == {k \in 0..p : shifted[k] \in Nat}
  <2>1. 0 \in S
    BY <1>9
  <2>2. ASSUME NEW k \in 1..p, k - 1 \in S PROVE k \in S
    <3>1. k \in 0..p /\ shifted[k - 1] \in Nat /\ shifted[k] = shifted[k - 1] \div 2
      BY <1>9, <2>2
    <3> QED  BY <3>1
  <2> HIDE DEF S
  <2>3. \A k \in 0..p : k \in S
    BY <2>1, <2>2, UpTo
  <2> QED  BY <2>3 DEF S
<1>11. shifted \in [0..p -> Nat]
  BY <1>8, <1>10
<1> QED  BY <1>7, <1>9, <1>11

\* A bit of a byte of the mask tells whether its output is there, and a byte is zero when
\* none of its outputs is.
LEMMA MaskByteFact ==
    ASSUME NEW v, NEW b \in Nat
    PROVE  /\ MaskByte(v, b) \in Nat
           /\ MaskByte(v, b) # 0 <=> \E p \in 0..(MaskWidth - 1) : Set(v, 2 + b * MaskWidth + p)
           /\ \A p \in 0..(MaskWidth - 1) : BitSet(MaskByte(v, b), p) <=> Set(v, 2 + b * MaskWidth + p)
<1> DEFINE n == MaskWidth
           base == 2 + b * MaskWidth
           Bit(k) == BitOf(v, b, k)
<1>1. n \in Nat \ {0} /\ base \in Nat
  BY CoinSizes
<1>2. PICK byte \in [0..MaskWidth -> Nat] :
              /\ MaskByte(v, b) = byte[MaskWidth] /\ byte[0] = 0
              /\ \A k \in 1..MaskWidth : byte[k] = 2 * byte[k - 1] + BitOf(v, b, k)
  BY ByteBuilt
<1>3. /\ byte \in [0..n -> Nat] /\ MaskByte(v, b) = byte[n] /\ byte[0] = 0
      /\ \A k \in 1..n : byte[k] = 2 * byte[k - 1] + Bit(k)
  BY <1>2
<1>4. \A k \in 1..n : Bit(k) \in {0, 1} /\ (Bit(k) = 1 <=> Set(v, base + (n - k)))
  BY DEF Set, BitOf
<1>5. \A p \in 0..(n - 1) : n - (n - p) = p /\ n - p \in 1..n
  BY <1>1
<1> HIDE DEF n, base, Bit
<1>6. byte[n] # 0 <=> \E p \in 0..(n - 1) : Set(v, base + p)
  <2> DEFINE S == {k \in 0..n : byte[k] # 0 <=> \E j \in 1..k : Set(v, base + (n - j))}
  <2>1. 0 \in S
    BY <1>1, <1>3
  <2>2. ASSUME NEW k \in 1..n, k - 1 \in S PROVE k \in S
    <3>0. k \in 0..n /\ k - 1 \in 0..n
      BY <1>1
    <3>1. byte[k - 1] \in Nat /\ byte[k] = 2 * byte[k - 1] + Bit(k) /\ Bit(k) \in {0, 1}
      BY <1>3, <1>4, <3>0
    <3>2. byte[k] # 0 <=> byte[k - 1] # 0 \/ Bit(k) = 1
      BY <3>1
    <3>3. byte[k - 1] # 0 <=> \E j \in 1..(k - 1) : Set(v, base + (n - j))
      BY <2>2
    <3>4. \A j : j \in 1..k <=> j \in 1..(k - 1) \/ j = k
      BY <1>1
    <3> QED  BY <1>4, <3>0, <3>2, <3>3, <3>4
  <2> HIDE DEF S
  <2>3. \A k \in 0..n : k \in S
    BY <1>1, <2>1, <2>2, UpTo
  <2>4. n \in S
    BY <1>1, <2>3
  <2>5. byte[n] # 0 <=> \E j \in 1..n : Set(v, base + (n - j))
    BY <2>4 DEF S
  <2>6. \A j \in 1..n : n - j \in 0..(n - 1)
    BY <1>1
  <2> QED  BY <1>5, <2>5, <2>6
<1>7. ASSUME NEW p \in 0..(n - 1) PROVE BitSet(byte[n], p) <=> Set(v, base + p)
  <2>0. n \in 0..n /\ p \in Nat
    BY <1>1
  <2>1. byte[n] \in Nat /\ p \in Nat
    BY <1>3, <2>0
  <2>2. PICK shifted \in [0..p -> Nat] :
              /\ BitSet(byte[n], p) <=> shifted[p] % 2 = 1
              /\ shifted[0] = byte[n] /\ \A q \in 1..p : shifted[q] = shifted[q - 1] \div 2
    BY <2>1, ShiftFact
  <2> DEFINE S == {q \in 0..p : shifted[q] = byte[n - q]}
  <2>3. 0 \in S
    BY <1>1, <2>2
  <2>4. ASSUME NEW q \in 1..p, q - 1 \in S PROVE q \in S
    <3>1. shifted[q] = byte[n - (q - 1)] \div 2
      BY <2>2, <2>4
    <3>2. n - (q - 1) \in 1..n /\ (n - (q - 1)) - 1 = n - q /\ n - q \in 0..n
      BY <1>1
    <3>3. byte[n - (q - 1)] = 2 * byte[n - q] + Bit(n - (q - 1)) /\ Bit(n - (q - 1)) \in {0, 1} /\ byte[n - q] \in Nat
      BY <1>3, <1>4, <3>2
    <3>4. byte[n - (q - 1)] \div 2 = byte[n - q]
      <4> DEFINE a == byte[n - q]
                 bit == Bit(n - (q - 1))
                 c == byte[n - (q - 1)]
      <4>1. a \in Nat /\ bit \in {0, 1} /\ c = 2 * a + bit
        BY <3>3
      <4> HIDE DEF a, bit, c
      <4>2. (2 * a + bit) \div 2 = a
        BY <4>1, LastBit
      <4>3. c \div 2 = a
        BY <4>1, <4>2
      <4> QED  BY <4>3 DEF a, c
    <3> QED  BY <3>1, <3>4
  <2> HIDE DEF S
  <2>5. p \in S
    <3> DEFINE n1 == p
    <3>1. n1 \in Nat /\ \A i \in 1..n1 : i - 1 \in S => i \in S
      BY <2>1, <2>4
    <3> HIDE DEF n1
    <3>2. \A q \in 0..n1 : q \in S
      BY <2>3, <3>1, UpTo
    <3>3. n1 \in 0..n1
      BY <3>1
    <3> QED  BY <3>2, <3>3 DEF n1
  <2>6. shifted[p] = byte[n - p]
    BY <2>5 DEF S
  <2>7. n - p \in 1..n /\ (n - p) - 1 \in 0..n /\ n - (n - p) = p
    BY <1>1
  <2>8. byte[n - p] = 2 * byte[(n - p) - 1] + Bit(n - p) /\ Bit(n - p) \in {0, 1} /\ byte[(n - p) - 1] \in Nat
    BY <1>3, <1>4, <2>7
  <2>9. byte[n - p] % 2 = 1 <=> Bit(n - p) = 1
    <3> DEFINE a == byte[(n - p) - 1]
               bit == Bit(n - p)
               c == byte[n - p]
    <3>1. a \in Nat /\ bit \in {0, 1} /\ c = 2 * a + bit
      BY <2>8
    <3> HIDE DEF a, bit, c
    <3>2. (2 * a + bit) % 2 = 1 <=> bit = 1
      BY <3>1, LastBit
    <3>3. c % 2 = 1 <=> bit = 1
      BY <3>1, <3>2
    <3> QED  BY <3>3 DEF bit, c
  <2> QED  BY <1>4, <2>2, <2>6, <2>7, <2>9
<1>8. byte[n] \in Nat
  <2>1. n \in 0..n
    BY <1>1
  <2> QED  BY <1>3, <2>1
<1> QED  BY <1>3, <1>6, <1>7, <1>8 DEF n, base

----------------------------------------------------------------------------
(* The outputs that are stored, one after the other.                       *)

\* The unspent among the first n outputs.
Among(v, n) == {j \in 1..n : v[j] # Spent}

LEMMA AmongFact ==
    ASSUME NEW v
    PROVE  /\ \A n \in Nat : IsFiniteSet(Among(v, n)) /\ Cardinality(Among(v, n)) \in 0..n
           /\ Cardinality(Among(v, 0)) = 0
           /\ \A n \in Nat \ {0} : Cardinality(Among(v, n)) = Cardinality(Among(v, n - 1)) + (IF v[n] = Spent THEN 0 ELSE 1)
<1>1. ASSUME NEW n \in Nat PROVE IsFiniteSet(Among(v, n)) /\ Cardinality(Among(v, n)) \in 0..n
  <2>1. Among(v, n) \subseteq 1..n
    BY DEF Among
  <2>2. IsFiniteSet(1..n) /\ Cardinality(1..n) = n
    BY FS_Interval
  <2>3. IsFiniteSet(Among(v, n)) /\ Cardinality(Among(v, n)) <= n
    BY <2>1, <2>2, FS_Subset
  <2>4. Cardinality(Among(v, n)) \in Nat
    BY <2>3, FS_CardinalityType
  <2> QED  BY <2>3, <2>4
<1>2. Cardinality(Among(v, 0)) = 0
  BY <1>1
<1>3. ASSUME NEW n \in Nat \ {0}
      PROVE  Cardinality(Among(v, n)) = Cardinality(Among(v, n - 1)) + (IF v[n] = Spent THEN 0 ELSE 1)
  <2>1. \A j : j \in 1..n <=> j \in 1..(n - 1) \/ j = n
    OBVIOUS
  <2>2. n - 1 \in Nat /\ n \notin Among(v, n - 1)
    BY DEF Among
  <2>3. CASE v[n] = Spent
    <3>1. Among(v, n) = Among(v, n - 1)
      BY <2>1, <2>3 DEF Among
    <3>2. Cardinality(Among(v, n - 1)) \in Nat
      BY <1>1, <2>2
    <3> QED  BY <2>3, <3>1, <3>2
  <2>4. CASE v[n] # Spent
    <3>1. Among(v, n) = Among(v, n - 1) \cup {n}
      BY <2>1, <2>4 DEF Among
    <3>2. IsFiniteSet(Among(v, n - 1))
      BY <1>1, <2>2
    <3> QED  BY <2>2, <2>4, <3>1, <3>2, FS_AddElement
  <2> QED  BY <2>3, <2>4
<1> QED  BY <1>1, <1>2, <1>3

\* One unfolding of the loop over the outputs.
UnfoldKept(v, kept) ==
    [n \in 0..Len(v) |->
       IF n = 0 THEN <<>> ELSE IF v[n] = Spent THEN kept[n - 1] ELSE Append(kept[n - 1], v[n])]

LEMMA KeptBuilt ==
    ASSUME NEW v \in Seq(Nat)
    PROVE  \E kept \in [0..Len(v) -> Seq(Nat)] :
              /\ Unspent(v) = kept[Len(v)] /\ kept[0] = <<>>
              /\ \A n \in 1..Len(v) :
                   kept[n] = IF v[n] = Spent THEN kept[n - 1] ELSE Append(kept[n - 1], v[n])
<1> DEFINE n == Len(v)
           T == [q \in (1..n) \X Seq(Nat) |-> IF v[q[1]] = Spent THEN q[2] ELSE Append(q[2], v[q[1]])]
<1>1. n \in Nat /\ <<>> \in Seq(Nat) /\ \A i \in 1..n : v[i] \in Nat
  OBVIOUS
<1>2. ASSUME NEW i \in 1..n, NEW s \in Seq(Nat) PROVE (IF v[i] = Spent THEN s ELSE Append(s, v[i])) \in Seq(Nat)
  <2>1. Append(s, v[i]) \in Seq(Nat)
    BY <1>1, AppendProperties
  <2> QED  BY <2>1
<1>3. T \in [(1..n) \X Seq(Nat) -> Seq(Nat)]
  BY <1>2
<1>4. \A i \in 1..n, s \in Seq(Nat) : T[<<i, s>>] = IF v[i] = Spent THEN s ELSE Append(s, v[i])
  OBVIOUS
<1> HIDE DEF T
<1>5. PICK g \in [0..n -> Seq(Nat)] : g = UnfoldOver(n, <<>>, T, g)
  <2> HIDE DEF n
  <2>1. LoopOver(Seq(Nat), <<>>, n, T)
    BY <1>1, <1>3 DEF LoopOver
  <2> QED  BY <2>1, FiniteRecursion
<1>6. g = UnfoldKept(v, g)
  <2>1. \A i \in 0..n : UnfoldOver(n, <<>>, T, g)[i] = UnfoldKept(v, g)[i]
    <3> SUFFICES ASSUME NEW i \in 0..n PROVE UnfoldOver(n, <<>>, T, g)[i] = UnfoldKept(v, g)[i]
      OBVIOUS
    <3>1. i # 0 => i \in 1..n /\ g[i - 1] \in Seq(Nat)
      <4> HIDE DEF n
      <4>1. i # 0 => i \in 1..n /\ i - 1 \in 0..n
        BY <1>1
      <4> QED  BY <1>5, <4>1
    <3> QED  BY <1>4, <3>1 DEF UnfoldOver, UnfoldKept
  <2> QED  BY <1>5, <2>1 DEF UnfoldOver, UnfoldKept
<1>7. PICK kept : kept = UnfoldKept(v, kept) /\ Unspent(v) = kept[n]
  <2> DEFINE kept == CHOOSE x : x = UnfoldKept(v, x)
  <2>1. kept = UnfoldKept(v, kept)
    BY <1>6
  <2>2. Unspent(v) = kept[n]
    BY DEF Unspent, UnfoldKept
  <2> QED  BY <2>1, <2>2
<1>8. kept = [i \in 0..n |-> kept[i]]
  BY <1>7 DEF UnfoldKept
<1>9. /\ kept[0] = <<>>
      /\ \A i \in 1..n : kept[i] = IF v[i] = Spent THEN kept[i - 1] ELSE Append(kept[i - 1], v[i])
  <2>1. DOMAIN kept = 0..n /\ \A k \in 0..n : kept[k] = UnfoldKept(v, kept)[k]
    BY <1>7 DEF UnfoldKept
  <2>2. \A k \in 0..n : UnfoldKept(v, kept)[k] = IF k = 0 THEN <<>> ELSE IF v[k] = Spent THEN kept[k - 1]
                                                                     ELSE Append(kept[k - 1], v[k])
    BY DEF UnfoldKept
  <2> HIDE DEF n
  <2>4. 0 \in 0..n /\ \A k \in 1..n : k \in 0..n /\ k # 0
    BY <1>1
  <2> QED  BY <2>1, <2>2, <2>4
<1> HIDE DEF n
<1>10. \A k \in 0..n : kept[k] \in Seq(Nat)
  <2> DEFINE S == {k \in 0..n : kept[k] \in Seq(Nat)}
  <2>1. 0 \in S
    <3>1. 0 \in 0..n
      BY <1>1
    <3>2. kept[0] \in Seq(Nat)
      BY <1>1, <1>9
    <3> QED  BY <3>1, <3>2
  <2>2. ASSUME NEW k \in 1..n, k - 1 \in S PROVE k \in S
    <3>1. k \in 0..n /\ kept[k - 1] \in Seq(Nat)
      BY <1>1, <2>2
    <3>2. kept[k] \in Seq(Nat)
      BY <1>2, <1>9, <3>1
    <3> QED  BY <3>1, <3>2
  <2> HIDE DEF S
  <2>3. \A k \in 0..n : k \in S
    BY <1>1, <2>1, <2>2, UpTo
  <2> QED  BY <2>3 DEF S
<1>11. kept \in [0..n -> Seq(Nat)]
  BY <1>8, <1>10
<1> QED  BY <1>7, <1>9, <1>11 DEF n

\* An unspent output is stored at its place among the unspent, and nothing else is stored.
LEMMA UnspentFact ==
    ASSUME NEW v \in Seq(Nat)
    PROVE  /\ Unspent(v) \in Seq(Nat) /\ Len(Unspent(v)) = Cardinality(Among(v, Len(v)))
           /\ \A k \in 1..Len(Unspent(v)) : Unspent(v)[k] # Spent
           /\ \A i \in 1..Len(v) : v[i] # Spent =>
                 /\ Cardinality(Among(v, i)) \in 1..Len(Unspent(v))
                 /\ Unspent(v)[Cardinality(Among(v, i))] = v[i]
<1>1. PICK kept \in [0..Len(v) -> Seq(Nat)] :
              /\ Unspent(v) = kept[Len(v)] /\ kept[0] = <<>>
              /\ \A n \in 1..Len(v) :
                   kept[n] = IF v[n] = Spent THEN kept[n - 1] ELSE Append(kept[n - 1], v[n])
  BY KeptBuilt
<1> DEFINE C(i) == Cardinality(Among(v, i))
           Keeps(n) == /\ Len(kept[n]) = C(n)
                       /\ \A k \in 1..Len(kept[n]) : kept[n][k] # Spent
                       /\ \A i \in 1..n : v[i] # Spent => C(i) \in 1..Len(kept[n]) /\ kept[n][C(i)] = v[i]
           S == {n \in 0..Len(v) : Keeps(n)}
<1>2. Len(v) \in Nat /\ \A i \in 1..Len(v) : v[i] \in Nat
  OBVIOUS
<1>3. /\ \A n \in Nat : C(n) \in 0..n
      /\ C(0) = 0
      /\ \A n \in Nat \ {0} : C(n) = C(n - 1) + (IF v[n] = Spent THEN 0 ELSE 1)
  BY AmongFact
<1> HIDE DEF C
<1>4. 0 \in S
  <2>0. Len(<<>>) = 0
    BY EmptySeq
  <2>1. Len(kept[0]) = 0 /\ 0 \in 0..Len(v)
    BY <1>1, <1>2, <2>0
  <2>2. Len(kept[0]) = C(0)
    BY <1>3, <2>1
  <2>3. \A k : k \notin 1..0
    OBVIOUS
  <2>4. Keeps(0)
    BY <2>1, <2>2, <2>3
  <2> QED  BY <2>1, <2>4
<1>5. ASSUME NEW n \in 1..Len(v), n - 1 \in S PROVE n \in S
  <2>1. Keeps(n - 1) /\ n \in Nat \ {0} /\ n \in 0..Len(v) /\ n - 1 \in 0..Len(v)
    BY <1>2, <1>5
  <2>2. kept[n - 1] \in Seq(Nat) /\ v[n] \in Nat
    BY <1>1, <1>2, <2>1
  <2>3. \A i : i \in 1..n <=> i \in 1..(n - 1) \/ i = n
    BY <2>1
  <2> DEFINE s == kept[n - 1]
  <2>4. /\ s \in Seq(Nat) /\ Len(s) = C(n - 1) /\ Len(s) \in Nat
        /\ \A k \in 1..Len(s) : s[k] # Spent
        /\ \A i \in 1..(n - 1) : v[i] # Spent => C(i) \in 1..Len(s) /\ s[C(i)] = v[i]
    BY <2>1, <2>2
  <2>5. /\ kept[n] = IF v[n] = Spent THEN s ELSE Append(s, v[n])
        /\ C(n) = C(n - 1) + (IF v[n] = Spent THEN 0 ELSE 1)
    BY <1>1, <1>3, <2>1
  <2> HIDE DEF s
  <2>6. CASE v[n] = Spent
    <3>1. kept[n] = s /\ C(n) = C(n - 1)
      BY <2>4, <2>5, <2>6
    <3>2. Keeps(n)
      BY <2>3, <2>4, <2>6, <3>1
    <3> QED  BY <2>1, <3>2
  <2>7. CASE v[n] # Spent
    <3> DEFINE r == Append(s, v[n])
    <3>1. kept[n] = r /\ C(n) = Len(s) + 1
      BY <2>4, <2>5, <2>7
    <3>2. r \in Seq(Nat) /\ Len(r) = Len(s) + 1 /\ r[Len(s) + 1] = v[n] /\ \A k \in 1..Len(s) : r[k] = s[k]
      BY <2>2, <2>4, AppendProperties
    <3> HIDE DEF r
    <3>3. \A k : k \in 1..(Len(s) + 1) <=> k \in 1..Len(s) \/ k = Len(s) + 1
      BY <2>4
    <3>4. \A k \in 1..Len(r) : r[k] # Spent
      BY <2>4, <2>7, <3>2, <3>3
    <3>5. ASSUME NEW i \in 1..n, v[i] # Spent PROVE C(i) \in 1..Len(r) /\ r[C(i)] = v[i]
      <4>1. CASE i = n
        BY <2>4, <3>1, <3>2, <3>3, <4>1
      <4>2. CASE i # n
        <5>1. C(i) \in 1..Len(s) /\ s[C(i)] = v[i]
          BY <2>3, <2>4, <3>5, <4>2
        <5> QED  BY <3>2, <3>3, <5>1
      <4> QED  BY <4>1, <4>2
    <3>6. Keeps(n)
      BY <3>1, <3>2, <3>4, <3>5
    <3> QED  BY <2>1, <3>6
  <2> QED  BY <2>6, <2>7
<1> HIDE DEF S
<1>6. Len(v) \in S
  <2>1. \A n \in 0..Len(v) : n \in S
    BY <1>2, <1>4, <1>5, UpTo
  <2> QED  BY <1>2, <2>1
<1>7. Keeps(Len(v)) /\ kept[Len(v)] \in Seq(Nat)
  BY <1>1, <1>2, <1>6 DEF S
<1> QED  BY <1>1, <1>7 DEF C

----------------------------------------------------------------------------
(* The mask: its bytes, and where it ends.                                 *)

\* What a vector of outputs looks like: an output is there or spent, and the last is there.
VoutOK(v) == /\ v \in Seq(Nat) /\ \A i \in 1..Len(v) : v[i] \in {Spent, i}
             /\ Len(v) > 0 => v[Len(v)] # Spent

LEMMA GreatestNumber ==
    ASSUME NEW n \in Nat, NEW S \in SUBSET (0..n), S # {}
    PROVE  \E b \in S : \A c \in S : c <= b
<1> DEFINE R == {m \in Nat : \A c \in S : c <= m}
<1>1. R \in SUBSET Nat /\ n \in R
  OBVIOUS
<1>2. \A m : m \in R <=> m \in Nat /\ \A c \in S : c <= m
  OBVIOUS
<1> HIDE DEF R
<1>3. PICK x \in R : \A y \in R : x <= y
  BY <1>1, LeastNumber
<1>4. x \in Nat /\ (x > 0 => x - 1 \in Nat /\ x - 1 \notin R)
  BY <1>1, <1>3
<1>5. ASSUME x \notin S PROVE FALSE
  <2>1. \A c \in S : c \in Nat /\ c <= x /\ c # x
    <3>1. \A c \in S : c \in 0..n
      OBVIOUS
    <3> QED  BY <1>2, <1>3, <1>5, <3>1
  <2>2. x > 0 /\ \A c \in S : c <= x - 1
    <3>1. PICK c0 : c0 \in S
      OBVIOUS
    <3> QED  BY <1>4, <2>1, <3>1
  <2> QED  BY <1>2, <1>4, <2>2
<1> QED  BY <1>2, <1>3, <1>5

\* The used bytes of the mask are those that are not zero, up to the last of them, and
\* every output has its bit.
LEMMA MaskBytesFact ==
    ASSUME NEW v, VoutOK(v)
    PROVE  /\ MaskBytes(v) \in Nat
           /\ MaskBytes(v) > 0 => MaskByte(v, MaskBytes(v) - 1) # 0
           /\ \A b \in Nat : MaskByte(v, b) # 0 => b < MaskBytes(v)
           /\ NonzeroBytes(v) = Cardinality({b \in 0..(MaskBytes(v) - 1) : MaskByte(v, b) # 0})
           /\ Len(v) <= 2 + MaskBytes(v) * MaskWidth
<1> DEFINE Used == {b \in 0..Len(v) : MaskByte(v, b) # 0}
           M == MaskBytes(v)
<1>1. v \in Seq(Nat) /\ Len(v) \in Nat /\ MaskWidth \in Nat \ {0}
  BY CoinSizes DEF VoutOK
<1>2. ASSUME NEW b \in Nat, MaskByte(v, b) # 0 PROVE b \in Used
  <2>1. PICK p \in 0..(MaskWidth - 1) : Set(v, 2 + b * MaskWidth + p)
    BY <1>2, MaskByteFact
  <2>2. 2 + b * MaskWidth + p < Len(v)
    BY <1>1, <2>1, TimesGrows DEF Set, IsNull
  <2>3. b <= b * MaskWidth /\ b * MaskWidth \in Nat
    BY <1>1, TimesGrows
  <2>4. b \in 0..Len(v)
    BY <1>1, <2>2, <2>3
  <2> QED  BY <1>2, <2>4
<1>3. /\ M \in Nat /\ (M > 0 => M - 1 \in Used) /\ \A b \in Used : b < M
  <2>1. CASE Used = {}
    <3>1. M = 0
      BY <2>1 DEF MaskBytes
    <3> QED  BY <2>1, <3>1
  <2>2. CASE Used # {}
    <3> DEFINE m == CHOOSE b \in Used : \A c \in Used : c <= b
    <3>1. Used \in SUBSET (0..Len(v))
      OBVIOUS
    <3>2. M = 1 + m
      BY <2>2 DEF MaskBytes
    <3> HIDE DEF Used, M
    <3>3. m \in Used /\ \A c \in Used : c <= m
      BY <1>1, <2>2, <3>1, GreatestNumber
    <3> HIDE DEF m
    <3>4. m \in Nat /\ \A c \in Used : c \in Nat
      BY <1>1, <3>1, <3>3
    <3> QED  BY <3>2, <3>3, <3>4
  <2> QED  BY <2>1, <2>2
<1>4. Used = {b \in 0..(M - 1) : MaskByte(v, b) # 0}
  <2>1. ASSUME NEW b \in Used PROVE b \in 0..(M - 1) /\ MaskByte(v, b) # 0
    BY <1>1, <1>3
  <2>2. ASSUME NEW b \in 0..(M - 1), MaskByte(v, b) # 0 PROVE b \in Used
    BY <1>2, <1>3, <2>2
  <2> HIDE DEF Used, M
  <2> QED  BY <2>1, <2>2
<1>5. NonzeroBytes(v) = Cardinality(Used)
  BY DEF NonzeroBytes
<1>6. Len(v) <= 2 + M * MaskWidth
  <2> DEFINE x == Len(v) - 3
             q == x \div MaskWidth
             p == x % MaskWidth
  <2>1. M * MaskWidth \in Nat
    BY <1>1, <1>3, TimesGrows
  <2>2. CASE Len(v) < 3
    BY <1>1, <2>1, <2>2
  <2>3. CASE Len(v) >= 3
    <3>1. x \in Nat /\ Len(v) = x + 3
      BY <1>1, <2>3
    <3>2. v[Len(v)] # Spent
      BY <2>3, <1>1 DEF VoutOK
    <3> HIDE DEF x
    <3>3. q \in Nat /\ p \in 0..(MaskWidth - 1) /\ x = q * MaskWidth + p
      BY <1>1, <3>1, DivMod
    <3> HIDE DEF p, q
    <3>4. q * MaskWidth \in Nat /\ (q + 1) * MaskWidth = q * MaskWidth + MaskWidth
      BY <1>1, <3>3, TimesGrows
    <3>5. (2 + q * MaskWidth + p) + 1 = Len(v) /\ 2 + q * MaskWidth + p < Len(v)
      BY <1>1, <3>1, <3>3, <3>4
    <3>6. Set(v, 2 + q * MaskWidth + p)
      BY <1>1, <3>2, <3>4, <3>5, <3>3 DEF Set, IsNull
    <3>7. MaskByte(v, q) # 0
      BY <3>3, <3>6, MaskByteFact
    <3>8. q < M
      BY <1>2, <1>3, <3>3, <3>7
    <3>9. (q + 1) * MaskWidth <= M * MaskWidth
      <4>1. q + 1 \in Nat /\ M \in Nat /\ q + 1 <= M
        BY <1>3, <3>3, <3>8
      <4> HIDE DEF M
      <4> QED  BY <1>1, <4>1, TimesGrows
    <3> QED  BY <1>1, <2>1, <3>1, <3>3, <3>4, <3>9
  <2> QED  BY <1>1, <2>2, <2>3
<1>7. M > 0 => MaskByte(v, M - 1) # 0
  BY <1>3
<1>8. \A b \in Nat : MaskByte(v, b) # 0 => b < M
  BY <1>2, <1>3
<1> HIDE DEF Used
<1> QED  BY <1>3, <1>4, <1>5, <1>6, <1>7, <1>8

----------------------------------------------------------------------------
(* What is written.                                                        *)

LEMMA JoinFact ==
    ASSUME NEW S, NEW s \in Seq(S), NEW t \in Seq(S)
    PROVE  /\ s \o t \in Seq(S) /\ Len(s \o t) = Len(s) + Len(t)
           /\ \A k \in 1..Len(s) : (s \o t)[k] = s[k]
           /\ \A k \in 1..Len(t) : (s \o t)[Len(s) + k] = t[k]
<1> DEFINE m == Len(s)
           n == Len(t)
           r == s \o t
<1>1. m \in Nat /\ n \in Nat
  OBVIOUS
<1>2. /\ r \in Seq(S) /\ Len(r) = m + n
      /\ \A i \in 1..(m + n) : r[i] = IF i <= m THEN s[i] ELSE t[i - m]
  BY ConcatProperties
<1> HIDE DEF m, n, r
<1>3. \A k \in 1..m : r[k] = s[k]
  BY <1>1, <1>2
<1>4. ASSUME NEW k \in 1..n PROVE r[m + k] = t[k]
  <2>1. m + k \in 1..(m + n) /\ ~(m + k <= m) /\ (m + k) - m = k
    BY <1>1
  <2> QED  BY <1>2, <2>1
<1> QED  BY <1>2, <1>3, <1>4 DEF m, n, r

LEMMA CodeFact ==
    ASSUME NEW z \in Int, NEW a \in {0, 1}, NEW b \in {0, 1}, NEW c \in {0, 1}
    PROVE  LET n == 8 * z + a + 2 * b + 4 * c
           IN  /\ n \div 8 = z /\ n % 2 = a /\ (n \div 2) % 2 = b /\ (n \div 4) % 2 = c
               /\ n % 8 \in {0, 1} <=> b = 0 /\ c = 0
  BY SMTT(60)

Announced(n) == n \div 8 + (IF n % 8 \in {0, 1} THEN 1 ELSE 0)

LEMMA SerialFact ==
    ASSUME NEW c, c \in [coinBase : BOOLEAN, vout : Seq(Nat), height : Nat, version : Nat], VoutOK(c.vout)
    PROVE  LET s == Serialize(c)
               v == c.vout
               M == MaskBytes(v)
               K == Len(Unspent(v))
           IN  /\ s \in Seq(Int) /\ M \in Nat /\ K \in Nat /\ Len(s) = 3 + M + K
               /\ s[1] = c.version /\ s[3 + M + K] = c.height
               /\ \A k \in 1..M : s[2 + k] = MaskByte(v, k - 1)
               /\ \A k \in 1..K : s[2 + M + k] = Unspent(v)[k]
               /\ s[2] \in Int /\ Announced(s[2]) = NonzeroBytes(v)
               /\ s[2] % 2 = 1 <=> c.coinBase
               /\ (s[2] \div 2) % 2 = 1 <=> Set(v, 0)
               /\ (s[2] \div 4) % 2 = 1 <=> Set(v, 1)
<1> DEFINE v == c.vout
           M == MaskBytes(v)
           out == Unspent(v)
           K == Len(out)
           first == ~IsNull(v, 0)
           second == ~IsNull(v, 1)
           z == NonzeroBytes(v) - (IF first \/ second THEN 0 ELSE 1)
           bit0 == IF c.coinBase THEN 1 ELSE 0
           bit1 == IF first THEN 2 ELSE 0
           bit2 == IF second THEN 4 ELSE 0
           nCode == 8 * z + bit0 + bit1 + bit2
           head == <<c.version, nCode>>
           mask == [b \in 1..M |-> MaskByte(v, b - 1)]
           s == Serialize(c)
<1>1. s = head \o mask \o out \o <<c.height>>
  BY DEF Serialize
<1>2. M \in Nat /\ NonzeroBytes(v) \in Int
  <2>1. M \in Nat /\ NonzeroBytes(v) = Cardinality({b \in 0..(M - 1) : MaskByte(v, b) # 0})
    BY MaskBytesFact
  <2> DEFINE Z == {b \in 0..(M - 1) : MaskByte(v, b) # 0}
  <2>2. IsFiniteSet(Z)
    <3>1. Z \subseteq 0..(M - 1)
      OBVIOUS
    <3>2. IsFiniteSet(0..(M - 1))
      BY <2>1, FS_Interval
    <3> QED  BY <3>1, <3>2, FS_Subset
  <2> HIDE DEF Z
  <2>3. Cardinality(Z) \in Nat
    BY <2>2, FS_CardinalityType
  <2> QED  BY <2>1, <2>3 DEF Z
<1>3. v \in Seq(Nat) /\ out \in Seq(Nat) /\ K \in Nat
  BY UnspentFact DEF VoutOK
<1>4. z \in Int /\ c.version \in Nat /\ c.height \in Nat
  BY <1>2
<1>5. /\ nCode \in Int /\ Announced(nCode) = NonzeroBytes(v)
      /\ nCode % 2 = 1 <=> c.coinBase
      /\ (nCode \div 2) % 2 = 1 <=> Set(v, 0)
      /\ (nCode \div 4) % 2 = 1 <=> Set(v, 1)
  <2> DEFINE b0 == IF c.coinBase THEN 1 ELSE 0
             b1 == IF first THEN 1 ELSE 0
             b2 == IF second THEN 1 ELSE 0
             n == 8 * z + b0 + 2 * b1 + 4 * b2
  <2>1. b0 \in {0, 1} /\ b1 \in {0, 1} /\ b2 \in {0, 1}
    OBVIOUS
  <2>2. /\ (b0 = 1 <=> c.coinBase) /\ (b1 = 1 <=> Set(v, 0)) /\ (b2 = 1 <=> Set(v, 1))
        /\ (b1 = 0 /\ b2 = 0 <=> ~(first \/ second)) /\ bit0 = b0 /\ bit1 = 2 * b1 /\ bit2 = 4 * b2
    BY DEF Set
  <2>3. z = NonzeroBytes(v) - (IF first \/ second THEN 0 ELSE 1)
    OBVIOUS
  <2> HIDE DEF z, b0, b1, b2, bit0, bit1, bit2, first, second
  <2>4. nCode = n
    BY <1>4, <2>1, <2>2
  <2>5. /\ n \div 8 = z /\ n % 2 = b0 /\ (n \div 2) % 2 = b1 /\ (n \div 4) % 2 = b2
        /\ n % 8 \in {0, 1} <=> b1 = 0 /\ b2 = 0
    BY <1>4, <2>1, CodeFact
  <2>6. n \in Int
    BY <1>4, <2>1
  <2> HIDE DEF n, nCode
  <2>7. Announced(n) = NonzeroBytes(v)
    BY <1>2, <2>2, <2>3, <2>5 DEF Announced
  <2> QED  BY <2>2, <2>4, <2>5, <2>6, <2>7
<1>6. mask \in Seq(Int) /\ Len(mask) = M /\ \A k \in 1..M : mask[k] = MaskByte(v, k - 1)
  <2>1. \A k \in 1..M : MaskByte(v, k - 1) \in Int
    BY <1>2, MaskByteFact
  <2> HIDE DEF M
  <2> QED  BY <1>2, <2>1
<1>7. head \in Seq(Int) /\ Len(head) = 2 /\ head[1] = c.version /\ head[2] = nCode
  <2> HIDE DEF nCode
  <2> QED  BY <1>4, <1>5
<1> DEFINE a == head \o mask
           d == a \o out
           e == <<c.height>>
<1>8. e \in Seq(Int) /\ Len(e) = 1 /\ e[1] = c.height /\ out \in Seq(Int)
  BY <1>3, <1>4
<1> HIDE DEF head, mask, nCode, out, M, v
<1>9. /\ a \in Seq(Int) /\ Len(a) = 2 + M /\ a[1] = c.version /\ a[2] = nCode
      /\ \A k \in 1..M : a[2 + k] = MaskByte(v, k - 1)
  <2>1. /\ a \in Seq(Int) /\ Len(a) = Len(head) + Len(mask)
        /\ \A k \in 1..Len(head) : a[k] = head[k]
        /\ \A k \in 1..Len(mask) : a[Len(head) + k] = mask[k]
    <3>1. head \in Seq(Int) /\ mask \in Seq(Int)
      BY <1>6, <1>7
    <3> QED  BY <3>1, JoinFact
  <2> HIDE DEF a
  <2>2. Len(head) = 2 /\ Len(mask) = M /\ 1 \in 1..2 /\ 2 \in 1..2
    BY <1>6, <1>7
  <2>3. a \in Seq(Int) /\ Len(a) = 2 + M /\ a[1] = c.version /\ a[2] = nCode
    BY <1>7, <2>1, <2>2
  <2>4. ASSUME NEW k \in 1..M PROVE a[2 + k] = MaskByte(v, k - 1)
    BY <1>6, <2>1, <2>2
  <2> QED  BY <2>3, <2>4
<1> HIDE DEF a
<1>10. /\ d \in Seq(Int) /\ Len(d) = 2 + M + K
       /\ \A i \in 1..(2 + M) : d[i] = a[i]
       /\ \A k \in 1..K : d[2 + M + k] = out[k]
  <2>1. /\ d \in Seq(Int) /\ Len(d) = Len(a) + Len(out)
        /\ \A k \in 1..Len(a) : d[k] = a[k]
        /\ \A k \in 1..Len(out) : d[Len(a) + k] = out[k]
    <3>1. a \in Seq(Int) /\ out \in Seq(Int)
      BY <1>8, <1>9
    <3> QED  BY <3>1, JoinFact
  <2>2. Len(out) = K
    OBVIOUS
  <2> HIDE DEF d, K
  <2> QED  BY <1>2, <1>3, <1>9, <2>1, <2>2
<1> HIDE DEF d
<1>11. /\ s \in Seq(Int) /\ Len(s) = 3 + M + K /\ s[3 + M + K] = c.height
       /\ \A i \in 1..(2 + M + K) : s[i] = d[i]
  <2>1. s = d \o e
    BY <1>1 DEF a, d
  <2> HIDE DEF s, e
  <2>2. /\ s \in Seq(Int) /\ Len(s) = Len(d) + Len(e)
        /\ \A k \in 1..Len(d) : s[k] = d[k]
        /\ \A k \in 1..Len(e) : s[Len(d) + k] = e[k]
    <3>1. d \in Seq(Int) /\ e \in Seq(Int)
      BY <1>8, <1>10
    <3>2. /\ d \o e \in Seq(Int) /\ Len(d \o e) = Len(d) + Len(e)
          /\ \A k \in 1..Len(d) : (d \o e)[k] = d[k]
          /\ \A k \in 1..Len(e) : (d \o e)[Len(d) + k] = e[k]
      BY <3>1, JoinFact
    <3> QED  BY <2>1, <3>2
  <2> HIDE DEF K
  <2> QED  BY <1>2, <1>3, <1>8, <1>10, <2>2
<1> HIDE DEF s, K
<1>12. /\ s[1] = c.version /\ s[2] = nCode
       /\ \A k \in 1..M : s[2 + k] = MaskByte(v, k - 1)
       /\ \A k \in 1..K : s[2 + M + k] = out[k]
  <2>1. 1 \in 1..(2 + M) /\ 2 \in 1..(2 + M) /\ \A k \in 1..(2 + M) : k \in 1..(2 + M + K)
    BY <1>2, <1>3
  <2>2. \A k \in 1..M : 2 + k \in 1..(2 + M)
    BY <1>2
  <2>3. \A k \in 1..K : 2 + M + k \in 1..(2 + M + K)
    BY <1>2, <1>3
  <2>4. s[1] = c.version /\ s[2] = nCode
    BY <1>9, <1>10, <1>11, <2>1
  <2>5. ASSUME NEW k \in 1..M PROVE s[2 + k] = MaskByte(v, k - 1)
    BY <1>9, <1>10, <1>11, <2>1, <2>2
  <2>6. ASSUME NEW k \in 1..K PROVE s[2 + M + k] = out[k]
    BY <1>10, <1>11, <2>3
  <2> QED  BY <2>4, <2>5, <2>6
<1> QED  BY <1>2, <1>3, <1>5, <1>11, <1>12 DEF s, K, out, M, v

----------------------------------------------------------------------------
(* What is read.                                                           *)

EndsOf(s) == {m \in 0 .. Len(s) - 3 :
                /\ Cardinality({k \in 3 .. m + 2 : s[k] # 0}) = Announced(s[2])
                /\ m > 0 => s[m + 2] # 0}
AvailOf(s, mask) == [i \in 1 .. 2 + mask * MaskWidth |->
                       IF i = 1 THEN (s[2] \div 2) % 2 = 1
                       ELSE IF i = 2 THEN (s[2] \div 4) % 2 = 1
                       ELSE BitSet(s[3 + (i - 3) \div MaskWidth], (i - 3) % MaskWidth)]
NthOf(avail, i) == Cardinality({j \in 1 .. i : avail[j]})
TakenOf(s, mask, avail) ==
    [i \in DOMAIN avail |-> IF avail[i] THEN s[2 + mask + NthOf(avail, i)] ELSE Spent]
ReadOf(s, mask, avail) ==
    IF EndsOf(s) = {} \/ 2 + mask + NthOf(avail, Len(avail)) >= Len(s)
      THEN Malformed
      ELSE [coinBase |-> s[2] % 2 = 1, version |-> s[1],
            height |-> s[2 + mask + NthOf(avail, Len(avail)) + 1],
            vout |-> Cleanup(TakenOf(s, mask, avail))]

LEMMA ReadShape ==
    ASSUME NEW s
    PROVE  LET mask == CHOOSE m \in EndsOf(s) : TRUE
           IN  Unserialize(s) = ReadOf(s, mask, AvailOf(s, mask))
  BY DEF Unserialize, ReadOf, EndsOf, AvailOf, NthOf, TakenOf, Announced

LEMMA IntervalFinite == \A a, b \in Int : IsFiniteSet(a..b)
  BY FS_Interval

\* A stream of M bytes of a mask, the values B, and K outputs.
MaskThen(s, M, K, B) ==
    /\ M \in Nat /\ K \in Nat /\ Len(s) = 3 + M + K
    /\ \A k \in 1..M : s[2 + k] = B[k]
    /\ \A k \in 1..K : s[2 + M + k] # 0
    /\ M > 0 => B[M] # 0
    /\ Announced(s[2]) = Cardinality({k \in 1..M : B[k] # 0})

\* The reader finds the end of the mask: an output that is stored is not zero.
LEMMA EndFact ==
    ASSUME NEW s, NEW M, NEW K, NEW B, MaskThen(s, M, K, B)
    PROVE  EndsOf(s) = {M}
<1>0. /\ M \in Nat /\ K \in Nat /\ Len(s) = 3 + M + K
      /\ \A k \in 1..M : s[2 + k] = B[k]
      /\ \A k \in 1..K : s[2 + M + k] # 0
      /\ M > 0 => B[M] # 0
      /\ Announced(s[2]) = Cardinality({k \in 1..M : B[k] # 0})
  BY DEF MaskThen
<1> USE <1>0
<1> DEFINE C(m) == {k \in 3 .. m + 2 : s[k] # 0}
           P == {k \in 1..M : B[k] # 0}
<1>1. ASSUME NEW m \in Nat PROVE IsFiniteSet(C(m)) /\ Cardinality(C(m)) \in Nat
  <2>1. C(m) \subseteq 3 .. m + 2 /\ IsFiniteSet(3 .. m + 2)
    <3>1. 3 \in Int /\ m + 2 \in Int
      OBVIOUS
    <3> QED  BY <3>1, IntervalFinite
  <2> HIDE DEF C
  <2> QED  BY <2>1, FS_Subset, FS_CardinalityType
<1>2. Cardinality(C(M)) = Cardinality(P)
  <2> DEFINE f == [k \in P |-> k + 2]
  <2>1. ASSUME NEW k \in P PROVE f[k] \in C(M)
    <3>1. k \in 1..M /\ B[k] # 0 /\ s[2 + k] = B[k] /\ f[k] = 2 + k /\ 2 + k \in 3 .. M + 2
      OBVIOUS
    <3> QED  BY <3>1
  <2>2. \A k, l \in P : f[k] = f[l] => k = l
    OBVIOUS
  <2>3. ASSUME NEW i \in C(M) PROVE \E k \in P : f[k] = i
    <3>1. i - 2 \in 1..M /\ 2 + (i - 2) = i /\ s[i] # 0 /\ (i - 2) + 2 = i
      OBVIOUS
    <3>2. i - 2 \in P
      BY <3>1
    <3> QED  BY <3>1, <3>2
  <2>4. f \in Bijection(P, C(M))
    <3>1. f \in [P -> C(M)]
      BY <2>1
    <3> HIDE DEF f, P, C
    <3> QED  BY <2>2, <2>3, <3>1 DEF Bijection, Injection, Surjection, IsInjective
  <2>5. IsFiniteSet(P)
    <3>1. P \subseteq 1..M /\ IsFiniteSet(1..M)
      BY IntervalFinite
    <3> HIDE DEF P
    <3> QED  BY <3>1, FS_Subset
  <2> HIDE DEF f, P, C
  <2> QED  BY <2>4, <2>5, FS_Bijection DEF ExistsBijection
<1>3. M \in EndsOf(s)
  <2>1. M \in 0 .. Len(s) - 3
    OBVIOUS
  <2>2. M > 0 => s[M + 2] # 0
    <3>1. M > 0 => M \in 1..M /\ 2 + M = M + 2
      OBVIOUS
    <3> QED  BY <3>1
  <2> QED  BY <1>2, <2>1, <2>2 DEF EndsOf
<1>4. ASSUME NEW m \in EndsOf(s) PROVE m = M
  <2>1. m \in 0 .. (M + K) /\ Cardinality(C(m)) = Announced(s[2]) /\ (m > 0 => s[m + 2] # 0)
    BY DEF EndsOf
  <2>2. Cardinality(C(m)) = Cardinality(C(M))
    BY <1>2, <2>1
  <2>3. ASSUME NEW i \in Nat, NEW j \in Nat, i < j, s[j + 2] # 0 PROVE Cardinality(C(i)) < Cardinality(C(j))
    <3>1. C(i) \subseteq C(j) /\ j + 2 \in C(j) /\ j + 2 \notin C(i)
      BY <2>3
    <3>2. IsFiniteSet(C(j)) /\ C(i) # C(j)
      BY <1>1, <3>1
    <3>3. Cardinality(C(i)) \in Nat /\ Cardinality(C(j)) \in Nat
      BY <1>1
    <3> HIDE DEF C
    <3> QED  BY <3>1, <3>2, <3>3, FS_Subset
  <2>4. CASE m < M
    <3>1. s[M + 2] # 0 /\ m \in Nat
      BY <1>3, <2>1, <2>4 DEF EndsOf
    <3>2. Cardinality(C(m)) < Cardinality(C(M))
      <4> HIDE DEF C
      <4> QED  BY <2>3, <2>4, <3>1
    <3>3. Cardinality(C(m)) \in Nat
      <4> HIDE DEF C
      <4> QED  BY <1>1, <3>1
    <3> HIDE DEF C
    <3> QED  BY <2>2, <3>2, <3>3
  <2>5. CASE m > M
    <3>1. s[m + 2] # 0 /\ m \in Nat
      BY <2>1, <2>5
    <3>2. Cardinality(C(M)) < Cardinality(C(m))
      <4> HIDE DEF C
      <4> QED  BY <2>3, <2>5, <3>1
    <3>3. Cardinality(C(m)) \in Nat
      <4> HIDE DEF C
      <4> QED  BY <1>1, <3>1
    <3> HIDE DEF C
    <3> QED  BY <2>2, <3>2, <3>3
  <2> QED  BY <2>1, <2>4, <2>5
<1> QED  BY <1>3, <1>4

\* Cleanup takes away what is spent at the end, and nothing else.
LEMMA CleanupFact ==
    ASSUME NEW w \in Seq(Nat)
    PROVE  /\ Cleanup(w) \in Seq(Nat) /\ Len(Cleanup(w)) \in 0..Len(w)
           /\ \A i \in 1..Len(Cleanup(w)) : Cleanup(w)[i] = w[i]
           /\ \A i \in (Len(Cleanup(w)) + 1)..Len(w) : w[i] = Spent
           /\ Len(Cleanup(w)) > 0 => w[Len(Cleanup(w))] # Spent
<1> DEFINE Ok(n) == /\ \A i \in n + 1 .. Len(w) : w[i] = Spent
                    /\ n > 0 => w[n] # Spent
           S == {n \in Nat : n <= Len(w) /\ \A i \in n + 1 .. Len(w) : w[i] = Spent}
           m == CHOOSE n \in 0..Len(w) : Ok(n)
<1>1. Len(w) \in Nat
  OBVIOUS
<1>2. S \in SUBSET Nat /\ Len(w) \in S
  BY <1>1
<1>3. \A n : n \in S <=> n \in Nat /\ n <= Len(w) /\ \A i \in n + 1 .. Len(w) : w[i] = Spent
  OBVIOUS
<1> HIDE DEF S
<1>4. PICK x \in S : \A y \in S : x <= y
  BY <1>2, LeastNumber
<1>5. x \in 0..Len(w) /\ Ok(x)
  <2>1. x \in Nat /\ x <= Len(w) /\ \A i \in x + 1 .. Len(w) : w[i] = Spent
    BY <1>3, <1>4
  <2>2. ASSUME x > 0, w[x] = Spent PROVE FALSE
    <3>1. x - 1 \in Nat /\ x - 1 <= Len(w)
      BY <1>1, <2>1, <2>2
    <3>2. \A i \in (x - 1) + 1 .. Len(w) : i = x \/ i \in x + 1 .. Len(w)
      BY <1>1, <2>1
    <3>3. x - 1 \in S
      BY <1>3, <2>1, <2>2, <3>1, <3>2
    <3> QED  BY <1>4, <2>1, <3>3
  <2> QED  BY <1>1, <2>1, <2>2
<1>6. m \in 0..Len(w) /\ Ok(m)
  BY <1>5
<1>7. Cleanup(w) = SubSeq(w, 1, m)
  BY DEF Cleanup
<1> HIDE DEF m
<1>8. Cleanup(w) \in Seq(Nat) /\ Len(Cleanup(w)) = m /\ \A i \in 1..m : Cleanup(w)[i] = w[i]
  <2>1. m \in Nat /\ m <= Len(w)
    BY <1>1, <1>6
  <2> QED  BY <1>1, <1>7, <2>1, SubSeqProperties
<1> QED  BY <1>6, <1>8

\* Cleanup undoes the padding with spent outputs.
LEMMA CleanupPadded ==
    ASSUME NEW w \in Seq(Nat), NEW v, VoutOK(v), Len(v) <= Len(w),
           \A i \in 1..Len(w) : w[i] = IF i <= Len(v) THEN v[i] ELSE Spent
    PROVE  Cleanup(w) = v
<1> DEFINE u == Cleanup(w)
<1>1. v \in Seq(Nat) /\ Len(v) \in Nat /\ Len(w) \in Nat /\ (Len(v) > 0 => v[Len(v)] # Spent)
  BY DEF VoutOK
<1>2. /\ u \in Seq(Nat) /\ Len(u) \in 0..Len(w)
      /\ \A i \in 1..Len(u) : u[i] = w[i]
      /\ \A i \in (Len(u) + 1)..Len(w) : w[i] = Spent
      /\ Len(u) > 0 => w[Len(u)] # Spent
  BY CleanupFact
<1> HIDE DEF u
<1>3. ASSUME Len(u) < Len(v) PROVE FALSE
  <2>1. Len(v) \in (Len(u) + 1)..Len(w) /\ Len(v) \in 1..Len(w) /\ Len(v) > 0
    BY <1>1, <1>2, <1>3
  <2>2. w[Len(v)] = v[Len(v)]
    BY <1>1, <2>1
  <2> QED  BY <1>1, <1>2, <2>1, <2>2
<1>4. ASSUME Len(u) > Len(v) PROVE FALSE
  <2>1. Len(u) \in 1..Len(w) /\ Len(u) > 0
    BY <1>1, <1>2, <1>4
  <2> QED  BY <1>1, <1>2, <1>4, <2>1
<1>5. Len(u) = Len(v)
  BY <1>1, <1>2, <1>3, <1>4
<1>6. \A i \in 1..Len(v) : u[i] = v[i]
  <2> SUFFICES ASSUME NEW i \in 1..Len(v) PROVE u[i] = v[i]
    OBVIOUS
  <2>1. i \in 1..Len(u) /\ i \in 1..Len(w) /\ i <= Len(v)
    BY <1>1, <1>5
  <2>2. w[i] = v[i]
    BY <2>1
  <2> QED  BY <1>2, <2>1, <2>2
<1> QED  BY <1>1, <1>2, <1>5, <1>6, SeqEqual DEF u

\* Whatever the coins are, reading what was written of them gives them back.
Coin == [coinBase : BOOLEAN, vout : Seq(Nat), height : Nat, version : Nat]

LEMMA RoundTrip ==
    ASSUME NEW c \in Coin, VoutOK(c.vout)
    PROVE  Unserialize(Serialize(c)) = c /\ Serialize(c) # Absent
<1> DEFINE s == Serialize(c)
           v == c.vout
           M == MaskBytes(v)
           out == Unspent(v)
           K == Len(out)
           W == MaskWidth
           avail == AvailOf(s, M)
           size == 2 + M * W
<1>1. /\ s \in Seq(Int) /\ M \in Nat /\ K \in Nat /\ Len(s) = 3 + M + K
      /\ s[1] = c.version /\ s[3 + M + K] = c.height
      /\ \A k \in 1..M : s[2 + k] = MaskByte(v, k - 1)
      /\ \A k \in 1..K : s[2 + M + k] = out[k]
      /\ s[2] \in Int /\ Announced(s[2]) = NonzeroBytes(v)
      /\ s[2] % 2 = 1 <=> c.coinBase
      /\ (s[2] \div 2) % 2 = 1 <=> Set(v, 0)
      /\ (s[2] \div 4) % 2 = 1 <=> Set(v, 1)
  BY SerialFact DEF Coin
<1>2. /\ M > 0 => MaskByte(v, M - 1) # 0
      /\ NonzeroBytes(v) = Cardinality({b \in 0..(M - 1) : MaskByte(v, b) # 0})
      /\ Len(v) <= size
  BY MaskBytesFact
<1>3. /\ out \in Seq(Nat) /\ K = Cardinality(Among(v, Len(v)))
      /\ \A k \in 1..K : out[k] # Spent
      /\ \A i \in 1..Len(v) : v[i] # Spent =>
            Cardinality(Among(v, i)) \in 1..K /\ out[Cardinality(Among(v, i))] = v[i]
  BY UnspentFact DEF VoutOK
<1>4. v \in Seq(Nat) /\ Len(v) \in Nat /\ W \in Nat \ {0} /\ size \in Nat /\ size >= 2
  <2>1. W \in Nat \ {0} /\ v \in Seq(Nat)
    BY CoinSizes DEF VoutOK
  <2>2. M * W \in Nat
    <3> HIDE DEF M, W, s, K
    <3> QED  BY <1>1, <2>1, TimesGrows
  <2> HIDE DEF M, W, v
  <2> QED  BY <2>1, <2>2
<1>5. EndsOf(s) = {M}
  <2> DEFINE B == [k \in 1..M |-> MaskByte(v, k - 1)]
             P == {k \in 1..M : B[k] # 0}
             Q == {b \in 0..(M - 1) : MaskByte(v, b) # 0}
             f == [b \in Q |-> b + 1]
  <2>1. \A k \in 1..M : B[k] = MaskByte(v, k - 1)
    OBVIOUS
  <2>2. Cardinality(P) = Cardinality(Q)
    <3> HIDE DEF M
    <3>1. ASSUME NEW b \in Q PROVE f[b] \in P
      <4>1. b \in 0..(M - 1) /\ MaskByte(v, b) # 0 /\ b + 1 \in 1..M /\ (b + 1) - 1 = b
        BY <1>1
      <4> QED  BY <4>1
    <3>2. \A b, d \in Q : f[b] = f[d] => b = d
      BY <1>1
    <3>3. ASSUME NEW k \in P PROVE \E b \in Q : f[b] = k
      <4>1. k \in 1..M /\ B[k] # 0 /\ k - 1 \in 0..(M - 1) /\ (k - 1) + 1 = k
        BY <1>1
      <4>2. k - 1 \in Q
        BY <4>1
      <4> QED  BY <4>1, <4>2
    <3>4. f \in [Q -> P]
      BY <3>1
    <3>5. IsFiniteSet(Q)
      <4>0. 0 \in Int /\ M - 1 \in Int
        BY <1>1
      <4>1. Q \subseteq 0..(M - 1) /\ IsFiniteSet(0..(M - 1))
        BY <4>0, IntervalFinite
      <4> HIDE DEF Q
      <4> QED  BY <4>1, FS_Subset
    <3> HIDE DEF f, P, Q
    <3>6. f \in Bijection(Q, P)
      BY <3>2, <3>3, <3>4 DEF Bijection, Injection, Surjection, IsInjective
    <3> QED  BY <3>5, <3>6, FS_Bijection DEF ExistsBijection
  <2>3. \A k \in 1..M : s[2 + k] = B[k]
    BY <1>1, <2>1
  <2>4. \A k \in 1..K : s[2 + M + k] # 0
    <3> HIDE DEF s, M, K, out
    <3> QED  BY <1>1, <1>3 DEF Spent
  <2>5. M > 0 => M \in 1..M
    <3>1. M \in Nat
      BY <1>1
    <3> HIDE DEF M
    <3> QED  BY <3>1
  <2>6. M > 0 => B[M] # 0
    BY <1>2, <2>1, <2>5
  <2>7. Announced(s[2]) = Cardinality(P)
    BY <1>1, <1>2, <2>2
  <2> HIDE DEF B, M, K, s
  <2>8. M \in Nat /\ K \in Nat /\ Len(s) = 3 + M + K
    BY <1>1
  <2>9. Announced(s[2]) = Cardinality({k \in 1..M : B[k] # 0})
    BY <2>7
  <2>10. MaskThen(s, M, K, B)
    BY <2>3, <2>4, <2>6, <2>8, <2>9 DEF MaskThen
  <2> QED  BY <2>10, EndFact
<1>6. ASSUME NEW i \in 1..size PROVE avail[i] <=> i <= Len(v) /\ v[i] # Spent
  <2>0. Set(v, i - 1) <=> i <= Len(v) /\ v[i] # Spent
    BY <1>4 DEF Set, IsNull
  <2>1. avail[i] = IF i = 1 THEN (s[2] \div 2) % 2 = 1
                   ELSE IF i = 2 THEN (s[2] \div 4) % 2 = 1
                   ELSE BitSet(s[3 + (i - 3) \div W], (i - 3) % W)
    BY DEF AvailOf
  <2>2. CASE i = 1
    <3>1. avail[i] = ((s[2] \div 2) % 2 = 1) /\ i - 1 = 0
      BY <2>1, <2>2
    <3> HIDE DEF avail, s
    <3> QED  BY <1>1, <2>0, <3>1
  <2>3. CASE i = 2
    <3>1. avail[i] = ((s[2] \div 4) % 2 = 1) /\ i - 1 = 1
      BY <2>1, <2>3
    <3> HIDE DEF avail, s
    <3> QED  BY <1>1, <2>0, <3>1
  <2>4. CASE i # 1 /\ i # 2
    <3> DEFINE x == i - 3
               q == x \div W
               p == x % W
    <3>1. x \in Nat /\ i = x + 3
      BY <1>4, <2>4
    <3> HIDE DEF x, W
    <3>2. q \in Nat /\ p \in 0..(W - 1) /\ x = q * W + p
      BY <1>4, <3>1, DivMod
    <3>3. avail[i] = BitSet(s[3 + q], p)
      BY <2>1, <2>4 DEF x
    <3> HIDE DEF q, p, avail
    <3>4. q < M
      <4>1. ASSUME M <= q PROVE FALSE
        <5>0. M \in Nat /\ size = 2 + M * W /\ i <= size
          BY <1>1, <1>4
        <5> HIDE DEF M, size
        <5>1. M * W <= q * W /\ q * W \in Nat /\ M * W \in Nat
          BY <1>4, <3>2, <4>1, <5>0, TimesGrows
        <5> QED  BY <3>1, <3>2, <5>0, <5>1
      <4>2. M \in Nat
        BY <1>1
      <4> HIDE DEF M
      <4> QED  BY <3>2, <4>1, <4>2
    <3>5. q + 1 \in 1..M /\ 2 + (q + 1) = 3 + q /\ (q + 1) - 1 = q
      BY <1>1, <3>2, <3>4
    <3>6. s[3 + q] = MaskByte(v, q)
      BY <1>1, <3>5
    <3>7. BitSet(MaskByte(v, q), p) <=> Set(v, 2 + q * W + p)
      BY <3>2, MaskByteFact DEF W
    <3>8. q * W \in Nat
      BY <1>4, <3>2, TimesGrows
    <3>9. 2 + q * W + p = i - 1
      BY <1>4, <3>1, <3>2, <3>8
    <3> QED  BY <2>0, <3>3, <3>6, <3>7, <3>9
  <2> QED  BY <2>2, <2>3, <2>4
<1>7. DOMAIN avail = 1..size /\ Len(avail) = size
  <2>1. avail = [i \in 1..size |-> avail[i]]
    BY DEF AvailOf
  <2>2. DOMAIN avail = 1..size
    BY <2>1
  <2> HIDE DEF size, avail
  <2> QED  BY <1>4, <2>1, <2>2
<1> HIDE DEF avail, size, s, M, K, out, v, W
<1> DEFINE C(i) == Cardinality(Among(v, i))
<1>8. ASSUME NEW i \in 1..size PROVE NthOf(avail, i) = IF i <= Len(v) THEN C(i) ELSE K
  <2> DEFINE A == {j \in 1..i : avail[j]}
  <2>1. \A j \in 1..i : j \in 1..size
    BY <1>4
  <2>2. \A j \in 1..i : avail[j] <=> j <= Len(v) /\ v[j] # Spent
    BY <1>6, <2>1
  <2>3. CASE i <= Len(v)
    <3>1. A = Among(v, i)
      BY <1>4, <2>2, <2>3 DEF Among
    <3> QED  BY <2>3, <3>1 DEF NthOf
  <2>4. CASE ~(i <= Len(v))
    <3>1. A = Among(v, Len(v))
      BY <1>4, <2>2, <2>4 DEF Among
    <3> QED  BY <1>3, <2>4, <3>1 DEF NthOf
  <2> QED  BY <2>3, <2>4
<1>9. NthOf(avail, Len(avail)) = K
  <2>1. size \in 1..size
    BY <1>4
  <2>2. size <= Len(v) => size = Len(v)
    BY <1>2, <1>4
  <2> QED  BY <1>3, <1>7, <1>8, <2>1, <2>2
<1>10. Cleanup(TakenOf(s, M, avail)) = v
  <2> DEFINE w == TakenOf(s, M, avail)
  <2>1. ASSUME NEW i \in 1..size PROVE w[i] = IF i <= Len(v) THEN v[i] ELSE Spent
    <3>1. w[i] = IF avail[i] THEN s[2 + M + NthOf(avail, i)] ELSE Spent
      BY <1>7 DEF TakenOf
    <3>2. CASE avail[i]
      <4>1. i <= Len(v) /\ v[i] # Spent /\ NthOf(avail, i) = C(i)
        BY <1>6, <1>8, <3>2
      <4>2. i \in 1..Len(v)
        BY <1>4, <4>1
      <4>3. C(i) \in 1..K /\ out[C(i)] = v[i]
        BY <1>3, <4>1, <4>2
      <4> HIDE DEF C
      <4> QED  BY <1>1, <3>1, <3>2, <4>1, <4>3
    <3>3. CASE ~avail[i]
      BY <1>6, <3>1, <3>3
    <3> QED  BY <3>2, <3>3
  <2>2. w = [i \in 1..size |-> w[i]]
    BY <1>7 DEF TakenOf
  <2> HIDE DEF w
  <2>3. \A i \in 1..size : w[i] \in Nat
    <3> SUFFICES ASSUME NEW i \in 1..size PROVE w[i] \in Nat
      OBVIOUS
    <3>1. i <= Len(v) => i \in 1..Len(v) /\ v[i] \in Nat
      BY <1>4
    <3> QED  BY <2>1, <3>1 DEF Spent
  <2>4. w \in Seq(Nat) /\ Len(w) = size
    BY <1>4, <2>2, <2>3
  <2>5. VoutOK(v)
    BY DEF v
  <2>6. Cleanup(w) = v
    BY <1>2, <2>1, <2>4, <2>5, CleanupPadded
  <2> QED  BY <2>6 DEF w
<1>11. Unserialize(s) = ReadOf(s, M, avail)
  <2>1. (CHOOSE m \in EndsOf(s) : TRUE) = M
    BY <1>5
  <2> QED  BY <2>1, ReadShape DEF avail
<1>12. ReadOf(s, M, avail) = [coinBase |-> c.coinBase, version |-> c.version, height |-> c.height, vout |-> v]
  <2>1. EndsOf(s) # {} /\ ~(2 + M + K >= Len(s)) /\ 2 + M + K + 1 = 3 + M + K
    BY <1>1, <1>5
  <2>2. (s[2] % 2 = 1) = c.coinBase
    BY <1>1 DEF Coin
  <2> QED  BY <1>1, <1>9, <1>10, <2>1, <2>2 DEF ReadOf
<1>13. c = [coinBase |-> c.coinBase, version |-> c.version, height |-> c.height, vout |-> v]
  BY DEF Coin, v
<1>14. s # Absent
  <2>1. Len(s) > 0
    BY <1>1
  <2> QED  BY <2>1 DEF Absent
<1> QED  BY <1>11, <1>12, <1>13, <1>14 DEF s

----------------------------------------------------------------------------
(* The coins in memory are those of some transaction, what is stored is    *)
(* what the last batch was given, and the undo records are right.          *)

Coins == {c \in Coin : VoutOK(c.vout) /\ (Len(c.vout) > 0 => c.height > 0)}

Stored(c) == IF IsPruned(c) THEN Absent ELSE Serialize(c)

UndosExact ==
    \A u \in undos :
       LET undo == UnserializeUndo(u.stream)
           last == \A i \in 1 .. Len(u.from.vout) : i # u.n + 1 => u.from.vout[i] = Spent
       IN /\ undo.txout = u.n + 1
          /\ last => /\ undo.height = u.from.height
                     /\ undo.coinBase = u.from.coinBase
                     /\ undo.version = u.from.version

CoinInv ==
    /\ coinView \in [CoinTxs -> Coins]
    /\ lastBatch.coins \in [CoinTxs -> Coins]
    /\ coinDisk = [t \in CoinTxs |-> Stored(lastBatch.coins[t])]
    /\ bestDisk = lastBatch.best
    /\ UndosExact

\* Coins of which every output is spent have none.
LEMMA PrunedEmpty ==
    ASSUME NEW c \in Coins
    PROVE  IsPruned(c) <=> c.vout = <<>>
<1> DEFINE v == c.vout
<1>1. v \in Seq(Nat) /\ Len(v) \in Nat /\ (Len(v) > 0 => v[Len(v)] # Spent)
  BY DEF Coins, VoutOK
<1>2. v = <<>> <=> Len(v) = 0
  BY <1>1, EmptySeq
<1>3. IsPruned(c) <=> \A i \in 1..Len(v) : v[i] = Spent
  BY DEF IsPruned
<1> HIDE DEF v
<1>4. Len(v) > 0 => Len(v) \in 1..Len(v)
  BY <1>1
<1> QED  BY <1>1, <1>2, <1>3, <1>4 DEF v

LEMMA NoneAreCoins == NoCoins \in Coins
<1>1. NoCoins.vout = <<>> /\ <<>> \in Seq(Nat) /\ Len(<<>>) = 0
  BY EmptySeq DEF NoCoins
<1>2. NoCoins \in Coin
  BY <1>1 DEF NoCoins, Coin
<1>3. VoutOK(NoCoins.vout) /\ ~(Len(NoCoins.vout) > 0)
  <2>1. \A v : v \in Seq(Nat) /\ Len(v) = 0 => VoutOK(v) /\ ~(Len(v) > 0)
    BY DEF VoutOK
  <2> QED  BY <1>1, <2>1
<1> QED  BY <1>2, <1>3 DEF Coins

\* What is read of the database is what the last batch was given.
LEMMA ReadBack ==
    ASSUME CoinInv, NEW t \in CoinTxs
    PROVE  /\ GetCoins(t) \in Coins
           /\ IF IsPruned(lastBatch.coins[t]) THEN coinDisk[t] = Absent
                                              ELSE GetCoins(t) = lastBatch.coins[t]
<1> DEFINE c == lastBatch.coins[t]
<1>1. c \in Coins /\ coinDisk[t] = Stored(c)
  BY DEF CoinInv
<1>2. c \in Coin /\ VoutOK(c.vout)
  BY <1>1 DEF Coins
<1> HIDE DEF c
<1>3. CASE IsPruned(c)
  <2>1. coinDisk[t] = Absent /\ GetCoins(t) = NoCoins
    BY <1>1, <1>3 DEF Stored, GetCoins
  <2> QED  BY <1>3, <2>1, NoneAreCoins DEF c
<1>4. CASE ~IsPruned(c)
  <2>1. coinDisk[t] = Serialize(c) /\ Serialize(c) # Absent /\ Unserialize(Serialize(c)) = c
    BY <1>1, <1>2, <1>4, RoundTrip DEF Stored
  <2>2. GetCoins(t) = c
    BY <2>1 DEF GetCoins
  <2> QED  BY <1>1, <1>4, <2>2 DEF c
<1> QED  BY <1>3, <1>4

LEMMA CreateCoinsKeeps ==
    ASSUME CoinInv, NEW t \in CoinTxs, NEW n \in 1..MaxOuts, NEW b \in BOOLEAN, NEW h \in CoinHeights,
           CreateCoins(t, n, b, h)
    PROVE  CoinInv'
<1> DEFINE v == [i \in 1..n |-> i]
           c == [coinBase |-> b, vout |-> v, height |-> h, version |-> 1]
<1>1. n \in Nat \ {0} /\ h \in Nat /\ h > 0
  BY CoinSizes, HeightsPositive
<1>2. v \in Seq(Nat) /\ Len(v) = n /\ \A i \in 1..n : v[i] = i
  BY <1>1
<1> HIDE DEF v
<1>3. VoutOK(v)
  BY <1>1, <1>2 DEF VoutOK, Spent
<1>4. c \in Coins
  BY <1>1, <1>2, <1>3 DEF Coins, Coin
<1>5. coinView' = [coinView EXCEPT ![t] = c] /\ UNCHANGED <<coinDisk, bestDisk, lastBatch, undos>>
  BY DEF CreateCoins, v
<1> HIDE DEF c
<1>6. coinView' \in [CoinTxs -> Coins]
  BY <1>4, <1>5 DEF CoinInv
<1>7. UndosExact'
  BY <1>5 DEF CoinInv, UndosExact
<1> QED  BY <1>5, <1>6, <1>7 DEF CoinInv

\* The stored form of an undo record.
LEMMA UndoRead ==
    ASSUME NEW u, u \in [txout : Nat, height : Nat, coinBase : BOOLEAN, version : Nat]
    PROVE  LET r == UnserializeUndo(SerializeUndo(u))
           IN  /\ r.txout = u.txout /\ r.height = u.height /\ r.coinBase = u.coinBase
               /\ u.height > 0 => r.version = u.version
<1> DEFINE code == u.height * 2 + (IF u.coinBase THEN 1 ELSE 0)
           mid == IF u.height > 0 THEN <<u.version>> ELSE <<>>
           s == SerializeUndo(u)
<1>1. u.height \in Nat /\ u.coinBase \in BOOLEAN /\ u.version \in Nat /\ u.txout \in Nat
  OBVIOUS
<1>2. code \in Nat /\ code \div 2 = u.height /\ (code % 2 = 1 <=> u.coinBase)
  <2>1. CASE u.coinBase
    BY <1>1, <2>1
  <2>2. CASE ~u.coinBase
    BY <1>1, <2>2
  <2> QED  BY <2>1, <2>2
<1> HIDE DEF code
<1>3. s = <<code>> \o mid \o <<u.txout>>
  BY DEF SerializeUndo, code
<1> DEFINE a == <<code>>
           e == <<u.txout>>
           d == a \o mid
<1>4. a \in Seq(Nat) /\ Len(a) = 1 /\ a[1] = code /\ e \in Seq(Nat) /\ Len(e) = 1 /\ e[1] = u.txout
  BY <1>1, <1>2
<1>5. /\ mid \in Seq(Nat) /\ Len(mid) \in Nat
      /\ u.height > 0 => Len(mid) = 1 /\ mid[1] = u.version
  BY <1>1
<1> HIDE DEF a, e, mid
<1>6. /\ d \in Seq(Nat) /\ Len(d) = 1 + Len(mid) /\ d[1] = code
      /\ u.height > 0 => d[2] = mid[1]
  <2>1. /\ d \in Seq(Nat) /\ Len(d) = Len(a) + Len(mid)
        /\ \A k \in 1..Len(a) : d[k] = a[k]
        /\ \A k \in 1..Len(mid) : d[Len(a) + k] = mid[k]
    <3>1. a \in Seq(Nat) /\ mid \in Seq(Nat)
      BY <1>4, <1>5
    <3> QED  BY <3>1, JoinFact
  <2> HIDE DEF d
  <2> QED  BY <1>4, <1>5, <2>1
<1> HIDE DEF d
<1>7. /\ s[1] = code /\ s[Len(s)] = u.txout
      /\ u.height > 0 => s[2] = u.version
  <2> DEFINE r == d \o e
  <2>1. /\ r \in Seq(Nat) /\ Len(r) = Len(d) + Len(e)
        /\ \A k \in 1..Len(d) : r[k] = d[k]
        /\ \A k \in 1..Len(e) : r[Len(d) + k] = e[k]
    <3>1. d \in Seq(Nat) /\ e \in Seq(Nat)
      BY <1>4, <1>6
    <3> QED  BY <3>1, JoinFact
  <2>2. s = r
    BY <1>3 DEF a, d, e
  <2> HIDE DEF r, s
  <2>3. r[1] = d[1] /\ r[Len(r)] = e[1] /\ (u.height > 0 => r[2] = d[2])
    BY <1>4, <1>5, <1>6, <2>1
  <2> QED  BY <1>4, <1>5, <1>6, <2>2, <2>3
<1> HIDE DEF s
<1> QED  BY <1>1, <1>2, <1>7 DEF UnserializeUndo, s

LEMMA SpendOutputKeeps ==
    ASSUME CoinInv, NEW t \in CoinTxs, NEW n \in 0..(MaxOuts - 1), SpendOutput(t, n)
    PROVE  CoinInv'
<1> DEFINE c == coinView[t]
           v == c.vout
           w == [v EXCEPT ![n + 1] = Spent]
           r == Cleanup(w)
           last == r = <<>>
           undo == [txout |-> v[n + 1], height |-> IF last THEN c.height ELSE 0,
                    coinBase |-> last /\ c.coinBase, version |-> IF last THEN c.version ELSE 0]
           rec == [n |-> n, from |-> c, stream |-> SerializeUndo(undo)]
<1>1. /\ c \in Coins /\ coinView \in [CoinTxs -> Coins] /\ n \in Nat
      /\ ~IsNull(v, n) /\ coinView' = [coinView EXCEPT ![t].vout = r] /\ undos' = {rec}
      /\ UNCHANGED <<coinDisk, bestDisk, lastBatch>>
  BY CoinSizes DEF CoinInv, SpendOutput
<1>2. /\ c \in Coin /\ v \in Seq(Nat) /\ Len(v) \in Nat /\ \A i \in 1..Len(v) : v[i] \in {Spent, i}
      /\ Len(v) > 0 => c.height > 0
  BY <1>1 DEF Coins, VoutOK
<1>3. n + 1 \in 1..Len(v) /\ v[n + 1] = n + 1 /\ Len(v) > 0
  <2>1. ~(n >= Len(v)) /\ v[n + 1] # Spent
    BY <1>1 DEF IsNull
  <2> HIDE DEF v
  <2>2. n + 1 \in 1..Len(v)
    BY <1>1, <1>2, <2>1
  <2> QED  BY <1>1, <1>2, <2>1, <2>2
<1>4. w \in Seq(Nat) /\ Len(w) = Len(v) /\ \A i \in 1..Len(v) : w[i] = IF i = n + 1 THEN Spent ELSE v[i]
  <2>1. v \in Seq(Nat) /\ Spent \in Nat /\ n + 1 \in 1..Len(v)
    BY <1>2, <1>3 DEF Spent
  <2> HIDE DEF v, c
  <2> QED  BY <2>1, ExceptSeq
<1> HIDE DEF w
<1>5. /\ r \in Seq(Nat) /\ Len(r) \in 0..Len(w)
      /\ \A i \in 1..Len(r) : r[i] = w[i]
      /\ \A i \in (Len(r) + 1)..Len(w) : w[i] = Spent
      /\ Len(r) > 0 => w[Len(r)] # Spent
  BY <1>4, CleanupFact
<1>6. r = <<>> <=> Len(r) = 0
  BY <1>5, EmptySeq
<1> HIDE DEF r
<1>7. VoutOK(r)
  <2>1. ASSUME NEW i \in 1..Len(r) PROVE r[i] \in {Spent, i}
    <3>1. i \in 1..Len(v)
      BY <1>2, <1>4, <1>5
    <3>2. r[i] = w[i] /\ w[i] = IF i = n + 1 THEN Spent ELSE v[i]
      BY <1>4, <1>5, <3>1
    <3> QED  BY <1>2, <3>1, <3>2
  <2>2. Len(r) > 0 => Len(r) \in 1..Len(r)
    BY <1>2, <1>4, <1>5
  <2>3. Len(r) > 0 => r[Len(r)] # Spent
    BY <1>5, <2>2
  <2> QED  BY <1>5, <2>1, <2>3 DEF VoutOK
<1>8. [c EXCEPT !.vout = r] \in Coins
  <2>1. [c EXCEPT !.vout = r] \in Coin /\ [c EXCEPT !.vout = r].vout = r /\ [c EXCEPT !.vout = r].height = c.height
    BY <1>2, <1>5 DEF Coin
  <2> QED  BY <1>2, <1>3, <1>7, <2>1 DEF Coins
<1>9. coinView' \in [CoinTxs -> Coins]
  <2>1. coinView' = [coinView EXCEPT ![t] = [c EXCEPT !.vout = r]]
    BY <1>1
  <2> QED  BY <1>1, <1>8, <2>1
<1>10. (\A i \in 1..Len(v) : i # n + 1 => v[i] = Spent) => last
  <2> SUFFICES ASSUME \A i \in 1..Len(v) : i # n + 1 => v[i] = Spent PROVE Len(r) = 0
    BY <1>6
  <2>1. \A i \in 1..Len(v) : w[i] = Spent
    BY <1>4
  <2>2. Len(r) > 0 => Len(r) \in 1..Len(v)
    BY <1>2, <1>4, <1>5
  <2> QED  BY <1>2, <1>4, <1>5, <2>1, <2>2
<1>11. c.height \in Nat /\ c.coinBase \in BOOLEAN /\ c.version \in Nat
  BY <1>2 DEF Coin
<1> HIDE DEF last, v, c
<1>12. undo \in [txout : Nat, height : Nat, coinBase : BOOLEAN, version : Nat]
  BY <1>1, <1>3, <1>11
<1> DEFINE q == UnserializeUndo(SerializeUndo(undo))
<1>13. /\ q.txout = undo.txout /\ q.height = undo.height /\ q.coinBase = undo.coinBase
       /\ undo.height > 0 => q.version = undo.version
  BY <1>12, UndoRead
<1> HIDE DEF q
<1>14. /\ q.txout = n + 1
       /\ last => q.height = c.height /\ q.coinBase = c.coinBase /\ q.version = c.version
  BY <1>2, <1>3, <1>11, <1>13
<1>15. UndosExact'
  <2>1. rec.n = n /\ rec.from = c /\ UnserializeUndo(rec.stream) = q
    BY DEF q
  <2> HIDE DEF rec, undo
  <2>2. \A u \in undos' : u = rec
    BY <1>1
  <2> QED  BY <1>10, <1>14, <2>1, <2>2 DEF UndosExact, v
<1> QED  BY <1>1, <1>9, <1>15 DEF CoinInv

LEMMA BatchWriteKeeps ==
    ASSUME CoinInv, NEW setBest \in BOOLEAN, BatchWrite(setBest)
    PROVE  CoinInv'
<1>1. lastBatch'.coins = coinView /\ bestDisk' = lastBatch'.best
  BY DEF CoinInv, BatchWrite
<1>2. coinDisk' = [t \in CoinTxs |-> Stored(lastBatch'.coins[t])]
  BY <1>1 DEF BatchWrite, Stored
<1>3. UNCHANGED <<coinView, undos>>
  BY DEF BatchWrite
<1>4. UndosExact'
  BY <1>3 DEF CoinInv, UndosExact
<1> QED  BY <1>1, <1>2, <1>3, <1>4 DEF CoinInv

LEMMA ReloadCoinsKeeps == ASSUME CoinInv, ReloadCoins PROVE CoinInv'
<1>1. coinView' = [t \in CoinTxs |-> GetCoins(t)] /\ undos' = {} /\ UNCHANGED <<coinDisk, bestDisk, lastBatch>>
  BY DEF ReloadCoins
<1>2. coinView' \in [CoinTxs -> Coins]
  BY <1>1, ReadBack
<1>3. UndosExact'
  BY <1>1 DEF UndosExact
<1> QED  BY <1>1, <1>2, <1>3 DEF CoinInv

\* For any outputs, spent in any order, and any width of the mask's bytes: the coins read back
\* are those of the last batch, a transaction is absent exactly when all of it is spent, and
\* the undo record of the last output has what is needed to bring the transaction back.
THEOREM CoinsStayExact == CoinSpec => []CoinsExact
<1>1. CoinInit => CoinInv
  <2> SUFFICES ASSUME CoinInit PROVE CoinInv
    OBVIOUS
  <2>1. coinView \in [CoinTxs -> Coins] /\ \A t \in CoinTxs : coinView[t] = NoCoins
    BY NoneAreCoins DEF CoinInit
  <2>2. lastBatch.coins = coinView /\ bestDisk = lastBatch.best /\ undos = {}
    BY DEF CoinInit
  <2>3. Stored(NoCoins) = Absent
    <3>1. NoCoins.vout = <<>>
      BY DEF NoCoins
    <3> QED  BY <3>1, NoneAreCoins, PrunedEmpty DEF Stored
  <2>4. coinDisk = [t \in CoinTxs |-> Stored(lastBatch.coins[t])]
    BY <2>1, <2>2, <2>3 DEF CoinInit
  <2> QED  BY <2>1, <2>2, <2>4 DEF CoinInv, UndosExact
<1>2. CoinInv /\ [CoinNext]_coinVars => CoinInv'
  <2> SUFFICES ASSUME CoinInv, [CoinNext]_coinVars PROVE CoinInv'
    OBVIOUS
  <2>1. CASE UNCHANGED coinVars
    BY <2>1 DEF coinVars, CoinInv, UndosExact
  <2> QED  BY <2>1, CreateCoinsKeeps, SpendOutputKeeps, BatchWriteKeeps, ReloadCoinsKeeps DEF CoinNext
<1>3. CoinInv => CoinsExact
  <2> SUFFICES ASSUME CoinInv PROVE CoinsExact
    OBVIOUS
  <2>1. bestDisk = lastBatch.best /\ UndosExact
    BY DEF CoinInv
  <2> QED  BY <2>1, ReadBack DEF CoinsExact, UndosExact
<1> QED  BY <1>1, <1>2, <1>3, PTL DEF CoinSpec

----------------------------------------------------------------------------
(* The Merkle tree.  The loops over the levels of the tree, over a branch  *)
(* and along it make their turns side by side: after every turn the hash   *)
(* is the node of the tree over the transaction, on the same level.        *)

\* A list: a function over 1..n, whatever its values.
List(s, n) == n \in Nat /\ s = [i \in 1..n |-> s[i]]

LEMMA ListFact ==
    ASSUME NEW s, NEW n, List(s, n)
    PROVE  s \in Seq({s[i] : i \in 1..n}) /\ Len(s) = n
<1> DEFINE S == {s[i] : i \in 1..n}
<1>1. n \in Nat /\ s = [i \in 1..n |-> s[i]] /\ \A i \in 1..n : s[i] \in S
  BY DEF List
<1> HIDE DEF S
<1>2. s \in [1..n -> S]
  BY <1>1
<1>3. s \in Seq(S)
  BY <1>1, <1>2
<1>4. DOMAIN s = 1..n /\ DOMAIN s = 1..Len(s) /\ Len(s) \in Nat
  BY <1>2, <1>3
<1>5. Len(s) = n
  BY <1>1, <1>2, <1>3
<1> QED  BY <1>3, <1>5 DEF S

\* r is the m values of s, then the n values of t.
Joined(r, s, m, t, n) == /\ List(r, m + n)
                         /\ \A i \in 1..m : r[i] = s[i]
                         /\ \A i \in 1..n : r[m + i] = t[i]

LEMMA ListJoin ==
    ASSUME NEW s, NEW m, NEW t, NEW n, List(s, m), List(t, n)
    PROVE  Joined(s \o t, s, m, t, n)
<1> DEFINE S == {s[i] : i \in 1..m}
           T == {t[i] : i \in 1..n}
           U == S \cup T
           r == s \o t
<1>1. s \in Seq(S) /\ Len(s) = m /\ t \in Seq(T) /\ Len(t) = n /\ m \in Nat /\ n \in Nat
  BY ListFact DEF List
<1> HIDE DEF S, T
<1>2. s \in Seq(U) /\ t \in Seq(U)
  <2>1. \A i \in 1..m : s[i] \in S
    BY <1>1
  <2>2. \A i \in 1..n : t[i] \in T
    BY <1>1
  <2>3. s \in [1..m -> U] /\ t \in [1..n -> U]
    BY <1>1, <2>1, <2>2 DEF List
  <2> HIDE DEF U
  <2> QED  BY <1>1, <2>3
<1> HIDE DEF U
<1>3. r \in Seq(U) /\ Len(r) = m + n /\ \A i \in 1..(m + n) : r[i] = IF i <= m THEN s[i] ELSE t[i - m]
  BY <1>1, <1>2, ConcatProperties
<1> HIDE DEF r
<1>4. List(r, m + n)
  <2>1. m + n \in Nat
    BY <1>1
  <2>2. r \in [1..Len(r) -> U]
    BY <1>3
  <2> QED  BY <1>3, <2>1, <2>2 DEF List
<1>5. \A i \in 1..m : r[i] = s[i]
  BY <1>1, <1>3
<1>6. ASSUME NEW i \in 1..n PROVE r[m + i] = t[i]
  <2>1. m + i \in 1..(m + n) /\ ~(m + i <= m) /\ (m + i) - m = i
    BY <1>1
  <2> QED  BY <1>3, <2>1
<1> QED  BY <1>4, <1>5, <1>6 DEF r, Joined

\* r is the m values of s, then e.
Longer(r, s, m, e) == /\ List(r, m + 1) /\ r[m + 1] = e
                      /\ \A i \in 1..m : r[i] = s[i]

LEMMA ListAppend ==
    ASSUME NEW s, NEW m, NEW e, List(s, m)
    PROVE  Longer(Append(s, e), s, m, e)
<1> DEFINE S == {s[i] : i \in 1..m}
           U == S \cup {e}
           r == Append(s, e)
<1>1. s \in Seq(S) /\ Len(s) = m /\ m \in Nat
  BY ListFact DEF List
<1> HIDE DEF S
<1>2. s \in Seq(U)
  <2>1. \A i \in 1..m : s[i] \in S
    BY <1>1
  <2>2. s \in [1..m -> U]
    BY <1>1, <2>1 DEF List
  <2> HIDE DEF U
  <2> QED  BY <1>1, <2>2
<1>3. e \in U
  OBVIOUS
<1> HIDE DEF U
<1>4. r \in Seq(U) /\ Len(r) = m + 1 /\ r[m + 1] = e /\ \A i \in 1..m : r[i] = s[i]
  BY <1>1, <1>2, <1>3, AppendProperties
<1> HIDE DEF r
<1>5. List(r, m + 1)
  <2>1. m + 1 \in Nat
    BY <1>1
  <2>2. r \in [1..Len(r) -> U]
    BY <1>4
  <2> QED  BY <1>4, <2>1, <2>2 DEF List
<1> QED  BY <1>4, <1>5 DEF r, Longer

----------------------------------------------------------------------------
(* The three loops.                                                        *)

FirstLevel(hashes) == [tree |-> hashes, j |-> 0, nSize |-> Len(hashes)]
LevelTurns(hashes, g) == [k \in 0..Len(hashes) |-> IF k = 0 THEN FirstLevel(hashes) ELSE LevelAbove(g[k - 1])]

LEMMA LevelsBuilt ==
    ASSUME NEW hashes, Len(hashes) \in Nat
    PROVE  \E g : /\ g[0] = FirstLevel(hashes) /\ BuildLevels(hashes) = g[Len(hashes)].tree
                  /\ \A k \in 1..Len(hashes) : g[k] = LevelAbove(g[k - 1])
<1> DEFINE n == Len(hashes)
           Good(m, g) == /\ DOMAIN g = 0..m /\ g = [k \in 0..m |-> g[k]]
                         /\ \A k \in 0..m : g[k] = IF k = 0 THEN FirstLevel(hashes) ELSE LevelAbove(g[k - 1])
           S == {m \in 0..n : \E g : Good(m, g)}
<1>1. n \in Nat
  OBVIOUS
<1> HIDE DEF Good, n
<1>2. 0 \in S
  <2> DEFINE g == [k \in 0..0 |-> FirstLevel(hashes)]
  <2>1. Good(0, g)
    BY DEF Good
  <2> QED  BY <1>1, <2>1
<1>3. ASSUME NEW m \in 1..n, m - 1 \in S PROVE m \in S
  <2>1. m - 1 \in 0..n /\ m \in 0..n /\ m # 0
    BY <1>1
  <2>2. PICK h : Good(m - 1, h)
    BY <1>3
  <2> DEFINE g == [k \in 0..m |-> IF k = m THEN LevelAbove(h[m - 1]) ELSE h[k]]
  <2>3. /\ DOMAIN g = 0..m /\ g = [k \in 0..m |-> g[k]]
        /\ \A k \in 0..m : g[k] = IF k = m THEN LevelAbove(h[m - 1]) ELSE h[k]
    OBVIOUS
  <2> HIDE DEF g
  <2>4. ASSUME NEW k \in 0..m PROVE g[k] = IF k = 0 THEN FirstLevel(hashes) ELSE LevelAbove(g[k - 1])
    <3>1. CASE k = m
      <4>1. m - 1 \in 0..m /\ m - 1 # m
        BY <2>1
      <4> QED  BY <2>1, <2>3, <3>1, <4>1
    <3>2. CASE k # m
      <4>1. k \in 0..(m - 1) /\ (k # 0 => k - 1 \in 0..m /\ k - 1 # m)
        BY <2>1, <3>2
      <4>2. h[k] = IF k = 0 THEN FirstLevel(hashes) ELSE LevelAbove(h[k - 1])
        BY <2>2, <4>1 DEF Good
      <4> QED  BY <2>3, <3>2, <4>1, <4>2
    <3> QED  BY <3>1, <3>2
  <2>5. Good(m, g)
    BY <2>3, <2>4 DEF Good
  <2> QED  BY <2>1, <2>5
<1> HIDE DEF S
<1>4. n \in S
  <2>1. \A m \in 0..n : m \in S
    BY <1>1, <1>2, <1>3, UpTo
  <2> QED  BY <1>1, <2>1
<1>5. PICK h : Good(n, h)
  BY <1>4 DEF S
<1>6. h = LevelTurns(hashes, h)
  <2>1. \A k \in 0..n : h[k] = LevelTurns(hashes, h)[k]
    BY <1>5 DEF Good, LevelTurns, n
  <2>2. h = [k \in 0..n |-> LevelTurns(hashes, h)[k]]
    BY <1>5, <2>1 DEF Good
  <2> QED  BY <2>2 DEF LevelTurns, n
<1>7. PICK g : g = LevelTurns(hashes, g) /\ BuildLevels(hashes) = g[n].tree
  <2> DEFINE g == CHOOSE x : x = LevelTurns(hashes, x)
  <2>1. g = LevelTurns(hashes, g)
    BY <1>6
  <2>2. BuildLevels(hashes) = g[n].tree
    BY DEF BuildLevels, LevelTurns, FirstLevel, n
  <2> QED  BY <2>1, <2>2
<1>8. \A k \in 0..n : g[k] = IF k = 0 THEN FirstLevel(hashes) ELSE LevelAbove(g[k - 1])
  <2>1. \A k \in 0..n : LevelTurns(hashes, g)[k] = IF k = 0 THEN FirstLevel(hashes) ELSE LevelAbove(g[k - 1])
    BY DEF LevelTurns, n
  <2> QED  BY <1>7, <2>1
<1>9. 0 \in 0..n /\ \A k \in 1..n : k \in 0..n /\ k # 0
  BY <1>1
<1>10. g[0] = FirstLevel(hashes) /\ \A k \in 1..n : g[k] = LevelAbove(g[k - 1])
  BY <1>8, <1>9
<1> QED  BY <1>7, <1>10 DEF n

FirstOfBranch(place, size) == [branch |-> <<>>, nIndex |-> place, j |-> 0, nSize |-> size]
BranchTurns(tree, place, size, g) ==
    [k \in 0..size |-> IF k = 0 THEN FirstOfBranch(place, size) ELSE BranchAbove(tree, g[k - 1])]

LEMMA BranchBuilt ==
    ASSUME NEW tree, NEW place, NEW size \in Nat
    PROVE  \E g : /\ g[0] = FirstOfBranch(place, size) /\ BranchLevels(tree, place, size) = g[size].branch
                  /\ \A k \in 1..size : g[k] = BranchAbove(tree, g[k - 1])
<1> DEFINE n == size
           Good(m, g) == /\ DOMAIN g = 0..m /\ g = [k \in 0..m |-> g[k]]
                         /\ \A k \in 0..m : g[k] = IF k = 0 THEN FirstOfBranch(place, size) ELSE BranchAbove(tree, g[k - 1])
           S == {m \in 0..n : \E g : Good(m, g)}
<1>1. n \in Nat
  OBVIOUS
<1> HIDE DEF Good, n
<1>2. 0 \in S
  <2> DEFINE g == [k \in 0..0 |-> FirstOfBranch(place, size)]
  <2>1. Good(0, g)
    BY DEF Good
  <2> QED  BY <1>1, <2>1
<1>3. ASSUME NEW m \in 1..n, m - 1 \in S PROVE m \in S
  <2>1. m - 1 \in 0..n /\ m \in 0..n /\ m # 0
    BY <1>1
  <2>2. PICK h : Good(m - 1, h)
    BY <1>3
  <2> DEFINE g == [k \in 0..m |-> IF k = m THEN BranchAbove(tree, h[m - 1]) ELSE h[k]]
  <2>3. /\ DOMAIN g = 0..m /\ g = [k \in 0..m |-> g[k]]
        /\ \A k \in 0..m : g[k] = IF k = m THEN BranchAbove(tree, h[m - 1]) ELSE h[k]
    OBVIOUS
  <2> HIDE DEF g
  <2>4. ASSUME NEW k \in 0..m PROVE g[k] = IF k = 0 THEN FirstOfBranch(place, size) ELSE BranchAbove(tree, g[k - 1])
    <3>1. CASE k = m
      <4>1. m - 1 \in 0..m /\ m - 1 # m
        BY <2>1
      <4> QED  BY <2>1, <2>3, <3>1, <4>1
    <3>2. CASE k # m
      <4>1. k \in 0..(m - 1) /\ (k # 0 => k - 1 \in 0..m /\ k - 1 # m)
        BY <2>1, <3>2
      <4>2. h[k] = IF k = 0 THEN FirstOfBranch(place, size) ELSE BranchAbove(tree, h[k - 1])
        BY <2>2, <4>1 DEF Good
      <4> QED  BY <2>3, <3>2, <4>1, <4>2
    <3> QED  BY <3>1, <3>2
  <2>5. Good(m, g)
    BY <2>3, <2>4 DEF Good
  <2> QED  BY <2>1, <2>5
<1> HIDE DEF S
<1>4. n \in S
  <2>1. \A m \in 0..n : m \in S
    BY <1>1, <1>2, <1>3, UpTo
  <2> QED  BY <1>1, <2>1
<1>5. PICK h : Good(n, h)
  BY <1>4 DEF S
<1>6. h = BranchTurns(tree, place, size, h)
  <2>1. \A k \in 0..n : h[k] = BranchTurns(tree, place, size, h)[k]
    BY <1>5 DEF Good, BranchTurns, n
  <2>2. h = [k \in 0..n |-> BranchTurns(tree, place, size, h)[k]]
    BY <1>5, <2>1 DEF Good
  <2> QED  BY <2>2 DEF BranchTurns, n
<1>7. PICK g : g = BranchTurns(tree, place, size, g) /\ BranchLevels(tree, place, size) = g[n].branch
  <2> DEFINE g == CHOOSE x : x = BranchTurns(tree, place, size, x)
  <2>1. g = BranchTurns(tree, place, size, g)
    BY <1>6
  <2>2. BranchLevels(tree, place, size) = g[n].branch
    BY DEF BranchLevels, BranchTurns, FirstOfBranch, n
  <2> QED  BY <2>1, <2>2
<1>8. \A k \in 0..n : g[k] = IF k = 0 THEN FirstOfBranch(place, size) ELSE BranchAbove(tree, g[k - 1])
  <2>1. \A k \in 0..n : BranchTurns(tree, place, size, g)[k] = IF k = 0 THEN FirstOfBranch(place, size) ELSE BranchAbove(tree, g[k - 1])
    BY DEF BranchTurns, n
  <2> QED  BY <1>7, <2>1
<1>9. 0 \in 0..n /\ \A k \in 1..n : k \in 0..n /\ k # 0
  BY <1>1
<1>10. g[0] = FirstOfBranch(place, size) /\ \A k \in 1..n : g[k] = BranchAbove(tree, g[k - 1])
  BY <1>8, <1>9
<1> QED  BY <1>7, <1>10 DEF n

FirstCheck(hash, place) == [hash |-> hash, nIndex |-> place]
CheckTurns(hash, branch, place, g) ==
    [k \in 0..Len(branch) |-> IF k = 0 THEN FirstCheck(hash, place) ELSE HashAbove(g[k - 1], branch[k])]

\* The turns C of CheckMerkleBranch along a branch.
Walk(C, hash, branch, place) ==
    /\ Len(branch) \in Nat /\ C[0] = FirstCheck(hash, place)
    /\ \A m \in 1..Len(branch) : C[m] = HashAbove(C[m - 1], branch[m])

LEMMA ChecksBuilt ==
    ASSUME NEW hash, NEW branch, Len(branch) \in Nat, NEW place, place # -1
    PROVE  \E g : Walk(g, hash, branch, place) /\ CheckMerkleBranch(hash, branch, place) = g[Len(branch)].hash
<1> DEFINE n == Len(branch)
           Good(m, g) == /\ DOMAIN g = 0..m /\ g = [k \in 0..m |-> g[k]]
                         /\ \A k \in 0..m : g[k] = IF k = 0 THEN FirstCheck(hash, place) ELSE HashAbove(g[k - 1], branch[k])
           S == {m \in 0..n : \E g : Good(m, g)}
<1>1. n \in Nat
  OBVIOUS
<1> HIDE DEF Good, n
<1>2. 0 \in S
  <2> DEFINE g == [k \in 0..0 |-> FirstCheck(hash, place)]
  <2>1. Good(0, g)
    BY DEF Good
  <2> QED  BY <1>1, <2>1
<1>3. ASSUME NEW m \in 1..n, m - 1 \in S PROVE m \in S
  <2>1. m - 1 \in 0..n /\ m \in 0..n /\ m # 0
    BY <1>1
  <2>2. PICK h : Good(m - 1, h)
    BY <1>3
  <2> DEFINE g == [k \in 0..m |-> IF k = m THEN HashAbove(h[m - 1], branch[m]) ELSE h[k]]
  <2>3. /\ DOMAIN g = 0..m /\ g = [k \in 0..m |-> g[k]]
        /\ \A k \in 0..m : g[k] = IF k = m THEN HashAbove(h[m - 1], branch[m]) ELSE h[k]
    OBVIOUS
  <2> HIDE DEF g
  <2>4. ASSUME NEW k \in 0..m PROVE g[k] = IF k = 0 THEN FirstCheck(hash, place) ELSE HashAbove(g[k - 1], branch[k])
    <3>1. CASE k = m
      <4>1. m - 1 \in 0..m /\ m - 1 # m
        BY <2>1
      <4> QED  BY <2>1, <2>3, <3>1, <4>1
    <3>2. CASE k # m
      <4>1. k \in 0..(m - 1) /\ (k # 0 => k - 1 \in 0..m /\ k - 1 # m)
        BY <2>1, <3>2
      <4>2. h[k] = IF k = 0 THEN FirstCheck(hash, place) ELSE HashAbove(h[k - 1], branch[k])
        BY <2>2, <4>1 DEF Good
      <4> QED  BY <2>3, <3>2, <4>1, <4>2
    <3> QED  BY <3>1, <3>2
  <2>5. Good(m, g)
    BY <2>3, <2>4 DEF Good
  <2> QED  BY <2>1, <2>5
<1> HIDE DEF S
<1>4. n \in S
  <2>1. \A m \in 0..n : m \in S
    BY <1>1, <1>2, <1>3, UpTo
  <2> QED  BY <1>1, <2>1
<1>5. PICK h : Good(n, h)
  BY <1>4 DEF S
<1>6. h = CheckTurns(hash, branch, place, h)
  <2>1. \A k \in 0..n : h[k] = CheckTurns(hash, branch, place, h)[k]
    BY <1>5 DEF Good, CheckTurns, n
  <2>2. h = [k \in 0..n |-> CheckTurns(hash, branch, place, h)[k]]
    BY <1>5, <2>1 DEF Good
  <2> QED  BY <2>2 DEF CheckTurns, n
<1>7. PICK g : g = CheckTurns(hash, branch, place, g) /\ CheckMerkleBranch(hash, branch, place) = g[n].hash
  <2> DEFINE g == CHOOSE x : x = CheckTurns(hash, branch, place, x)
  <2>1. g = CheckTurns(hash, branch, place, g)
    BY <1>6
  <2>2. CheckMerkleBranch(hash, branch, place) = g[n].hash
    BY DEF CheckMerkleBranch, CheckTurns, FirstCheck, n
  <2> QED  BY <2>1, <2>2
<1>8. \A k \in 0..n : g[k] = IF k = 0 THEN FirstCheck(hash, place) ELSE HashAbove(g[k - 1], branch[k])
  <2>1. \A k \in 0..n : CheckTurns(hash, branch, place, g)[k] = IF k = 0 THEN FirstCheck(hash, place) ELSE HashAbove(g[k - 1], branch[k])
    BY DEF CheckTurns, n
  <2> QED  BY <1>7, <2>1
<1>9. 0 \in 0..n /\ \A k \in 1..n : k \in 0..n /\ k # 0
  BY <1>1
<1>10. g[0] = FirstCheck(hash, place) /\ \A k \in 1..n : g[k] = HashAbove(g[k - 1], branch[k])
  BY <1>8, <1>9
<1>11. Walk(g, hash, branch, place)
  BY <1>10 DEF n, Walk
<1> QED  BY <1>7, <1>11 DEF n

----------------------------------------------------------------------------
(* The levels.                                                             *)

\* The turns g over n hashes: every level follows the one below in the tree.
Levels(g, n) ==
    /\ n \in Nat \ {0}
    /\ \A k \in 0..n : /\ g[k].j \in Nat /\ g[k].nSize \in Nat \ {0}
                       /\ List(g[k].tree, g[k].j + g[k].nSize)
                       /\ g[k].nSize = 1 \/ g[k].nSize <= n - k
    /\ \A k \in 1..n : g[k] = LevelAbove(g[k - 1])

\* The nodes below a node: a pair of nodes of the level below.
Left(x) == 2 * (x - 1)
Right(x, size) == IF Left(x) + 1 <= size - 1 THEN Left(x) + 1 ELSE size - 1

LEMMA HalfFact ==
    ASSUME NEW s \in Nat \ {0}, s > 1
    PROVE  HalfOf(s) \in Nat \ {0} /\ HalfOf(s) <= s - 1
  BY DEF HalfOf

\* One turn of the building loop.
LEMMA LevelAboveFact ==
    ASSUME NEW s, s.j \in Nat, s.nSize \in Nat \ {0}, s.nSize > 1, List(s.tree, s.j + s.nSize)
    PROVE  LET r == LevelAbove(s)
           IN  /\ r.j = s.j + s.nSize /\ r.nSize = HalfOf(s.nSize) /\ List(r.tree, r.j + r.nSize)
               /\ \A i \in 1..(s.j + s.nSize) : r.tree[i] = s.tree[i]
               /\ \A x \in 1..r.nSize : r.tree[r.j + x] =
                     <<s.tree[s.j + Left(x) + 1], s.tree[s.j + Right(x, s.nSize) + 1]>>
<1> DEFINE level == [k \in 1 .. HalfOf(s.nSize) |->
                       LET i == 2 * (k - 1)
                           i2 == IF i + 1 <= s.nSize - 1 THEN i + 1 ELSE s.nSize - 1
                       IN <<s.tree[s.j + i + 1], s.tree[s.j + i2 + 1]>>]
           m == s.j + s.nSize
           h == HalfOf(s.nSize)
           t == s.tree \o level
<1>1. LevelAbove(s) = [tree |-> t, j |-> m, nSize |-> h]
  BY DEF LevelAbove
<1>2. h \in Nat \ {0} /\ m \in Nat
  BY HalfFact
<1>3. \A x \in 1..h : level[x] = <<s.tree[s.j + Left(x) + 1], s.tree[s.j + Right(x, s.nSize) + 1]>>
  BY DEF Left, Right
<1>4. List(level, h)
  <2>1. level = [k \in 1..h |-> level[k]]
    OBVIOUS
  <2> HIDE DEF level, h
  <2> QED  BY <1>2, <2>1 DEF List
<1> HIDE DEF level, h, m
<1>5. List(s.tree, m)
  BY DEF m
<1>6. List(t, m + h) /\ (\A i \in 1..m : t[i] = s.tree[i]) /\ \A i \in 1..h : t[m + i] = level[i]
  <2> DEFINE tr == s.tree
  <2>1. List(tr, m)
    BY <1>5
  <2>2. t = tr \o level
    OBVIOUS
  <2> HIDE DEF tr, t
  <2>3. Joined(tr \o level, tr, m, level, h)
    BY <1>4, <2>1, ListJoin
  <2>4. List(t, m + h) /\ (\A i \in 1..m : t[i] = tr[i]) /\ \A i \in 1..h : t[m + i] = level[i]
    BY <2>2, <2>3 DEF Joined
  <2> QED  BY <2>4 DEF tr
<1> HIDE DEF t
<1>7. LevelAbove(s).tree = t /\ LevelAbove(s).j = m /\ LevelAbove(s).nSize = h
  BY <1>1
<1> QED  BY <1>3, <1>6, <1>7 DEF m, h

LEMMA LevelsFact ==
    ASSUME NEW hashes, NEW n \in Nat \ {0}, List(hashes, n), NEW g, g[0] = FirstLevel(hashes),
           \A k \in 1..n : g[k] = LevelAbove(g[k - 1])
    PROVE  Levels(g, n)
<1> DEFINE Ok(k) == /\ g[k].j \in Nat /\ g[k].nSize \in Nat \ {0}
                    /\ List(g[k].tree, g[k].j + g[k].nSize)
                    /\ g[k].nSize = 1 \/ g[k].nSize <= n - k
           S == {k \in 0..n : Ok(k)}
<1>1. 0 \in S
  <2>0. Len(hashes) = n
    BY ListFact
  <2>1. g[0].j = 0 /\ g[0].nSize = n /\ g[0].tree = hashes
    BY <2>0 DEF FirstLevel
  <2>2. Ok(0)
    BY <2>1
  <2> QED  BY <2>2
<1>2. ASSUME NEW k \in 1..n, k - 1 \in S PROVE k \in S
  <2> DEFINE s == g[k - 1]
             r == g[k]
  <2>1. Ok(k - 1) /\ k - 1 \in Nat /\ k \in 0..n
    BY <1>2
  <2>2. /\ s.j \in Nat /\ s.nSize \in Nat \ {0} /\ List(s.tree, s.j + s.nSize)
        /\ s.nSize = 1 \/ s.nSize <= n - (k - 1)
    BY <2>1
  <2>3. r = LevelAbove(s)
    OBVIOUS
  <2> HIDE DEF s, r
  <2>4. CASE s.nSize = 1
    <3>1. r = s
      BY <2>3, <2>4 DEF LevelAbove
    <3> QED  BY <2>1, <2>2, <2>4, <3>1 DEF r
  <2>5. CASE s.nSize # 1
    <3>1. s.nSize > 1
      BY <2>2, <2>5
    <3>2. r.j = s.j + s.nSize /\ r.nSize = HalfOf(s.nSize) /\ List(r.tree, r.j + r.nSize)
      BY <2>2, <2>3, <3>1, LevelAboveFact
    <3>3. HalfOf(s.nSize) \in Nat \ {0} /\ HalfOf(s.nSize) <= s.nSize - 1
      BY <2>2, <3>1, HalfFact
    <3>4. r.j \in Nat /\ r.nSize \in Nat \ {0} /\ r.nSize <= n - k
      BY <2>1, <2>2, <2>5, <3>2, <3>3
    <3> QED  BY <2>1, <3>2, <3>4 DEF r
  <2> QED  BY <2>4, <2>5
<1> HIDE DEF S
<1>3. \A k \in 0..n : k \in S
  BY <1>1, <1>2, UpTo
<1> QED  BY <1>3 DEF S, Levels

\* The tree keeps what every turn left, so in the whole tree each node is made of its nodes below,
\* and the last one is the root.
Made(T, g, n) ==
    /\ \A k \in 0..n : \A i \in 1..(g[k].j + g[k].nSize) : T[i] = g[k].tree[i]
    /\ \A k \in 1..n : g[k - 1].nSize > 1 =>
          \A x \in 1..g[k].nSize :
             T[g[k].j + x] = <<T[g[k - 1].j + Left(x) + 1], T[g[k - 1].j + Right(x, g[k - 1].nSize) + 1]>>
    /\ g[n].nSize = 1 /\ MerkleRoot(T) = T[g[n].j + 1]

LEMMA TreeFact ==
    ASSUME NEW g, NEW n, Levels(g, n), NEW T, T = g[n].tree
    PROVE  Made(T, g, n)
<1> DEFINE Size(k) == g[k].j + g[k].nSize
           Keeps(k) == \A i \in 1..Size(k) : T[i] = g[k].tree[i]
           S == {d \in 0..n : Keeps(n - d)}
<1>1. /\ n \in Nat \ {0}
      /\ \A k \in 0..n : /\ g[k].j \in Nat /\ g[k].nSize \in Nat \ {0} /\ List(g[k].tree, Size(k))
                         /\ g[k].nSize = 1 \/ g[k].nSize <= n - k
      /\ \A k \in 1..n : g[k] = LevelAbove(g[k - 1])
  BY DEF Levels
<1>2. ASSUME NEW k \in 1..n
      PROVE  /\ \A i \in 1..Size(k - 1) : i \in 1..Size(k) /\ g[k].tree[i] = g[k - 1].tree[i]
             /\ g[k - 1].nSize > 1 =>
                  /\ g[k].j = Size(k - 1) /\ g[k].nSize = HalfOf(g[k - 1].nSize)
                  /\ \A x \in 1..g[k].nSize :
                       g[k].tree[g[k].j + x] = <<g[k - 1].tree[g[k - 1].j + Left(x) + 1],
                                                 g[k - 1].tree[g[k - 1].j + Right(x, g[k - 1].nSize) + 1]>>
  <2> DEFINE s == g[k - 1]
             r == g[k]
  <2>1. k - 1 \in 0..n /\ k \in 0..n
    BY <1>1
  <2>2. /\ s.j \in Nat /\ s.nSize \in Nat \ {0} /\ List(s.tree, s.j + s.nSize) /\ r = LevelAbove(s)
        /\ r.nSize \in Nat /\ r.j \in Nat
    BY <1>1, <2>1
  <2> HIDE DEF s, r
  <2>3. CASE s.nSize = 1
    <3>1. r = s
      BY <2>2, <2>3 DEF LevelAbove
    <3> QED  BY <2>3, <3>1 DEF s, r
  <2>4. CASE s.nSize # 1
    <3>1. s.nSize > 1
      BY <2>2, <2>4
    <3>2. /\ r.j = s.j + s.nSize /\ r.nSize = HalfOf(s.nSize)
          /\ \A i \in 1..(s.j + s.nSize) : r.tree[i] = s.tree[i]
          /\ \A x \in 1..r.nSize : r.tree[r.j + x] =
                <<s.tree[s.j + Left(x) + 1], s.tree[s.j + Right(x, s.nSize) + 1]>>
      BY <2>2, <3>1, LevelAboveFact
    <3>3. \A i \in 1..(s.j + s.nSize) : i \in 1..(r.j + r.nSize)
      BY <2>2, <3>2
    <3> QED  BY <3>2, <3>3 DEF s, r
  <2> QED  BY <2>3, <2>4
<1> HIDE DEF Keeps
<1>3. 0 \in S
  <2>1. n - 0 = n
    BY <1>1
  <2> QED  BY <1>1, <2>1 DEF Keeps
<1>4. ASSUME NEW d \in 1..n, d - 1 \in S PROVE d \in S
  <2>1. Keeps(n - (d - 1)) /\ n - (d - 1) \in 1..n /\ (n - (d - 1)) - 1 = n - d /\ d \in 0..n
    BY <1>1, <1>4
  <2>2. Keeps(n - d)
    BY <1>2, <2>1 DEF Keeps
  <2> QED  BY <2>1, <2>2
<1> HIDE DEF S
<1>5. ASSUME NEW k \in 0..n PROVE Keeps(k)
  <2>1. n - k \in 0..n /\ n - (n - k) = k
    BY <1>1
  <2>2. n - k \in S
    <3>1. \A d \in 0..n : d \in S
      BY <1>1, <1>3, <1>4, UpTo
    <3> QED  BY <2>1, <3>1
  <2> QED  BY <2>1, <2>2 DEF S
<1>6. ASSUME NEW k \in 1..n, g[k - 1].nSize > 1, NEW x \in 1..g[k].nSize
      PROVE  T[g[k].j + x] = <<T[g[k - 1].j + Left(x) + 1], T[g[k - 1].j + Right(x, g[k - 1].nSize) + 1]>>
  <2>1. k - 1 \in 0..n /\ k \in 0..n
    BY <1>1
  <2> DEFINE s == g[k - 1]
             r == g[k]
  <2>2. s.j \in Nat /\ s.nSize \in Nat \ {0} /\ r.j \in Nat /\ s.nSize > 1 /\ r.nSize = HalfOf(s.nSize)
    BY <1>1, <1>2, <1>6, <2>1
  <2>3. r.j + x \in 1..Size(k)
    BY <1>1, <2>1
  <2>4. /\ s.j + Left(x) + 1 \in 1..Size(k - 1)
        /\ s.j + Right(x, s.nSize) + 1 \in 1..Size(k - 1)
    <3>1. x \in 1..HalfOf(s.nSize)
      BY <2>2
    <3> HIDE DEF s, r
    <3>2. s.j + Left(x) + 1 \in 1..(s.j + s.nSize) /\ s.j + Right(x, s.nSize) + 1 \in 1..(s.j + s.nSize)
      BY <2>2, <3>1 DEF HalfOf, Left, Right
    <3> QED  BY <3>2 DEF s
  <2>5. T[r.j + x] = r.tree[r.j + x]
    BY <1>5, <2>1, <2>3 DEF Keeps
  <2>6. /\ T[s.j + Left(x) + 1] = s.tree[s.j + Left(x) + 1]
        /\ T[s.j + Right(x, s.nSize) + 1] = s.tree[s.j + Right(x, s.nSize) + 1]
    BY <1>5, <2>1, <2>4 DEF Keeps
  <2>7. r.tree[r.j + x] = <<s.tree[s.j + Left(x) + 1], s.tree[s.j + Right(x, s.nSize) + 1]>>
    BY <1>2, <1>6
  <2> HIDE DEF s, r
  <2> QED  BY <2>5, <2>6, <2>7 DEF s, r
<1>7. g[n].nSize = 1
  BY <1>1
<1>8. MerkleRoot(T) = T[g[n].j + 1]
  <2>1. List(T, g[n].j + 1) /\ g[n].j \in Nat
    BY <1>1, <1>7
  <2>2. Len(T) = g[n].j + 1
    BY <2>1, ListFact
  <2>3. T # <<>>
    <3>1. Len(T) # 0
      BY <2>1, <2>2
    <3> QED  BY <3>1
  <2> QED  BY <2>2, <2>3 DEF MerkleRoot
<1> QED  BY <1>5, <1>6, <1>7, <1>8 DEF Keeps, Made

----------------------------------------------------------------------------
(* The branch, and the walk along it.                                      *)

\* The turns R of GetMerkleBranch from a place, beside the levels g of the tree T.
Climb(R, g, n, T, place) ==
    /\ Levels(g, n) /\ g[0].j = 0 /\ g[0].nSize = n
    /\ place \in 0..(n - 1) /\ R[0] = FirstOfBranch(place, n)
    /\ \A k \in 1..n : R[k] = BranchAbove(T, R[k - 1])

\* After every turn: the place is one of the level, and the branch a list.
Beside(r, l) == /\ r.j = l.j /\ r.nSize = l.nSize /\ r.nIndex \in 0..(l.nSize - 1)
                /\ List(r.branch, Len(r.branch))

\* One turn of the climbing loop.
LEMMA BranchAboveFact ==
    ASSUME NEW T, NEW r, r.nSize \in Nat \ {0}, r.nSize > 1, r.nIndex \in 0..(r.nSize - 1),
           List(r.branch, Len(r.branch))
    PROVE  LET q == BranchAbove(T, r)
           IN  /\ q.j = r.j + r.nSize /\ q.nSize = HalfOf(r.nSize)
               /\ q.nIndex = r.nIndex \div 2 /\ q.nIndex \in 0..(HalfOf(r.nSize) - 1)
               /\ Len(q.branch) = Len(r.branch) + 1 /\ Len(r.branch) \in Nat
               /\ Longer(q.branch, r.branch, Len(r.branch), T[r.j + SiblingIn(r.nIndex, r.nSize) + 1])
<1> DEFINE b == r.branch
           e == T[r.j + SiblingIn(r.nIndex, r.nSize) + 1]
           c == Append(b, e)
           m == Len(b)
<1>1. BranchAbove(T, r) = [branch |-> c, nIndex |-> r.nIndex \div 2, j |-> r.j + r.nSize, nSize |-> HalfOf(r.nSize)]
  BY DEF BranchAbove
<1>2. r.nIndex \div 2 \in 0..(HalfOf(r.nSize) - 1)
  <2> DEFINE x == r.nIndex
             z == r.nSize
  <2>1. x \in 0..(z - 1) /\ z \in Nat /\ z > 1
    OBVIOUS
  <2> HIDE DEF x, z
  <2>2. x \div 2 \in 0..(HalfOf(z) - 1)
    BY <2>1 DEF HalfOf
  <2> QED  BY <2>2 DEF x, z
<1>3. Longer(c, b, m, e) /\ m \in Nat
  <2>1. List(b, m)
    OBVIOUS
  <2>2. m \in Nat
    BY <2>1 DEF List
  <2> HIDE DEF b, m, e
  <2>3. Longer(Append(b, e), b, m, e)
    BY <2>1, ListAppend
  <2> QED  BY <2>2, <2>3
<1> HIDE DEF c, b, e, m
<1>4. Len(c) = m + 1
  <2>1. List(c, m + 1)
    BY <1>3 DEF Longer
  <2> QED  BY <2>1, ListFact
<1>5. /\ BranchAbove(T, r).branch = c /\ BranchAbove(T, r).nIndex = r.nIndex \div 2
      /\ BranchAbove(T, r).j = r.j + r.nSize /\ BranchAbove(T, r).nSize = HalfOf(r.nSize)
  BY <1>1
<1> QED  BY <1>2, <1>3, <1>4, <1>5 DEF b, e, m

LEMMA BranchFact ==
    ASSUME NEW R, NEW g, NEW n, NEW T, NEW place, Climb(R, g, n, T, place)
    PROVE  \A k \in 0..n : Beside(R[k], g[k])
<1> DEFINE S == {k \in 0..n : Beside(R[k], g[k])}
<1>1. /\ n \in Nat \ {0} /\ g[0].j = 0 /\ g[0].nSize = n /\ place \in 0..(n - 1) /\ R[0] = FirstOfBranch(place, n)
      /\ \A k \in 0..n : g[k].j \in Nat /\ g[k].nSize \in Nat \ {0} /\ List(g[k].tree, g[k].j + g[k].nSize)
      /\ \A k \in 1..n : g[k] = LevelAbove(g[k - 1])
      /\ \A k \in 1..n : R[k] = BranchAbove(T, R[k - 1])
  BY DEF Climb, Levels
<1>2. 0 \in S
  <2>1. R[0].branch = <<>> /\ R[0].nIndex = place /\ R[0].j = 0 /\ R[0].nSize = n
    BY <1>1 DEF FirstOfBranch
  <2>2. List(<<>>, 0) /\ Len(<<>>) = 0
    BY DEF List
  <2>3. Beside(R[0], g[0])
    BY <1>1, <2>1, <2>2 DEF Beside
  <2> QED  BY <1>1, <2>3
<1>3. ASSUME NEW k \in 1..n, k - 1 \in S PROVE k \in S
  <2> DEFINE r == R[k - 1]
             q == R[k]
             l == g[k - 1]
             u == g[k]
  <2>1. Beside(r, l) /\ k - 1 \in 0..n /\ k \in 0..n
    BY <1>1, <1>3
  <2>2. /\ l.j \in Nat /\ l.nSize \in Nat \ {0} /\ List(l.tree, l.j + l.nSize)
        /\ u = LevelAbove(l) /\ q = BranchAbove(T, r)
    BY <1>1, <2>1
  <2> HIDE DEF r, q, l, u
  <2>3. CASE l.nSize = 1
    <3>1. u = l /\ q = r
      BY <2>1, <2>2, <2>3 DEF LevelAbove, BranchAbove, Beside
    <3> QED  BY <2>1, <3>1 DEF u, q
  <2>4. CASE l.nSize # 1
    <3>1. l.nSize > 1
      BY <2>2, <2>4
    <3>2. u.j = l.j + l.nSize /\ u.nSize = HalfOf(l.nSize)
      BY <2>2, <3>1, LevelAboveFact
    <3>3. /\ r.j = l.j /\ r.nSize = l.nSize /\ r.nIndex \in 0..(r.nSize - 1) /\ r.nSize \in Nat \ {0}
          /\ r.nSize > 1 /\ List(r.branch, Len(r.branch))
      BY <2>1, <2>2, <3>1 DEF Beside
    <3>4. /\ q.j = r.j + r.nSize /\ q.nSize = HalfOf(r.nSize) /\ q.nIndex \in 0..(HalfOf(r.nSize) - 1)
          /\ Len(q.branch) = Len(r.branch) + 1
          /\ Longer(q.branch, r.branch, Len(r.branch), T[r.j + SiblingIn(r.nIndex, r.nSize) + 1])
      BY <2>2, <3>3, BranchAboveFact
    <3>5. List(q.branch, Len(q.branch))
      BY <3>4 DEF Longer
    <3>6. Beside(q, u)
      BY <3>2, <3>3, <3>4, <3>5 DEF Beside
    <3> QED  BY <2>1, <3>6 DEF q, u
  <2> QED  BY <2>3, <2>4
<1> HIDE DEF S
<1>4. \A k \in 0..n : k \in S
  BY <1>1, <1>2, <1>3, UpTo
<1> QED  BY <1>4 DEF S

\* What one turn does to the branch: nothing at the root, or one node more, the sibling of the place.
Turn(r, q, l, u, T) ==
    \/ l.nSize = 1 /\ q = r /\ u = l
    \/ /\ l.nSize > 1 /\ u.nSize = HalfOf(l.nSize) /\ q.nIndex = r.nIndex \div 2
       /\ Len(q.branch) = Len(r.branch) + 1
       /\ Longer(q.branch, r.branch, Len(r.branch), T[l.j + SiblingIn(r.nIndex, l.nSize) + 1])

LEMMA TurnFact ==
    ASSUME NEW R, NEW g, NEW n, NEW T, NEW place, Climb(R, g, n, T, place), NEW k \in 1..n
    PROVE  Turn(R[k - 1], R[k], g[k - 1], g[k], T)
<1> DEFINE r == R[k - 1]
           q == R[k]
           l == g[k - 1]
           u == g[k]
<1>1. k - 1 \in 0..n /\ k \in 0..n
  BY DEF Climb, Levels
<1>2. Beside(r, l)
  BY <1>1, BranchFact
<1>3. /\ l.j \in Nat /\ l.nSize \in Nat \ {0} /\ List(l.tree, l.j + l.nSize)
      /\ u = LevelAbove(l) /\ q = BranchAbove(T, r)
  BY <1>1 DEF Climb, Levels
<1> HIDE DEF r, q, l, u
<1>4. CASE l.nSize = 1
  <2>1. u = l /\ q = r
    BY <1>2, <1>3, <1>4 DEF LevelAbove, BranchAbove, Beside
  <2>2. Turn(r, q, l, u, T)
    BY <1>4, <2>1 DEF Turn
  <2> QED  BY <2>2 DEF r, q, l, u
<1>5. CASE l.nSize # 1
  <2>1. l.nSize > 1
    BY <1>3, <1>5
  <2>2. u.nSize = HalfOf(l.nSize)
    BY <1>3, <2>1, LevelAboveFact
  <2>3. /\ r.j = l.j /\ r.nSize = l.nSize /\ r.nIndex \in 0..(r.nSize - 1) /\ r.nSize \in Nat \ {0}
        /\ r.nSize > 1 /\ List(r.branch, Len(r.branch))
    BY <1>2, <1>3, <2>1 DEF Beside
  <2>4. /\ q.nIndex = r.nIndex \div 2 /\ Len(q.branch) = Len(r.branch) + 1
        /\ Longer(q.branch, r.branch, Len(r.branch), T[r.j + SiblingIn(r.nIndex, r.nSize) + 1])
    BY <1>3, <2>3, BranchAboveFact
  <2>5. Turn(r, q, l, u, T)
    BY <2>1, <2>2, <2>3, <2>4 DEF Turn
  <2> QED  BY <2>5 DEF r, q, l, u
<1> QED  BY <1>4, <1>5

\* What a turn has put in the branch stays there.
LEMMA PrefixFact ==
    ASSUME NEW R, NEW g, NEW n, NEW T, NEW place, Climb(R, g, n, T, place)
    PROVE  \A k \in 0..n : /\ Len(R[k].branch) \in 0..Len(R[n].branch)
                           /\ \A m \in 1..Len(R[k].branch) : R[n].branch[m] = R[k].branch[m]
<1> DEFINE Starts(k) == /\ Len(R[k].branch) \in 0..Len(R[n].branch)
                        /\ \A m \in 1..Len(R[k].branch) : R[n].branch[m] = R[k].branch[m]
           S == {d \in 0..n : Starts(n - d)}
<1>1. n \in Nat \ {0} /\ \A k \in 0..n : Len(R[k].branch) \in Nat
  <2>1. n \in Nat \ {0}
    BY DEF Climb, Levels
  <2>2. \A k \in 0..n : Len(R[k].branch) \in Nat
    BY BranchFact DEF Beside, List
  <2> QED  BY <2>1, <2>2
<1>2. ASSUME NEW k \in 1..n
      PROVE  /\ Len(R[k - 1].branch) \in 0..Len(R[k].branch)
             /\ \A m \in 1..Len(R[k - 1].branch) : R[k].branch[m] = R[k - 1].branch[m]
  <2>1. Turn(R[k - 1], R[k], g[k - 1], g[k], T)
    BY TurnFact
  <2>2. k - 1 \in 0..n /\ k \in 0..n
    BY <1>1
  <2>3. Len(R[k - 1].branch) \in Nat /\ Len(R[k].branch) \in Nat
    BY <1>1, <2>2
  <2>4. CASE R[k] = R[k - 1]
    BY <2>3, <2>4
  <2>5. CASE R[k] # R[k - 1]
    BY <2>1, <2>3, <2>5 DEF Turn, Longer
  <2> QED  BY <2>4, <2>5
<1> HIDE DEF Starts
<1>3. 0 \in S
  <2>1. n - 0 = n /\ n \in 0..n /\ 0 \in 0..n
    BY <1>1
  <2>2. Starts(n)
    BY <1>1, <2>1 DEF Starts
  <2> QED  BY <2>1, <2>2
<1>4. ASSUME NEW d \in 1..n, d - 1 \in S PROVE d \in S
  <2>1. Starts(n - (d - 1)) /\ n - (d - 1) \in 1..n /\ (n - (d - 1)) - 1 = n - d /\ d \in 0..n
    BY <1>1, <1>4
  <2>2. /\ Len(R[n - d].branch) \in 0..Len(R[n - (d - 1)].branch)
        /\ \A m \in 1..Len(R[n - d].branch) : R[n - (d - 1)].branch[m] = R[n - d].branch[m]
    BY <1>2, <2>1
  <2> DEFINE a == Len(R[n - d].branch)
             b == Len(R[n - (d - 1)].branch)
             c == Len(R[n].branch)
  <2>3. a \in 0..b /\ b \in 0..c /\ c \in Nat
    <3>1. n \in 0..n
      BY <1>1
    <3> QED  BY <1>1, <2>1, <2>2, <3>1 DEF Starts
  <2>4. a \in 0..c /\ \A m \in 1..a : m \in 1..b
    <3> HIDE DEF a, b, c
    <3> QED  BY <2>3
  <2>5. Starts(n - d)
    BY <2>1, <2>2, <2>4 DEF Starts
  <2> QED  BY <2>1, <2>5
<1> HIDE DEF S
<1>5. ASSUME NEW k \in 0..n PROVE Starts(k)
  <2>1. n - k \in 0..n /\ n - (n - k) = k
    BY <1>1
  <2>2. n - k \in S
    <3>1. \A d \in 0..n : d \in S
      BY <1>1, <1>3, <1>4, UpTo
    <3> QED  BY <2>1, <3>1
  <2> QED  BY <2>1, <2>2 DEF S
<1> QED  BY <1>5 DEF Starts

\* A node is the hash of the place's node and its sibling, on the sides the place's bit tells.
LEMMA SidesFact ==
    ASSUME NEW j \in Nat, NEW size \in Nat, size > 1, NEW place \in 0..(size - 1)
    PROVE  LET x == place \div 2 + 1
           IN  /\ x \in 1..HalfOf(size)
               /\ place % 2 = 1 => Left(x) = SiblingIn(place, size) /\ Right(x, size) = place
               /\ place % 2 # 1 => Left(x) = place /\ Right(x, size) = SiblingIn(place, size)
<1>1. place \div 2 + 1 \in 1..HalfOf(size)
  BY DEF HalfOf
<1>2. CASE place % 2 = 1
  <2>1. place = 2 * (place \div 2) + 1
    BY <1>2
  <2> QED  BY <1>1, <1>2, <2>1 DEF Left, Right, SiblingIn, SiblingOf
<1>3. CASE place % 2 # 1
  <2>1. place = 2 * (place \div 2)
    BY <1>3
  <2> QED  BY <1>1, <1>3, <2>1 DEF Left, Right, SiblingIn, SiblingOf
<1> QED  BY <1>2, <1>3

\* The walk has reached the node of the tree over the place.
Over(c, T, r, l) == c.nIndex = r.nIndex /\ c.hash = T[l.j + r.nIndex + 1]

\* What one turn of the walk starts from.
Rises(T, c, r, q, l, u, e) ==
    /\ Over(c, T, r, l)
    /\ l.j \in Nat /\ l.nSize \in Nat /\ l.nSize > 1 /\ r.nIndex \in 0..(l.nSize - 1)
    /\ q.nIndex = r.nIndex \div 2 /\ u.nSize = HalfOf(l.nSize) /\ u.j \in Nat
    /\ e = T[l.j + SiblingIn(r.nIndex, l.nSize) + 1]
    /\ \A x \in 1..u.nSize : T[u.j + x] = <<T[l.j + Left(x) + 1], T[l.j + Right(x, l.nSize) + 1]>>

\* One turn of the walk leads from the node over the place to the one above it.
LEMMA StepUp ==
    ASSUME NEW T, NEW c, NEW r, NEW q, NEW l, NEW u, NEW e, Rises(T, c, r, q, l, u, e)
    PROVE  Over(HashAbove(c, e), T, q, u)
<1> DEFINE i == r.nIndex
           z == l.nSize
           x == i \div 2 + 1
<1>1. /\ i \in 0..(z - 1) /\ z \in Nat /\ z > 1 /\ i \in Nat /\ i % 2 \in 0..1
      /\ q.nIndex = i \div 2 /\ c.nIndex = i /\ c.hash = T[l.j + i + 1]
      /\ e = T[l.j + SiblingIn(i, z) + 1] /\ u.nSize = HalfOf(z)
      /\ l.j \in Nat /\ u.j \in Nat
      /\ \A y \in 1..u.nSize : T[u.j + y] = <<T[l.j + Left(y) + 1], T[l.j + Right(y, z) + 1]>>
  BY DEF Rises, Over
<1>2. T[u.j + x] = <<T[l.j + Left(x) + 1], T[l.j + Right(x, z) + 1]>>
  <2>1. x \in 1..HalfOf(z)
    <3> HIDE DEF z, i
    <3> QED  BY <1>1 DEF HalfOf
  <2> QED  BY <1>1, <2>1
<1>3. u.j + q.nIndex + 1 = u.j + x
  <2>1. q.nIndex \in Nat
    BY <1>1
  <2> QED  BY <1>1, <2>1
<1> HIDE DEF i, z
<1>4. /\ i % 2 = 1 => Left(x) = SiblingIn(i, z) /\ Right(x, z) = i
      /\ i % 2 # 1 => Left(x) = i /\ Right(x, z) = SiblingIn(i, z)
  BY <1>1, SidesFact
<1> HIDE DEF x
<1>5. HashAbove(c, e) = [hash |-> IF i % 2 = 1 THEN <<e, c.hash>> ELSE <<c.hash, e>>, nIndex |-> i \div 2]
  BY <1>1 DEF HashAbove
<1>6. HashAbove(c, e).nIndex = q.nIndex
  BY <1>1, <1>5
<1>7. HashAbove(c, e).hash = T[u.j + x]
  <2>1. HashAbove(c, e).hash = IF i % 2 = 1 THEN <<e, c.hash>> ELSE <<c.hash, e>>
    BY <1>5
  <2>2. CASE i % 2 = 1
    BY <1>1, <1>2, <1>4, <2>1, <2>2
  <2>3. CASE i % 2 # 1
    BY <1>1, <1>2, <1>4, <2>1, <2>3
  <2> QED  BY <2>2, <2>3
<1> QED  BY <1>3, <1>6, <1>7 DEF Over

\* The walk along the branch of a place passes the nodes of the tree over it.
LEMMA WalkFact ==
    ASSUME NEW R, NEW g, NEW n, NEW T, T = g[n].tree, NEW place, Climb(R, g, n, T, place),
           NEW C, Walk(C, T[place + 1], R[n].branch, place)
    PROVE  \A k \in 0..n : Over(C[Len(R[k].branch)], T, R[k], g[k])
<1> DEFINE S == {k \in 0..n : Over(C[Len(R[k].branch)], T, R[k], g[k])}
<1>1. /\ n \in Nat \ {0} /\ g[0].j = 0 /\ g[0].nSize = n /\ place \in 0..(n - 1) /\ R[0] = FirstOfBranch(place, n)
      /\ Levels(g, n) /\ \A k \in 0..n : g[k].j \in Nat /\ g[k].nSize \in Nat \ {0}
  BY DEF Climb, Levels
<1>2. 0 \in S
  <2>1. R[0].branch = <<>> /\ R[0].nIndex = place /\ Len(<<>>) = 0
    BY <1>1 DEF FirstOfBranch
  <2>2. C[0].hash = T[place + 1] /\ C[0].nIndex = place
    BY DEF Walk, FirstCheck
  <2>3. g[0].j + place + 1 = place + 1
    BY <1>1
  <2>4. Over(C[Len(R[0].branch)], T, R[0], g[0])
    BY <2>1, <2>2, <2>3 DEF Over
  <2> QED  BY <1>1, <2>4
<1>3. \A k \in 1..n : g[k - 1].nSize > 1 =>
         \A x \in 1..g[k].nSize :
            T[g[k].j + x] = <<T[g[k - 1].j + Left(x) + 1], T[g[k - 1].j + Right(x, g[k - 1].nSize) + 1]>>
  <2>1. Made(T, g, n)
    BY <1>1, TreeFact
  <2> QED  BY <2>1 DEF Made
<1>4. ASSUME NEW k \in 1..n, k - 1 \in S PROVE k \in S
  <2> DEFINE r == R[k - 1]
             q == R[k]
             l == g[k - 1]
             u == g[k]
             d == Len(r.branch)
             e == T[l.j + SiblingIn(r.nIndex, l.nSize) + 1]
             B == R[n].branch
  <2>1. k - 1 \in 0..n /\ k \in 0..n /\ Over(C[d], T, r, l)
    BY <1>1, <1>4
  <2>2. Turn(r, q, l, u, T) /\ Beside(r, l)
    BY <2>1, TurnFact, BranchFact
  <2>3. /\ l.j \in Nat /\ l.nSize \in Nat \ {0} /\ u.j \in Nat
        /\ l.nSize > 1 => \A x \in 1..u.nSize :
              T[u.j + x] = <<T[l.j + Left(x) + 1], T[l.j + Right(x, l.nSize) + 1]>>
    BY <1>1, <1>3, <2>1
  <2>4. /\ d \in 0..Len(B) /\ Len(q.branch) \in 0..Len(B)
        /\ \A m \in 1..Len(q.branch) : B[m] = q.branch[m]
    BY <2>1, PrefixFact
  <2>5. Len(B) \in Nat /\ \A m \in 1..Len(B) : C[m] = HashAbove(C[m - 1], B[m])
    BY DEF Walk
  <2> HIDE DEF r, q, l, u, B
  <2>6. CASE q = r /\ u = l
    BY <2>1, <2>6 DEF q, u
  <2>7. CASE ~ (q = r /\ u = l)
    <3>1. /\ l.nSize > 1 /\ u.nSize = HalfOf(l.nSize) /\ q.nIndex = r.nIndex \div 2
          /\ Len(q.branch) = d + 1 /\ q.branch[d + 1] = e
      BY <2>2, <2>7 DEF Turn, Longer
    <3>2. C[d + 1] = HashAbove(C[d], e)
      <4> HIDE DEF d, e
      <4>1. d + 1 \in 1..Len(q.branch) /\ d + 1 \in 1..Len(B) /\ (d + 1) - 1 = d
        BY <2>4, <2>5, <3>1
      <4>2. B[d + 1] = e
        BY <2>4, <3>1, <4>1
      <4> QED  BY <2>5, <4>1, <4>2
    <3> HIDE DEF d
    <3>3. r.nIndex \in 0..(l.nSize - 1) /\ l.nSize \in Nat
      BY <2>2, <2>3 DEF Beside
    <3>5. \A x \in 1..u.nSize : T[u.j + x] = <<T[l.j + Left(x) + 1], T[l.j + Right(x, l.nSize) + 1]>>
      BY <2>3, <3>1
    <3>6. e = T[l.j + SiblingIn(r.nIndex, l.nSize) + 1]
      OBVIOUS
    <3> HIDE DEF e
    <3>7. Rises(T, C[d], r, q, l, u, e)
      BY <2>1, <2>3, <3>1, <3>3, <3>5, <3>6 DEF Rises
    <3>8. Over(C[Len(q.branch)], T, q, u)
      BY <3>1, <3>2, <3>7, StepUp
    <3> QED  BY <2>1, <3>8 DEF q, u
  <2> QED  BY <2>6, <2>7
<1> HIDE DEF S
<1>5. \A k \in 0..n : k \in S
  BY <1>1, <1>2, <1>4, UpTo
<1> QED  BY <1>5 DEF S

\* Walks from different hashes along one branch end at different ones: no two pairs collide.
LEMMA WalksDiffer ==
    ASSUME NEW C, NEW D, NEW a, NEW b, NEW branch, NEW place,
           Walk(C, a, branch, place), Walk(D, b, branch, place), a # b
    PROVE  C[Len(branch)].hash # D[Len(branch)].hash
<1> DEFINE n == Len(branch)
           Differ(k) == C[k].nIndex = D[k].nIndex /\ C[k].hash # D[k].hash
           S == {k \in 0..n : Differ(k)}
<1>1. /\ n \in Nat /\ C[0] = FirstCheck(a, place) /\ D[0] = FirstCheck(b, place)
      /\ \A m \in 1..n : C[m] = HashAbove(C[m - 1], branch[m]) /\ D[m] = HashAbove(D[m - 1], branch[m])
  BY DEF Walk
<1>2. 0 \in S
  <2>1. Differ(0)
    BY <1>1 DEF FirstCheck
  <2> QED  BY <1>1, <2>1
<1>3. ASSUME NEW k \in 1..n, k - 1 \in S PROVE k \in S
  <2> DEFINE c == C[k - 1]
             d == D[k - 1]
             e == branch[k]
  <2>1. C[k] = HashAbove(c, e) /\ D[k] = HashAbove(d, e) /\ k \in 0..n
    BY <1>1
  <2>2. c.nIndex = d.nIndex /\ c.hash # d.hash
    BY <1>3
  <2> HIDE DEF c, d, e
  <2>3. HashAbove(c, e).nIndex = HashAbove(d, e).nIndex /\ HashAbove(c, e).hash # HashAbove(d, e).hash
    BY <2>2 DEF HashAbove
  <2>4. Differ(k)
    BY <2>1, <2>3
  <2> QED  BY <2>1, <2>4
<1> HIDE DEF S
<1>4. n \in S
  <2>1. \A k \in 0..n : k \in S
    BY <1>1, <1>2, <1>3, UpTo
  <2> QED  BY <1>1, <2>1
<1> QED  BY <1>4 DEF S

----------------------------------------------------------------------------
(* The block.                                                              *)

\* The transactions are a list, and the tree is the one over them.
MerkleInv == /\ List(vtx, Len(vtx))
             /\ vMerkleTree = <<>> \/ vMerkleTree = BuildLevels(vtx)

LEMMA MerkleStarts == MerkleInit => MerkleInv
<1>1. List(<<>>, 0) /\ Len(<<>>) = 0
  BY DEF List
<1> QED  BY <1>1 DEF MerkleInit, MerkleInv

LEMMA MerkleStep == MerkleInv /\ [MerkleNext]_merkleVars => MerkleInv'
<1> SUFFICES ASSUME MerkleInv, [MerkleNext]_merkleVars PROVE MerkleInv'
  OBVIOUS
<1>1. List(vtx, Len(vtx)) /\ (vMerkleTree = <<>> \/ vMerkleTree = BuildLevels(vtx))
  BY DEF MerkleInv
<1>2. ASSUME NEW t \in TxNames, AddTx(t) PROVE MerkleInv'
  <2>1. vtx' = Append(vtx, <<t>>) /\ vMerkleTree' = <<>>
    BY <1>2 DEF AddTx
  <2> DEFINE m == Len(vtx)
  <2>2. List(vtx, m)
    BY <1>1
  <2> HIDE DEF m
  <2>3. Longer(Append(vtx, <<t>>), vtx, m, <<t>>)
    BY <2>2, ListAppend
  <2>4. List(vtx', m + 1)
    BY <2>1, <2>3 DEF Longer
  <2>5. Len(vtx') = m + 1
    BY <2>4, ListFact
  <2> QED  BY <2>1, <2>4, <2>5 DEF MerkleInv
<1>3. CASE BuildMerkleTree
  BY <1>1, <1>3 DEF BuildMerkleTree, MerkleInv
<1>4. CASE SetNullBlock
  <2>1. List(<<>>, 0) /\ Len(<<>>) = 0
    BY DEF List
  <2> QED  BY <1>4, <2>1 DEF SetNullBlock, MerkleInv
<1>5. CASE UNCHANGED merkleVars
  BY <1>1, <1>5 DEF merkleVars, MerkleInv
<1> QED  BY <1>2, <1>3, <1>4, <1>5 DEF MerkleNext

\* The branch of every place of a list of hashes leads to the root over them, and only from its hash.
LEMMA BranchLeads ==
    ASSUME NEW hashes, NEW n \in Nat \ {0}, List(hashes, n), NEW place \in 0..(n - 1), NEW T, T = BuildLevels(hashes)
    PROVE  /\ CheckMerkleBranch(hashes[place + 1], BranchLevels(T, place, n), place) = MerkleRoot(T)
           /\ \A h : h # hashes[place + 1] =>
                CheckMerkleBranch(h, BranchLevels(T, place, n), place) # MerkleRoot(T)
<1>1. Len(hashes) = n
  BY ListFact
<1>2. PICK g : /\ g[0] = FirstLevel(hashes) /\ T = g[n].tree
               /\ \A k \in 1..n : g[k] = LevelAbove(g[k - 1])
  BY <1>1, LevelsBuilt
<1>3. Levels(g, n)
  BY <1>2, LevelsFact
<1>4. g[0].j = 0 /\ g[0].nSize = n /\ g[0].tree = hashes
  BY <1>1, <1>2 DEF FirstLevel
<1>5. Made(T, g, n)
  BY <1>2, <1>3, TreeFact
<1>6. T[place + 1] = hashes[place + 1]
  <2>1. 0 \in 0..n /\ place + 1 \in 1..(0 + n)
    OBVIOUS
  <2> QED  BY <1>4, <1>5, <2>1 DEF Made
<1>7. PICK R : /\ R[0] = FirstOfBranch(place, n) /\ BranchLevels(T, place, n) = R[n].branch
               /\ \A k \in 1..n : R[k] = BranchAbove(T, R[k - 1])
  BY BranchBuilt
<1>8. Climb(R, g, n, T, place)
  BY <1>3, <1>4, <1>7 DEF Climb
<1> DEFINE B == R[n].branch
<1>9. n \in 0..n /\ Beside(R[n], g[n])
  BY <1>8, BranchFact
<1>10. Len(B) \in Nat /\ place # -1
  BY <1>9 DEF Beside, List
<1> HIDE DEF B
<1>11. ASSUME NEW h
       PROVE  \E C : Walk(C, h, B, place) /\ CheckMerkleBranch(h, B, place) = C[Len(B)].hash
  BY <1>10, ChecksBuilt
<1>12. PICK C : Walk(C, T[place + 1], B, place) /\ CheckMerkleBranch(T[place + 1], B, place) = C[Len(B)].hash
  BY <1>11
<1>13. C[Len(B)].hash = MerkleRoot(T)
  <2>1. Over(C[Len(R[n].branch)], T, R[n], g[n])
    BY <1>2, <1>8, <1>9, <1>12, WalkFact DEF B
  <2>2. R[n].nIndex = 0 /\ MerkleRoot(T) = T[g[n].j + 1] /\ g[n].j \in Nat
    BY <1>3, <1>5, <1>9 DEF Made, Beside, Levels
  <2> QED  BY <2>1, <2>2 DEF Over, B
<1>14. ASSUME NEW h, h # T[place + 1] PROVE CheckMerkleBranch(h, B, place) # MerkleRoot(T)
  <2>1. PICK D : Walk(D, h, B, place) /\ CheckMerkleBranch(h, B, place) = D[Len(B)].hash
    BY <1>11
  <2>2. D[Len(B)].hash # C[Len(B)].hash
    BY <1>12, <1>14, <2>1, WalksDiffer
  <2> QED  BY <1>13, <2>1, <2>2
<1>15. BranchLevels(T, place, n) = B
  BY <1>7 DEF B
<1> QED  BY <1>6, <1>12, <1>13, <1>14, <1>15

\* For any transactions and number of them in a block: the branch of every one leads from its hash to
\* the Merkle root of the block, and from the hash of a different transaction it does not.
THEOREM BranchesProve == MerkleSpec => []BranchProves
<1>1. MerkleInv => BranchProves
  <2> SUFFICES ASSUME MerkleInv, NEW i \in 0 .. Len(vtx) - 1
               PROVE  /\ CheckMerkleBranch(vtx[i + 1], GetMerkleBranch(i), i) = MerkleRoot(BuildLevels(vtx))
                      /\ \A t \in TxNames : <<t>> # vtx[i + 1] =>
                           CheckMerkleBranch(<<t>>, GetMerkleBranch(i), i) # MerkleRoot(BuildLevels(vtx))
    BY DEF BranchProves
  <2> DEFINE n == Len(vtx)
             T == BuildLevels(vtx)
  <2>1. List(vtx, n) /\ (vMerkleTree = <<>> \/ vMerkleTree = T)
    BY DEF MerkleInv
  <2>2. n \in Nat \ {0} /\ i \in 0..(n - 1)
    BY <2>1 DEF List
  <2>3. GetMerkleBranch(i) = BranchLevels(T, i, n)
    <3>1. (IF vMerkleTree = <<>> THEN BuildLevels(vtx) ELSE vMerkleTree) = T
      BY <2>1
    <3> QED  BY <3>1 DEF GetMerkleBranch
  <2>4. T = BuildLevels(vtx)
    OBVIOUS
  <2> HIDE DEF n, T
  <2>5. /\ CheckMerkleBranch(vtx[i + 1], BranchLevels(T, i, n), i) = MerkleRoot(T)
        /\ \A h : h # vtx[i + 1] => CheckMerkleBranch(h, BranchLevels(T, i, n), i) # MerkleRoot(T)
    BY <2>1, <2>2, <2>4, BranchLeads
  <2> QED  BY <2>3, <2>4, <2>5
<1> QED  BY <1>1, MerkleStarts, MerkleStep, PTL DEF MerkleSpec
=============================================================================
