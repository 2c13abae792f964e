----------------------------- MODULE CheckQueue -----------------------------
(***************************************************************************)
(* CCheckQueue and CCheckQueueControl of src/checkqueue.h: one master      *)
(* pushes batches of verifications, worker threads and then the master     *)
(* itself take batches from the queue, run them outside the mutex, and     *)
(* account for them in their next critical section.                        *)
(*                                                                         *)
(* A critical section of Loop() is two steps: Acquire (take the mutex and  *)
(* do the bookkeeping of the previous iteration) and Decide (return, wait  *)
(* or take a batch, and release the mutex).  The boundary between the two  *)
(* is visible only to the constructor of CCheckQueueControl, which reads   *)
(* the counters without the mutex.                                         *)
(*                                                                         *)
(* The order of the queue is not modelled (the code says it does not       *)
(* matter): a batch is any subset of the right size, run in any order.     *)
(***************************************************************************)
EXTENDS Integers, FiniteSets

CONSTANTS Workers,    \* threads running CCheckQueue::Thread()
          Master,     \* the thread that owns the CCheckQueueControl
          NoThread,   \* the mutex is free
          Checks,     \* the verifications that can be submitted in a round
          nBatchSize  \* maximum number of elements processed in one batch

ASSUME QueueAssumption ==
    /\ IsFiniteSet(Workers)
    /\ Master \notin Workers
    /\ NoThread \notin Workers \cup {Master}
    /\ IsFiniteSet(Checks)
    /\ nBatchSize \in Nat

Threads == Workers \cup {Master}

VARIABLES mutex,    \* the thread inside the critical section, or NoThread
          queue,    \* elements to be processed
          nIdle,    \* number of workers (including the master) that are idle
          nTotal,   \* total number of workers (including the master)
          nTodo,    \* number of verifications that have not completed yet
          fAllOk,   \* the temporary evaluation result
          pc,       \* where each thread is in Loop()
          nNow,     \* Loop()'s nNow: size of the batch to account for
          batch,    \* the elements of that batch
          vChecks,  \* the elements of the batch still to be run
          fOk,      \* Loop()'s fOk
          round,    \* the life of the CCheckQueueControl object
          result,   \* what the last Wait() returned
          added,    \* history: the checks submitted in this round
          bad,      \* history: those of them that return false
          intr,     \* threads that have been interrupted (boost::thread)
          dtor      \* the master's Wait() was called by the destructor

qvars == <<queue, nIdle, nTotal, nTodo, fAllOk>>
tvars == <<pc, nNow, batch, vChecks, fOk>>
rvars == <<round, result, added, bad>>
vars == <<mutex, qvars, tvars, rvars, intr, dtor>>

\* fQuit is never assigned after the constructor: workers never return.
fQuit == FALSE

Init ==
    /\ mutex = NoThread
    /\ queue = {} /\ nIdle = 0 /\ nTotal = 0 /\ nTodo = 0 /\ fAllOk = TRUE
    /\ pc = [t \in Threads |-> IF t = Master THEN "out" ELSE "enter"]
    /\ nNow = [t \in Threads |-> 0]
    /\ batch = [t \in Threads |-> {}]
    /\ vChecks = [t \in Threads |-> {}]
    /\ fOk = [t \in Threads |-> TRUE]
    /\ round = "none" /\ result = TRUE /\ added = {} /\ bad = {}
    /\ intr = {} /\ dtor = FALSE

----------------------------------------------------------------------------
(* The master's side: CCheckQueueControl.                                  *)

\* The condition the constructor asserts, read without taking the mutex.
Unused == nTotal = nIdle /\ nTodo = 0 /\ fAllOk

\* CCheckQueueControl(): an assertion that fails aborts the process.
Construct ==
    /\ round = "none"
    /\ round' = IF Unused THEN "open" ELSE "aborted"
    /\ UNCHANGED <<mutex, qvars, tvars, result, added, bad, intr, dtor>>

\* Wake the threads of W that are blocked on their condition variable.
Notify(W) == [t \in Threads |-> IF t \in W /\ pc[t] = "wait" THEN "woken" ELSE pc[t]]

Blocked == {w \in Workers : pc[w] = "wait"}

\* Add(S): notify_one for one element, notify_all for more, nothing for none.
Add(S, F) ==
    /\ round = "open" /\ pc[Master] = "out" /\ mutex = NoThread
    /\ queue' = queue \cup S
    /\ nTodo' = nTodo + Cardinality(S)
    /\ \E W \in SUBSET Blocked :
          /\ CASE Cardinality(S) = 0 -> W = {}
               [] Cardinality(S) = 1 -> IF Blocked = {} THEN W = {} ELSE Cardinality(W) = 1
               [] OTHER -> W = Blocked
          /\ pc' = Notify(W)
    /\ added' = added \cup S
    /\ bad' = bad \cup F
    /\ UNCHANGED <<mutex, nIdle, nTotal, fAllOk, nNow, batch, vChecks, fOk,
                   round, result, intr, dtor>>

\* Wait(), called by the owner or by ~CCheckQueueControl(): enter Loop(true).
CallWait ==
    /\ round = "open" /\ pc[Master] = "out"
    /\ pc' = [pc EXCEPT ![Master] = "enter"]
    /\ dtor' \in BOOLEAN
    /\ UNCHANGED <<mutex, qvars, nNow, batch, vChecks, fOk, rvars, intr>>

----------------------------------------------------------------------------
(* Loop(), run by the workers and by the master.                           *)

Running == round # "aborted"

\* First iteration: nTotal++.
Enter(t) ==
    /\ Running /\ pc[t] = "enter" /\ mutex = NoThread
    /\ mutex' = t
    /\ nTotal' = nTotal + 1
    /\ pc' = [pc EXCEPT ![t] = "crit"]
    /\ nNow' = [nNow EXCEPT ![t] = 0]
    /\ UNCHANGED <<queue, nIdle, nTodo, fAllOk, batch, vChecks, fOk, rvars, intr, dtor>>

\* The clean-up of the previous iteration; the thread that accounts for the
\* last element informs the master.  Each operator that is used for checking
\* that a property can fail is preceded by its mutated form.
AllOkOverwritten(t) == fOk[t]
AllOkAfter(t) == fAllOk /\ fOk[t]

TodoAfter(t) == nTodo - nNow[t]

InformNobody(t) == {}
Inform(t) == IF TodoAfter(t) = 0 /\ t # Master THEN {Master} ELSE {}

Account(t) ==
    /\ Running /\ pc[t] = "loop" /\ mutex = NoThread
    /\ mutex' = t
    /\ fAllOk' = AllOkAfter(t)
    /\ nTodo' = TodoAfter(t)
    /\ batch' = [batch EXCEPT ![t] = {}]
    /\ pc' = [Notify(Inform(t)) EXCEPT ![t] = "crit"]
    /\ UNCHANGED <<queue, nIdle, nTotal, nNow, vChecks, fOk, rvars, intr, dtor>>

\* cond.wait() returns: nIdle--.
Wake(t) ==
    /\ Running /\ pc[t] = "woken" /\ mutex = NoThread
    /\ mutex' = t
    /\ nIdle' = nIdle - 1
    /\ pc' = [pc EXCEPT ![t] = "crit"]
    /\ UNCHANGED <<queue, nTotal, nTodo, fAllOk, nNow, batch, vChecks, fOk, rvars, intr, dtor>>

Acquire(t) == Enter(t) \/ Account(t) \/ Wake(t)

MayReturn(t) == (t = Master \/ fQuit) /\ nTodo = 0

\* "reset the status for new work later"
StatusAfter(t) == IF t = Master THEN TRUE ELSE fAllOk

\* The queue is empty and everything is accounted for: leave the pool.
Return(t) ==
    /\ Running /\ pc[t] = "crit" /\ queue = {} /\ MayReturn(t)
    /\ mutex' = NoThread
    /\ nTotal' = nTotal - 1
    /\ result' = fAllOk
    /\ fAllOk' = StatusAfter(t)
    /\ pc' = [pc EXCEPT ![t] = "out"]
    /\ round' = "none"
    /\ added' = {} /\ bad' = {}
    /\ UNCHANGED <<queue, nIdle, nTodo, nNow, batch, vChecks, fOk, intr, dtor>>

\* nIdle++; cond.wait(lock).
Sleep(t) ==
    /\ Running /\ pc[t] = "crit" /\ queue = {} /\ ~MayReturn(t)
    /\ mutex' = NoThread
    /\ nIdle' = nIdle + 1
    /\ pc' = [pc EXCEPT ![t] = "wait"]
    /\ UNCHANGED <<queue, nTotal, nTodo, fAllOk, nNow, batch, vChecks, fOk, rvars, intr, dtor>>

AtMost(a, b) == IF a <= b THEN a ELSE b
AtLeast(a, b) == IF a >= b THEN a ELSE b

\* How many work units to process now.
BatchSize == AtLeast(1, AtMost(nBatchSize, Cardinality(queue) \div (nTotal + nIdle + 1)))

\* Move BatchSize elements from the queue to the thread's own batch.
Take(t, S) ==
    /\ Running /\ pc[t] = "crit" /\ queue # {}
    /\ Cardinality(S) = BatchSize
    /\ mutex' = NoThread
    /\ queue' = queue \ S
    /\ nNow' = [nNow EXCEPT ![t] = BatchSize]
    /\ batch' = [batch EXCEPT ![t] = S]
    /\ vChecks' = [vChecks EXCEPT ![t] = S]
    /\ fOk' = [fOk EXCEPT ![t] = fAllOk]
    /\ pc' = [pc EXCEPT ![t] = "run"]
    /\ UNCHANGED <<nIdle, nTotal, nTodo, fAllOk, rvars, intr, dtor>>

Decide(t) == Return(t) \/ Sleep(t) \/ \E S \in SUBSET queue : Take(t, S)

\* Run one check of the batch, outside the mutex; skip it if one has failed.
Execute(t, c) ==
    /\ Running /\ pc[t] = "run" /\ c \in vChecks[t]
    /\ fOk' = [fOk EXCEPT ![t] = @ /\ c \notin bad]
    /\ vChecks' = [vChecks EXCEPT ![t] = @ \ {c}]
    /\ pc' = IF vChecks[t] = {c} THEN [pc EXCEPT ![t] = "loop"] ELSE pc
    /\ UNCHANGED <<mutex, qvars, nNow, batch, rvars, intr, dtor>>

----------------------------------------------------------------------------
(* boost: a wait may return without a notification, and a blocked thread   *)
(* that is interrupted throws thread_interrupted out of Loop() after it    *)
(* has the mutex back; nIdle and nTotal keep counting it.  The exception   *)
(* ends a worker.  In the master it unwinds into ~CCheckQueueControl(),    *)
(* which calls Wait() again, and it terminates the process when it leaves  *)
(* the destructor.  A thread is interrupted at most once.                  *)

SpuriousWake(t) ==
    /\ Running /\ pc[t] = "wait"
    /\ pc' = [pc EXCEPT ![t] = "woken"]
    /\ UNCHANGED <<mutex, qvars, nNow, batch, vChecks, fOk, rvars, intr, dtor>>

Interrupt(t) ==
    /\ Running /\ t \notin intr /\ pc[t] \in {"wait", "woken"} /\ mutex = NoThread
    /\ intr' = intr \cup {t}
    /\ pc' = [pc EXCEPT ![t] = IF t = Master THEN "enter" ELSE "dead"]
    /\ dtor' = (dtor \/ t = Master)
    /\ round' = IF t = Master /\ dtor THEN "aborted" ELSE round
    /\ UNCHANGED <<mutex, qvars, nNow, batch, vChecks, fOk, result, added, bad>>

Step(t) == \/ Acquire(t) \/ Decide(t)
           \/ \E c \in Checks : Execute(t, c)
           \/ SpuriousWake(t) \/ Interrupt(t)

Next == \/ Construct \/ CallWait
        \/ \E S \in SUBSET (Checks \ added) : \E F \in SUBSET S : Add(S, F)
        \/ \E t \in Threads : Step(t)

Spec == Init /\ [][Next]_vars

\* The owner of the control object finishes the round; a thread that keeps
\* contending for the mutex gets it; a critical section and a check end.
Fairness ==
    /\ WF_vars(CallWait)
    /\ \A t \in Threads : /\ SF_vars(Acquire(t)) /\ WF_vars(Decide(t))
                          /\ WF_vars(\E c \in Checks : Execute(t, c))

FairSpec == Spec /\ Fairness
----------------------------------------------------------------------------
(* Properties.                                                             *)

InLoop == {"crit", "run", "loop", "wait", "woken"}
Asleep == {t \in Threads : pc[t] \in {"wait", "woken"}}
Pool == {t \in Threads : pc[t] \in InLoop}
Outstanding == queue \cup UNION {batch[t] : t \in Threads}

\* Every variable has the type its declaration in checkqueue.h gives it.
TypeOK ==
    /\ mutex \in Threads \cup {NoThread}
    /\ queue \in SUBSET Checks
    /\ nIdle \in Nat /\ nTotal \in Nat /\ nTodo \in Nat
    /\ fAllOk \in BOOLEAN
    /\ pc \in [Threads -> InLoop \cup {"out", "enter", "dead"}]
    /\ nNow \in [Threads -> Nat]
    /\ batch \in [Threads -> SUBSET Checks]
    /\ vChecks \in [Threads -> SUBSET Checks]
    /\ fOk \in [Threads -> BOOLEAN]
    /\ round \in {"none", "open", "aborted"}
    /\ result \in BOOLEAN
    /\ added \in SUBSET Checks /\ bad \in SUBSET Checks
    /\ intr \in SUBSET Threads /\ dtor \in BOOLEAN

\* nTodo counts exactly the checks that are queued or in some thread's own
\* batch ("elements that are not anymore in queue, but still in worker's own
\* batches"), and no check is in two of those places.
TodoAccounting ==
    /\ nTodo = Cardinality(Outstanding)
    /\ \A t \in Threads : batch[t] \cap queue = {}
    /\ \A t, u \in Threads : t # u => batch[t] \cap batch[u] = {}

\* nIdle and nTotal count the waiting threads and the threads in Loop(), plus
\* one for every thread that an interruption threw out of its wait.
PoolCounters ==
    /\ nIdle = Cardinality(Asleep) + Cardinality(intr)
    /\ nTotal = Cardinality(Pool) + Cardinality(intr)

\* Between rounds, whenever the mutex is free, the queue is in the state the
\* constructor of CCheckQueueControl asserts.
UnusedBetweenRounds == (round = "none" /\ mutex = NoThread) => Unused

\* The assert()s of the constructor never fail: it is a "passed queue is
\* supposed to be unused" whenever the constructor reads it.
AssertsHold == round = "none" => Unused

\* Wait() returns the conjunction of the results of all submitted checks:
\* the queue with its threads implements the abstract round.
Round == INSTANCE CheckRound WITH failing <- (bad # {})
ImplementsRound == Round!Spec

\* The abstract round is implemented, and meanwhile the counters are exact and
\* the queue is left unused between rounds.
RoundKept == ImplementsRound /\ [](TodoAccounting /\ PoolCounters /\ UnusedBetweenRounds)

\* The strengthening that makes these properties inductive.  Only a thread
\* that runs a batch, or has run it and not yet accounted for it, holds one.
HasBatch(t) == pc[t] \in {"run", "loop"}

ThreadState ==
    \A t \in Threads :
        /\ pc[t] = "crit" <=> mutex = t
        /\ HasBatch(t) => nNow[t] = Cardinality(batch[t]) /\ batch[t] # {}
        /\ ~HasBatch(t) => batch[t] = {}
        /\ vChecks[t] \subseteq batch[t]
        /\ pc[t] = "loop" => vChecks[t] = {}

MasterState ==
    /\ pc[Master] # "dead"
    /\ \A w \in Workers : pc[w] # "out"
    /\ round = "none" => pc[Master] = "out" /\ added = {}

\* What fAllOk and fOk say in the middle of a round: TRUE that every check
\* accounted for (or run, in the thread's batch) succeeded, FALSE that one
\* of the submitted checks fails.
ResultsSoFar ==
    /\ Outstanding \subseteq added /\ bad \subseteq added
    /\ IF fAllOk THEN (added \ Outstanding) \cap bad = {} ELSE bad # {}
    /\ \A t \in Threads : HasBatch(t) =>
          IF fOk[t] THEN (batch[t] \ vChecks[t]) \cap bad = {} ELSE bad # {}

Inv == TypeOK /\ ThreadState /\ MasterState /\ ResultsSoFar /\ TodoAccounting /\ PoolCounters

\* Every round that is opened comes to an end: Wait() returns (or throws out
\* of the destructor), however the notifications and interruptions fall.
RoundCloses == (round = "open") ~> (round # "open")
=============================================================================
