------------------------------ MODULE LockOrder ------------------------------
(***************************************************************************)
(* Early deadlock detection (DEBUG_LOCKORDER in src/sync.cpp): for every   *)
(* pair of critical sections the order in which they were locked first is  *)
(* kept, and the opposite order is reported.  EnterCritical is called      *)
(* before the (recursive) mutex is locked; a failed try leaves again.      *)
(***************************************************************************)
EXTENDS Integers, Sequences, FiniteSets, SequencesExt

CONSTANTS LockThreads, CritSections, MaxDepth      \* bound: locks of a thread

VARIABLES lockstack,      \* lockstack[t]: the sections entered, in order
          wants,          \* wants[t]: the section t is waiting for, or <<>>
          lockorders,     \* the pairs (a, b): a was held when b was locked
          reports         \* the pairs that were reported

orderVars == <<lockstack, wants, lockorders, reports>>

\* The sections a thread holds; the last one on its stack may still be waited for.
Holds(t) == LET n == Len(lockstack[t]) - Len(wants[t]) IN ToSet(SubSeq(lockstack[t], 1, n))
FreeFor(t, c) == \A u \in LockThreads \ {t} : c \notin Holds(u)
----------------------------------------------------------------------------
OrderInit ==
    /\ lockstack = [t \in LockThreads |-> <<>>] /\ wants = [t \in LockThreads |-> <<>>]
    /\ lockorders = {} /\ reports = {}

\* Variant: the loop ends at the first pair that is known.
PairsToKnown(stack, c, known) ==
    LET upto == {i \in 0 .. Len(stack) : \A j \in 1 .. i : stack[j] # c /\ <<stack[j], c>> \notin known}
    IN  {<<stack[i], c>> : i \in 1 .. CHOOSE m \in upto : \A i \in upto : i <= m}

\* The pairs push_lock looks at: up to c itself, up to the first that was seen reversed.
PairsToCheck(stack, c, known) ==
    LET new(i) == <<stack[i], c>> \notin known
        ends(i) == stack[i] = c \/ (new(i) /\ <<c, stack[i]>> \in known)
        upto == {i \in 1 .. Len(stack) : \A j \in 1 .. i - 1 : ~ends(j)}
    IN  {<<stack[i], c>> : i \in {k \in upto : stack[k] # c}}

\* push_lock without fTry; then the thread waits for the mutex.
EnterCritical(t, c) ==
    /\ wants[t] = <<>> /\ Len(lockstack[t]) < MaxDepth
    /\ LET new == PairsToCheck(lockstack[t], c, lockorders) \ lockorders IN
       /\ lockorders' = lockorders \cup new
       /\ reports' = reports \cup {p \in new : <<p[2], p[1]>> \in lockorders}
    /\ lockstack' = [lockstack EXCEPT ![t] = Append(@, c)]
    /\ wants' = [wants EXCEPT ![t] = <<c>>]

Acquire(t) ==
    /\ wants[t] # <<>> /\ FreeFor(t, wants[t][1])
    /\ wants' = [wants EXCEPT ![t] = <<>>]
    /\ UNCHANGED <<lockstack, lockorders, reports>>

\* push_lock with fTry notes no order; when the try fails, LeaveCritical follows at once.
TryEnter(t, c) ==
    /\ wants[t] = <<>> /\ Len(lockstack[t]) < MaxDepth
    /\ FreeFor(t, c)
    /\ lockstack' = [lockstack EXCEPT ![t] = Append(@, c)]
    /\ UNCHANGED <<wants, lockorders, reports>>

\* pop_lock; blocks are left in the opposite order.
LeaveCritical(t) ==
    /\ wants[t] = <<>> /\ lockstack[t] # <<>>
    /\ lockstack' = [lockstack EXCEPT ![t] = Front(@)]
    /\ UNCHANGED <<wants, lockorders, reports>>

OrderNext == \E t \in LockThreads :
    \/ Acquire(t) \/ LeaveCritical(t)
    \/ \E c \in CritSections : EnterCritical(t, c) \/ TryEnter(t, c)

OrderSpec == OrderInit /\ [][OrderNext]_orderVars
----------------------------------------------------------------------------
\* A section that t holds was reported together with the one it is waiting for.
Warned(t) == \E a \in Holds(t) : <<a, wants[t][1]>> \in reports

\* When two threads wait for each other, one of them holds a section that was reported together
\* with the one it waits for: also with sections that are locked again by their owner, tried, or
\* locked after other orders were reported.  It need not be the section of the other thread:
\* push_lock ends at the first pair it reports and never looks at the rest of the stack.
DeadlockForetold ==
    \A t, u \in LockThreads :
        (t # u /\ wants[t] # <<>> /\ wants[u] # <<>>
           /\ wants[t][1] \in Holds(u) /\ wants[u][1] \in Holds(t)) => Warned(t) \/ Warned(u)
=============================================================================
