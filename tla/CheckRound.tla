----------------------------- MODULE CheckRound -----------------------------
(***************************************************************************)
(* What CCheckQueueControl promises its caller (src/checkqueue.h), without *)
(* the queue, the workers or the counters.  A round opens, checks are      *)
(* submitted, some of which are going to fail, and Wait() closes the round *)
(* with the conjunction of all their results.  CheckQueue implements it.   *)
(* At any moment the process may be aborted: by an assert() of the         *)
(* constructor, or by an exception that leaves the destructor.             *)
(***************************************************************************)
VARIABLES round,   \* "none", "open", or "aborted" when the process ended
          failing, \* a check that returns false was submitted in this round
          result   \* what the latest Wait() returned

vars == <<round, failing, result>>

Init == round = "none" /\ failing = FALSE /\ result = TRUE

Open == /\ round = "none"
        /\ round' = "open"
        /\ UNCHANGED <<failing, result>>

Submit == /\ round = "open"
          /\ failing' \in {failing, TRUE}
          /\ UNCHANGED <<round, result>>

Close == /\ round = "open"
         /\ round' = "none"
         /\ result' = ~failing
         /\ failing' = FALSE

Abort == round' = "aborted" /\ UNCHANGED <<failing, result>>

Next == Open \/ Submit \/ Close \/ Abort

Spec == Init /\ [][Next]_vars
=============================================================================
