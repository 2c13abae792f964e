---------------------------- MODULE MessageStream ----------------------------
(***************************************************************************)
(* What the buffers of a connection promise to the message handlers of its *)
(* two ends: the messages one end pushes are processed by the other end in *)
(* the order in which they were pushed, none twice and none skipped, until *)
(* an end closes the connection.                                           *)
(***************************************************************************)
EXTENDS Integers, Sequences

CONSTANT Nodes  \* the two ends

VARIABLES queue,     \* queue[n]: what n has pushed and its peer not processed
          pushed,    \* pushed[n]: how many messages n has pushed
          processed, \* processed[n]: the last message of its peer that n processed
          up         \* up[n]: n has not closed the connection

Peer(n) == CHOOSE m \in Nodes : m # n

Init ==
    /\ queue = [n \in Nodes |-> << >>]
    /\ pushed = [n \in Nodes |-> 0] /\ processed = [n \in Nodes |-> 0]
    /\ up = [n \in Nodes |-> TRUE]

\* Nothing is delivered to an end that has closed.
Push(n) ==
    /\ up[n]
    /\ pushed' = [pushed EXCEPT ![n] = @ + 1]
    /\ queue' = [queue EXCEPT ![n] = IF up[Peer(n)] THEN Append(@, pushed[n] + 1) ELSE << >>]
    /\ UNCHANGED <<processed, up>>

Process(n) ==
    /\ up[n] /\ queue[Peer(n)] # << >>
    /\ processed' = [processed EXCEPT ![n] = Head(queue[Peer(n)])]
    /\ queue' = [queue EXCEPT ![Peer(n)] = Tail(@)]
    /\ UNCHANGED <<pushed, up>>

\* What was on its way to n is lost, and so may be the last messages of n.
Close(n, kept) ==
    /\ up[n]
    /\ up' = [up EXCEPT ![n] = FALSE]
    /\ queue' = [queue EXCEPT ![Peer(n)] = << >>, ![n] = SubSeq(@, 1, kept)]
    /\ UNCHANGED <<pushed, processed>>

Next == \E n \in Nodes : \/ Push(n) \/ Process(n)
                         \/ \E kept \in 0..Len(queue[n]) : Close(n, kept)

Spec == Init /\ [][Next]_<<queue, pushed, processed, up>>
==============================================================================
