------------------------------ MODULE AddrBook ------------------------------
(***************************************************************************)
(* What the address manager promises (src/addrman.h, 96-117): addresses    *)
(* become known as "new", a new one becomes "tried" when a connection      *)
(* succeeds, "new" ones may be dropped one at a time to make room, and a   *)
(* tried one is never dropped, only sent back to "new" when another one    *)
(* takes its place.                                                        *)
(***************************************************************************)
CONSTANT Addrs

VARIABLE book  \* the known addresses, with the table each is in

NewOnes == {a \in DOMAIN book : book[a] = "new"}
TriedOnes == {a \in DOMAIN book : book[a] = "tried"}
AtMostOne(S) == \A x, y \in S : x = y

Init == book = << >>

\* An address becomes known; at most one other new address is dropped.
Learn(a, dropped) ==
    /\ a \in Addrs \ DOMAIN book
    /\ dropped \subseteq NewOnes /\ AtMostOne(dropped)
    /\ book' = [x \in (DOMAIN book \ dropped) \cup {a} |-> IF x = a THEN "new" ELSE book[x]]

\* A known new address is put into one more bucket, at the cost of another.
Forget(a) ==
    /\ a \in NewOnes
    /\ book' = [x \in DOMAIN book \ {a} |-> book[x]]

\* A connection succeeded; at most one tried address makes room.
Promote(a, demoted) ==
    /\ a \in NewOnes
    /\ demoted \subseteq TriedOnes /\ AtMostOne(demoted)
    /\ book' = [x \in DOMAIN book |-> IF x = a THEN "tried" ELSE IF x \in demoted THEN "new" ELSE book[x]]

Next == \E a \in Addrs : \/ \E dropped \in SUBSET NewOnes : Learn(a, dropped)
                         \/ Forget(a)
                         \/ \E demoted \in SUBSET TriedOnes : Promote(a, demoted)

Spec == Init /\ [][Next]_book
=============================================================================
