-------------------------------- MODULE DbIter --------------------------------
(***************************************************************************)
(* The iterator of LevelDB that a user of the database sees: DBIter        *)
(* (src/leveldb/db/db_iter.cc) over a MergingIterator                      *)
(* (src/leveldb/table/merger.cc) over the memtable, which a writer may     *)
(* still fill while the iterator is used, and the tables.                  *)
(*                                                                         *)
(* An entry is a record of user key, sequence number and type.  The value  *)
(* of an entry is known by its sequence number.  An absent entry is the    *)
(* empty sequence, a present one a sequence of length 1.                   *)
(***************************************************************************)
EXTENDS Integers, Sequences, FiniteSets

CONSTANTS IterUsers,        \* user keys, natural numbers above 0
          History,          \* the number of writes before the iterator is made
          MaxLateWrites     \* bound: writes while the iterator is used

ASSUME IterAssumption ==
    IterUsers \subseteq Nat \ {0} /\ IsFiniteSet(IterUsers) /\ History \in Nat /\ MaxLateWrites \in Nat

Entry == [u : IterUsers, s : 1 .. History + MaxLateWrites, del : BOOLEAN]
EntryBefore(a, b) == a.u < b.u \/ (a.u = b.u /\ a.s > b.s)

VARIABLES kids,           \* kids[1]: the memtable's entries, kids[2]: those of the tables
          sequence,       \* sequence_: what the iterator may see
          dbiter,         \* DBIter with its MergingIterator
          cursorAt,       \* the user key at which a cursor over the visible map would be; 0: none
          overshot,       \* Next turned around onto an entry of another key, see LandsShort
          stepped         \* the last call, the key before it and the key after it

iterVars == <<kids, sequence, dbiter, cursorAt, overshot, stepped>>

Least(S) == IF S = {} THEN <<>> ELSE <<CHOOSE x \in S : \A y \in S : x = y \/ EntryBefore(x, y)>>
Greatest(S) == IF S = {} THEN <<>> ELSE <<CHOOSE x \in S : \A y \in S : x = y \/ EntryBefore(y, x)>>
----------------------------------------------------------------------------
(* MergingIterator: pos[i] is the entry of child i, cur the current child. *)

Kids == {1, 2}
AllEntries == kids[1] \cup kids[2]
MValid(m) == m.cur # 0
MKey(m) == m.pos[m.cur][1]

FindSmallest(pos) ==
    LET live == {i \in Kids : pos[i] # <<>>}
    IN  IF live = {} THEN 0
        ELSE CHOOSE i \in live : \A j \in live \ {i} : EntryBefore(pos[i][1], pos[j][1])

FindLargest(pos) ==
    LET live == {i \in Kids : pos[i] # <<>>}
    IN  IF live = {} THEN 0
        ELSE CHOOSE i \in live : \A j \in live \ {i} : EntryBefore(pos[j][1], pos[i][1])

ForwardFrom(pos) == [pos |-> pos, cur |-> FindSmallest(pos), dir |-> "forward"]
ReverseFrom(pos) == [pos |-> pos, cur |-> FindLargest(pos), dir |-> "reverse"]

MFirst == ForwardFrom([i \in Kids |-> Least(kids[i])])
MLast == ReverseFrom([i \in Kids |-> Greatest(kids[i])])
MSeek(t) == ForwardFrom([i \in Kids |-> Least({x \in kids[i] : ~EntryBefore(x, t)})])

After(i, e) == Least({x \in kids[i] : EntryBefore(e, x)})
Prior(i, e) == Greatest({x \in kids[i] : EntryBefore(x, e)})

\* Variant: a step back in the forward direction leaves the other children where they are.
PrevUnplaced(m) ==
    ReverseFrom([i \in Kids |-> IF i = m.cur THEN Prior(i, MKey(m)) ELSE m.pos[i]])

\* A change of direction places the other children around the current key first.
MNext(m) ==
    ForwardFrom([i \in Kids |->
        IF i = m.cur \/ m.dir # "forward" THEN After(i, MKey(m)) ELSE m.pos[i]])
MPrev(m) ==
    ReverseFrom([i \in Kids |->
        IF i = m.cur \/ m.dir # "reverse" THEN Prior(i, MKey(m)) ELSE m.pos[i]])
----------------------------------------------------------------------------
(* DBIter: [merge, dir, valid, saved], saved the entry kept in reverse.    *)

None == [u |-> 0, s |-> 0, del |-> TRUE]
Invalid(m, dir) == [merge |-> m, dir |-> dir, valid |-> FALSE, saved |-> None]
IterKey(it) == IF it.dir = "forward" THEN MKey(it.merge) ELSE it.saved
UserKey(it) == IF it.valid THEN IterKey(it).u ELSE 0

(* A loop makes at most as many turns as there are entries.                *)

\* A turn passes an entry that is not visible; skip is 0 until skipping.
Shown(t) == LET k == MKey(t.merge) IN k.s <= sequence /\ ~k.del /\ ~(t.skipping /\ k.u <= t.skip)
NextTurn(t) ==
    LET k == MKey(t.merge)
        hides == k.s <= sequence /\ k.del
    IN  IF ~MValid(t.merge) \/ Shown(t) THEN t
        ELSE [merge |-> MNext(t.merge), skipping |-> t.skipping \/ hides, skip |-> IF hides THEN k.u ELSE t.skip]
FindNextUserEntry(m, skipping, skip) ==
    LET turn[i \in 0 .. Cardinality(AllEntries)] ==
            IF i = 0 THEN [merge |-> m, skipping |-> skipping, skip |-> skip] ELSE NextTurn(turn[i - 1])
        n == turn[Cardinality(AllEntries)].merge
    IN  IF MValid(n) THEN [merge |-> n, dir |-> "forward", valid |-> TRUE, saved |-> None]
        ELSE Invalid(n, "forward")

\* saved is None while value_type is kTypeDeletion.
PastKey(t) == LET k == MKey(t.merge) IN k.s <= sequence /\ t.saved # None /\ k.u < t.saved.u
PrevTurn(t) ==
    LET k == MKey(t.merge) IN
    IF ~MValid(t.merge) \/ PastKey(t) THEN t
    ELSE [merge |-> MPrev(t.merge), saved |-> IF k.s > sequence THEN t.saved ELSE IF k.del THEN None ELSE k]
FindPrevUserEntry(m) ==
    LET turn[i \in 0 .. Cardinality(AllEntries)] ==
            IF i = 0 THEN [merge |-> m, saved |-> None] ELSE PrevTurn(turn[i - 1])
        t == turn[Cardinality(AllEntries)]
    IN  IF t.saved = None THEN Invalid(t.merge, "forward")
        ELSE [merge |-> t.merge, dir |-> "reverse", valid |-> TRUE, saved |-> t.saved]

\* Next in the reverse direction moves the merging iterator forward first.
Turned(it) ==
    IF it.dir = "forward" THEN it.merge ELSE IF MValid(it.merge) THEN MNext(it.merge) ELSE MFirst
\* It may meet an entry that is newer than the snapshot, of a key before the current one.
LandsShort(it) == it.dir = "reverse" /\ MValid(Turned(it)) /\ MKey(Turned(it)).u # it.saved.u

DbNextEntry(it) ==
    LET n == Turned(it)
    IN  IF ~MValid(n) THEN Invalid(n, "forward") ELSE FindNextUserEntry(n, TRUE, MKey(n).u)

\* Prev in the forward direction leaves the entries of the current key first.
LeaveTurn(m, u) == IF ~MValid(m) \/ MKey(m).u < u THEN m ELSE MPrev(m)
LeaveKey(m, u) ==
    LET turn[i \in 0 .. Cardinality(AllEntries)] == IF i = 0 THEN MPrev(m) ELSE LeaveTurn(turn[i - 1], u)
    IN  turn[Cardinality(AllEntries)]

DbPrevEntry(it) ==
    LET m == IF it.dir = "forward" THEN LeaveKey(it.merge, IterKey(it).u) ELSE it.merge
    IN  IF it.dir = "forward" /\ ~MValid(m) THEN Invalid(m, "forward") ELSE FindPrevUserEntry(m)

Found(m) == IF MValid(m) THEN FindNextUserEntry(m, FALSE, 0) ELSE Invalid(m, "forward")
----------------------------------------------------------------------------
(* The visible map, and a cursor over it.                                  *)

Newest(u) == Least({e \in AllEntries : e.u = u /\ e.s <= sequence})
Visible == {u \in IterUsers : Newest(u) # <<>> /\ ~Newest(u)[1].del}
LowestOf(S) == IF S = {} THEN 0 ELSE CHOOSE u \in S : \A v \in S : u <= v
HighestOf(S) == IF S = {} THEN 0 ELSE CHOOSE u \in S : \A v \in S : u >= v
----------------------------------------------------------------------------
IterInit ==
    /\ \E w \in [1 .. History -> IterUsers \X BOOLEAN], cut \in 0 .. History :
         LET E(I) == {[u |-> w[s][1], s |-> s, del |-> w[s][2]] : s \in I}
         IN  kids = <<E(cut + 1 .. History), E(1 .. cut)>>
    /\ sequence \in 0 .. History
    /\ dbiter = Invalid([pos |-> <<<<>>, <<>>>>, cur |-> 0, dir |-> "forward"], "forward")
    /\ cursorAt = 0 /\ overshot = FALSE /\ stepped = <<>>

Move(op, it, at) ==
    /\ dbiter' = it /\ cursorAt' = at
    /\ stepped' = <<op, UserKey(dbiter), UserKey(it)>>
    /\ overshot' = (op \in {"next", "prev"} /\ (overshot \/ (op = "next" /\ LandsShort(dbiter))))
    /\ UNCHANGED <<kids, sequence>>

SeekToFirst == Move("first", Found(MFirst), LowestOf(Visible))
SeekToLast == Move("last", FindPrevUserEntry(MLast), HighestOf(Visible))
Seek == \E u \in IterUsers :
    Move("seek", Found(MSeek([u |-> u, s |-> sequence, del |-> FALSE])),
         LowestOf({v \in Visible : v >= u}))
StepNext == dbiter.valid /\ Move("next", DbNextEntry(dbiter), LowestOf({v \in Visible : v > cursorAt}))
StepPrev == dbiter.valid /\ Move("prev", DbPrevEntry(dbiter), HighestOf({v \in Visible : v < cursorAt}))

\* A writer adds to the memtable; the iterator's snapshot does not include it.
LateWrite ==
    /\ Cardinality(AllEntries) < History + MaxLateWrites
    /\ \E u \in IterUsers, d \in BOOLEAN :
         kids' = [kids EXCEPT ![1] = @ \cup {[u |-> u, s |-> Cardinality(AllEntries) + 1, del |-> d]}]
    /\ UNCHANGED <<sequence, dbiter, cursorAt, overshot, stepped>>

IterNext == SeekToFirst \/ SeekToLast \/ Seek \/ StepNext \/ StepPrev \/ LateWrite

IterSpec == IterInit /\ [][IterNext]_iterVars
----------------------------------------------------------------------------
\* After any calls in either direction, the iterator is at the key a cursor over the map as of its
\* snapshot would be at, with the newest visible value, also when entries are written meanwhile;
\* but for a step forward after a step back over an entry newer than the snapshot (LandsShort).
CursorExact ==
    overshot \/
    /\ UserKey(dbiter) = cursorAt
    /\ dbiter.valid => Newest(cursorAt)[1] = IterKey(dbiter)

\* Next leaves the current key behind: "iter_ is pointing just before the entries for this->key(),
\* so advance into the range of entries for this->key()" (db_iter.cc).
NextAdvances ==
    stepped # <<>> /\ stepped[1] = "next" => stepped[3] = 0 \/ stepped[3] > stepped[2]
=============================================================================
