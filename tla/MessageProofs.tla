---------------------------- MODULE MessageProofs ----------------------------
(***************************************************************************)
(* Proofs about messages.  SocketBuffers: the buffers of a connection      *)
(* implement a stream of messages, for any sizes of the messages and of    *)
(* the buffers.  BlockFetch: honest peers are not penalised, the missing   *)
(* ancestors of orphans are asked for, and the requests of one block are   *)
(* apart, for any peers, any blocks and any order of messages.             *)
(***************************************************************************)
EXTENDS BlockFetch, SocketBuffers, FiniteSetTheorems, SequenceTheorems, NumberFacts, TLAPS

----------------------------------------------------------------------------
(* GetOrphanRoot.                                                          *)

Step(orphans, x) == IF hashPrevBlock[x] \in orphans THEN hashPrevBlock[x] ELSE x

\* The function walk of GetOrphanRoot.
IsWalk(orphans, b, n, walk) ==
    /\ DOMAIN walk = 0..n /\ walk[0] = b
    /\ \A i \in 1..n : walk[i] = Step(orphans, walk[i - 1])

\* One unfolding of its definition.
Unfold(orphans, b, n, walk) == [i \in 0..n |-> IF i = 0 THEN b ELSE Step(orphans, walk[i - 1])]

LEMMA WalkExists ==
    ASSUME NEW orphans, NEW b, NEW n \in Nat
    PROVE  \E walk : /\ IsWalk(orphans, b, n, walk)
                     /\ walk = Unfold(orphans, b, n, walk)
<1> DEFINE W(m) == \E walk : walk = [i \in 0..m |-> IF i = 0 THEN b ELSE Step(orphans, walk[i - 1])]
           Bad == {m \in Nat : ~W(m)}
<1>1. ASSUME Bad # {} PROVE FALSE
  <2>1. PICK m \in Bad : \A k \in Bad : m <= k
    BY <1>1, LeastNumber
  <2>2. CASE m = 0
    <3> DEFINE walk == [i \in 0..0 |-> b]
    <3>1. walk = [i \in 0..0 |-> IF i = 0 THEN b ELSE Step(orphans, walk[i - 1])]
      OBVIOUS
    <3> QED  BY <2>1, <2>2, <3>1
  <2>3. CASE m # 0
    <3>1. m - 1 \in Nat /\ m - 1 \notin Bad
      BY <2>1, <2>3
    <3>2. PICK shorter : shorter = [i \in 0..(m - 1) |-> IF i = 0 THEN b ELSE Step(orphans, shorter[i - 1])]
      BY <3>1
    <3> DEFINE walk == [i \in 0..m |-> IF i = m THEN Step(orphans, shorter[m - 1]) ELSE shorter[i]]
    <3>3. \A i \in 0..m : walk[i] = IF i = 0 THEN b ELSE Step(orphans, walk[i - 1])
      <4> SUFFICES ASSUME NEW i \in 0..m
                   PROVE  walk[i] = IF i = 0 THEN b ELSE Step(orphans, walk[i - 1])
        OBVIOUS
      <4>1. CASE i = m
        BY <2>1, <2>3, <4>1
      <4>2. CASE i # m
        <5>1. i \in 0..(m - 1) /\ walk[i] = shorter[i]
          BY <2>1, <4>2
        <5>2. shorter[i] = IF i = 0 THEN b ELSE Step(orphans, shorter[i - 1])
          BY <3>2, <5>1
        <5>3. i # 0 => walk[i - 1] = shorter[i - 1]
          BY <2>1, <5>1
        <5> QED  BY <5>1, <5>2, <5>3
      <4> QED  BY <4>1, <4>2
    <3>4. walk = [i \in 0..m |-> IF i = 0 THEN b ELSE Step(orphans, walk[i - 1])]
      BY <3>3
    <3> HIDE DEF walk
    <3> QED  BY <2>1, <3>4
  <2> QED  BY <2>2, <2>3
<1>2. PICK walk : walk = [i \in 0..n |-> IF i = 0 THEN b ELSE Step(orphans, walk[i - 1])]
  BY <1>1
<1>3. DOMAIN walk = 0..n /\ \A i \in 0..n : walk[i] = IF i = 0 THEN b ELSE Step(orphans, walk[i - 1])
  BY <1>2
<1>4. IsWalk(orphans, b, n, walk)
  BY <1>3 DEF IsWalk
<1>5. walk = Unfold(orphans, b, n, walk)
  BY <1>2 DEF Unfold
<1> QED  BY <1>4, <1>5

\* GetOrphanRoot is the end of such a walk.
LEMMA RootEndsWalk ==
    ASSUME NEW orphans, IsFiniteSet(orphans), NEW b
    PROVE  \E walk : /\ IsWalk(orphans, b, Cardinality(orphans), walk)
                     /\ GetOrphanRoot(orphans, b) = walk[Cardinality(orphans)]
<1> DEFINE n == Cardinality(orphans)
           F(w) == [i \in 0..n |->
                      IF i = 0 THEN b
                      ELSE IF hashPrevBlock[w[i - 1]] \in orphans THEN hashPrevBlock[w[i - 1]] ELSE w[i - 1]]
           walk == CHOOSE w : w = F(w)
<1>1. n \in Nat
  BY FS_CardinalityType
<1>2. \E w : w = F(w)
  <2>1. PICK w : w = Unfold(orphans, b, n, w)
    BY <1>1, WalkExists
  <2>2. Unfold(orphans, b, n, w) = F(w)
    BY DEF Unfold, Step
  <2>3. w = F(w)
    BY <2>1, <2>2
  <2> QED  BY <2>3
<1>3. walk = F(walk)
  BY <1>2
<1>4. GetOrphanRoot(orphans, b) = walk[n]
  BY DEF GetOrphanRoot
<1> HIDE DEF walk, n
<1>5. DOMAIN walk = 0..n /\ \A i \in 0..n : walk[i] = IF i = 0 THEN b ELSE Step(orphans, walk[i - 1])
  BY <1>3 DEF Step
<1>6. IsWalk(orphans, b, n, walk)
  BY <1>1, <1>5 DEF IsWalk
<1> QED  BY <1>4, <1>6 DEF n

\* A walk that begins in the set stays in it.
LEMMA WalkStays ==
    ASSUME NEW orphans, NEW b \in orphans, NEW n \in Nat, NEW walk, IsWalk(orphans, b, n, walk)
    PROVE  \A i \in 0..n : walk[i] \in orphans
<1> DEFINE Out == {i \in 0..n : walk[i] \notin orphans}
<1>1. ASSUME Out # {} PROVE FALSE
  <2>1. Out \in SUBSET Nat
    OBVIOUS
  <2>2. PICK i \in Out : \A j \in Out : i <= j
    BY <1>1, <2>1, LeastNumber
  <2>3. i # 0
    BY <2>2 DEF IsWalk
  <2>4. i - 1 \in 0..n /\ i - 1 \notin Out /\ i \in 1..n
    BY <2>2, <2>3
  <2>5. walk[i] = Step(orphans, walk[i - 1])
    BY <2>4 DEF IsWalk
  <2> QED  BY <2>2, <2>4, <2>5 DEF Step
<1> QED  BY <1>1

\* Where a walk stops it stays.
LEMMA WalkStopped ==
    ASSUME NEW orphans, NEW b, NEW n \in Nat, NEW walk, IsWalk(orphans, b, n, walk),
           NEW i \in 0..n, hashPrevBlock[walk[i]] \notin orphans
    PROVE  walk[n] = walk[i]
<1> DEFINE Moved == {j \in i..n : walk[j] # walk[i]}
<1>1. ASSUME Moved # {} PROVE FALSE
  <2>1. Moved \in SUBSET Nat
    OBVIOUS
  <2>2. PICK j \in Moved : \A k \in Moved : j <= k
    BY <1>1, <2>1, LeastNumber
  <2>3. j # i
    BY <2>2
  <2>4. j - 1 \in i..n /\ j - 1 \notin Moved /\ j \in 1..n
    BY <2>2, <2>3
  <2>5. walk[j] = Step(orphans, walk[j - 1])
    BY <2>4 DEF IsWalk
  <2> QED  BY <2>2, <2>4, <2>5 DEF Step
<1> QED  BY <1>1

\* A walk that moves at every step meets no block twice.
LEMMA WalkMeetsNew ==
    ASSUME NEW walk, NEW n \in Nat, \A i \in 0..n : walk[i] \in Blocks,
           \A i \in 1..n : walk[i] = hashPrevBlock[walk[i - 1]]
    PROVE  \A i, j \in 0..n : i < j => walk[i] # walk[j]
<1> SUFFICES ASSUME NEW i \in 0..n, NEW j \in 0..n, i < j, walk[i] = walk[j]
             PROVE  FALSE
  OBVIOUS
<1> DEFINE S == {walk[k] : k \in i..(j - 1)}
<1>1. S \in SUBSET Blocks /\ S # {}
  <2>1. walk[i] \in S
    OBVIOUS
  <2> QED  BY <2>1
<1>2. PICK x \in S : hashPrevBlock[x] \notin S
  BY <1>1, BlockFetchAssumption
<1>3. PICK k \in i..(j - 1) : x = walk[k]
  BY <1>2
<1>4. k + 1 \in 1..n /\ (k + 1) - 1 = k
  BY <1>3
<1>5. walk[k + 1] = hashPrevBlock[x]
  BY <1>3, <1>4
<1>6. CASE k + 1 <= j - 1
  <2>1. k + 1 \in i..(j - 1)
    BY <1>3, <1>6
  <2> QED  BY <1>2, <1>5, <2>1
<1>7. CASE k + 1 = j
  <2>1. walk[i] \in S
    OBVIOUS
  <2> QED  BY <1>2, <1>5, <1>7, <2>1
<1> QED  BY <1>3, <1>6, <1>7

\* The root of a held block is held, and its parent is not: the walk is as long as
\* there are orphans, and a longer one would meet a block twice.
LEMMA RootIsFirst ==
    ASSUME NEW orphans \in SUBSET Blocks, IsFiniteSet(orphans), NEW b \in orphans
    PROVE  /\ GetOrphanRoot(orphans, b) \in orphans
           /\ hashPrevBlock[GetOrphanRoot(orphans, b)] \notin orphans
<1> DEFINE n == Cardinality(orphans)
<1>1. n \in Nat
  BY FS_CardinalityType
<1>2. PICK walk : IsWalk(orphans, b, n, walk) /\ GetOrphanRoot(orphans, b) = walk[n]
  BY RootEndsWalk
<1> HIDE DEF n
<1>3. \A i \in 0..n : walk[i] \in orphans
  BY <1>1, <1>2, WalkStays
<1>4. ASSUME hashPrevBlock[walk[n]] \in orphans PROVE FALSE
  <2>1. \A i \in 0..n : hashPrevBlock[walk[i]] \in orphans
    BY <1>1, <1>2, <1>4, WalkStopped
  <2>2. \A i \in 1..n : walk[i] = hashPrevBlock[walk[i - 1]]
    BY <1>1, <1>2, <2>1 DEF IsWalk, Step
  <2>3. \A i, j \in 0..n : i < j => walk[i] # walk[j]
    BY <1>1, <1>3, <2>2, WalkMeetsNew
  <2> DEFINE f == [i \in 0..n |-> walk[i]]
  <2>4. f \in [0..n -> orphans] /\ \A i, j \in 0..n : i # j => f[i] # f[j]
    BY <1>1, <1>3, <2>3
  <2>5. f \in Injection(0..n, orphans)
    <3>1. IsInjective(f)
      BY <2>4 DEF IsInjective
    <3> QED  BY <2>4, <3>1 DEF Injection
  <2> HIDE DEF f
  <2>6. IsFiniteSet(0..n) /\ Cardinality(0..n) = n + 1
    <3>1. \A m \in Nat : IsFiniteSet(0..m) /\ Cardinality(0..m) = m + 1
      BY FS_Interval
    <3> QED  BY <1>1, <3>1
  <2>7. Cardinality(0..n) <= Cardinality(orphans)
    BY <2>5, <2>6, FS_Injection
  <2> QED  BY <1>1, <2>6, <2>7 DEF n
<1> QED  BY <1>1, <1>2, <1>3, <1>4

\* A held block whose parent is not held is its own root.
LEMMA RootOfFirst ==
    ASSUME NEW orphans \in SUBSET Blocks, IsFiniteSet(orphans), NEW b, hashPrevBlock[b] \notin orphans
    PROVE  GetOrphanRoot(orphans, b) = b
<1> DEFINE n == Cardinality(orphans)
<1>1. n \in Nat
  BY FS_CardinalityType
<1>2. PICK walk : IsWalk(orphans, b, n, walk) /\ GetOrphanRoot(orphans, b) = walk[n]
  BY RootEndsWalk
<1> HIDE DEF n
<1>3. walk[0] = b
  BY <1>2 DEF IsWalk
<1>4. walk[n] = walk[0]
  BY <1>1, <1>2, <1>3, WalkStopped
<1> QED  BY <1>2, <1>3, <1>4

----------------------------------------------------------------------------
(* The inductive invariant.                                                *)

Requests == [in : Nat, inv : Blocks]
Entries == [pfrom : Peers, hash : Blocks]

FetchTypes ==
    /\ conn \subseteq Peers /\ setBanned \subseteq Peers
    /\ mapAskFor \in [Peers -> SUBSET Requests]
    /\ getdata \in [Peers -> SUBSET Blocks]
    /\ hashLastGetBlocksEnd \in [Peers -> Blocks \cup {Zero}]
    /\ fStartSync \in [Peers -> BOOLEAN] /\ nMisbehavior \in [Peers -> 0..(BanScore - 1)]
    /\ DOMAIN mapAlreadyAskedFor \subseteq Blocks
    /\ mapAlreadyAskedFor \in [DOMAIN mapAlreadyAskedFor -> Int]
    /\ mapOrphanBlocks \subseteq Blocks /\ IsFiniteSet(mapOrphanBlocks)
    /\ m_blocks \in Seq(Blocks) /\ getblocks \subseteq Blocks \cup {Zero}
    /\ vInv \in Seq(Entries)

\* A peer's last getblocks was sent.
LastSent == \A p \in Peers : hashLastGetBlocksEnd[p] # Zero => hashLastGetBlocksEnd[p] \in getblocks

Held == Accepted \cup mapOrphanBlocks

\* No request of a block that has not come is later than the one mapAlreadyAskedFor
\* remembers, and two of them are Retry apart.
LastRemembered ==
    \A b \in Blocks \ Held : \A p \in Peers : \A r \in mapAskFor[p] :
        r.inv = b /\ r.in > 0 => b \in DOMAIN mapAlreadyAskedFor /\ r.in <= mapAlreadyAskedFor[b]
TwoApart ==
    \A b \in Blocks \ Held : \A p, q \in Peers : \A r \in mapAskFor[p], s \in mapAskFor[q] :
        (r.inv = b /\ s.inv = b /\ r.in > 0 /\ s.in > 0 /\ (p # q \/ r.in # s.in))
            => r.in - s.in >= Retry \/ s.in - r.in >= Retry

FetchInv == FetchTypes /\ LastSent /\ RootsAsked /\ HonestUnpunished /\ LastRemembered /\ TwoApart

----------------------------------------------------------------------------
(* What the parts of the handlers do.                                      *)

\* After a peer is reset or punished.
Reset(p) ==
    /\ mapAskFor' \in [Peers -> SUBSET Requests] /\ getdata' \in [Peers -> SUBSET Blocks]
    /\ hashLastGetBlocksEnd' \in [Peers -> Blocks \cup {Zero}]
    /\ fStartSync' \in [Peers -> BOOLEAN] /\ nMisbehavior' \in [Peers -> 0..(BanScore - 1)]
    /\ \A q \in Peers : hashLastGetBlocksEnd'[q] \in {hashLastGetBlocksEnd[q], Zero}
    /\ \A q \in Peers : mapAskFor'[q] \subseteq mapAskFor[q]
    /\ \A q \in Peers \ {p} : nMisbehavior'[q] = nMisbehavior[q]

LEMMA FreshResets ==
    ASSUME FetchTypes, NEW p \in Peers, Fresh(p)
    PROVE  Reset(p) /\ nMisbehavior'[p] = 0
<1>1. BanScore \in Nat \ {0}
  BY BlockFetchAssumption
<1>2. mapAskFor' \in [Peers -> SUBSET Requests] /\ \A q \in Peers : mapAskFor'[q] \subseteq mapAskFor[q]
  BY DEF FetchTypes, Fresh
<1>3. getdata' \in [Peers -> SUBSET Blocks] /\ fStartSync' \in [Peers -> BOOLEAN]
  BY DEF FetchTypes, Fresh
<1>4. /\ hashLastGetBlocksEnd' \in [Peers -> Blocks \cup {Zero}]
      /\ \A q \in Peers : hashLastGetBlocksEnd'[q] \in {hashLastGetBlocksEnd[q], Zero}
  BY DEF FetchTypes, Fresh
<1>5. /\ nMisbehavior' \in [Peers -> 0..(BanScore - 1)] /\ nMisbehavior'[p] = 0
      /\ \A q \in Peers \ {p} : nMisbehavior'[q] = nMisbehavior[q]
  BY <1>1 DEF FetchTypes, Fresh
<1> QED  BY <1>2, <1>3, <1>4, <1>5 DEF Reset

LEMMA MisbehavingResets ==
    ASSUME FetchTypes, NEW p \in Peers, NEW howmuch \in Nat, Misbehaving(p, howmuch)
    PROVE  /\ Reset(p) /\ conn' \subseteq Peers /\ setBanned' \subseteq Peers
           /\ setBanned' \subseteq setBanned \cup {p}
           /\ howmuch = 0 => setBanned' = setBanned /\ nMisbehavior'[p] = nMisbehavior[p]
<1>1. BanScore \in Nat \ {0} /\ nMisbehavior[p] \in 0..(BanScore - 1)
  BY BlockFetchAssumption DEF FetchTypes
<1>2. CASE TooMuch(nMisbehavior[p] + howmuch)
  <2>1. howmuch # 0
    BY <1>1, <1>2 DEF TooMuch
  <2>2. Fresh(p) /\ conn' = conn \ {p} /\ setBanned' = setBanned \cup {p}
    BY <1>2 DEF Misbehaving, Fresh
  <2>3. Reset(p)
    BY <2>2, FreshResets
  <2> QED  BY <2>1, <2>2, <2>3 DEF FetchTypes
<1>3. CASE ~TooMuch(nMisbehavior[p] + howmuch)
  <2>1. /\ nMisbehavior' = [nMisbehavior EXCEPT ![p] = @ + howmuch]
        /\ UNCHANGED <<setBanned, conn, mapAskFor, getdata, hashLastGetBlocksEnd, fStartSync>>
    BY <1>3 DEF Misbehaving
  <2>2. nMisbehavior[p] + howmuch \in 0..(BanScore - 1)
    BY <1>1, <1>3 DEF TooMuch
  <2>3. nMisbehavior' \in [Peers -> 0..(BanScore - 1)] /\ nMisbehavior'[p] = nMisbehavior[p] + howmuch
    BY <2>1, <2>2 DEF FetchTypes
  <2>4. \A q \in Peers \ {p} : nMisbehavior'[q] = nMisbehavior[q]
    BY <2>1 DEF FetchTypes
  <2>5. Reset(p)
    BY <2>1, <2>3, <2>4 DEF Reset, FetchTypes
  <2> QED  BY <1>1, <2>1, <2>3, <2>5 DEF FetchTypes
<1> QED  BY <1>2, <1>3

LEMMA PushAsks ==
    ASSUME FetchTypes, LastSent, NEW p \in Peers, NEW hashEnd \in Blocks \cup {Zero},
           PushGetBlocks(p, hashEnd)
    PROVE  /\ hashLastGetBlocksEnd' \in [Peers -> Blocks \cup {Zero}]
           /\ getblocks' \subseteq Blocks \cup {Zero} /\ getblocks \subseteq getblocks'
           /\ LastSent'
           /\ hashEnd # Zero => hashEnd \in getblocks'
           /\ \A q \in Peers : hashLastGetBlocksEnd'[q] \in {hashLastGetBlocksEnd[q], hashEnd}
<1>1. CASE hashEnd = hashLastGetBlocksEnd[p]
  BY <1>1 DEF PushGetBlocks, FetchTypes, LastSent
<1>2. CASE hashEnd # hashLastGetBlocksEnd[p]
  BY <1>2 DEF PushGetBlocks, FetchTypes, LastSent
<1> QED  BY <1>1, <1>2

\* What is asked for is not disturbed: some requests go, and the times of the blocks
\* that have not come stay.
Undisturbed ==
    /\ \A q \in Peers : mapAskFor'[q] \subseteq mapAskFor[q]
    /\ Held \subseteq Held'
    /\ \A b \in DOMAIN mapAlreadyAskedFor \ Held' :
          b \in DOMAIN mapAlreadyAskedFor' /\ mapAlreadyAskedFor'[b] = mapAlreadyAskedFor[b]

LEMMA UndisturbedStays ==
    ASSUME LastRemembered, TwoApart, Undisturbed
    PROVE  LastRemembered' /\ TwoApart'
<1>1. LastRemembered'
  BY DEF LastRemembered, Undisturbed
<1>2. TwoApart'
  BY DEF TwoApart, Undisturbed
<1> QED  BY <1>1, <1>2

LEMMA ResetKeepsSent ==
    ASSUME LastSent, NEW p, Reset(p), getblocks' = getblocks
    PROVE  LastSent'
  BY DEF LastSent, Reset

----------------------------------------------------------------------------
(* The actions preserve the invariant.                                     *)

LEMMA ConnectKeeps ==
    ASSUME FetchInv, NEW p \in Peers, Connect(p) \/ Disconnect(p)
    PROVE  FetchInv'
<1>1. FetchTypes /\ LastSent /\ RootsAsked /\ HonestUnpunished /\ LastRemembered /\ TwoApart
  BY DEF FetchInv
<1>2. /\ Fresh(p) /\ conn' \subseteq conn \cup {p}
      /\ UNCHANGED <<setBanned, mapAlreadyAskedFor, mapOrphanBlocks, m_blocks, getblocks, vInv>>
  BY DEF Connect, Disconnect
<1>3. Reset(p) /\ nMisbehavior'[p] = 0
  BY <1>1, <1>2, FreshResets
<1>4. FetchTypes'
  BY <1>1, <1>2, <1>3 DEF FetchTypes, Reset
<1>5. LastSent'
  BY <1>1, <1>2, <1>3, ResetKeepsSent
<1>6. RootsAsked' /\ HonestUnpunished'
  BY <1>1, <1>2, <1>3, BlockFetchAssumption DEF RootsAsked, HonestUnpunished, Reset
<1>7. Undisturbed
  BY <1>2, <1>3 DEF Undisturbed, Reset, Held, Accepted
<1> QED  BY <1>1, <1>4, <1>5, <1>6, <1>7, UndisturbedStays DEF FetchInv

LEMMA BanEndsKeeps ==
    ASSUME FetchInv, NEW p \in Peers, BanEnds(p)
    PROVE  FetchInv'
<1>1. FetchTypes /\ LastSent /\ RootsAsked /\ HonestUnpunished /\ LastRemembered /\ TwoApart
  BY DEF FetchInv
<1>2. /\ setBanned' \subseteq setBanned
      /\ UNCHANGED <<conn, mapAskFor, hashLastGetBlocksEnd, fStartSync, nMisbehavior, getdata,
                     mapAlreadyAskedFor, mapOrphanBlocks, m_blocks, getblocks, vInv>>
  BY DEF BanEnds, node
<1>3. FetchTypes' /\ LastSent' /\ RootsAsked'
  BY <1>1, <1>2 DEF FetchTypes, LastSent, RootsAsked
<1>4. HonestUnpunished'
  BY <1>1, <1>2 DEF HonestUnpunished
<1>5. LastRemembered' /\ TwoApart'
  BY <1>1, <1>2 DEF LastRemembered, TwoApart, Held, Accepted
<1> QED  BY <1>3, <1>4, <1>5 DEF FetchInv

\* A step of the clock brings the requests and the times they were asked at nearer alike.
LEMMA TickKeeps ==
    ASSUME FetchInv, Tick
    PROVE  FetchInv'
<1>1. FetchTypes /\ LastSent /\ RootsAsked /\ HonestUnpunished /\ LastRemembered /\ TwoApart
  BY DEF FetchInv
<1>2. /\ mapAskFor' = [p \in Peers |-> {[r EXCEPT !.in = Earlier(@, 0)] : r \in mapAskFor[p]}]
      /\ mapAlreadyAskedFor' = [b \in DOMAIN mapAlreadyAskedFor |-> Earlier(mapAlreadyAskedFor[b], -Retry)]
      /\ UNCHANGED <<conn, setBanned, hashLastGetBlocksEnd, fStartSync, nMisbehavior, getdata,
                     mapOrphanBlocks, m_blocks, getblocks, vInv>>
  BY DEF Tick
<1>3. Retry \in Nat \ {0}
  BY BlockFetchAssumption
<1>4. \A p \in Peers : \A t \in mapAskFor'[p] :
        /\ t \in Requests
        /\ \E r \in mapAskFor[p] : r \in Requests /\ r.inv = t.inv /\ (t.in > 0 => r.in = t.in + 1)
  <2> SUFFICES ASSUME NEW p \in Peers, NEW t \in mapAskFor'[p]
               PROVE  /\ t \in Requests
                      /\ \E r \in mapAskFor[p] : r \in Requests /\ r.inv = t.inv /\ (t.in > 0 => r.in = t.in + 1)
    OBVIOUS
  <2>1. PICK r \in mapAskFor[p] : t = [r EXCEPT !.in = Earlier(@, 0)]
    BY <1>2
  <2>2. r \in Requests
    BY <1>1 DEF FetchTypes
  <2>3. t.in = Earlier(r.in, 0) /\ t.inv = r.inv /\ r.in \in Nat /\ r.inv \in Blocks
        /\ t = [in |-> Earlier(r.in, 0), inv |-> r.inv]
    BY <2>1, <2>2 DEF Requests
  <2>4. Earlier(r.in, 0) \in Nat /\ (Earlier(r.in, 0) > 0 => r.in = Earlier(r.in, 0) + 1)
    BY <2>3 DEF Earlier
  <2> QED  BY <2>2, <2>3, <2>4 DEF Requests
<1>5. /\ DOMAIN mapAlreadyAskedFor' = DOMAIN mapAlreadyAskedFor
      /\ mapAlreadyAskedFor' \in [DOMAIN mapAlreadyAskedFor -> Int]
      /\ \A b \in DOMAIN mapAlreadyAskedFor :
            mapAlreadyAskedFor[b] > 0 => mapAlreadyAskedFor'[b] = mapAlreadyAskedFor[b] - 1
  BY <1>1, <1>2, <1>3 DEF FetchTypes, Earlier
<1>6. mapAskFor' \in [Peers -> SUBSET Requests]
  <2>1. DOMAIN mapAskFor' = Peers /\ mapAskFor' = [p \in Peers |-> mapAskFor'[p]]
    BY <1>2
  <2> QED  BY <1>4, <2>1
<1>7. FetchTypes'
  BY <1>1, <1>2, <1>5, <1>6 DEF FetchTypes
<1>8. LastSent' /\ RootsAsked' /\ HonestUnpunished'
  BY <1>1, <1>2 DEF LastSent, RootsAsked, HonestUnpunished
<1>9. Held' = Held
  BY <1>2 DEF Held, Accepted
<1>10. LastRemembered'
  <2> SUFFICES ASSUME NEW b \in Blocks \ Held, NEW p \in Peers, NEW t \in mapAskFor'[p],
                      t.inv = b, t.in > 0
               PROVE  b \in DOMAIN mapAlreadyAskedFor' /\ t.in <= mapAlreadyAskedFor'[b]
    BY <1>9 DEF LastRemembered
  <2>1. t \in Requests
    BY <1>4
  <2>2. PICK r \in mapAskFor[p] : r \in Requests /\ r.inv = b /\ r.in = t.in + 1
    BY <1>4
  <2>3. t.in \in Nat /\ r.in > 0
    BY <2>1, <2>2 DEF Requests
  <2>4. b \in DOMAIN mapAlreadyAskedFor /\ r.in <= mapAlreadyAskedFor[b]
    BY <1>1, <2>2, <2>3 DEF LastRemembered
  <2>5. mapAlreadyAskedFor[b] \in Int
    BY <1>1, <2>4 DEF FetchTypes
  <2> QED  BY <1>5, <2>2, <2>3, <2>4, <2>5
<1>11. TwoApart'
  <2> SUFFICES ASSUME NEW b \in Blocks \ Held, NEW p \in Peers, NEW q \in Peers,
                      NEW t \in mapAskFor'[p], NEW u \in mapAskFor'[q],
                      t.inv = b, u.inv = b, t.in > 0, u.in > 0, p # q \/ t.in # u.in
               PROVE  t.in - u.in >= Retry \/ u.in - t.in >= Retry
    BY <1>9 DEF TwoApart
  <2>1. t.in \in Nat /\ u.in \in Nat
    <3>1. t \in Requests /\ u \in Requests
      BY <1>4
    <3> QED  BY <3>1 DEF Requests
  <2>2. PICK r \in mapAskFor[p] : r.inv = b /\ r.in = t.in + 1
    BY <1>4
  <2>3. PICK s \in mapAskFor[q] : s.inv = b /\ s.in = u.in + 1
    BY <1>4
  <2>4. r.in > 0 /\ s.in > 0 /\ (p # q \/ r.in # s.in)
    BY <2>1, <2>2, <2>3
  <2>5. r.in - s.in >= Retry \/ s.in - r.in >= Retry
    BY <1>1, <2>2, <2>3, <2>4 DEF TwoApart
  <2> QED  BY <1>3, <2>1, <2>2, <2>3, <2>5
<1> QED  BY <1>7, <1>8, <1>10, <1>11 DEF FetchInv

LEMMA InvTooLargeKeeps ==
    ASSUME FetchInv, NEW p \in Peers, InvTooLarge(p)
    PROVE  FetchInv'
<1>1. FetchTypes /\ LastSent /\ RootsAsked /\ HonestUnpunished /\ LastRemembered /\ TwoApart
  BY DEF FetchInv
<1>2. /\ p \notin Honest /\ Misbehaving(p, 20)
      /\ UNCHANGED <<mapAlreadyAskedFor, mapOrphanBlocks, m_blocks, getblocks, vInv>>
  BY DEF InvTooLarge
<1>3. Reset(p) /\ conn' \subseteq Peers /\ setBanned' \subseteq Peers /\ setBanned' \subseteq setBanned \cup {p}
  BY <1>1, <1>2, MisbehavingResets
<1>4. FetchTypes'
  BY <1>1, <1>2, <1>3 DEF FetchTypes, Reset
<1>5. LastSent'
  BY <1>1, <1>2, <1>3, ResetKeepsSent
<1>6. RootsAsked' /\ HonestUnpunished'
  BY <1>1, <1>2, <1>3, BlockFetchAssumption DEF RootsAsked, HonestUnpunished, Reset
<1>7. Undisturbed
  BY <1>2, <1>3 DEF Undisturbed, Reset, Held, Accepted
<1> QED  BY <1>1, <1>4, <1>5, <1>6, <1>7, UndisturbedStays DEF FetchInv

\* An honest peer's block is refused only as a duplicate, at no penalty.
LEMMA BlockRefusedKeeps ==
    ASSUME FetchInv, NEW p \in Peers, NEW b \in Blocks, BlockRefused(p, b)
    PROVE  FetchInv'
<1>1. FetchTypes /\ LastSent /\ RootsAsked /\ HonestUnpunished /\ LastRemembered /\ TwoApart
  BY DEF FetchInv
<1>2. /\ p \in Honest => b \in Checked
      /\ AlreadyHave(b) \/ b \notin Checked
      /\ Misbehaving(p, PenaltyOf(b)) /\ mapAlreadyAskedFor' = AskedAfter(b, FALSE)
      /\ UNCHANGED <<mapOrphanBlocks, m_blocks, getblocks, vInv>>
  BY DEF BlockRefused, Received
<1>3. PenaltyOf(b) \in Nat /\ (p \in Honest => PenaltyOf(b) = 0)
  BY <1>2, BlockFetchAssumption DEF PenaltyOf
<1>4. /\ Reset(p) /\ conn' \subseteq Peers /\ setBanned' \subseteq Peers
      /\ setBanned' \subseteq setBanned \cup {p}
      /\ PenaltyOf(b) = 0 => setBanned' = setBanned /\ nMisbehavior'[p] = nMisbehavior[p]
  BY <1>1, <1>2, <1>3, MisbehavingResets
<1>5. mapAlreadyAskedFor' = mapAlreadyAskedFor
  BY <1>1, <1>2 DEF AskedAfter, FetchTypes
<1>6. FetchTypes'
  BY <1>1, <1>2, <1>4, <1>5 DEF FetchTypes, Reset
<1>7. LastSent'
  BY <1>1, <1>2, <1>4, ResetKeepsSent
<1>8. RootsAsked'
  BY <1>1, <1>2 DEF RootsAsked
<1>9. HonestUnpunished'
  BY <1>1, <1>3, <1>4, BlockFetchAssumption DEF HonestUnpunished, Reset
<1>10. Undisturbed
  BY <1>2, <1>4, <1>5 DEF Undisturbed, Reset, Held, Accepted
<1> QED  BY <1>1, <1>6, <1>7, <1>8, <1>9, <1>10, UndisturbedStays DEF FetchInv

LEMMA InvKeeps ==
    ASSUME FetchInv, NEW p \in Peers, NEW blocks \in Seq(Blocks), Inv(p, blocks)
    PROVE  FetchInv'
<1>1. FetchTypes /\ LastSent /\ RootsAsked /\ HonestUnpunished /\ LastRemembered /\ TwoApart
  BY DEF FetchInv
<1>2. /\ vInv' = [i \in 1..Len(blocks) |-> [pfrom |-> p, hash |-> blocks[i]]]
      /\ UNCHANGED <<conn, setBanned, mapAskFor, hashLastGetBlocksEnd, fStartSync, nMisbehavior, getdata,
                     mapAlreadyAskedFor, mapOrphanBlocks, m_blocks, getblocks>>
  BY DEF Inv, node
<1>3. vInv' \in Seq(Entries)
  <2>1. Len(blocks) \in Nat /\ \A i \in 1..Len(blocks) : blocks[i] \in Blocks
    OBVIOUS
  <2>2. \A i \in 1..Len(blocks) : [pfrom |-> p, hash |-> blocks[i]] \in Entries
    BY <2>1 DEF Entries
  <2> QED  BY <1>2, <2>1, <2>2, SeqDef
<1>4. FetchTypes'
  BY <1>1, <1>2, <1>3 DEF FetchTypes
<1>5. LastSent' /\ RootsAsked' /\ HonestUnpunished'
  BY <1>1, <1>2 DEF LastSent, RootsAsked, HonestUnpunished
<1>6. LastRemembered' /\ TwoApart'
  BY <1>1, <1>2 DEF LastRemembered, TwoApart, Held, Accepted
<1> QED  BY <1>4, <1>5, <1>6 DEF FetchInv

LEMMA StartSyncKeeps ==
    ASSUME FetchInv, NEW p \in Peers, StartSync(p)
    PROVE  FetchInv'
<1>1. FetchTypes /\ LastSent /\ RootsAsked /\ HonestUnpunished /\ LastRemembered /\ TwoApart
  BY DEF FetchInv
<1>2. /\ fStartSync' = [fStartSync EXCEPT ![p] = TRUE]
      /\ UNCHANGED <<conn, setBanned, mapAskFor, hashLastGetBlocksEnd, nMisbehavior, getdata,
                     mapAlreadyAskedFor, mapOrphanBlocks, m_blocks, getblocks, vInv>>
  BY DEF StartSync
<1>3. FetchTypes'
  BY <1>1, <1>2 DEF FetchTypes
<1>4. LastSent' /\ RootsAsked' /\ HonestUnpunished'
  BY <1>1, <1>2 DEF LastSent, RootsAsked, HonestUnpunished
<1>5. LastRemembered' /\ TwoApart'
  BY <1>1, <1>2 DEF LastRemembered, TwoApart, Held, Accepted
<1> QED  BY <1>3, <1>4, <1>5 DEF FetchInv

\* The entry of an inv that is next.
LEMMA HeadOfInv ==
    ASSUME FetchTypes, ~Idle
    PROVE  Head(vInv).pfrom \in Peers /\ Head(vInv).hash \in Blocks /\ Tail(vInv) \in Seq(Entries)
<1>1. vInv \in Seq(Entries) /\ vInv # << >>
  BY DEF FetchTypes, Idle
<1>2. Head(vInv) \in Entries /\ Tail(vInv) \in Seq(Entries)
  BY <1>1
<1> QED  BY <1>2 DEF Entries

\* AskFor schedules the request Retry after the last one of the block.
LEMMA InvNewKeeps ==
    ASSUME FetchInv, InvNew
    PROVE  FetchInv'
<1> DEFINE p == Head(vInv).pfrom
           b == Head(vInv).hash
           at == IF b \in DOMAIN mapAlreadyAskedFor /\ mapAlreadyAskedFor[b] + Retry > 0
                 THEN mapAlreadyAskedFor[b] + Retry ELSE 0
<1>1. FetchTypes /\ LastSent /\ RootsAsked /\ HonestUnpunished /\ LastRemembered /\ TwoApart
  BY DEF FetchInv
<1>2. p \in Peers /\ b \in Blocks /\ Tail(vInv) \in Seq(Entries)
  BY <1>1, HeadOfInv DEF InvNew
<1>3. /\ mapAskFor' = [mapAskFor EXCEPT ![p] = @ \cup {[in |-> at, inv |-> b]}]
      /\ mapAlreadyAskedFor' = [x \in DOMAIN mapAlreadyAskedFor \cup {b} |->
                                  IF x = b THEN at ELSE mapAlreadyAskedFor[x]]
      /\ vInv' = Tail(vInv)
      /\ UNCHANGED <<conn, setBanned, hashLastGetBlocksEnd, fStartSync, nMisbehavior, getdata,
                     mapOrphanBlocks, m_blocks, getblocks>>
  BY DEF InvNew, AskFor
<1>4. Retry \in Nat \ {0}
  BY BlockFetchAssumption
<1>5. /\ at \in Nat
      /\ at > 0 => b \in DOMAIN mapAlreadyAskedFor /\ mapAlreadyAskedFor[b] = at - Retry
      /\ at = 0 /\ b \in DOMAIN mapAlreadyAskedFor => mapAlreadyAskedFor[b] <= 0
  BY <1>1, <1>4 DEF FetchTypes
<1>6. /\ DOMAIN mapAlreadyAskedFor \subseteq DOMAIN mapAlreadyAskedFor' /\ b \in DOMAIN mapAlreadyAskedFor'
      /\ mapAlreadyAskedFor'[b] = at
      /\ \A x \in DOMAIN mapAlreadyAskedFor : x # b => mapAlreadyAskedFor'[x] = mapAlreadyAskedFor[x]
  BY <1>3
<1>7. \A q \in Peers : \A r \in mapAskFor'[q] :
         r \in mapAskFor[q] \/ (q = p /\ r.in = at /\ r.inv = b)
  BY <1>1, <1>2, <1>3 DEF FetchTypes
<1> HIDE DEF p, b, at
<1>8. [in |-> at, inv |-> b] \in Requests
  BY <1>2, <1>5 DEF Requests
<1>9. FetchTypes'
  BY <1>1, <1>2, <1>3, <1>5, <1>8 DEF FetchTypes
<1>10. LastSent' /\ RootsAsked' /\ HonestUnpunished'
  BY <1>1, <1>3 DEF LastSent, RootsAsked, HonestUnpunished
<1>11. Held' = Held
  BY <1>3 DEF Held, Accepted
\* No request of b that is scheduled is later than at - Retry.
<1>12. \A q \in Peers : \A r \in mapAskFor[q] :
          b \notin Held /\ r.inv = b /\ r.in > 0 => at > 0 /\ r.in <= at - Retry
  <2> SUFFICES ASSUME NEW q \in Peers, NEW r \in mapAskFor[q], b \notin Held, r.inv = b, r.in > 0
               PROVE  at > 0 /\ r.in <= at - Retry
    OBVIOUS
  <2>1. r.in \in Nat
    <3>1. r \in Requests
      BY <1>1 DEF FetchTypes
    <3> QED  BY <3>1 DEF Requests
  <2>2. b \in DOMAIN mapAlreadyAskedFor /\ r.in <= mapAlreadyAskedFor[b]
    BY <1>1, <1>2 DEF LastRemembered
  <2>3. mapAlreadyAskedFor[b] \in Int
    BY <1>1, <2>2 DEF FetchTypes
  <2> QED  BY <1>5, <2>1, <2>2, <2>3
<1>13. LastRemembered'
  <2> SUFFICES ASSUME NEW x \in Blocks \ Held, NEW q \in Peers, NEW r \in mapAskFor'[q],
                      r.inv = x, r.in > 0
               PROVE  x \in DOMAIN mapAlreadyAskedFor' /\ r.in <= mapAlreadyAskedFor'[x]
    BY <1>11 DEF LastRemembered
  <2>1. CASE r \in mapAskFor[q] /\ x # b
    BY <1>1, <1>6, <2>1 DEF LastRemembered
  <2>2. CASE r \in mapAskFor[q] /\ x = b
    <3>1. r.in \in Nat
      <4>1. r \in Requests
        BY <1>1, <2>2 DEF FetchTypes
      <4> QED  BY <4>1 DEF Requests
    <3>2. r.in <= at - Retry
      BY <1>12, <2>2
    <3> QED  BY <1>4, <1>5, <1>6, <2>2, <3>1, <3>2
  <2>3. CASE q = p /\ r.in = at /\ r.inv = b
    BY <1>5, <1>6, <2>3
  <2> QED  BY <1>7, <2>1, <2>2, <2>3
<1>14. TwoApart'
  <2> SUFFICES ASSUME NEW x \in Blocks \ Held, NEW q1 \in Peers, NEW q2 \in Peers,
                      NEW r \in mapAskFor'[q1], NEW s \in mapAskFor'[q2],
                      r.inv = x, s.inv = x, r.in > 0, s.in > 0, q1 # q2 \/ r.in # s.in
               PROVE  r.in - s.in >= Retry \/ s.in - r.in >= Retry
    BY <1>11 DEF TwoApart
  <2>1. r.in \in Nat /\ s.in \in Nat
    <3>1. r \in Requests /\ s \in Requests
      BY <1>9 DEF FetchTypes
    <3> QED  BY <3>1 DEF Requests
  <2>2. CASE r \in mapAskFor[q1] /\ s \in mapAskFor[q2]
    BY <1>1, <2>2 DEF TwoApart
  <2>3. CASE r \in mapAskFor[q1] /\ q2 = p /\ s.in = at /\ s.inv = b
    <3>1. r.in <= at - Retry
      BY <1>12, <2>3
    <3> QED  BY <1>4, <1>5, <2>1, <2>3, <3>1
  <2>4. CASE s \in mapAskFor[q2] /\ q1 = p /\ r.in = at /\ r.inv = b
    <3>1. s.in <= at - Retry
      BY <1>12, <2>4
    <3> QED  BY <1>4, <1>5, <2>1, <2>4, <3>1
  <2>5. CASE q1 = p /\ r.in = at /\ q2 = p /\ s.in = at
    BY <2>5
  <2> QED  BY <1>7, <2>2, <2>3, <2>4, <2>5
<1> QED  BY <1>9, <1>10, <1>13, <1>14 DEF FetchInv

LEMMA InvOrphanKeeps ==
    ASSUME FetchInv, InvOrphan
    PROVE  FetchInv'
<1> DEFINE p == Head(vInv).pfrom
           root == GetOrphanRoot(mapOrphanBlocks, Head(vInv).hash)
<1>1. FetchTypes /\ LastSent /\ RootsAsked /\ HonestUnpunished /\ LastRemembered /\ TwoApart
  BY DEF FetchInv
<1>2. /\ Head(vInv).hash \in mapOrphanBlocks /\ PushGetBlocks(p, root) /\ vInv' = Tail(vInv)
      /\ UNCHANGED <<conn, setBanned, mapAskFor, mapAlreadyAskedFor, fStartSync, nMisbehavior, getdata,
                     mapOrphanBlocks, m_blocks>>
  BY DEF InvOrphan
<1>3. p \in Peers /\ Tail(vInv) \in Seq(Entries)
  BY <1>1, HeadOfInv DEF InvOrphan
<1>4. root \in mapOrphanBlocks /\ root \in Blocks
  BY <1>1, <1>2, RootIsFirst DEF FetchTypes
<1> HIDE DEF p, root
<1>5. /\ hashLastGetBlocksEnd' \in [Peers -> Blocks \cup {Zero}]
      /\ getblocks' \subseteq Blocks \cup {Zero} /\ getblocks \subseteq getblocks' /\ LastSent'
  BY <1>1, <1>2, <1>3, <1>4, PushAsks
<1>6. FetchTypes'
  BY <1>1, <1>2, <1>3, <1>5 DEF FetchTypes
<1>7. RootsAsked' /\ HonestUnpunished'
  BY <1>1, <1>2, <1>5 DEF RootsAsked, HonestUnpunished
<1>8. LastRemembered' /\ TwoApart'
  BY <1>1, <1>2 DEF LastRemembered, TwoApart, Held, Accepted
<1> QED  BY <1>5, <1>6, <1>7, <1>8 DEF FetchInv

\* What AskedAfter forgets is at most the block that came.
LEMMA AskedAfterKeeps ==
    ASSUME FetchTypes, NEW b \in Blocks, mapAlreadyAskedFor' = AskedAfter(b, TRUE)
    PROVE  /\ DOMAIN mapAlreadyAskedFor' \subseteq Blocks
           /\ mapAlreadyAskedFor' \in [DOMAIN mapAlreadyAskedFor' -> Int]
           /\ \A x \in DOMAIN mapAlreadyAskedFor \ {b} :
                 x \in DOMAIN mapAlreadyAskedFor' /\ mapAlreadyAskedFor'[x] = mapAlreadyAskedFor[x]
  BY DEF FetchTypes, AskedAfter

\* The parent of a new orphan is asked for with the first block of its chain.
LEMMA BlockOrphanKeeps ==
    ASSUME FetchInv, NEW p \in Peers, NEW b \in Blocks, BlockOrphan(p, b)
    PROVE  FetchInv'
<1> DEFINE root == GetOrphanRoot(mapOrphanBlocks \cup {b}, b)
<1>1. FetchTypes /\ LastSent /\ RootsAsked /\ HonestUnpunished /\ LastRemembered /\ TwoApart
  BY DEF FetchInv
<1>2. /\ mapOrphanBlocks' = mapOrphanBlocks \cup {b} /\ PushGetBlocks(p, root)
      /\ mapAlreadyAskedFor' = AskedAfter(b, TRUE) /\ getdata' = [getdata EXCEPT ![p] = @ \ {b}]
      /\ UNCHANGED <<conn, setBanned, mapAskFor, fStartSync, nMisbehavior, m_blocks, vInv>>
  BY DEF BlockOrphan
<1>3. mapOrphanBlocks' \in SUBSET Blocks /\ IsFiniteSet(mapOrphanBlocks') /\ b \in mapOrphanBlocks'
  BY <1>1, <1>2, FS_AddElement DEF FetchTypes
<1>4. root = GetOrphanRoot(mapOrphanBlocks', b)
  BY <1>2
<1> HIDE DEF root
<1>5. root \in Blocks
  BY <1>3, <1>4, RootIsFirst
<1>6. /\ hashLastGetBlocksEnd' \in [Peers -> Blocks \cup {Zero}]
      /\ getblocks' \subseteq Blocks \cup {Zero} /\ getblocks \subseteq getblocks' /\ LastSent'
      /\ root # Zero => root \in getblocks'
  BY <1>1, <1>2, <1>5, PushAsks
<1>7. getdata' \in [Peers -> SUBSET Blocks]
  BY <1>1, <1>2 DEF FetchTypes
<1>8. FetchTypes'
  BY <1>1, <1>2, <1>3, <1>6, <1>7, AskedAfterKeeps DEF FetchTypes
<1>9. RootsAsked'
  <2> SUFFICES ASSUME NEW x \in mapOrphanBlocks', hashPrevBlock[x] \notin mapOrphanBlocks'
               PROVE  x \in getblocks'
    BY DEF RootsAsked
  <2>1. CASE x \in mapOrphanBlocks
    BY <1>1, <1>2, <1>6, <2>1 DEF RootsAsked
  <2>2. CASE x = b
    <3>1. root = b
      BY <1>3, <1>4, <2>2, RootOfFirst
    <3> QED  BY <1>6, <2>2, <3>1, BlockFetchAssumption
  <2> QED  BY <1>2, <2>1, <2>2
<1>10. HonestUnpunished'
  BY <1>1, <1>2 DEF HonestUnpunished
<1>11. Undisturbed
  <2>1. Held \subseteq Held' /\ b \in Held'
    BY <1>2 DEF Held, Accepted
  <2> QED  BY <1>1, <1>2, <2>1, AskedAfterKeeps DEF Undisturbed
<1> QED  BY <1>1, <1>6, <1>8, <1>9, <1>10, <1>11, UndisturbedStays DEF FetchInv

LEMMA BlockAcceptedKeeps ==
    ASSUME FetchInv, NEW p \in Peers, NEW b \in Blocks, BlockAccepted(p, b)
    PROVE  FetchInv'
<1>1. FetchTypes /\ LastSent /\ RootsAsked /\ HonestUnpunished /\ LastRemembered /\ TwoApart
  BY DEF FetchInv
<1>2. /\ m_blocks' = Append(m_blocks, b) /\ mapAlreadyAskedFor' = AskedAfter(b, TRUE)
      /\ getdata' = [getdata EXCEPT ![p] = @ \ {b}]
      /\ UNCHANGED <<conn, setBanned, mapAskFor, hashLastGetBlocksEnd, fStartSync, nMisbehavior,
                     mapOrphanBlocks, getblocks, vInv>>
  BY DEF BlockAccepted
<1>3. m_blocks \in Seq(Blocks)
  BY <1>1 DEF FetchTypes
<1>4. m_blocks' \in Seq(Blocks) /\ getdata' \in [Peers -> SUBSET Blocks]
  BY <1>1, <1>2, <1>3 DEF FetchTypes
<1>5. FetchTypes'
  BY <1>1, <1>2, <1>4, AskedAfterKeeps DEF FetchTypes
<1>6. LastSent' /\ RootsAsked' /\ HonestUnpunished'
  BY <1>1, <1>2 DEF LastSent, RootsAsked, HonestUnpunished
<1>7. Accepted' = Accepted \cup {b}
  <2>1. /\ Len(m_blocks') = Len(m_blocks) + 1 /\ Len(m_blocks) \in Nat
        /\ \A i \in 1..Len(m_blocks) : m_blocks'[i] = m_blocks[i]
        /\ m_blocks'[Len(m_blocks) + 1] = b
    BY <1>2, <1>3
  <2> QED  BY <2>1 DEF Accepted
<1>8. Undisturbed
  <2>1. Held \subseteq Held' /\ b \in Held'
    BY <1>2, <1>7 DEF Held
  <2> QED  BY <1>1, <1>2, <2>1, AskedAfterKeeps DEF Undisturbed
<1> QED  BY <1>1, <1>5, <1>6, <1>8, UndisturbedStays DEF FetchInv

LEMMA SendMessagesKeeps ==
    ASSUME FetchInv, NEW p \in Peers, SendMessages(p)
    PROVE  FetchInv'
<1>1. FetchTypes /\ LastSent /\ RootsAsked /\ HonestUnpunished /\ LastRemembered /\ TwoApart
  BY DEF FetchInv
<1>2. /\ fStartSync' = [fStartSync EXCEPT ![p] = FALSE]
      /\ PushGetBlocks(p, Zero) \/ UNCHANGED <<hashLastGetBlocksEnd, getblocks>>
      /\ getdata' = [getdata EXCEPT ![p] = @ \cup {r.inv : r \in {x \in Due(p) : ~AlreadyHave(x.inv)}}]
      /\ mapAskFor' = [mapAskFor EXCEPT ![p] = @ \ Due(p)]
      /\ UNCHANGED <<conn, setBanned, nMisbehavior, mapAlreadyAskedFor, mapOrphanBlocks, m_blocks, vInv>>
  BY DEF SendMessages
<1>3. /\ hashLastGetBlocksEnd' \in [Peers -> Blocks \cup {Zero}]
      /\ getblocks' \subseteq Blocks \cup {Zero} /\ getblocks \subseteq getblocks' /\ LastSent'
  <2>1. CASE PushGetBlocks(p, Zero)
    BY <1>1, <2>1, PushAsks
  <2>2. CASE UNCHANGED <<hashLastGetBlocksEnd, getblocks>>
    BY <1>1, <2>2 DEF FetchTypes, LastSent
  <2> QED  BY <1>2, <2>1, <2>2
<1>4. getdata' \in [Peers -> SUBSET Blocks]
  <2>1. \A r \in Due(p) : r.inv \in Blocks
    BY <1>1 DEF Due, FetchTypes, Requests
  <2> QED  BY <1>1, <1>2, <2>1 DEF FetchTypes
<1>5. mapAskFor' \in [Peers -> SUBSET Requests] /\ \A q \in Peers : mapAskFor'[q] \subseteq mapAskFor[q]
  BY <1>1, <1>2 DEF FetchTypes
<1>6. FetchTypes'
  BY <1>1, <1>2, <1>3, <1>4, <1>5 DEF FetchTypes
<1>7. RootsAsked' /\ HonestUnpunished'
  BY <1>1, <1>2, <1>3 DEF RootsAsked, HonestUnpunished
<1>8. Undisturbed
  BY <1>2, <1>5 DEF Undisturbed, Held, Accepted
<1> QED  BY <1>1, <1>3, <1>6, <1>7, <1>8, UndisturbedStays DEF FetchInv
----------------------------------------------------------------------------

LEMMA InitFetches == Init => FetchInv
<1> SUFFICES ASSUME Init PROVE FetchInv
  OBVIOUS
<1>1. BanScore \in Nat \ {0}
  BY BlockFetchAssumption
<1>2. IsFiniteSet({}) /\ << >> \in Seq(Blocks) /\ << >> \in Seq(Entries)
  BY FS_EmptySet
<1>3. DOMAIN << >> = {} /\ << >> \in [{} -> Int]
  OBVIOUS
<1>4. FetchTypes
  BY <1>1, <1>2, <1>3 DEF Init, FetchTypes
<1>5. LastSent /\ RootsAsked /\ HonestUnpunished
  BY BlockFetchAssumption DEF Init, LastSent, RootsAsked, HonestUnpunished
<1>6. LastRemembered /\ TwoApart
  BY DEF Init, LastRemembered, TwoApart
<1> QED  BY <1>4, <1>5, <1>6 DEF FetchInv

LEMMA NextFetches == FetchInv /\ [Next]_vars => FetchInv'
<1> SUFFICES ASSUME FetchInv, [Next]_vars PROVE FetchInv'
  OBVIOUS
<1>1. ASSUME NEW p \in Peers, Connect(p) \/ Disconnect(p) PROVE FetchInv'
  BY <1>1, ConnectKeeps
<1>2. ASSUME NEW p \in Peers, BanEnds(p) PROVE FetchInv'
  BY <1>2, BanEndsKeeps
<1>3. ASSUME NEW p \in Peers, StartSync(p) PROVE FetchInv'
  BY <1>3, StartSyncKeeps
<1>4. ASSUME NEW p \in Peers, SendMessages(p) PROVE FetchInv'
  BY <1>4, SendMessagesKeeps
<1>5. ASSUME NEW p \in Peers, InvTooLarge(p) PROVE FetchInv'
  BY <1>5, InvTooLargeKeeps
<1>6. ASSUME NEW p \in Peers, NEW b \in Blocks, BlockRefused(p, b) PROVE FetchInv'
  BY <1>6, BlockRefusedKeeps
<1>7. ASSUME NEW p \in Peers, NEW b \in Blocks, BlockOrphan(p, b) PROVE FetchInv'
  BY <1>7, BlockOrphanKeeps
<1>8. ASSUME NEW p \in Peers, NEW b \in Blocks, BlockAccepted(p, b) PROVE FetchInv'
  BY <1>8, BlockAcceptedKeeps
<1>9. ASSUME NEW p \in Peers, NEW b \in Blocks, NEW c \in Blocks, Inv(p, <<b>>) \/ Inv(p, <<b, c>>)
      PROVE  FetchInv'
  <2>1. <<b>> \in Seq(Blocks) /\ <<b, c>> \in Seq(Blocks)
    OBVIOUS
  <2> QED  BY <1>9, <2>1, InvKeeps
<1>10. ASSUME UNCHANGED vars PROVE FetchInv'
  BY <1>10 DEF vars, node, FetchInv, FetchTypes, LastSent, RootsAsked, HonestUnpunished,
               LastRemembered, TwoApart, Held, Accepted
<1> QED  BY <1>1, <1>2, <1>3, <1>4, <1>5, <1>6, <1>7, <1>8, <1>9, <1>10, TickKeeps, InvNewKeeps,
            InvOrphanKeeps DEF Next

----------------------------------------------------------------------------
(* The theorems.                                                           *)

\* Every state satisfies the inductive invariant.
LEMMA Fetches == Spec => []FetchInv
<1>1. Init => FetchInv
  BY InitFetches
<1>2. FetchInv /\ [Next]_vars => FetchInv'
  BY NextFetches
<1> QED  BY <1>1, <1>2, PTL DEF Spec

\* Misbehaving never costs a peer anything that sends only blocks CheckBlock takes, whatever
\* it sends twice, unasked or in whatever order.
THEOREM HonestPeersUnpunished == Spec => []HonestUnpunished
<1>1. FetchInv => HonestUnpunished
  BY DEF FetchInv
<1> QED  BY <1>1, Fetches, PTL

\* The requests AskFor schedules for a block that has not come are Retry apart, with
\* whichever peers.
THEOREM RequestsStayApart == Spec => []RequestsApart
<1>1. FetchInv => RequestsApart
  <2> SUFFICES ASSUME FetchInv, NEW b \in Blocks \ (Accepted \cup mapOrphanBlocks),
                      NEW f \in Future(b), NEW g \in Future(b), f # g
               PROVE  f.in - g.in >= Retry \/ g.in - f.in >= Retry
    BY DEF RequestsApart
  <2>1. TwoApart
    BY DEF FetchInv
  <2>2. \A h \in Future(b) : \E p \in Peers : \E r \in mapAskFor[p] :
           h = [peer |-> p, in |-> r.in] /\ r.inv = b /\ r.in > 0
    BY DEF Future
  <2>3. PICK p \in Peers : \E r \in mapAskFor[p] : f = [peer |-> p, in |-> r.in] /\ r.inv = b /\ r.in > 0
    BY <2>2
  <2>4. PICK r \in mapAskFor[p] : f = [peer |-> p, in |-> r.in] /\ r.inv = b /\ r.in > 0
    BY <2>3
  <2>5. PICK q \in Peers : \E s \in mapAskFor[q] : g = [peer |-> q, in |-> s.in] /\ s.inv = b /\ s.in > 0
    BY <2>2
  <2>6. PICK s \in mapAskFor[q] : g = [peer |-> q, in |-> s.in] /\ s.inv = b /\ s.in > 0
    BY <2>5
  <2>7. p # q \/ r.in # s.in
    BY <2>4, <2>6
  <2>8. r.in - s.in >= Retry \/ s.in - r.in >= Retry
    BY <2>1, <2>4, <2>6, <2>7 DEF TwoApart, Held
  <2> QED  BY <2>4, <2>6, <2>8
<1> QED  BY <1>1, Fetches, PTL

\* A new end of a getblocks is the first block of a chain of orphans.
EndsAtRoot ==
    \A p \in Peers :
        LET h == hashLastGetBlocksEnd'[p]
        IN  h # hashLastGetBlocksEnd[p] /\ h # Zero =>
              h \in mapOrphanBlocks' /\ hashPrevBlock[h] \notin mapOrphanBlocks'

LEMMA PushEndsAtRoot ==
    ASSUME FetchInv, NEW p \in Peers, NEW hashEnd \in Blocks \cup {Zero}, PushGetBlocks(p, hashEnd),
           hashEnd # Zero => hashEnd \in mapOrphanBlocks' /\ hashPrevBlock[hashEnd] \notin mapOrphanBlocks'
    PROVE  EndsAtRoot
<1>1. FetchTypes /\ LastSent
  BY DEF FetchInv
<1>2. \A q \in Peers : hashLastGetBlocksEnd'[q] \in {hashLastGetBlocksEnd[q], hashEnd}
  BY <1>1, PushAsks
<1> QED  BY <1>2 DEF EndsAtRoot

LEMMA NextEndsAtRoot == FetchInv /\ [Next]_vars => [EndsAtRoot]_vars
<1> SUFFICES ASSUME FetchInv, Next PROVE EndsAtRoot
  OBVIOUS
<1>1. FetchTypes /\ LastSent
  BY DEF FetchInv
<1>2. ASSUME hashLastGetBlocksEnd' = hashLastGetBlocksEnd PROVE EndsAtRoot
  BY <1>2 DEF EndsAtRoot
<1>3. ASSUME NEW p, Reset(p) PROVE EndsAtRoot
  BY <1>3 DEF EndsAtRoot, Reset
<1>4. ASSUME NEW p \in Peers, Connect(p) \/ Disconnect(p) PROVE EndsAtRoot
  <2>1. Fresh(p)
    BY <1>4 DEF Connect, Disconnect
  <2> QED  BY <1>1, <1>3, <2>1, FreshResets
<1>5. ASSUME NEW p \in Peers, InvTooLarge(p) PROVE EndsAtRoot
  <2>1. Misbehaving(p, 20)
    BY <1>5 DEF InvTooLarge
  <2> QED  BY <1>1, <1>3, <2>1, MisbehavingResets
<1>6. ASSUME NEW p \in Peers, NEW b \in Blocks, BlockRefused(p, b) PROVE EndsAtRoot
  <2>1. Misbehaving(p, PenaltyOf(b)) /\ (AlreadyHave(b) \/ b \notin Checked)
    BY <1>6 DEF BlockRefused
  <2>2. PenaltyOf(b) \in Nat
    BY <2>1, BlockFetchAssumption DEF PenaltyOf
  <2> QED  BY <1>1, <1>3, <2>1, <2>2, MisbehavingResets
<1>7. ASSUME NEW p \in Peers, NEW b \in Blocks, BlockOrphan(p, b) PROVE EndsAtRoot
  <2> DEFINE root == GetOrphanRoot(mapOrphanBlocks \cup {b}, b)
  <2>1. mapOrphanBlocks' = mapOrphanBlocks \cup {b} /\ PushGetBlocks(p, root)
    BY <1>7 DEF BlockOrphan
  <2>2. mapOrphanBlocks' \in SUBSET Blocks /\ IsFiniteSet(mapOrphanBlocks') /\ b \in mapOrphanBlocks'
    BY <1>1, <2>1, FS_AddElement DEF FetchTypes
  <2>3. root = GetOrphanRoot(mapOrphanBlocks', b)
    BY <2>1
  <2> HIDE DEF root
  <2>4. root \in Blocks /\ root \in mapOrphanBlocks' /\ hashPrevBlock[root] \notin mapOrphanBlocks'
    BY <2>2, <2>3, RootIsFirst
  <2> QED  BY <2>1, <2>4, PushEndsAtRoot
<1>8. ASSUME InvOrphan PROVE EndsAtRoot
  <2> DEFINE p == Head(vInv).pfrom
             root == GetOrphanRoot(mapOrphanBlocks, Head(vInv).hash)
  <2>1. Head(vInv).hash \in mapOrphanBlocks /\ PushGetBlocks(p, root) /\ mapOrphanBlocks' = mapOrphanBlocks
    BY <1>8 DEF InvOrphan
  <2>2. p \in Peers
    BY <1>1, <1>8, HeadOfInv DEF InvOrphan
  <2>3. root \in mapOrphanBlocks /\ root \in Blocks /\ hashPrevBlock[root] \notin mapOrphanBlocks
    BY <1>1, <2>1, RootIsFirst DEF FetchTypes
  <2> HIDE DEF p, root
  <2> QED  BY <2>1, <2>2, <2>3, PushEndsAtRoot
<1>9. ASSUME NEW p \in Peers, SendMessages(p) PROVE EndsAtRoot
  <2>1. CASE PushGetBlocks(p, Zero)
    BY <2>1, PushEndsAtRoot
  <2>2. CASE UNCHANGED <<hashLastGetBlocksEnd, getblocks>>
    BY <1>2, <2>2
  <2> QED  BY <1>9, <2>1, <2>2 DEF SendMessages
<1>10. ASSUME Tick \/ InvNew PROVE EndsAtRoot
  BY <1>2, <1>10 DEF Tick, InvNew
<1>11. ASSUME NEW p \in Peers, BanEnds(p) \/ StartSync(p) PROVE EndsAtRoot
  BY <1>2, <1>11 DEF BanEnds, StartSync, node
<1>12. ASSUME NEW p \in Peers, NEW b \in Blocks, BlockAccepted(p, b) PROVE EndsAtRoot
  BY <1>2, <1>12 DEF BlockAccepted
<1>13. ASSUME NEW p \in Peers, NEW blocks, Inv(p, blocks) PROVE EndsAtRoot
  BY <1>2, <1>13 DEF Inv, node
<1> QED  BY <1>4, <1>5, <1>6, <1>7, <1>8, <1>9, <1>10, <1>11, <1>12, <1>13 DEF Next

\* A getblocks for missing ancestors ends at the first block of a chain of orphans, in
\* whichever order its blocks came, and for every such chain one was sent.
THEOREM AncestorsAreAsked == Spec => AncestorsAsked
<1>1. FetchInv /\ [Next]_vars => [EndsAtRoot]_vars
  BY NextEndsAtRoot
<1>2. Spec => [][EndsAtRoot]_vars
  BY <1>1, Fetches, PTL DEF Spec
<1>3. [][EndsAtRoot]_vars => AsksForRoots
  <2>1. [EndsAtRoot]_vars =>
          [\A p \in Peers :
             LET h == hashLastGetBlocksEnd'[p]
             IN  h # hashLastGetBlocksEnd[p] /\ h # Zero =>
                   h \in mapOrphanBlocks' /\ hashPrevBlock[h] \notin mapOrphanBlocks']_vars
    BY DEF EndsAtRoot
  <2> QED  BY <2>1, PTL DEF AsksForRoots
<1>4. FetchInv => RootsAsked
  BY DEF FetchInv
<1>5. Spec => []RootsAsked
  BY <1>4, Fetches, PTL
<1> QED  BY <1>2, <1>3, <1>5, PTL DEF AncestorsAsked

----------------------------------------------------------------------------
(* The buffers of a connection.  Sums of lengths.                          *)

\* One unfolding of the sum of the first lengths.
UnfoldSum(l, sum) == [k \in 0..Len(l) |-> IF k = 0 THEN 0 ELSE sum[k - 1] + l[k]]

LEMMA UptoFact ==
    ASSUME NEW l \in Seq(Nat)
    PROVE  /\ Upto(l, 0) = 0
           /\ \A i \in 1..Len(l) : Upto(l, i) = Upto(l, i - 1) + l[i]
           /\ \A i \in 0..Len(l) : Upto(l, i) \in Nat
<1> DEFINE n == Len(l)
           T == [q \in (1..n) \X Nat |-> q[2] + l[q[1]]]
<1>1. n \in Nat /\ \A i \in 1..n : l[i] \in Nat
  OBVIOUS
<1>2. T \in [(1..n) \X Nat -> Nat] /\ \A i \in 1..n, x \in Nat : T[<<i, x>>] = x + l[i]
  BY <1>1
<1> HIDE DEF T
<1>3. PICK g \in [0..n -> Nat] : g = UnfoldOver(n, 0, T, g)
  <2> HIDE DEF n
  <2>1. LoopOver(Nat, 0, n, T)
    BY <1>1, <1>2 DEF LoopOver
  <2> QED  BY <2>1, FiniteRecursion
<1>4. g = UnfoldSum(l, g)
  <2>1. \A i \in 0..n : UnfoldOver(n, 0, T, g)[i] = UnfoldSum(l, g)[i]
    <3> SUFFICES ASSUME NEW i \in 0..n PROVE UnfoldOver(n, 0, T, g)[i] = UnfoldSum(l, g)[i]
      OBVIOUS
    <3>1. i # 0 => i \in 1..n /\ g[i - 1] \in Nat
      <4> HIDE DEF n
      <4>1. i # 0 => i \in 1..n /\ i - 1 \in 0..n
        BY <1>1
      <4> QED  BY <1>3, <4>1
    <3> QED  BY <1>1, <1>2, <3>1 DEF UnfoldOver, UnfoldSum
  <2> QED  BY <1>3, <2>1 DEF UnfoldOver, UnfoldSum
<1>5. PICK sum : sum = UnfoldSum(l, sum) /\ \A i : Upto(l, i) = sum[i]
  <2> DEFINE sum == CHOOSE x : x = UnfoldSum(l, x)
  <2>1. sum = UnfoldSum(l, sum)
    BY <1>4
  <2>2. \A i : Upto(l, i) = sum[i]
    BY DEF Upto, UnfoldSum
  <2> QED  BY <2>1, <2>2
<1>6. sum[0] = 0 /\ \A i \in 1..n : sum[i] = sum[i - 1] + l[i]
  <2>1. \A i \in 0..n : UnfoldSum(l, sum)[i] = IF i = 0 THEN 0 ELSE sum[i - 1] + l[i]
    BY DEF UnfoldSum
  <2> QED  BY <1>1, <1>5, <2>1
<1> DEFINE S == {i \in 0..n : sum[i] \in Nat}
<1>7. 0 \in S
  BY <1>1, <1>6
<1>8. ASSUME NEW i \in 1..n, i - 1 \in S PROVE i \in S
  BY <1>1, <1>6, <1>8
<1>9. \A i \in 0..n : i \in S
  <2> HIDE DEF S, n
  <2> QED  BY <1>1, <1>7, <1>8, UpTo
<1> QED  BY <1>5, <1>6, <1>9

LEMMA UptoGrows ==
    ASSUME NEW l \in Seq(Nat), NEW i \in 0..Len(l), NEW j \in i..Len(l)
    PROVE  Upto(l, i) <= Upto(l, j)
<1> DEFINE n == Len(l)
           S == {k \in 0..n : i <= k => Upto(l, i) <= Upto(l, k)}
<1>1. n \in Nat /\ i \in 0..n /\ j \in i..n /\ \A k \in 1..n : l[k] \in Nat
  OBVIOUS
<1>2. /\ \A k \in 1..n : Upto(l, k) = Upto(l, k - 1) + l[k]
      /\ \A k \in 0..n : Upto(l, k) \in Nat
  BY UptoFact
<1> HIDE DEF n
<1>3. 0 \in S
  BY <1>1, <1>2
<1>4. ASSUME NEW k \in 1..n, k - 1 \in S PROVE k \in S
  <2>1. k - 1 \in 0..n /\ k \in 0..n /\ Upto(l, k) = Upto(l, k - 1) + l[k]
    BY <1>1, <1>2
  <2>2. Upto(l, k) \in Nat /\ Upto(l, k - 1) \in Nat /\ Upto(l, i) \in Nat /\ l[k] \in Nat
    BY <1>1, <1>2, <2>1
  <2>3. CASE i = k
    BY <2>1, <2>2, <2>3
  <2>4. CASE i # k
    <3>1. i <= k => i <= k - 1
      BY <1>1, <2>4
    <3>2. i <= k => Upto(l, i) <= Upto(l, k - 1)
      BY <1>4, <3>1
    <3> QED  BY <2>1, <2>2, <3>2
  <2> QED  BY <2>3, <2>4
<1>5. \A k \in 0..n : k \in S
  <2> HIDE DEF S
  <2> QED  BY <1>1, <1>3, <1>4, UpTo
<1>6. j \in S
  BY <1>1, <1>5
<1> QED  BY <1>1, <1>6

\* Sums of the same lengths, from some place on.
LEMMA UptoDrop ==
    ASSUME NEW l \in Seq(Nat), NEW r \in Seq(Nat), NEW d \in 0..Len(l), NEW n \in Nat,
           d + n <= Len(l), n <= Len(r), \A i \in 1..n : r[i] = l[d + i]
    PROVE  \A i \in 0..n : Upto(r, i) = Upto(l, d + i) - Upto(l, d)
<1> DEFINE S == {i \in 0..n : Upto(r, i) = Upto(l, d + i) - Upto(l, d)}
           m == Len(l)
           t == Len(r)
<1>1. m \in Nat /\ t \in Nat /\ d \in 0..m /\ d + n <= m /\ n <= t
  OBVIOUS
<1>2. /\ \A k \in 1..m : Upto(l, k) = Upto(l, k - 1) + l[k]
      /\ \A k \in 0..m : Upto(l, k) \in Nat
      /\ Upto(r, 0) = 0 /\ \A k \in 1..t : Upto(r, k) = Upto(r, k - 1) + r[k]
      /\ \A k \in 1..m : l[k] \in Nat
  BY UptoFact
<1> HIDE DEF m, t
<1>3. 0 \in S
  <2>1. d + 0 = d /\ d \in 0..m
    BY <1>1
  <2>2. Upto(l, d) \in Nat
    BY <1>2, <2>1
  <2> QED  BY <1>2, <2>1, <2>2
<1>4. ASSUME NEW i \in 1..n, i - 1 \in S PROVE i \in S
  <2>1. i \in 1..t /\ d + i \in 1..m /\ d + (i - 1) = (d + i) - 1 /\ (d + i) - 1 \in 0..m
    BY <1>1
  <2>2. Upto(r, i) = Upto(r, i - 1) + l[d + i] /\ Upto(l, d + i) = Upto(l, (d + i) - 1) + l[d + i]
    BY <1>2, <2>1
  <2>3. Upto(r, i - 1) = Upto(l, (d + i) - 1) - Upto(l, d)
    BY <1>4, <2>1
  <2>4. Upto(l, (d + i) - 1) \in Nat /\ Upto(l, d) \in Nat /\ l[d + i] \in Nat
    <3>1. Upto(l, (d + i) - 1) \in Nat
      BY <1>2, <2>1
    <3>2. Upto(l, d) \in Nat
      BY <1>1, <1>2
    <3>3. l[d + i] \in Nat
      BY <1>2, <2>1, Zenon
    <3> QED  BY <3>1, <3>2, <3>3
  <2>5. Upto(r, i) = Upto(l, d + i) - Upto(l, d)
    <3> DEFINE x == l[d + i]
               before == Upto(l, (d + i) - 1)
               dropped == Upto(l, d)
    <3>1. x \in Nat /\ before \in Nat /\ dropped \in Nat
      BY <2>4
    <3>2. Upto(r, i) = Upto(r, i - 1) + x /\ Upto(l, d + i) = before + x /\ Upto(r, i - 1) = before - dropped
      BY <2>2, <2>3
    <3> HIDE DEF x, before, dropped
    <3>3. Upto(r, i) = (before + x) - dropped
      BY <3>1, <3>2
    <3> QED  BY <3>2, <3>3 DEF dropped
  <2>6. i \in 0..n
    OBVIOUS
  <2> QED  BY <2>5, <2>6
<1> HIDE DEF S
<1>5. \A i \in 0..n : i \in S
  BY <1>3, <1>4, UpTo
<1> QED  BY <1>5 DEF S
----------------------------------------------------------------------------
(* What is sent.  A cursor says which unit of which message comes next;    *)
(* its size is that of a message that has been begun.                      *)

SentMessages == [id : Nat, size : Sizes]

After(u) ==
    IF u.pos = HdrLen + u.size THEN [id |-> u.id + 1, pos |-> 1, size |-> 0]
    ELSE [id |-> u.id, pos |-> u.pos + 1, size |-> u.size]
Matches(c, u) ==
    /\ u \in Unit /\ u.id = c.id /\ u.pos = c.pos /\ u.pos \in 1..(HdrLen + u.size)
    /\ c.pos # 1 => u.size = c.size

\* Units that follow each other, the first one at the cursor; and where the last one leads.
Chain(c, s) == \A k \in 1..Len(s) : Matches(IF k = 1 THEN c ELSE After(s[k - 1]), s[k])
EndOf(c, s) == IF Len(s) = 0 THEN c ELSE After(s[Len(s)])

\* The cursor after j units of the messages, the last of which has the number last.
Position(msgs, last, j) ==
    LET i == SentInFull(msgs, j)
        gone == j - Upto(Lengths(msgs), i)
    IN  [id |-> last - Len(msgs) + i + 1, pos |-> gone + 1, size |-> IF gone = 0 THEN 0 ELSE msgs[i + 1].size]

Numbered(msgs, last) == \A i \in 1..Len(msgs) : msgs[i].id = last - Len(msgs) + i
OffsetValid(msgs, offset) ==
    offset \in Nat /\ IF msgs = << >> THEN offset = 0 ELSE offset < Length(msgs[1])

LEMMA LengthsFact ==
    ASSUME NEW msgs \in Seq(SentMessages)
    PROVE  /\ Lengths(msgs) \in Seq(Nat) /\ Len(Lengths(msgs)) = Len(msgs)
           /\ \A i \in 1..Len(msgs) : /\ Lengths(msgs)[i] = HdrLen + msgs[i].size
                                      /\ Lengths(msgs)[i] \in Nat \ {0} /\ msgs[i] \in SentMessages
<1>1. HdrLen \in Nat \ {0} /\ Sizes \subseteq Nat
  BY SocketBuffersAssumption
<1>2. Len(msgs) \in Nat /\ \A i \in 1..Len(msgs) : msgs[i] \in SentMessages
  OBVIOUS
<1>3. ASSUME NEW i \in 1..Len(msgs) PROVE HdrLen + msgs[i].size \in Nat \ {0}
  <2>1. msgs[i].size \in Nat
    BY <1>1, <1>2 DEF SentMessages
  <2> QED  BY <1>1, <2>1
<1> QED  BY <1>2, <1>3 DEF Lengths, Length

LEMMA SentFact ==
    ASSUME NEW msgs \in Seq(SentMessages), NEW units \in Nat
    PROVE  LET i == SentInFull(msgs, units)
           IN  /\ i \in 0..Len(msgs) /\ Upto(Lengths(msgs), i) <= units
               /\ i < Len(msgs) => units < Upto(Lengths(msgs), i + 1)
<1> DEFINE l == Lengths(msgs)
           n == Len(msgs)
           Above == {i \in Nat : i \in 0..n /\ Upto(l, i) > units}
<1>1. n \in Nat /\ Upto(l, 0) = 0 /\ \A i \in 0..n : Upto(l, i) \in Nat
  BY LengthsFact, UptoFact
<1> HIDE DEF l
<1>2. \E i \in 0..n : Upto(l, i) <= units /\ (i < n => Upto(l, i + 1) > units)
  <2> HIDE DEF n
  <2>1. CASE Above = {}
    <3>1. n \in 0..n /\ Upto(l, n) <= units
      BY <1>1, <2>1
    <3> QED  BY <1>1, <3>1
  <2>2. CASE Above # {}
    <3>1. PICK x \in Above : \A y \in Above : x <= y
      BY <2>2, LeastNumber
    <3>2. x \in 0..n /\ Upto(l, x) > units /\ x # 0
      BY <1>1, <3>1
    <3>3. x - 1 \in 0..n /\ x - 1 < n /\ (x - 1) + 1 = x /\ ~(x <= x - 1) /\ x - 1 \in Nat
      BY <1>1, <3>2
    <3>4. x - 1 \notin Above
      BY <3>1, <3>3
    <3>5. Upto(l, x - 1) \in Nat /\ ~(Upto(l, x - 1) > units)
      BY <1>1, <3>3, <3>4
    <3>6. Upto(l, x - 1) <= units
      BY <3>5
    <3> QED  BY <3>2, <3>3, <3>6
  <2> QED  BY <2>1, <2>2
<1>3. SentInFull(msgs, units) = CHOOSE i \in 0..n : Upto(l, i) <= units /\ (i < n => Upto(l, i + 1) > units)
  BY DEF SentInFull, l
<1> DEFINE i == SentInFull(msgs, units)
<1>4. i \in 0..n /\ Upto(l, i) <= units /\ (i < n => Upto(l, i + 1) > units)
  BY <1>2, <1>3
<1>5. i < n => Upto(l, i + 1) \in Nat
  <2> HIDE DEF i, n
  <2>1. i < n => i + 1 \in 0..n
    BY <1>1, <1>4
  <2> QED  BY <1>1, <2>1
<1> HIDE DEF i
<1>6. i < n => units < Upto(l, i + 1)
  BY <1>4, <1>5
<1> QED  BY <1>4, <1>6 DEF l, i

LEMMA SentUnique ==
    ASSUME NEW msgs \in Seq(SentMessages), NEW units \in Nat, NEW i \in 0..Len(msgs),
           Upto(Lengths(msgs), i) <= units, i < Len(msgs) => units < Upto(Lengths(msgs), i + 1)
    PROVE  SentInFull(msgs, units) = i
<1> DEFINE l == Lengths(msgs)
           n == Len(msgs)
           j == SentInFull(msgs, units)
<1>1. j \in 0..n /\ Upto(l, j) <= units /\ (j < n => units < Upto(l, j + 1))
  BY SentFact
<1>2. l \in Seq(Nat) /\ Len(l) = n /\ n \in Nat /\ \A k \in 0..n : Upto(l, k) \in Nat
  BY LengthsFact, UptoFact
<1>3. i \in 0..n /\ Upto(l, i) <= units /\ (i < n => units < Upto(l, i + 1))
  OBVIOUS
<1>4. \A a \in 0..n : \A b \in a..n : Upto(l, a) <= Upto(l, b)
  BY <1>2, UptoGrows
<1> HIDE DEF l, n, j
<1>5. ASSUME i < j PROVE FALSE
  <2>1. i + 1 \in 0..n /\ j \in (i + 1)..n /\ i < n
    BY <1>1, <1>2, <1>3, <1>5
  <2>2. Upto(l, i + 1) <= Upto(l, j) /\ Upto(l, i + 1) \in Nat /\ Upto(l, j) \in Nat
    BY <1>1, <1>2, <1>4, <2>1
  <2> QED  BY <1>1, <1>3, <2>1, <2>2
<1>6. ASSUME j < i PROVE FALSE
  <2>1. j + 1 \in 0..n /\ i \in (j + 1)..n /\ j < n
    BY <1>1, <1>2, <1>3, <1>6
  <2>2. Upto(l, j + 1) <= Upto(l, i) /\ Upto(l, j + 1) \in Nat /\ Upto(l, i) \in Nat
    BY <1>2, <1>3, <1>4, <2>1
  <2> QED  BY <1>1, <1>3, <2>1, <2>2
<1>7. j = i
  BY <1>1, <1>2, <1>3, <1>5, <1>6
<1> QED  BY <1>7 DEF j

\* Each unit is at the cursor, and leads to the next one.
LEMMA UnitFact ==
    ASSUME NEW msgs \in Seq(SentMessages), NEW last \in Nat, Numbered(msgs, last),
           NEW j \in Nat, j < Total(Lengths(msgs))
    PROVE  /\ Matches(Position(msgs, last, j), UnitAt(msgs, j + 1))
           /\ After(UnitAt(msgs, j + 1)) = Position(msgs, last, j + 1)
<1> DEFINE l == Lengths(msgs)
           n == Len(msgs)
           i == SentInFull(msgs, j)
           u == UnitAt(msgs, j + 1)
           gone == j - Upto(l, i)
<1>1. /\ l \in Seq(Nat) /\ Len(l) = n /\ n \in Nat
      /\ \A k \in 0..n : Upto(l, k) \in Nat
      /\ \A k \in 1..n : Upto(l, k) = Upto(l, k - 1) + l[k]
      /\ \A k \in 1..n : l[k] = HdrLen + msgs[k].size /\ l[k] \in Nat \ {0} /\ msgs[k] \in SentMessages
  BY LengthsFact, UptoFact
<1>2. i \in 0..n /\ Upto(l, i) <= j /\ (i < n => j < Upto(l, i + 1))
  BY SentFact
<1>3. i < n
  <2>1. Total(l) = Upto(l, n)
    BY <1>1 DEF Total
  <2> HIDE DEF l, i, n
  <2>2. i # n
    BY <1>1, <1>2, <2>1 DEF l
  <2> QED  BY <1>1, <1>2, <2>2
<1>4. (j + 1) - 1 = j
  OBVIOUS
<1>5. u = [id |-> msgs[i + 1].id, size |-> msgs[i + 1].size, pos |-> (j + 1) - Upto(l, i)]
  BY <1>4 DEF UnitAt
<1>6. Position(msgs, last, j) =
        [id |-> last - n + i + 1, pos |-> gone + 1, size |-> IF gone = 0 THEN 0 ELSE msgs[i + 1].size]
  BY DEF Position
<1>7. i + 1 \in 1..n /\ i + 1 \in 0..n /\ (i + 1) - 1 = i
  <2>1. n \in Nat /\ i \in 0..n /\ i < n
    BY <1>2, <1>3
  <2> HIDE DEF i, n
  <2> QED  BY <2>1
<1>8. /\ Upto(l, i + 1) = Upto(l, i) + l[i + 1] /\ Upto(l, i) \in Nat /\ Upto(l, i + 1) \in Nat
      /\ l[i + 1] = HdrLen + msgs[i + 1].size /\ msgs[i + 1] \in SentMessages
      /\ msgs[i + 1].id = last - n + (i + 1)
  <2>1. \A k \in 1..n : msgs[k].id = last - n + k
    BY DEF Numbered
  <2> HIDE DEF l, i, n
  <2> QED  BY <1>1, <1>2, <1>7, <2>1
<1>9. HdrLen \in Nat \ {0} /\ msgs[i + 1].size \in Nat /\ msgs[i + 1].size \in Sizes /\ msgs[i + 1].id \in Nat
  BY <1>8, SocketBuffersAssumption DEF SentMessages
<1> DEFINE size == msgs[i + 1].size
           sum == Upto(l, i)
           id == msgs[i + 1].id
<1>10. /\ sum \in Nat /\ sum <= j /\ j < sum + (HdrLen + size) /\ size \in Nat /\ HdrLen \in Nat \ {0}
       /\ id = last - n + (i + 1) /\ Upto(l, i + 1) = sum + (HdrLen + size) /\ i \in Nat /\ n \in Nat
  BY <1>1, <1>2, <1>3, <1>8, <1>9
<1>11. /\ u.id = id /\ u.size = size /\ u.pos = (j + 1) - sum /\ gone = j - sum
  BY <1>5
<1>12. Matches(Position(msgs, last, j), u)
  <2>1. u \in Unit
    <3>1. (j + 1) - sum \in Nat
      <4> HIDE DEF sum, size, id, n, i
      <4> QED  BY <1>10
    <3> QED  BY <1>5, <1>9, <3>1 DEF Unit
  <2>2. /\ Position(msgs, last, j).id = last - n + i + 1 /\ Position(msgs, last, j).pos = (j - sum) + 1
        /\ j - sum # 0 => Position(msgs, last, j).size = size
    BY <1>6
  <2> HIDE DEF u, sum, size, id, n, i
  <2>3. u.pos \in 1..(HdrLen + u.size)
    BY <1>10, <1>11
  <2>4. u.id = last - n + i + 1 /\ u.pos = (j - sum) + 1
    BY <1>10, <1>11
  <2>5. Position(msgs, last, j).pos # 1 => u.size = Position(msgs, last, j).size
    BY <1>10, <1>11, <2>2
  <2> QED  BY <2>1, <2>2, <2>3, <2>4, <2>5 DEF Matches
<1>13. After(u) = Position(msgs, last, j + 1)
  <2>1. CASE u.pos = HdrLen + u.size
    <3>1. j + 1 = Upto(l, i + 1)
      <4> HIDE DEF u, sum, size, id, n, i, l
      <4> QED  BY <1>10, <1>11, <2>1
    <3>2. SentInFull(msgs, j + 1) = i + 1
      <4>1. i + 1 < n => j + 1 < Upto(l, (i + 1) + 1)
        <5> SUFFICES ASSUME i + 1 < n PROVE j + 1 < Upto(l, (i + 1) + 1)
          OBVIOUS
        <5> DEFINE k == (i + 1) + 1
        <5>1. k \in 1..n /\ k \in 0..n /\ k - 1 = i + 1
          <6> HIDE DEF n, i
          <6> QED  BY <1>10
        <5> HIDE DEF k
        <5>2. Upto(l, k) = Upto(l, i + 1) + l[k] /\ l[k] \in Nat \ {0} /\ Upto(l, i + 1) \in Nat
          BY <1>1, <1>8, <5>1
        <5> HIDE DEF l, i, n
        <5>3. j + 1 < Upto(l, k)
          BY <3>1, <5>2
        <5> QED  BY <5>3 DEF k
      <4>2. Upto(l, i + 1) <= j + 1
        BY <3>1, <1>8
      <4> QED  BY <1>7, <4>1, <4>2, SentUnique
    <3>3. Position(msgs, last, j + 1) = [id |-> last - n + (i + 1) + 1, pos |-> 0 + 1, size |-> 0]
      <4>1. (j + 1) - Upto(l, i + 1) = 0
        BY <3>1
      <4> QED  BY <3>2, <4>1 DEF Position
    <3>4. id + 1 = last - n + (i + 1) + 1 /\ 0 + 1 = 1
      BY <1>10
    <3> QED  BY <1>11, <2>1, <3>3, <3>4 DEF After
  <2>2. CASE u.pos # HdrLen + u.size
    <3>1. j + 1 < Upto(l, i + 1) /\ Upto(l, i) <= j + 1
      <4> HIDE DEF u, size, id, n, i, l
      <4> QED  BY <1>10, <1>11, <2>2
    <3>2. SentInFull(msgs, j + 1) = i
      BY <1>2, <3>1, SentUnique
    <3>3. (j + 1) - sum # 0 /\ id = last - n + i + 1
      <4> HIDE DEF u, sum, size, id, n, i
      <4> QED  BY <1>10
    <3>4. Position(msgs, last, j + 1) = [id |-> last - n + i + 1, pos |-> ((j + 1) - sum) + 1, size |-> size]
      BY <3>2, <3>3 DEF Position
    <3> QED  BY <1>11, <2>2, <3>3, <3>4 DEF After
  <2> QED  BY <2>1, <2>2
<1> QED  BY <1>12, <1>13
LEMMA ConcatFact ==
    ASSUME NEW S, NEW s \in Seq(S), NEW t \in Seq(S)
    PROVE  /\ s \o t \in Seq(S) /\ Len(s \o t) = Len(s) + Len(t)
           /\ \A k \in 1..Len(s) : (s \o t)[k] = s[k]
           /\ \A k \in 1..Len(t) : (s \o t)[Len(s) + k] = t[k]
<1> DEFINE m == Len(s)
           n == Len(t)
           r == s \o t
<1>1. m \in Nat /\ n \in Nat
  OBVIOUS
<1>2. /\ r \in Seq(S) /\ Len(r) = m + n
      /\ \A i \in 1..(m + n) : r[i] = IF i <= m THEN s[i] ELSE t[i - m]
  BY ConcatProperties
<1> HIDE DEF m, n, r
<1>3. \A k \in 1..m : k \in 1..(m + n) /\ k <= m
  BY <1>1
<1>4. \A k \in 1..n : m + k \in 1..(m + n) /\ ~(m + k <= m) /\ (m + k) - m = k
  BY <1>1
<1>5. \A k \in 1..m : r[k] = s[k]
  BY <1>2, <1>3
<1>6. \A k \in 1..n : r[m + k] = t[k]
  BY <1>2, <1>4
<1> QED  BY <1>2, <1>5, <1>6 DEF m, n, r

LEMMA SuffixFact ==
    ASSUME NEW S, NEW s \in Seq(S), NEW d \in 0..Len(s)
    PROVE  /\ SubSeq(s, d + 1, Len(s)) \in Seq(S) /\ Len(SubSeq(s, d + 1, Len(s))) = Len(s) - d
           /\ \A i \in 1..(Len(s) - d) : SubSeq(s, d + 1, Len(s))[i] = s[d + i]
  OBVIOUS

LEMMA ChainConcat ==
    ASSUME NEW c, NEW s \in Seq(Unit), NEW t \in Seq(Unit), Chain(c, s), Chain(EndOf(c, s), t)
    PROVE  Chain(c, s \o t) /\ EndOf(c, s \o t) = EndOf(EndOf(c, s), t)
<1> DEFINE m == Len(s)
           n == Len(t)
           r == s \o t
<1>1. /\ m \in Nat /\ n \in Nat /\ Len(r) = m + n
      /\ \A k \in 1..m : r[k] = s[k]
      /\ \A k \in 1..n : r[m + k] = t[k]
  BY ConcatFact
<1>2. ASSUME NEW k \in 1..(m + n) PROVE Matches(IF k = 1 THEN c ELSE After(r[k - 1]), r[k])
  <2>1. CASE k <= m
    <3>1. k \in 1..m /\ (k # 1 => k - 1 \in 1..m)
      <4> HIDE DEF m, n
      <4> QED  BY <1>1, <2>1
    <3>2. Matches(IF k = 1 THEN c ELSE After(s[k - 1]), s[k])
      BY <3>1 DEF Chain
    <3>3. r[k] = s[k] /\ (k # 1 => r[k - 1] = s[k - 1])
      BY <1>1, <3>1
    <3> QED  BY <3>2, <3>3
  <2>2. CASE ~(k <= m)
    <3> DEFINE i == k - m
    <3>1. /\ i \in 1..n /\ m + i = k /\ (i # 1 => i - 1 \in 1..n /\ m + (i - 1) = k - 1)
          /\ i = 1 => k - 1 = m /\ (m # 0 => m \in 1..m /\ k # 1) /\ (m = 0 => k = 1)
          /\ i # 1 => k # 1
      <4> HIDE DEF m, n
      <4> QED  BY <1>1, <2>2
    <3> HIDE DEF i
    <3>2. Matches(IF i = 1 THEN EndOf(c, s) ELSE After(t[i - 1]), t[i])
      BY <3>1 DEF Chain
    <3>3. r[k] = t[i] /\ (i # 1 => r[k - 1] = t[i - 1])
      BY <1>1, <3>1
    <3>4. i = 1 => EndOf(c, s) = IF k = 1 THEN c ELSE After(r[k - 1])
      <4>1. CASE m = 0
        BY <3>1, <4>1 DEF EndOf
      <4>2. CASE m # 0
        <5>1. i = 1 => r[k - 1] = s[m] /\ k # 1
          BY <1>1, <3>1, <4>2
        <5> QED  BY <4>2, <5>1 DEF EndOf
      <4> QED  BY <4>1, <4>2
    <3> QED  BY <3>1, <3>2, <3>3, <3>4
  <2> QED  BY <2>1, <2>2
<1>3. Chain(c, r)
  BY <1>1, <1>2 DEF Chain
<1>4. EndOf(c, r) = EndOf(EndOf(c, s), t)
  <2>1. CASE n = 0
    <3>1. m + n = m /\ (m # 0 => m \in 1..m)
      <4> HIDE DEF m, n
      <4> QED  BY <1>1, <2>1
    <3>2. Len(r) = m /\ (m # 0 => r[m] = s[m])
      BY <1>1, <3>1
    <3> HIDE DEF r
    <3> QED  BY <2>1, <3>2 DEF EndOf
  <2>2. CASE n # 0
    <3>1. n \in 1..n /\ m + n # 0
      <4> HIDE DEF m, n
      <4> QED  BY <1>1, <2>2
    <3>2. Len(r) = m + n /\ r[m + n] = t[n]
      BY <1>1, <3>1
    <3> HIDE DEF r
    <3> QED  BY <2>2, <3>1, <3>2 DEF EndOf
  <2> QED  BY <2>1, <2>2
<1> QED  BY <1>3, <1>4

LEMMA ChainSplit ==
    ASSUME NEW c, NEW s \in Seq(Unit), Chain(c, s), NEW k \in 0..Len(s)
    PROVE  /\ SubSeq(s, 1, k) \in Seq(Unit) /\ Len(SubSeq(s, 1, k)) = k
           /\ SubSeq(s, k + 1, Len(s)) \in Seq(Unit)
           /\ Chain(c, SubSeq(s, 1, k))
           /\ Chain(EndOf(c, SubSeq(s, 1, k)), SubSeq(s, k + 1, Len(s)))
           /\ EndOf(EndOf(c, SubSeq(s, 1, k)), SubSeq(s, k + 1, Len(s))) = EndOf(c, s)
<1> DEFINE n == Len(s)
           p == SubSeq(s, 1, k)
           q == SubSeq(s, k + 1, n)
<1>1. n \in Nat /\ k \in 0..n
  OBVIOUS
<1>2. /\ p \in Seq(Unit) /\ Len(p) = k /\ \A i \in 1..k : p[i] = s[i]
  OBVIOUS
<1>3. /\ q \in Seq(Unit) /\ Len(q) = n - k /\ \A i \in 1..(n - k) : q[i] = s[k + i]
  OBVIOUS
<1>4. \A i \in 1..n : Matches(IF i = 1 THEN c ELSE After(s[i - 1]), s[i])
  BY DEF Chain
<1> HIDE DEF p, q, n
<1>5. Chain(c, p)
  <2>1. ASSUME NEW i \in 1..k PROVE Matches(IF i = 1 THEN c ELSE After(p[i - 1]), p[i])
    <3>1. i \in 1..n /\ (i # 1 => i - 1 \in 1..k)
      BY <1>1
    <3>2. p[i] = s[i] /\ (i # 1 => p[i - 1] = s[i - 1])
      BY <1>2, <3>1
    <3> QED  BY <1>4, <3>1, <3>2
  <2> QED  BY <1>2, <2>1 DEF Chain
<1>6. k # 0 => EndOf(c, p) = After(s[k])
  <2>1. k # 0 => k \in 1..k
    BY <1>1
  <2> QED  BY <1>2, <2>1 DEF EndOf
<1>7. k = 0 => EndOf(c, p) = c
  BY <1>2 DEF EndOf
<1>8. Chain(EndOf(c, p), q)
  <2>1. ASSUME NEW i \in 1..(n - k) PROVE Matches(IF i = 1 THEN EndOf(c, p) ELSE After(q[i - 1]), q[i])
    <3>1. k + i \in 1..n /\ (i # 1 => i - 1 \in 1..(n - k) /\ k + (i - 1) = (k + i) - 1 /\ k + i # 1)
      BY <1>1
    <3>2. q[i] = s[k + i] /\ (i # 1 => q[i - 1] = s[(k + i) - 1])
      <4>1. i # 1 => q[i - 1] = s[k + (i - 1)]
        BY <1>3, <3>1
      <4> QED  BY <1>3, <3>1, <4>1
    <3>3. Matches(IF k + i = 1 THEN c ELSE After(s[(k + i) - 1]), s[k + i])
      BY <1>4, <3>1
    <3>4. CASE i # 1
      BY <3>1, <3>2, <3>3, <3>4
    <3>5. CASE i = 1
      <4>1. (k + i) - 1 = k /\ (k = 0 <=> k + i = 1)
        BY <1>1, <3>5
      <4> QED  BY <1>6, <1>7, <3>2, <3>3, <3>5, <4>1
    <3> QED  BY <3>4, <3>5
  <2> QED  BY <1>3, <2>1 DEF Chain
<1>9. EndOf(EndOf(c, p), q) = EndOf(c, s)
  <2>1. CASE k = n
    <3>1. n - k = 0
      BY <1>1, <2>1
    <3> QED  BY <1>3, <1>6, <1>7, <2>1, <3>1 DEF EndOf, n
  <2>2. CASE k # n
    <3>1. n - k # 0 /\ n # 0 /\ n - k \in 1..(n - k) /\ k + (n - k) = n
      BY <1>1, <2>2
    <3>2. q[n - k] = s[n]
      BY <1>3, <3>1
    <3> QED  BY <1>3, <3>1, <3>2 DEF EndOf, n
  <2> QED  BY <2>1, <2>2
<1> QED  BY <1>2, <1>3, <1>5, <1>8, <1>9 DEF p, q, n

\* The cursor of a queue with a part of its first message sent.
LEMMA PositionStart ==
    ASSUME NEW msgs \in Seq(SentMessages), NEW last, NEW offset, OffsetValid(msgs, offset)
    PROVE  /\ SentInFull(msgs, offset) = 0 /\ offset <= Total(Lengths(msgs))
           /\ Position(msgs, last, offset) =
                [id |-> last - Len(msgs) + 0 + 1, pos |-> offset + 1,
                 size |-> IF offset = 0 THEN 0 ELSE msgs[1].size]
<1> DEFINE l == Lengths(msgs)
           n == Len(msgs)
<1>1. /\ offset \in Nat /\ (n = 0 => offset = 0) /\ n \in Nat
      /\ n # 0 => offset < HdrLen + msgs[1].size
  BY DEF OffsetValid, Length
<1>2. /\ l \in Seq(Nat) /\ Len(l) = n /\ Upto(l, 0) = 0
      /\ \A k \in 0..n : Upto(l, k) \in Nat
      /\ \A k \in 1..n : Upto(l, k) = Upto(l, k - 1) + l[k]
      /\ \A k \in 1..n : l[k] = HdrLen + msgs[k].size /\ l[k] \in Nat
  BY LengthsFact, UptoFact
<1>3. n # 0 => Upto(l, 1) = l[1] /\ l[1] = HdrLen + msgs[1].size /\ l[1] \in Nat /\ 1 \in 0..n
  <2> HIDE DEF l, n
  <2>1. n # 0 => 1 \in 1..n /\ 1 - 1 = 0 /\ 1 \in 0..n
    BY <1>1
  <2>2. n # 0 => Upto(l, 1) = Upto(l, 1 - 1) + l[1] /\ l[1] = HdrLen + msgs[1].size /\ l[1] \in Nat
    BY <1>2, <2>1
  <2> QED  BY <1>2, <2>1, <2>2
<1>4. SentInFull(msgs, offset) = 0
  <2>1. 0 \in 0..n /\ Upto(l, 0) <= offset /\ (0 < n => offset < Upto(l, 0 + 1))
    <3> HIDE DEF l, n
    <3>1. 0 + 1 = 1
      OBVIOUS
    <3> QED  BY <1>1, <1>2, <1>3, <3>1
  <2> QED  BY <1>1, <2>1, SentUnique
<1>5. offset <= Upto(l, n)
  <2>1. CASE n = 0
    BY <1>1, <1>2, <2>1
  <2>2. CASE n # 0
    <3>1. n \in 1..n /\ 1 \in 0..n
      BY <1>1, <2>2
    <3>2. Upto(l, 1) <= Upto(l, n)
      BY <1>2, <3>1, UptoGrows
    <3>3. Upto(l, 1) \in Nat /\ Upto(l, n) \in Nat /\ offset <= Upto(l, 1)
      <4> HIDE DEF l, n
      <4>1. n \in 0..n /\ 1 \in 0..n
        BY <1>1, <2>2
      <4>2. Upto(l, 1) \in Nat /\ Upto(l, n) \in Nat
        BY <1>2, <4>1
      <4>3. offset < Upto(l, 1)
        BY <1>1, <1>3, <2>2
      <4> QED  BY <1>1, <4>2, <4>3
    <3> HIDE DEF l, n
    <3> QED  BY <1>1, <3>2, <3>3
  <2> QED  BY <2>1, <2>2
<1>6. Position(msgs, last, offset) =
        [id |-> last - Len(msgs) + 0 + 1, pos |-> offset + 1,
         size |-> IF offset = 0 THEN 0 ELSE msgs[1].size]
  <2>1. offset - Upto(l, 0) = offset /\ 0 + 1 = 1
    BY <1>1, <1>2
  <2> QED  BY <1>4, <2>1 DEF Position
<1> QED  BY <1>2, <1>4, <1>5, <1>6 DEF Total

\* What SocketSendData sends, and what it leaves in the queue.
LEMMA SendFact ==
    ASSUME NEW msgs \in Seq(SentMessages), NEW last \in Nat, Numbered(msgs, last),
           NEW offset, OffsetValid(msgs, offset), NEW k \in 0..Len(Unsent(msgs, offset))
    PROVE  LET s == SubSeq(Unsent(msgs, offset), 1, k)
               sent == SentInFull(msgs, offset + k)
               left == SubSeq(msgs, sent + 1, Len(msgs))
               after == OffsetAfter(msgs, offset, k)
           IN  /\ Unsent(msgs, offset) \in Seq(Unit)
               /\ s \in Seq(Unit) /\ Len(s) = k /\ Chain(Position(msgs, last, offset), s)
               /\ left \in Seq(SentMessages) /\ Numbered(left, last) /\ OffsetValid(left, after)
               /\ Total(Lengths(left)) = Total(Lengths(msgs)) - Upto(Lengths(msgs), sent)
               /\ EndOf(Position(msgs, last, offset), s) = Position(left, last, after)
<1> DEFINE l == Lengths(msgs)
           n == Len(msgs)
           t == Total(l)
           all == Unsent(msgs, offset)
           s == SubSeq(all, 1, k)
           sent == SentInFull(msgs, offset + k)
           left == SubSeq(msgs, sent + 1, n)
           after == OffsetAfter(msgs, offset, k)
           c == Position(msgs, last, offset)
<1>1. /\ l \in Seq(Nat) /\ Len(l) = n /\ n \in Nat /\ Upto(l, 0) = 0
      /\ \A i \in 0..n : Upto(l, i) \in Nat
      /\ \A i \in 1..n : Upto(l, i) = Upto(l, i - 1) + l[i]
      /\ \A i \in 1..n : l[i] = HdrLen + msgs[i].size /\ l[i] \in Nat \ {0} /\ msgs[i] \in SentMessages
  <2>1. /\ l \in Seq(Nat) /\ Len(l) = n /\ n \in Nat
        /\ \A i \in 1..n : l[i] = HdrLen + msgs[i].size /\ l[i] \in Nat \ {0} /\ msgs[i] \in SentMessages
    BY LengthsFact
  <2> HIDE DEF l
  <2> QED  BY <2>1, UptoFact
<1>2. t \in Nat /\ t = Upto(l, n) /\ offset \in Nat /\ offset <= t
  <2>1. t = Upto(l, n)
    BY <1>1 DEF Total
  <2>2. offset \in Nat /\ offset <= t
    BY PositionStart DEF OffsetValid
  <2>3. n \in 0..n
    BY <1>1
  <2> QED  BY <1>1, <2>1, <2>2, <2>3
<1>3. ASSUME NEW j \in 1..(t - offset)
      PROVE  /\ all[j] = UnitAt(msgs, offset + j)
             /\ Matches(Position(msgs, last, offset + (j - 1)), all[j])
             /\ After(all[j]) = Position(msgs, last, offset + j)
  <2>1. all[j] = UnitAt(msgs, offset + j)
    BY DEF Unsent
  <2> DEFINE i == offset + (j - 1)
  <2>2. i \in Nat /\ i < t /\ i + 1 = offset + j
    <3> HIDE DEF t
    <3> QED  BY <1>2
  <2> HIDE DEF i
  <2>3. /\ Matches(Position(msgs, last, i), UnitAt(msgs, i + 1))
        /\ After(UnitAt(msgs, i + 1)) = Position(msgs, last, i + 1)
    BY <2>2, UnitFact
  <2> QED  BY <2>1, <2>2, <2>3 DEF i
<1>4. all \in Seq(Unit) /\ Len(all) = t - offset
  <2>1. t - offset \in Nat
    <3> HIDE DEF t
    <3> QED  BY <1>2
  <2>2. \A j \in 1..(t - offset) : all[j] \in Unit
    BY <1>3 DEF Matches
  <2>3. all = [j \in 1..(t - offset) |-> all[j]]
    BY DEF Unsent
  <2> HIDE DEF all, t
  <2> QED  BY <2>1, <2>2, <2>3
<1>5. k \in 0..(t - offset) /\ k \in Nat /\ offset + k \in Nat /\ offset + k <= t
  <2>1. k \in 0..(t - offset)
    BY <1>4
  <2> HIDE DEF t
  <2> QED  BY <1>2, <2>1
<1>6. s \in Seq(Unit) /\ Len(s) = k /\ \A j \in 1..k : s[j] = all[j]
  <2>1. k \in 0..Len(all)
    OBVIOUS
  <2> HIDE DEF all
  <2> QED  BY <1>4, <2>1
<1>7. Chain(c, s)
  <2>1. ASSUME NEW j \in 1..k PROVE Matches(IF j = 1 THEN c ELSE After(s[j - 1]), s[j])
    <3>1. /\ j \in 1..(t - offset) /\ (j # 1 => j - 1 \in 1..(t - offset) /\ j - 1 \in 1..k)
          /\ j = 1 => offset + (j - 1) = offset
      <4> HIDE DEF t
      <4> QED  BY <1>2, <1>5
    <3>2. s[j] = all[j] /\ (j # 1 => s[j - 1] = all[j - 1])
      BY <1>6, <3>1
    <3>3. Matches(Position(msgs, last, offset + (j - 1)), all[j])
      BY <1>3, <3>1
    <3>4. j # 1 => After(all[j - 1]) = Position(msgs, last, offset + (j - 1))
      BY <1>3, <3>1
    <3> HIDE DEF s, all
    <3> QED  BY <3>1, <3>2, <3>3, <3>4
  <2> HIDE DEF s, c
  <2> QED  BY <1>6, <2>1 DEF Chain
<1>8. EndOf(c, s) = Position(msgs, last, offset + k)
  <2>1. CASE k = 0
    <3>1. offset + k = offset
      BY <1>2, <2>1
    <3> QED  BY <1>6, <2>1, <3>1 DEF EndOf
  <2>2. CASE k # 0
    <3>1. k \in 1..k /\ k \in 1..(t - offset)
      <4> HIDE DEF t
      <4> QED  BY <1>2, <1>5, <2>2
    <3>2. s[k] = all[k] /\ After(all[k]) = Position(msgs, last, offset + k)
      BY <1>3, <1>6, <3>1
    <3> HIDE DEF s, all
    <3> QED  BY <1>6, <2>2, <3>2 DEF EndOf
  <2> QED  BY <2>1, <2>2
<1>9. sent \in 0..n /\ Upto(l, sent) <= offset + k /\ (sent < n => offset + k < Upto(l, sent + 1))
  BY <1>5, SentFact
<1>10. /\ left \in Seq(SentMessages) /\ Len(left) = n - sent
       /\ \A i \in 1..(n - sent) : left[i] = msgs[sent + i]
  <2> HIDE DEF sent
  <2> QED  BY <1>9, SuffixFact
<1>11. Numbered(left, last)
  <2>1. ASSUME NEW i \in 1..(n - sent) PROVE left[i].id = last - (n - sent) + i
    <3>1. sent + i \in 1..n /\ last - n + (sent + i) = last - (n - sent) + i
      <4> HIDE DEF sent, n
      <4> QED  BY <1>1, <1>9
    <3>2. msgs[sent + i].id = last - n + (sent + i)
      BY <3>1 DEF Numbered
    <3> QED  BY <1>10, <3>1, <3>2
  <2> HIDE DEF left
  <2> QED  BY <1>10, <2>1 DEF Numbered
<1>12. after = (offset + k) - Upto(l, sent) /\ after \in Nat /\ Upto(l, sent) \in Nat
  <2> DEFINE sum == Upto(l, sent)
  <2>1. after = offset + (k - sum)
    BY DEF OffsetAfter
  <2>2. sum \in Nat /\ sum <= offset + k
    BY <1>1, <1>9
  <2> HIDE DEF sum, after
  <2>3. after = (offset + k) - sum /\ after \in Nat
    BY <1>2, <1>5, <2>1, <2>2
  <2> QED  BY <2>2, <2>3 DEF sum
<1>13. OffsetValid(left, after)
  <2>1. CASE sent = n
    <3>1. left = << >> /\ after = 0
      <4>1. n - sent = 0
        BY <1>1, <2>1
      <4>2. left = << >>
        <5> HIDE DEF left
        <5> QED  BY <1>10, <4>1
      <4>3. after = 0
        <5> HIDE DEF sent, after, l, t, n, left
        <5> QED  BY <1>2, <1>5, <1>9, <1>12, <2>1
      <4> QED  BY <4>2, <4>3
    <3> QED  BY <3>1 DEF OffsetValid
  <2>2. CASE sent # n
    <3>1. sent < n /\ 1 \in 1..(n - sent) /\ sent + 1 \in 1..n /\ (sent + 1) - 1 = sent
      <4> HIDE DEF sent, n
      <4> QED  BY <1>1, <1>9, <2>2
    <3>2. Upto(l, sent + 1) = Upto(l, sent) + l[sent + 1] /\ l[sent + 1] = HdrLen + msgs[sent + 1].size /\ l[sent + 1] \in Nat
      <4> HIDE DEF l, n
      <4> QED  BY <1>1, <3>1
    <3>3. after < l[sent + 1]
      <4> HIDE DEF sent, after, l, n
      <4> QED  BY <1>5, <1>9, <1>12, <3>1, <3>2
    <3>4. left[1] = msgs[sent + 1] /\ left # << >>
      <4>1. left[1] = msgs[sent + 1]
        BY <1>10, <3>1
      <4>2. Len(left) # 0
        <5> HIDE DEF left, sent, n
        <5> QED  BY <1>1, <1>9, <1>10, <2>2
      <4> HIDE DEF left
      <4> QED  BY <1>10, <4>1, <4>2
    <3> HIDE DEF left, after
    <3> QED  BY <1>12, <3>2, <3>3, <3>4 DEF OffsetValid, Length
  <2> QED  BY <2>1, <2>2
<1>14. Total(Lengths(left)) = t - Upto(l, sent)
  <2> DEFINE r == Lengths(left)
  <2>1. /\ r \in Seq(Nat) /\ Len(r) = n - sent
        /\ \A i \in 1..(n - sent) : r[i] = HdrLen + left[i].size
    BY <1>10, LengthsFact
  <2>2. n - sent \in Nat /\ sent \in 0..Len(l) /\ sent + (n - sent) = n /\ n - sent \in 0..(n - sent)
    <3> HIDE DEF sent, n, l
    <3> QED  BY <1>1, <1>9
  <2>3. ASSUME NEW i \in 1..(n - sent) PROVE r[i] = l[sent + i]
    <3>1. sent + i \in 1..n
      <4> HIDE DEF sent, n
      <4> QED  BY <1>1, <1>9
    <3>2. l[sent + i] = HdrLen + msgs[sent + i].size
      BY <1>1, <3>1
    <3> HIDE DEF r, left, l
    <3> QED  BY <1>10, <2>1, <3>2
  <2> HIDE DEF r
  <2>4. \A i \in 0..(n - sent) : Upto(r, i) = Upto(l, sent + i) - Upto(l, sent)
    <3>1. sent \in 0..Len(l) /\ n - sent \in Nat /\ sent + (n - sent) <= Len(l) /\ n - sent <= Len(r)
      <4> HIDE DEF l, sent, n
      <4> QED  BY <1>1, <1>9, <2>1, <2>2
    <3> DEFINE m == n - sent
    <3>2. \A i \in 1..m : r[i] = l[sent + i]
      BY <2>3
    <3>3. l \in Seq(Nat) /\ r \in Seq(Nat)
      BY <1>1, <2>1
    <3> HIDE DEF m, sent, l
    <3>4. \A i \in 0..m : Upto(r, i) = Upto(l, sent + i) - Upto(l, sent)
      BY <3>1, <3>2, <3>3, UptoDrop DEF m
    <3> QED  BY <3>4 DEF m
  <2>5. Upto(r, n - sent) = Upto(l, n) - Upto(l, sent)
    BY <2>2, <2>4
  <2> QED  BY <1>2, <2>1, <2>5 DEF r, Total
<1>15. Position(left, last, after) = Position(msgs, last, offset + k)
  <2>1. Position(left, last, after) =
          [id |-> last - (n - sent) + 0 + 1, pos |-> after + 1, size |-> IF after = 0 THEN 0 ELSE left[1].size]
    <3> HIDE DEF left, after
    <3> QED  BY <1>10, <1>13, PositionStart
  <2>2. Position(msgs, last, offset + k) =
          [id |-> last - n + sent + 1, pos |-> after + 1, size |-> IF after = 0 THEN 0 ELSE msgs[sent + 1].size]
    BY <1>12 DEF Position
  <2>3. last - (n - sent) + 0 + 1 = last - n + sent + 1
    <3> HIDE DEF sent, n
    <3> QED  BY <1>1, <1>9
  <2>4. after # 0 => left[1] = msgs[sent + 1]
    <3>1. CASE sent = n
      <4>1. after = 0
        <5> HIDE DEF sent, after, l, t, n
        <5> QED  BY <1>2, <1>5, <1>9, <1>12, <3>1
      <4> QED  BY <4>1
    <3>2. CASE sent # n
      <4>1. 1 \in 1..(n - sent)
        <5> HIDE DEF sent, n
        <5> QED  BY <1>1, <1>9, <3>2
      <4> QED  BY <1>10, <4>1
    <3> QED  BY <3>1, <3>2
  <2> HIDE DEF left, after
  <2> QED  BY <2>1, <2>2, <2>3, <2>4
<1> QED  BY <1>4, <1>6, <1>7, <1>8, <1>10, <1>11, <1>13, <1>14, <1>15
----------------------------------------------------------------------------
(* What is received.                                                       *)

RecvMessages == [hdr : Seq(Unit), data : Seq(Unit), in_data : BOOLEAN]
Grown(msg, u) == IF ~msg.in_data THEN readHeader(msg, u) ELSE readData(msg, u)
Count(msg) == Len(msg.hdr) + Len(msg.data)

\* A message with the first units of one that was sent, at least one.
Frame(msg) ==
    /\ msg \in RecvMessages /\ Len(msg.hdr) \in 1..HdrLen
    /\ msg.in_data <=> Len(msg.hdr) = HdrLen
    /\ ~msg.in_data => Len(msg.data) = 0
    /\ msg.in_data => Len(msg.data) <= msg.hdr[1].size
    /\ \A k \in 1..Len(msg.hdr) : msg.hdr[k].id = msg.hdr[1].id /\ msg.hdr[k].pos = k
    /\ \A k \in 1..Len(msg.data) : msg.data[k].id = msg.hdr[1].id /\ msg.data[k].pos = HdrLen + k

MsgCursor(msg) ==
    IF complete(msg) THEN [id |-> msg.hdr[1].id + 1, pos |-> 1, size |-> 0]
    ELSE [id |-> msg.hdr[1].id, pos |-> Count(msg) + 1, size |-> msg.hdr[1].size]

\* The received messages follow message p, and only the last one may be incomplete.
RecvGood(q, p) ==
    /\ q \in Seq(RecvMessages)
    /\ \A i \in 1..Len(q) : Frame(q[i]) /\ q[i].hdr[1].id = p + i /\ (i < Len(q) => complete(q[i]))
Cursor(q, p) == IF Len(q) = 0 THEN [id |-> p + 1, pos |-> 1, size |-> 0] ELSE MsgCursor(q[Len(q)])

AnnouncedSizes(q) == [i \in 1..Len(q) |-> Announced(q[i])]
UnitsIn(q) == IF Len(q) = 0 THEN 0 ELSE Upto(AnnouncedSizes(q), Len(q) - 1) + Count(q[Len(q)])

LEMMA UptoAgree ==
    ASSUME NEW l \in Seq(Nat), NEW r \in Seq(Nat), NEW n \in Nat, n <= Len(l), n <= Len(r),
           \A i \in 1..n : r[i] = l[i]
    PROVE  Upto(r, n) = Upto(l, n)
<1>1. Len(l) \in Nat /\ 0 \in 0..Len(l) /\ 0 + n <= Len(l) /\ n \in 0..Len(l)
  OBVIOUS
<1>2. \A i \in 1..n : r[i] = l[0 + i]
  <2>1. \A i \in 1..n : 0 + i = i
    OBVIOUS
  <2> QED  BY <2>1
<1>3. \A i \in 0..n : Upto(r, i) = Upto(l, 0 + i) - Upto(l, 0)
  BY <1>1, <1>2, UptoDrop
<1>4. Upto(r, n) = Upto(l, n) - 0
  <2>1. n \in 0..n /\ 0 + n = n
    OBVIOUS
  <2> QED  BY <1>3, <2>1, UptoFact
<1>5. Upto(l, n) \in Nat
  BY <1>1, UptoFact
<1> QED  BY <1>4, <1>5

LEMMA FrameFact ==
    ASSUME NEW msg, Frame(msg)
    PROVE  /\ HdrLen \in Nat \ {0} /\ Len(msg.hdr) \in 1..HdrLen /\ Len(msg.data) \in Nat
           /\ msg.hdr[1] \in Unit /\ msg.hdr[1].size \in Nat /\ msg.hdr[1].id \in Nat
           /\ msg.in_data \in BOOLEAN /\ msg.hdr \in Seq(Unit) /\ msg.data \in Seq(Unit)
           /\ Announced(msg) \in Nat /\ Count(msg) \in Nat /\ Count(msg) <= Announced(msg)
           /\ complete(msg) <=> Count(msg) = HdrLen + msg.hdr[1].size
           /\ complete(msg) => Count(msg) = Announced(msg)
           /\ Announced(msg) <= HdrLen + msg.hdr[1].size
           /\ ~msg.in_data => Announced(msg) = HdrLen
<1>1. HdrLen \in Nat \ {0} /\ Sizes \subseteq Nat
  BY SocketBuffersAssumption
<1>2. /\ msg.hdr \in Seq(Unit) /\ msg.data \in Seq(Unit) /\ msg.in_data \in BOOLEAN
      /\ Len(msg.hdr) \in 1..HdrLen
  BY DEF Frame, RecvMessages
<1>3. Len(msg.data) \in Nat /\ Len(msg.hdr) \in Nat
  BY <1>2
<1>4. msg.hdr[1] \in Unit
  <2>1. 1 \in 1..Len(msg.hdr)
    BY <1>1, <1>2, <1>3
  <2> QED  BY <1>2, <2>1
<1>5. msg.hdr[1].size \in Nat /\ msg.hdr[1].id \in Nat
  BY <1>1, <1>4 DEF Unit
<1>6. /\ msg.in_data <=> Len(msg.hdr) = HdrLen
      /\ ~msg.in_data => Len(msg.data) = 0
      /\ msg.in_data => Len(msg.data) <= msg.hdr[1].size
  BY DEF Frame
<1> DEFINE h == Len(msg.hdr)
           d == Len(msg.data)
           s == msg.hdr[1].size
<1>7. /\ Announced(msg) = HdrLen + IF msg.in_data THEN s ELSE 0
      /\ Count(msg) = h + d
      /\ complete(msg) <=> msg.in_data /\ d = s
  BY DEF Announced, Count, complete
<1>8. /\ HdrLen \in Nat \ {0} /\ h \in 1..HdrLen /\ d \in Nat /\ s \in Nat
      /\ msg.in_data <=> h = HdrLen
      /\ ~msg.in_data => d = 0
      /\ msg.in_data => d <= s
  BY <1>1, <1>2, <1>3, <1>5, <1>6
<1>9. /\ Announced(msg) \in Nat /\ Count(msg) \in Nat /\ Count(msg) <= Announced(msg)
      /\ complete(msg) <=> Count(msg) = HdrLen + s
      /\ complete(msg) => Count(msg) = Announced(msg)
      /\ Announced(msg) <= HdrLen + s
      /\ ~msg.in_data => Announced(msg) = HdrLen
  <2> HIDE DEF h, d, s
  <2>1. CASE msg.in_data
    BY <1>7, <1>8, <2>1
  <2>2. CASE ~msg.in_data
    BY <1>7, <1>8, <2>2
  <2> QED  BY <2>1, <2>2
<1> QED  BY <1>1, <1>2, <1>3, <1>4, <1>5, <1>9

\* The first unit of a message.
LEMMA BeginFact ==
    ASSUME NEW u \in Unit, u.pos = 1, u.pos \in 1..(HdrLen + u.size)
    PROVE  LET m == readHeader(NetMessage, u)
           IN  Frame(m) /\ m.hdr[1] = u /\ MsgCursor(m) = After(u) /\ Count(m) = 1
<1> DEFINE m == readHeader(NetMessage, u)
<1>1. HdrLen \in Nat \ {0} /\ Sizes \subseteq Nat /\ u.size \in Nat /\ u.id \in Nat
  BY SocketBuffersAssumption DEF Unit
<1>2. /\ m = [hdr |-> <<u>>, data |-> << >>, in_data |-> (1 = HdrLen)]
  <2>1. NetMessage.hdr = << >>
    BY DEF NetMessage
  <2>2. Append(NetMessage.hdr, u) = <<u>> /\ Len(NetMessage.hdr) + 1 = 1
    BY <2>1
  <2>3. m = [NetMessage EXCEPT !.hdr = <<u>>, !.in_data = (1 = HdrLen)]
    BY <2>2 DEF readHeader
  <2> HIDE DEF m
  <2> QED  BY <2>3 DEF NetMessage
<1>3. /\ m.hdr = <<u>> /\ m.data = << >> /\ m.in_data = (1 = HdrLen)
      /\ Len(m.hdr) = 1 /\ Len(m.data) = 0 /\ m.hdr[1] = u
  BY <1>2
<1>4. m \in RecvMessages
  BY <1>2 DEF RecvMessages
<1> HIDE DEF m
<1>5. Frame(m)
  <2>1. \A k \in 1..1 : k = 1
    OBVIOUS
  <2>2. \A k \in 1..Len(m.hdr) : m.hdr[k].id = m.hdr[1].id /\ m.hdr[k].pos = k
    BY <1>3, <2>1
  <2>3. \A k \in 1..Len(m.data) : FALSE
    BY <1>3
  <2>4. 1 \in 1..HdrLen
    BY <1>1
  <2>5. m.in_data <=> Len(m.hdr) = HdrLen
    BY <1>3
  <2>6. Len(m.data) <= m.hdr[1].size
    BY <1>1, <1>3
  <2>7. Len(m.hdr) \in 1..HdrLen /\ Len(m.data) = 0
    BY <1>3, <2>4
  <2> QED  BY <1>4, <2>2, <2>3, <2>5, <2>6, <2>7 DEF Frame
<1>6. Count(m) = 1
  BY <1>3 DEF Count
<1>7. MsgCursor(m) = After(u)
  <2>1. complete(m) <=> 1 = HdrLen + u.size
    BY <1>3, <1>5, <1>6, FrameFact
  <2> QED  BY <1>3, <1>6, <2>1 DEF MsgCursor, After
<1> QED  BY <1>3, <1>5, <1>6, <1>7 DEF m

\* Another unit of a message.
LEMMA GrowFact ==
    ASSUME NEW msg, Frame(msg), ~complete(msg), NEW u, Matches(MsgCursor(msg), u)
    PROVE  LET m == Grown(msg, u)
           IN  /\ Frame(m) /\ m.hdr[1] = msg.hdr[1] /\ MsgCursor(m) = After(u)
               /\ Count(m) = Count(msg) + 1
<1> DEFINE m == Grown(msg, u)
           h == Len(msg.hdr)
           d == Len(msg.data)
           s == msg.hdr[1].size
<1>1. /\ HdrLen \in Nat \ {0} /\ h \in 1..HdrLen /\ d \in Nat /\ s \in Nat
      /\ msg.hdr \in Seq(Unit) /\ msg.data \in Seq(Unit) /\ msg.in_data \in BOOLEAN
      /\ Count(msg) = h + d /\ Count(msg) # HdrLen + s
  <2>1. Count(msg) = h + d
    BY DEF Count
  <2> QED  BY <2>1, FrameFact
<1>2. /\ msg.in_data <=> h = HdrLen
      /\ ~msg.in_data => d = 0
      /\ msg.in_data => d <= s
      /\ \A k \in 1..h : msg.hdr[k].id = msg.hdr[1].id /\ msg.hdr[k].pos = k
      /\ \A k \in 1..d : msg.data[k].id = msg.hdr[1].id /\ msg.data[k].pos = HdrLen + k
      /\ msg = [hdr |-> msg.hdr, data |-> msg.data, in_data |-> msg.in_data]
  BY DEF Frame, RecvMessages
<1>3. /\ u \in Unit /\ u.id = msg.hdr[1].id /\ u.pos = h + d + 1 /\ u.pos \in 1..(HdrLen + u.size)
      /\ u.size = s
  <2>1. MsgCursor(msg) = [id |-> msg.hdr[1].id, pos |-> Count(msg) + 1, size |-> s]
    BY DEF MsgCursor
  <2>2. Count(msg) + 1 # 1 /\ Count(msg) + 1 = h + d + 1
    <3> HIDE DEF h, d
    <3> QED  BY <1>1
  <2> DEFINE c == MsgCursor(msg)
  <2>3. c.id = msg.hdr[1].id /\ c.pos = Count(msg) + 1 /\ c.size = s
    BY <2>1
  <2> HIDE DEF c
  <2>4. /\ u \in Unit /\ u.id = c.id /\ u.pos = c.pos /\ u.pos \in 1..(HdrLen + u.size)
        /\ c.pos # 1 => u.size = c.size
    BY DEF Matches, c
  <2> QED  BY <2>2, <2>3, <2>4
<1>4. Frame(m) /\ m.hdr[1] = msg.hdr[1] /\ Count(m) = Count(msg) + 1
  <2>1. CASE ~msg.in_data
    <3> DEFINE hdr == Append(msg.hdr, u)
    <3>1. /\ hdr \in Seq(Unit) /\ Len(hdr) = h + 1
          /\ \A k \in 1..h : hdr[k] = msg.hdr[k]
          /\ hdr[h + 1] = u
      BY <1>1, <1>3, AppendProperties
    <3>2. m = [hdr |-> hdr, data |-> msg.data, in_data |-> (h + 1 = HdrLen)]
      BY <1>2, <2>1 DEF Grown, readHeader
    <3> HIDE DEF m, hdr
    <3>3. m.hdr = hdr /\ m.data = msg.data /\ m.in_data = (h + 1 = HdrLen) /\ m \in RecvMessages
      BY <1>1, <3>1, <3>2 DEF RecvMessages
    <3>4. 1 \in 1..h /\ h + 1 \in 1..HdrLen /\ d = 0
      <4> HIDE DEF h, d
      <4> QED  BY <1>1, <1>2, <2>1
    <3>5. hdr[1] = msg.hdr[1]
      BY <3>1, <3>4
    <3>6. \A k \in 1..(h + 1) : hdr[k].id = hdr[1].id /\ hdr[k].pos = k
      <4> SUFFICES ASSUME NEW k \in 1..(h + 1) PROVE hdr[k].id = hdr[1].id /\ hdr[k].pos = k
        OBVIOUS
      <4>1. CASE k \in 1..h
        BY <1>2, <3>1, <3>5, <4>1
      <4>2. CASE k \notin 1..h
        <5>1. k = h + 1 /\ h + d + 1 = h + 1
          <6> HIDE DEF h, d
          <6> QED  BY <1>1, <3>4, <4>2
        <5> QED  BY <1>3, <3>1, <3>5, <5>1
      <4> QED  BY <4>1, <4>2
    <3>7. \A k \in 1..d : FALSE
      BY <3>4
    <3>8. Frame(m)
      <4>1. Len(m.hdr) = h + 1 /\ Len(m.data) = d
        BY <3>1, <3>3
      <4>2. 0 <= s
        BY <1>1
      <4> HIDE DEF h, d
      <4> QED  BY <3>3, <3>4, <3>5, <3>6, <3>7, <4>1, <4>2 DEF Frame, s
    <3>9. Count(m) = (h + 1) + d
      BY <3>1, <3>3 DEF Count
    <3>10. Count(m) = Count(msg) + 1
      <4> HIDE DEF h, d
      <4> QED  BY <1>1, <3>9
    <3> QED  BY <3>3, <3>5, <3>8, <3>10
  <2>2. CASE msg.in_data
    <3> DEFINE data == Append(msg.data, u)
    <3>1. /\ data \in Seq(Unit) /\ Len(data) = d + 1
          /\ \A k \in 1..d : data[k] = msg.data[k]
          /\ data[d + 1] = u
      BY <1>1, <1>3, AppendProperties
    <3>2. m = [hdr |-> msg.hdr, data |-> data, in_data |-> msg.in_data]
      BY <1>2, <2>2 DEF Grown, readData
    <3> HIDE DEF m, data
    <3>3. m.hdr = msg.hdr /\ m.data = data /\ m.in_data = msg.in_data /\ m \in RecvMessages
      BY <1>1, <3>1, <3>2 DEF RecvMessages
    <3>4. h = HdrLen /\ d + 1 <= s
      <4> HIDE DEF h, d, s
      <4> QED  BY <1>1, <1>2, <2>2
    <3>5. \A k \in 1..(d + 1) : data[k].id = msg.hdr[1].id /\ data[k].pos = HdrLen + k
      <4> SUFFICES ASSUME NEW k \in 1..(d + 1) PROVE data[k].id = msg.hdr[1].id /\ data[k].pos = HdrLen + k
        OBVIOUS
      <4>1. CASE k \in 1..d
        BY <1>2, <3>1, <4>1
      <4>2. CASE k \notin 1..d
        <5>1. k = d + 1 /\ h + d + 1 = HdrLen + k
          <6>1. d \in Nat /\ HdrLen \in Nat /\ h = HdrLen
            BY <1>1, <3>4
          <6> HIDE DEF h, d
          <6> QED  BY <4>2, <6>1
        <5> QED  BY <1>3, <3>1, <5>1
      <4> QED  BY <4>1, <4>2
    <3>6. Frame(m)
      <4>1. Len(m.hdr) = h /\ Len(m.data) = d + 1
        BY <3>1, <3>3
      <4> HIDE DEF h, d
      <4> QED  BY <1>1, <1>2, <2>2, <3>3, <3>4, <3>5, <4>1 DEF Frame, s
    <3>7. Count(m) = h + (d + 1)
      BY <3>1, <3>3 DEF Count
    <3>8. Count(m) = Count(msg) + 1
      <4> HIDE DEF h, d
      <4> QED  BY <1>1, <3>7
    <3> QED  BY <3>3, <3>6, <3>8
  <2> QED  BY <2>1, <2>2
<1>5. MsgCursor(m) = After(u)
  <2> HIDE DEF m
  <2>1. complete(m) <=> Count(m) = HdrLen + s
    BY <1>4, FrameFact
  <2>2. Count(m) = u.pos
    <3> HIDE DEF h, d
    <3> QED  BY <1>1, <1>3, <1>4
  <2> QED  BY <1>3, <1>4, <2>1, <2>2 DEF MsgCursor, After
<1> QED  BY <1>4, <1>5
LEMMA ReadTyped ==
    ASSUME NEW msg \in RecvMessages, NEW u \in Unit
    PROVE  readHeader(msg, u) \in RecvMessages /\ Grown(msg, u) \in RecvMessages
<1>1. PICK h \in Seq(Unit), d \in Seq(Unit), b \in BOOLEAN : msg = [hdr |-> h, data |-> d, in_data |-> b]
  BY DEF RecvMessages
<1>2. Append(h, u) \in Seq(Unit) /\ Append(d, u) \in Seq(Unit)
  BY AppendProperties
<1>3. msg.hdr = h /\ msg.data = d
  BY <1>1
<1>4. readHeader(msg, u) = [hdr |-> Append(h, u), data |-> d, in_data |-> (Len(h) + 1 = HdrLen)]
  <2>1. readHeader(msg, u) = [msg EXCEPT !.hdr = Append(h, u), !.in_data = (Len(h) + 1 = HdrLen)]
    BY <1>3 DEF readHeader
  <2> QED  BY <1>1, <2>1
<1>5. readData(msg, u) = [hdr |-> h, data |-> Append(d, u), in_data |-> b]
  <2>1. readData(msg, u) = [msg EXCEPT !.data = Append(d, u)]
    BY <1>3 DEF readData
  <2> QED  BY <1>1, <2>1
<1>6. readHeader(msg, u) \in RecvMessages /\ readData(msg, u) \in RecvMessages
  BY <1>2, <1>4, <1>5 DEF RecvMessages
<1> QED  BY <1>6 DEF Grown

\* One more unit begins a message or goes into the last one.
LEMMA AbsorbShape ==
    ASSUME NEW q \in Seq(RecvMessages), NEW u \in Unit
    PROVE  LET r == Absorb(q, u)
               begins == Len(q) = 0 \/ complete(q[Len(q)])
           IN  /\ r \in Seq(RecvMessages)
               /\ begins => /\ Len(r) = Len(q) + 1 /\ \A i \in 1..Len(q) : r[i] = q[i]
                            /\ r[Len(q) + 1] = readHeader(NetMessage, u)
               /\ ~begins => /\ Len(r) = Len(q) /\ \A i \in 1..(Len(q) - 1) : r[i] = q[i]
                             /\ r[Len(q)] = Grown(q[Len(q)], u)
<1> DEFINE r == Absorb(q, u)
           n == Len(q)
           begins == n = 0 \/ complete(q[n])
<1>1. n \in Nat /\ (n = 0 <=> q = << >>)
  OBVIOUS
<1>2. NetMessage \in RecvMessages /\ NetMessage.in_data = FALSE
  BY DEF NetMessage, RecvMessages
<1>3. CASE begins
  <2> DEFINE q2 == Append(q, NetMessage)
             x == IF ~q2[Len(q2)].in_data THEN readHeader(q2[Len(q2)], u) ELSE readData(q2[Len(q2)], u)
             rh == readHeader(NetMessage, u)
  <2>1. /\ q2 \in Seq(RecvMessages) /\ Len(q2) = n + 1
        /\ \A i \in 1..n : q2[i] = q[i]
        /\ q2[n + 1] = NetMessage
    BY <1>2, AppendProperties
  <2>2. r = [q2 EXCEPT ![Len(q2)] = x]
    BY <1>1, <1>3 DEF Absorb
  <2> HIDE DEF q2, r, n
  <2>3. x = rh
    BY <1>2, <2>1
  <2> HIDE DEF x
  <2>4. rh \in RecvMessages
    BY <1>2, ReadTyped
  <2> HIDE DEF rh
  <2>5. r = [q2 EXCEPT ![n + 1] = rh]
    BY <2>1, <2>2, <2>3
  <2>6. n + 1 \in 1..(n + 1) /\ \A i \in 1..n : i \in 1..(n + 1) /\ i # n + 1
    BY <1>1
  <2>7. /\ r \in Seq(RecvMessages) /\ Len(r) = n + 1
        /\ \A i \in 1..n : r[i] = q[i]
        /\ r[n + 1] = rh
    BY <2>1, <2>4, <2>5, <2>6
  <2> QED  BY <1>3, <2>7 DEF rh, r, n
<1>4. CASE ~begins
  <2> DEFINE x == IF ~q[n].in_data THEN readHeader(q[n], u) ELSE readData(q[n], u)
  <2>1. r = [q EXCEPT ![n] = x]
    BY <1>1, <1>4 DEF Absorb
  <2>2. x = Grown(q[n], u)
    BY DEF Grown
  <2> HIDE DEF r, x
  <2>3. n \in 1..n /\ \A i \in 1..(n - 1) : i \in 1..n /\ i # n
    <3> HIDE DEF n
    <3> QED  BY <1>1, <1>4
  <2>4. q[n] \in RecvMessages
    BY <2>3
  <2>5. x \in RecvMessages
    BY <2>2, <2>4, ReadTyped
  <2>6. /\ r \in Seq(RecvMessages) /\ Len(r) = n /\ r[n] = x
        /\ \A i \in 1..(n - 1) : r[i] = q[i]
    BY <2>1, <2>3, <2>5
  <2> QED  BY <1>4, <2>2, <2>6 DEF r
<1> QED  BY <1>3, <1>4

LEMMA SizesFact ==
    ASSUME NEW q, NEW p, RecvGood(q, p)
    PROVE  /\ q \in Seq(RecvMessages) /\ Len(q) \in Nat
           /\ AnnouncedSizes(q) \in Seq(Nat) /\ Len(AnnouncedSizes(q)) = Len(q)
           /\ \A i \in 1..Len(q) : AnnouncedSizes(q)[i] = Announced(q[i]) /\ Frame(q[i])
<1>1. q \in Seq(RecvMessages) /\ Len(q) \in Nat /\ \A i \in 1..Len(q) : Frame(q[i])
  BY DEF RecvGood
<1>2. \A i \in 1..Len(q) : Announced(q[i]) \in Nat
  BY <1>1, FrameFact
<1> QED  BY <1>1, <1>2 DEF AnnouncedSizes

\* The unit expected next is put where it belongs.
LEMMA AbsorbFact ==
    ASSUME NEW q, NEW p \in Nat, RecvGood(q, p), NEW u, Matches(Cursor(q, p), u)
    PROVE  LET r == Absorb(q, u)
           IN  RecvGood(r, p) /\ Cursor(r, p) = After(u) /\ UnitsIn(r) = UnitsIn(q) + 1
<1> DEFINE r == Absorb(q, u)
           n == Len(q)
           begins == n = 0 \/ complete(q[n])
           a == AnnouncedSizes(q)
           b == AnnouncedSizes(r)
<1>1. q \in Seq(RecvMessages) /\ u \in Unit /\ n \in Nat
  BY DEF RecvGood, Matches
<1>2. \A i \in 1..n : Frame(q[i]) /\ q[i].hdr[1].id = p + i /\ (i < n => complete(q[i]))
  BY DEF RecvGood
<1>3. /\ r \in Seq(RecvMessages)
      /\ begins => /\ Len(r) = n + 1 /\ \A i \in 1..n : r[i] = q[i]
                   /\ r[n + 1] = readHeader(NetMessage, u)
      /\ ~begins => /\ Len(r) = n /\ \A i \in 1..(n - 1) : r[i] = q[i]
                    /\ r[n] = Grown(q[n], u)
  BY <1>1, AbsorbShape
<1>4. a \in Seq(Nat) /\ Len(a) = n /\ \A i \in 1..n : a[i] = Announced(q[i])
  BY SizesFact
<1>5. RecvGood(r, p) =>
        /\ b \in Seq(Nat) /\ Len(b) = Len(r) /\ \A i \in 1..Len(r) : b[i] = Announced(r[i])
  <2> HIDE DEF r
  <2> QED  BY SizesFact
<1>6. CASE begins
  <2> DEFINE m == readHeader(NetMessage, u)
  <2>1. /\ Len(r) = n + 1 /\ \A i \in 1..n : r[i] = q[i]
        /\ r[n + 1] = m
    BY <1>3, <1>6
  <2>2. Cursor(q, p).pos = 1 /\ Cursor(q, p).id = p + (n + 1)
    <3>1. CASE n = 0
      BY <3>1 DEF Cursor
    <3>2. CASE n # 0
      <4>1. n \in 1..n
        BY <1>1, <3>2
      <4>2. q[n].hdr[1].id = p + n
        BY <1>2, <4>1
      <4>3. (p + n) + 1 = p + (n + 1)
        <5> HIDE DEF n
        <5> QED  BY <1>1
      <4>4. Cursor(q, p) = [id |-> q[n].hdr[1].id + 1, pos |-> 1, size |-> 0]
        BY <1>6, <3>2 DEF Cursor, MsgCursor
      <4> QED  BY <4>2, <4>3, <4>4
    <3> QED  BY <3>1, <3>2
  <2>3. u.pos = 1 /\ u.id = p + (n + 1) /\ u.pos \in 1..(HdrLen + u.size)
    <3> DEFINE c == Cursor(q, p)
    <3>1. u.pos = c.pos /\ u.id = c.id /\ u.pos \in 1..(HdrLen + u.size)
      BY DEF Matches
    <3> HIDE DEF c
    <3>2. c.pos = 1 /\ c.id = p + (n + 1)
      BY <2>2 DEF c
    <3> QED  BY <3>1, <3>2
  <2>4. Frame(m) /\ m.hdr[1] = u /\ MsgCursor(m) = After(u) /\ Count(m) = 1
    BY <1>1, <2>3, BeginFact
  <2> HIDE DEF r, m
  <2>5. RecvGood(r, p)
    <3>1. ASSUME NEW i \in 1..(n + 1)
          PROVE  Frame(r[i]) /\ r[i].hdr[1].id = p + i /\ (i < n + 1 => complete(r[i]))
      <4>1. CASE i = n + 1
        <5>1. ~(i < n + 1)
          <6> HIDE DEF n
          <6> QED  BY <1>1, <4>1
        <5> QED  BY <2>1, <2>3, <2>4, <4>1, <5>1
      <4>2. CASE i # n + 1
        <5>1. i \in 1..n /\ (i < n \/ (i = n /\ n # 0))
          <6> HIDE DEF n
          <6> QED  BY <1>1, <4>2
        <5>2. complete(q[i])
          BY <1>2, <1>6, <5>1
        <5> QED  BY <1>2, <2>1, <5>1, <5>2
      <4> QED  BY <4>1, <4>2
    <3> HIDE DEF n
    <3> QED  BY <1>3, <2>1, <3>1 DEF RecvGood
  <2>6. Cursor(r, p) = After(u)
    <3>1. n + 1 # 0
      <4> HIDE DEF n
      <4> QED  BY <1>1
    <3> QED  BY <2>1, <2>4, <3>1 DEF Cursor
  <2>7. UnitsIn(r) = UnitsIn(q) + 1
    <3>1. UnitsIn(r) = Upto(b, n) + 1
      <4>1. n + 1 # 0 /\ (n + 1) - 1 = n
        <5> HIDE DEF n
        <5> QED  BY <1>1
      <4> HIDE DEF n
      <4> QED  BY <2>1, <2>4, <4>1 DEF UnitsIn
    <3>2. Upto(b, n) = Upto(a, n)
      <4>1. b \in Seq(Nat) /\ Len(b) = n + 1 /\ \A i \in 1..(n + 1) : b[i] = Announced(r[i])
        BY <1>5, <2>1, <2>5
      <4>2. \A i \in 1..n : i \in 1..(n + 1)
        <5> HIDE DEF n
        <5> QED  BY <1>1
      <4>3. \A i \in 1..n : b[i] = a[i]
        BY <1>4, <2>1, <4>1, <4>2
      <4>4. n <= Len(a) /\ n <= Len(b)
        <5> HIDE DEF n, a, b
        <5> QED  BY <1>1, <1>4, <4>1
      <4> HIDE DEF n, a, b
      <4> QED  BY <1>1, <1>4, <4>1, <4>3, <4>4, UptoAgree
    <3>3. UnitsIn(q) = Upto(a, n)
      <4>1. CASE n = 0
        <5>1. Upto(a, 0) = 0
          BY <1>4, UptoFact
        <5> QED  BY <4>1, <5>1 DEF UnitsIn
      <4>2. CASE n # 0
        <5>1. n \in 1..n
          BY <1>1, <4>2
        <5>2. Count(q[n]) = Announced(q[n])
          BY <1>2, <1>6, <4>2, <5>1, FrameFact
        <5>3. Upto(a, n) = Upto(a, n - 1) + a[n] /\ a[n] = Announced(q[n])
          <6> HIDE DEF a
          <6> QED  BY <1>4, <5>1, UptoFact
        <5> QED  BY <4>2, <5>2, <5>3 DEF UnitsIn
      <4> QED  BY <4>1, <4>2
    <3> QED  BY <3>1, <3>2, <3>3
  <2> QED  BY <2>5, <2>6, <2>7 DEF r
<1>7. CASE ~begins
  <2> DEFINE m == Grown(q[n], u)
  <2>1. /\ Len(r) = n /\ \A i \in 1..(n - 1) : r[i] = q[i]
        /\ r[n] = m
    BY <1>3, <1>7
  <2>2. n \in 1..n /\ n # 0 /\ n - 1 \in Nat /\ \A i \in 1..(n - 1) : i \in 1..n
    <3> HIDE DEF n
    <3> QED  BY <1>1, <1>7
  <2>3. Cursor(q, p) = MsgCursor(q[n]) /\ Frame(q[n]) /\ q[n].hdr[1].id = p + n /\ ~complete(q[n])
    BY <1>2, <1>7, <2>2 DEF Cursor
  <2>4. Frame(m) /\ m.hdr[1] = q[n].hdr[1] /\ MsgCursor(m) = After(u) /\ Count(m) = Count(q[n]) + 1
    BY <2>3, GrowFact
  <2> HIDE DEF r, m
  <2>5. RecvGood(r, p)
    <3>1. ASSUME NEW i \in 1..n
          PROVE  Frame(r[i]) /\ r[i].hdr[1].id = p + i /\ (i < n => complete(r[i]))
      <4>1. CASE i = n
        <5>1. ~(i < n)
          <6> HIDE DEF n
          <6> QED  BY <1>1, <4>1
        <5> QED  BY <2>1, <2>3, <2>4, <4>1, <5>1
      <4>2. CASE i # n
        <5>1. i \in 1..(n - 1) /\ i < n
          <6> HIDE DEF n
          <6> QED  BY <1>1, <4>2
        <5> QED  BY <1>2, <2>1, <5>1
      <4> QED  BY <4>1, <4>2
    <3> HIDE DEF n
    <3> QED  BY <1>3, <2>1, <3>1 DEF RecvGood
  <2>6. Cursor(r, p) = After(u)
    BY <2>1, <2>2, <2>4 DEF Cursor
  <2>7. UnitsIn(r) = UnitsIn(q) + 1
    <3>1. UnitsIn(r) = Upto(b, n - 1) + Count(m)
      BY <2>1, <2>2 DEF UnitsIn
    <3>2. UnitsIn(q) = Upto(a, n - 1) + Count(q[n])
      BY <2>2 DEF UnitsIn
    <3>3. b \in Seq(Nat) /\ Len(b) = n /\ \A i \in 1..n : b[i] = Announced(r[i])
      BY <1>5, <2>1, <2>5
    <3>4. Upto(b, n - 1) = Upto(a, n - 1)
      <4>1. \A i \in 1..(n - 1) : b[i] = a[i]
        BY <1>4, <2>1, <2>2, <3>3
      <4>2. n - 1 <= Len(a) /\ n - 1 <= Len(b)
        <5> HIDE DEF n, a, b
        <5> QED  BY <1>1, <1>4, <3>3
      <4> DEFINE k == n - 1
      <4> HIDE DEF a, b, k
      <4>3. k \in Nat /\ k <= Len(a) /\ k <= Len(b) /\ \A i \in 1..k : b[i] = a[i]
        BY <2>2, <4>1, <4>2 DEF k
      <4>4. Upto(b, k) = Upto(a, k)
        BY <1>4, <3>3, <4>3, UptoAgree
      <4> QED  BY <4>4 DEF k
    <3>5. Upto(a, n - 1) \in Nat
      <4>1. n - 1 \in 0..n
        <5> HIDE DEF n
        <5> QED  BY <2>2
      <4> HIDE DEF a
      <4> QED  BY <1>4, <4>1, UptoFact
    <3>6. Count(q[n]) \in Nat
      BY <2>3, FrameFact
    <3> DEFINE x == Upto(a, n - 1)
               y == Count(q[n])
    <3> HIDE DEF x, y
    <3>7. x \in Nat /\ y \in Nat /\ UnitsIn(r) = x + (y + 1) /\ UnitsIn(q) = x + y
      BY <2>4, <3>1, <3>2, <3>4, <3>5, <3>6 DEF x, y
    <3> QED  BY <3>7
  <2> QED  BY <2>5, <2>6, <2>7 DEF r
<1> QED  BY <1>6, <1>7
\* One unfolding of the loop of ReceiveMsgBytes.
UnfoldReceive(q, units, got) == [k \in 0..Len(units) |-> IF k = 0 THEN q ELSE Absorb(got[k - 1], units[k])]

\* However many units recv() returns, they are put where they belong.
LEMMA ReceiveFact ==
    ASSUME NEW q, NEW p \in Nat, RecvGood(q, p), NEW units \in Seq(Unit), Chain(Cursor(q, p), units)
    PROVE  LET r == ReceiveMsgBytes(q, units)
           IN  /\ RecvGood(r, p) /\ Cursor(r, p) = EndOf(Cursor(q, p), units)
               /\ UnitsIn(r) = UnitsIn(q) + Len(units)
<1> DEFINE X == Seq(RecvMessages)
           n == Len(units)
           T == [z \in (1..n) \X X |-> Absorb(z[2], units[z[1]])]
           c == Cursor(q, p)
<1>1. n \in Nat /\ \A i \in 1..n : units[i] \in Unit
  OBVIOUS
<1>2. q \in X
  BY DEF RecvGood
<1>3. \A i \in 1..n : \A x \in X : Absorb(x, units[i]) \in X
  BY <1>1, AbsorbShape
<1> HIDE DEF X, n
<1>4. T \in [(1..n) \X X -> X] /\ \A i \in 1..n, x \in X : T[<<i, x>>] = Absorb(x, units[i])
  BY <1>3
<1> HIDE DEF T
<1>5. PICK g \in [0..n -> X] : g = UnfoldOver(n, q, T, g)
  <2>1. LoopOver(X, q, n, T)
    BY <1>1, <1>2, <1>4 DEF LoopOver
  <2> QED  BY <2>1, FiniteRecursion
<1>6. g = UnfoldReceive(q, units, g)
  <2>1. \A i \in 0..n : UnfoldOver(n, q, T, g)[i] = UnfoldReceive(q, units, g)[i]
    <3> SUFFICES ASSUME NEW i \in 0..n PROVE UnfoldOver(n, q, T, g)[i] = UnfoldReceive(q, units, g)[i]
      OBVIOUS
    <3>1. i # 0 => i \in 1..n /\ i - 1 \in 0..n
      BY <1>1
    <3>2. i # 0 => g[i - 1] \in X
      BY <1>5, <3>1
    <3> QED  BY <1>4, <3>1, <3>2 DEF UnfoldOver, UnfoldReceive, n
  <2> QED  BY <1>5, <2>1 DEF UnfoldOver, UnfoldReceive, n
<1>7. PICK got : got = UnfoldReceive(q, units, got) /\ ReceiveMsgBytes(q, units) = got[n]
  <2> DEFINE got == CHOOSE x : x = UnfoldReceive(q, units, x)
  <2>1. got = UnfoldReceive(q, units, got)
    BY <1>6
  <2>2. ReceiveMsgBytes(q, units) = got[n]
    BY DEF ReceiveMsgBytes, UnfoldReceive, n
  <2> QED  BY <2>1, <2>2
<1>8. got[0] = q /\ \A i \in 1..n : got[i] = Absorb(got[i - 1], units[i])
  <2>1. \A i \in 0..n : UnfoldReceive(q, units, got)[i] = IF i = 0 THEN q ELSE Absorb(got[i - 1], units[i])
    BY DEF UnfoldReceive, n
  <2>2. 0 \in 0..n /\ \A i \in 1..n : i \in 0..n /\ i # 0
    BY <1>1
  <2> QED  BY <1>7, <2>1, <2>2
<1> DEFINE P(i) == /\ RecvGood(got[i], p)
                   /\ Cursor(got[i], p) = IF i = 0 THEN c ELSE After(units[i])
                   /\ UnitsIn(got[i]) = UnitsIn(q) + i
           S == {i \in 0..n : P(i)}
<1>9. UnitsIn(q) \in Nat
  <2>1. CASE Len(q) = 0
    BY <2>1 DEF UnitsIn
  <2>2. CASE Len(q) # 0
    <3>1. /\ Len(q) \in Nat /\ AnnouncedSizes(q) \in Seq(Nat) /\ Len(AnnouncedSizes(q)) = Len(q)
          /\ \A i \in 1..Len(q) : Frame(q[i])
      BY SizesFact
    <3>2. Len(q) \in 1..Len(q) /\ Len(q) - 1 \in 0..Len(q)
      BY <2>2, <3>1
    <3>3. Count(q[Len(q)]) \in Nat
      BY <3>1, <3>2, FrameFact
    <3>4. Upto(AnnouncedSizes(q), Len(q) - 1) \in Nat
      BY <3>1, <3>2, UptoFact
    <3> QED  BY <2>2, <3>3, <3>4 DEF UnitsIn
  <2> QED  BY <2>1, <2>2
<1>10. 0 \in S
  <2>1. P(0)
    BY <1>8, <1>9
  <2> QED  BY <1>1, <2>1
<1>11. ASSUME NEW i \in 1..n, i - 1 \in S PROVE i \in S
  <2> DEFINE x == got[i - 1]
             r == got[i]
             k == i - 1
  <2>1. P(k)
    BY <1>11
  <2>2. RecvGood(x, p) /\ UnitsIn(x) = UnitsIn(q) + k /\ Cursor(x, p) = IF i = 1 THEN c ELSE After(units[i - 1])
    <3>1. k = 0 <=> i = 1
      BY <1>1
    <3> QED  BY <2>1, <3>1
  <2>3. Matches(IF i = 1 THEN c ELSE After(units[i - 1]), units[i])
    BY DEF Chain, n
  <2>4. r = Absorb(x, units[i])
    BY <1>8
  <2> HIDE DEF x, r
  <2>5. RecvGood(r, p) /\ Cursor(r, p) = After(units[i]) /\ UnitsIn(r) = UnitsIn(x) + 1
    BY <2>2, <2>3, <2>4, AbsorbFact
  <2>6. UnitsIn(r) = UnitsIn(q) + i /\ i # 0 /\ i \in 0..n
    BY <1>1, <1>9, <2>2, <2>5
  <2> QED  BY <2>5, <2>6 DEF r
<1> HIDE DEF S
<1>12. \A i \in 0..n : i \in S
  BY <1>1, <1>10, <1>11, UpTo
<1>13. P(n)
  <2>1. n \in S
    BY <1>1, <1>12
  <2> QED  BY <2>1 DEF S
<1>14. EndOf(c, units) = IF n = 0 THEN c ELSE After(units[n])
  BY DEF EndOf, n
<1> QED  BY <1>7, <1>13, <1>14 DEF n

\* What the header announces but has not come yet is bounded.
LEMMA AnnouncedBound ==
    ASSUME NEW q, NEW p, RecvGood(q, p), ~Rejected(q)
    PROVE  /\ Total(AnnouncedSizes(q)) \in Nat /\ UnitsIn(q) \in Nat
           /\ UnitsIn(q) <= Total(AnnouncedSizes(q))
           /\ Total(AnnouncedSizes(q)) <= UnitsIn(q) + HdrLen + MAX_SIZE
           /\ Len(q) = 0 \/ ~complete(q[1]) => Total(AnnouncedSizes(q)) <= HdrLen + MAX_SIZE
<1> DEFINE n == Len(q)
           a == AnnouncedSizes(q)
<1>1. HdrLen \in Nat /\ MAX_SIZE \in Nat
  BY SocketBuffersAssumption
<1>2. /\ n \in Nat /\ a \in Seq(Nat) /\ Len(a) = n
      /\ \A i \in 1..n : a[i] = Announced(q[i]) /\ Frame(q[i])
  BY SizesFact
<1>3. \A i \in 1..n : i < n => complete(q[i])
  BY DEF RecvGood
<1>4. \A i \in 1..n : ~(q[i].in_data /\ q[i].hdr[1].size > MAX_SIZE)
  BY DEF Rejected
<1>5. Total(a) = Upto(a, n)
  BY <1>2 DEF Total
<1>6. CASE n = 0
  <2>1. Upto(a, 0) = 0
    BY <1>2, UptoFact
  <2> QED  BY <1>1, <1>5, <1>6, <2>1 DEF UnitsIn
<1>7. CASE n # 0
  <2> DEFINE l == q[n]
             s == l.hdr[1].size
  <2>1. n \in 1..n /\ n - 1 \in 0..n /\ 1 \in 1..n
    <3> HIDE DEF n
    <3> QED  BY <1>2, <1>7
  <2>2. Upto(a, n) = Upto(a, n - 1) + Announced(l) /\ Upto(a, n - 1) \in Nat
    <3>1. a[n] = Announced(l)
      BY <1>2, <2>1
    <3> HIDE DEF a, l, n
    <3> QED  BY <1>2, <2>1, <3>1, UptoFact
  <2>3. UnitsIn(q) = Upto(a, n - 1) + Count(l)
    BY <1>7 DEF UnitsIn
  <2>4. /\ Announced(l) \in Nat /\ Count(l) \in Nat /\ Count(l) <= Announced(l)
        /\ Announced(l) <= HdrLen + s /\ (~l.in_data => Announced(l) = HdrLen) /\ s \in Nat
    <3>1. Frame(l)
      BY <1>2, <2>1
    <3> HIDE DEF l
    <3> QED  BY <3>1, FrameFact
  <2>5. Announced(l) <= HdrLen + MAX_SIZE
    <3>1. ~(l.in_data /\ s > MAX_SIZE)
      BY <1>4, <2>1
    <3> HIDE DEF s, l
    <3>2. CASE l.in_data
      BY <1>1, <2>4, <3>1, <3>2
    <3>3. CASE ~l.in_data
      BY <1>1, <2>4, <3>3
    <3> QED  BY <3>2, <3>3
  <2>6. ~complete(q[1]) => n = 1
    <3>1. ~(1 < n) => n = 1
      <4> HIDE DEF n
      <4> QED  BY <2>1
    <3> QED  BY <1>3, <2>1, <3>1
  <2>7. n = 1 => Upto(a, n - 1) = 0
    <3>1. 1 - 1 = 0
      OBVIOUS
    <3> HIDE DEF a
    <3>2. Upto(a, 0) = 0
      BY <1>2, UptoFact
    <3> QED  BY <3>1, <3>2
  <2> DEFINE x == Upto(a, n - 1)
             y == Count(l)
             z == Announced(l)
             t == Total(a)
  <2>8. /\ x \in Nat /\ y \in Nat /\ z \in Nat /\ y <= z /\ z <= HdrLen + MAX_SIZE
        /\ t = x + z /\ UnitsIn(q) = x + y
    BY <1>5, <2>2, <2>3, <2>4, <2>5
  <2>9. ~complete(q[1]) => x = 0
    BY <2>6, <2>7
  <2> HIDE DEF x, y, z, t
  <2>10. /\ t \in Nat /\ UnitsIn(q) \in Nat /\ UnitsIn(q) <= t /\ t <= UnitsIn(q) + HdrLen + MAX_SIZE
         /\ ~complete(q[1]) => t <= HdrLen + MAX_SIZE
    BY <1>1, <2>8, <2>9
  <2> QED  BY <1>7, <2>10 DEF t
<1> QED  BY <1>6, <1>7

\* The first message is processed.
LEMMA PopFact ==
    ASSUME NEW q, NEW p \in Nat, RecvGood(q, p), q # << >>, complete(q[1]), ~Rejected(q)
    PROVE  /\ RecvGood(Tail(q), p + 1) /\ Cursor(Tail(q), p + 1) = Cursor(q, p) /\ ~Rejected(Tail(q))
           /\ Head(q) = q[1] /\ q[1].hdr[1].id = p + 1 /\ Len(Tail(q)) = Len(q) - 1 /\ Len(q) \in Nat \ {0}
           /\ Total(AnnouncedSizes(Tail(q))) <= Total(AnnouncedSizes(q))
<1> DEFINE n == Len(q)
           r == Tail(q)
           a == AnnouncedSizes(q)
           b == AnnouncedSizes(r)
<1>1. q \in Seq(RecvMessages)
  BY DEF RecvGood
<1>2. /\ r \in Seq(RecvMessages) /\ Len(r) = n - 1 /\ \A i \in 1..(n - 1) : r[i] = q[i + 1]
      /\ n \in Nat \ {0} /\ Head(q) = q[1]
  BY <1>1
<1>3. \A i \in 1..n : Frame(q[i]) /\ q[i].hdr[1].id = p + i /\ (i < n => complete(q[i]))
  BY DEF RecvGood
<1>4. q[1].hdr[1].id = p + 1
  BY <1>2, <1>3
<1> HIDE DEF r
<1>5. RecvGood(r, p + 1)
  <2>1. ASSUME NEW i \in 1..(n - 1)
        PROVE  Frame(r[i]) /\ r[i].hdr[1].id = (p + 1) + i /\ (i < n - 1 => complete(r[i]))
    <3>1. i + 1 \in 1..n /\ p + (i + 1) = (p + 1) + i /\ (i < n - 1 => i + 1 < n)
      <4> HIDE DEF n
      <4> QED  BY <1>2
    <3> QED  BY <1>2, <1>3, <3>1
  <2> HIDE DEF n
  <2> QED  BY <1>2, <2>1 DEF RecvGood
<1>6. Cursor(r, p + 1) = Cursor(q, p)
  <2>1. CASE n = 1
    <3>1. n - 1 = 0
      BY <2>1
    <3>2. Cursor(q, p) = [id |-> (p + 1) + 1, pos |-> 1, size |-> 0]
      BY <1>4, <2>1 DEF Cursor, MsgCursor
    <3> QED  BY <1>2, <3>1, <3>2 DEF Cursor
  <2>2. CASE n # 1
    <3>1. n - 1 \in 1..(n - 1) /\ (n - 1) + 1 = n /\ n - 1 # 0 /\ n # 0
      <4> HIDE DEF n
      <4> QED  BY <1>2, <2>2
    <3>2. r[n - 1] = q[n]
      <4>1. r[n - 1] = q[(n - 1) + 1]
        BY <1>2, <3>1
      <4> QED  BY <3>1, <4>1
    <3> QED  BY <1>2, <3>1, <3>2 DEF Cursor
  <2> QED  BY <2>1, <2>2
<1>7. ~Rejected(r)
  <2>1. \A i \in 1..n : ~(q[i].in_data /\ q[i].hdr[1].size > MAX_SIZE)
    BY DEF Rejected
  <2>2. \A i \in 1..(n - 1) : i + 1 \in 1..n
    <3> HIDE DEF n
    <3> QED  BY <1>2
  <2>3. \A i \in 1..(n - 1) : ~(r[i].in_data /\ r[i].hdr[1].size > MAX_SIZE)
    BY <1>2, <2>1, <2>2
  <2> QED  BY <1>2, <2>3 DEF Rejected
<1>8. Total(b) <= Total(a)
  <2>1. /\ a \in Seq(Nat) /\ Len(a) = n /\ \A i \in 1..n : a[i] = Announced(q[i])
        /\ b \in Seq(Nat) /\ Len(b) = n - 1 /\ \A i \in 1..(n - 1) : b[i] = Announced(r[i])
    <3>1. /\ a \in Seq(Nat) /\ Len(a) = n /\ \A i \in 1..n : a[i] = Announced(q[i])
      BY SizesFact
    <3>2. /\ b \in Seq(Nat) /\ Len(b) = Len(r) /\ \A i \in 1..Len(r) : b[i] = Announced(r[i])
      <4>1. p + 1 \in Nat
        OBVIOUS
      <4> QED  BY <1>5, <4>1, SizesFact
    <3> QED  BY <1>2, <3>1, <3>2
  <2> HIDE DEF a, b, n
  <2>2. \A i \in 1..(n - 1) : i + 1 \in 1..n /\ 1 + i = i + 1
    BY <1>2
  <2>3. \A i \in 1..(n - 1) : b[i] = a[1 + i]
    BY <1>2, <2>1, <2>2
  <2> DEFINE m == n - 1
  <2>4. m \in Nat /\ 1 + m = n /\ 1 \in 0..Len(a) /\ 1 + m <= Len(a) /\ m <= Len(b) /\ n \in 0..n /\ 1 \in 0..n
    BY <1>2, <2>1
  <2>5. \A i \in 1..m : b[i] = a[1 + i]
    BY <2>3
  <2>6. Len(b) = m
    BY <2>1
  <2> HIDE DEF m
  <2>7. \A i \in 0..m : Upto(b, i) = Upto(a, 1 + i) - Upto(a, 1)
    BY <2>1, <2>4, <2>5, UptoDrop
  <2>8. Upto(b, m) = Upto(a, n) - Upto(a, 1)
    <3>1. m \in 0..m
      BY <2>4
    <3>2. Upto(b, m) = Upto(a, 1 + m) - Upto(a, 1)
      BY <2>7, <3>1
    <3> QED  BY <2>4, <3>2
  <2>9. Upto(a, n) \in Nat /\ Upto(a, 1) \in Nat
    BY <2>1, <2>4, UptoFact
  <2>10. Upto(b, m) <= Upto(a, n)
    BY <2>8, <2>9
  <2> QED  BY <2>1, <2>6, <2>10 DEF Total
<1> QED  BY <1>2, <1>4, <1>5, <1>6, <1>7, <1>8 DEF r

----------------------------------------------------------------------------
(* The numbers of the messages.                                            *)

Ids(a, b) == [i \in 1..(b - a) |-> a + i]

LEMMA IdsFact ==
    ASSUME NEW a \in Nat, NEW b \in Nat, a <= b
    PROVE  /\ Ids(a, b) \in Seq(Nat) /\ Len(Ids(a, b)) = b - a
           /\ \A i \in 1..(b - a) : Ids(a, b)[i] = a + i
           /\ Ids(a, a) = << >> /\ Append(Ids(a, b), b + 1) = Ids(a, b + 1)
<1>1. b - a \in Nat
  OBVIOUS
<1>2. Ids(a, b) \in Seq(Nat) /\ Len(Ids(a, b)) = b - a /\ \A i \in 1..(b - a) : Ids(a, b)[i] = a + i
  BY <1>1 DEF Ids
<1>3. Ids(a, a) = << >>
  BY DEF Ids
<1>4. Append(Ids(a, b), b + 1) = Ids(a, b + 1)
  <2> DEFINE s == Ids(a, b)
             t == Append(s, b + 1)
             r == Ids(a, b + 1)
  <2>1. /\ t \in Seq(Nat) /\ Len(t) = Len(s) + 1
        /\ \A i \in 1..Len(s) : t[i] = s[i]
        /\ t[Len(s) + 1] = b + 1
    <3> HIDE DEF s
    <3> QED  BY <1>2, AppendProperties DEF s
  <2>2. (b + 1) - a \in Nat /\ (b - a) + 1 = (b + 1) - a
    OBVIOUS
  <2>3. r \in Seq(Nat) /\ Len(r) = (b + 1) - a /\ \A i \in 1..((b + 1) - a) : r[i] = a + i
    BY <2>2 DEF Ids
  <2> HIDE DEF s, t, r
  <2>4. Len(t) = Len(r) /\ Len(r) = (b + 1) - a
    BY <1>2, <2>1, <2>2, <2>3 DEF s
  <2>5. ASSUME NEW i \in 1..((b + 1) - a) PROVE t[i] = r[i]
    <3>1. CASE i \in 1..(b - a)
      BY <1>2, <2>1, <2>3, <3>1 DEF s
    <3>2. CASE i \notin 1..(b - a)
      <4>1. i = (b - a) + 1 /\ a + i = b + 1
        BY <3>2
      <4>2. t[i] = b + 1
        BY <1>2, <2>1, <4>1 DEF s
      <4> QED  BY <2>3, <4>1, <4>2
    <3> QED  BY <3>1, <3>2
  <2>6. t = r
    BY <2>1, <2>3, <2>4, <2>5
  <2> QED  BY <2>6 DEF t, r, s
<1> QED  BY <1>2, <1>3, <1>4

LEMMA IdsConcat ==
    ASSUME NEW a \in Nat, NEW b \in Nat, NEW c \in Nat, a <= b, b <= c
    PROVE  Ids(a, b) \o Ids(b, c) = Ids(a, c)
<1> DEFINE s == Ids(a, b)
           t == Ids(b, c)
           r == Ids(a, c)
           m == b - a
           n == c - b
<1>1. /\ m \in Nat /\ n \in Nat /\ c - a = m + n /\ a <= c
  OBVIOUS
<1>2. /\ s \in Seq(Nat) /\ Len(s) = m /\ \A i \in 1..m : s[i] = a + i
      /\ t \in Seq(Nat) /\ Len(t) = n /\ \A i \in 1..n : t[i] = b + i
  BY IdsFact
<1>3. r \in Seq(Nat) /\ Len(r) = m + n /\ \A i \in 1..(m + n) : r[i] = a + i
  BY <1>1, IdsFact
<1>4. a + m = b
  OBVIOUS
<1> HIDE DEF s, t, r, m, n
<1>5. /\ s \o t \in Seq(Nat) /\ Len(s \o t) = m + n
      /\ \A k \in 1..m : (s \o t)[k] = s[k]
      /\ \A k \in 1..n : (s \o t)[m + k] = t[k]
  <2>1. s \in Seq(Nat) /\ t \in Seq(Nat)
    BY <1>2
  <2>2. /\ s \o t \in Seq(Nat) /\ Len(s \o t) = Len(s) + Len(t)
        /\ \A k \in 1..Len(s) : (s \o t)[k] = s[k]
        /\ \A k \in 1..Len(t) : (s \o t)[Len(s) + k] = t[k]
    BY <2>1, ConcatFact
  <2>3. Len(s) = m /\ Len(t) = n
    BY <1>2
  <2> QED  BY <2>2, <2>3
<1>6. ASSUME NEW i \in 1..(m + n) PROVE (s \o t)[i] = r[i]
  <2>1. CASE i \in 1..m
    BY <1>2, <1>3, <1>5, <2>1
  <2>2. CASE i \notin 1..m
    <3> DEFINE k == i - m
    <3>1. k \in 1..n /\ m + k = i /\ a + i = b + k
      BY <1>1, <1>4, <2>2
    <3> HIDE DEF k
    <3> QED  BY <1>2, <1>3, <1>5, <3>1
  <2> QED  BY <2>1, <2>2
<1>7. s \o t = r
  <2> DEFINE q == s \o t
  <2>1. q \in Seq(Nat) /\ r \in Seq(Nat) /\ Len(q) = Len(r) /\ Len(r) = m + n
    BY <1>3, <1>5
  <2>2. \A i \in 1..Len(q) : q[i] = r[i]
    BY <1>6, <2>1
  <2> HIDE DEF q
  <2> QED  BY <2>1, <2>2, SeqEqual DEF q
<1> QED  BY <1>7 DEF s, t, r

\* The number of the last message that is begun before a cursor.
Begun(c) == IF c.pos = 1 THEN c.id - 1 ELSE c.id

LEMMA BegunFact ==
    ASSUME NEW c, NEW u, Matches(c, u)
    PROVE  /\ u.id \in Nat /\ Begun(After(u)) = u.id
           /\ Begun(c) = IF u.pos = 1 THEN u.id - 1 ELSE u.id
<1>1. u \in Unit /\ u.id = c.id /\ u.pos = c.pos /\ u.pos \in 1..(HdrLen + u.size)
  BY DEF Matches
<1>2. u.id \in Nat /\ u.pos \in Nat
  BY <1>1 DEF Unit
<1>3. Begun(After(u)) = u.id
  <2>1. CASE u.pos = HdrLen + u.size
    <3>1. (u.id + 1) - 1 = u.id
      BY <1>2
    <3> QED  BY <2>1, <3>1 DEF After, Begun
  <2>2. CASE u.pos # HdrLen + u.size
    <3>1. u.pos + 1 # 1
      BY <1>1, <1>2
    <3> QED  BY <2>2, <3>1 DEF After, Begun
  <2> QED  BY <2>1, <2>2
<1> QED  BY <1>1, <1>2, <1>3 DEF Begun

\* One unfolding of the loop of Starts.
UnfoldStarts(s, ids) ==
    [k \in 0..Len(s) |-> IF k = 0 THEN << >> ELSE IF s[k].pos = 1 THEN Append(ids[k - 1], s[k].id) ELSE ids[k - 1]]

\* The messages that start in a chain of units are numbered one after the other.
LEMMA StartsFact ==
    ASSUME NEW c, Begun(c) \in Nat, NEW s \in Seq(Unit), Chain(c, s)
    PROVE  /\ Begun(EndOf(c, s)) \in Nat /\ Begun(c) <= Begun(EndOf(c, s))
           /\ Starts(s) = Ids(Begun(c), Begun(EndOf(c, s)))
<1> DEFINE X == Seq(Nat)
           n == Len(s)
           T == [z \in (1..n) \X X |-> IF s[z[1]].pos = 1 THEN Append(z[2], s[z[1]].id) ELSE z[2]]
           b == Begun(c)
<1>1. n \in Nat /\ \A i \in 1..n : s[i] \in Unit
  OBVIOUS
<1>2. << >> \in X /\ b \in Nat
  OBVIOUS
<1>3. \A i \in 1..n : s[i].id \in Nat
  BY <1>1 DEF Unit
<1>4. \A i \in 1..n : \A x \in X : (IF s[i].pos = 1 THEN Append(x, s[i].id) ELSE x) \in X
  BY <1>3, AppendProperties
<1> HIDE DEF X, n, b
<1>5. /\ T \in [(1..n) \X X -> X]
      /\ \A i \in 1..n, x \in X : T[<<i, x>>] = IF s[i].pos = 1 THEN Append(x, s[i].id) ELSE x
  BY <1>4
<1> HIDE DEF T
<1>6. PICK g \in [0..n -> X] : g = UnfoldOver(n, << >>, T, g)
  <2>1. LoopOver(X, << >>, n, T)
    BY <1>1, <1>2, <1>5 DEF LoopOver
  <2> QED  BY <2>1, FiniteRecursion
<1>7. g = UnfoldStarts(s, g)
  <2>1. \A i \in 0..n : UnfoldOver(n, << >>, T, g)[i] = UnfoldStarts(s, g)[i]
    <3> SUFFICES ASSUME NEW i \in 0..n PROVE UnfoldOver(n, << >>, T, g)[i] = UnfoldStarts(s, g)[i]
      OBVIOUS
    <3>1. i # 0 => i \in 1..n /\ i - 1 \in 0..n
      BY <1>1
    <3>2. i # 0 => g[i - 1] \in X
      BY <1>6, <3>1
    <3> QED  BY <1>5, <3>1, <3>2 DEF UnfoldOver, UnfoldStarts, n
  <2> QED  BY <1>6, <2>1 DEF UnfoldOver, UnfoldStarts, n
<1>8. PICK ids : ids = UnfoldStarts(s, ids) /\ Starts(s) = ids[n]
  <2> DEFINE ids == CHOOSE x : x = UnfoldStarts(s, x)
  <2>1. ids = UnfoldStarts(s, ids)
    BY <1>7
  <2>2. Starts(s) = ids[n]
    BY DEF Starts, UnfoldStarts, n
  <2> QED  BY <2>1, <2>2
<1>9. ids[0] = << >> /\ \A i \in 1..n : ids[i] = IF s[i].pos = 1 THEN Append(ids[i - 1], s[i].id) ELSE ids[i - 1]
  <2>1. \A i \in 0..n : UnfoldStarts(s, ids)[i] =
            IF i = 0 THEN << >> ELSE IF s[i].pos = 1 THEN Append(ids[i - 1], s[i].id) ELSE ids[i - 1]
    BY DEF UnfoldStarts, n
  <2>2. 0 \in 0..n /\ \A i \in 1..n : i \in 0..n /\ i # 0
    BY <1>1
  <2> QED  BY <1>8, <2>1, <2>2
<1> DEFINE e(i) == IF i = 0 THEN b ELSE s[i].id
           S == {i \in 0..n : e(i) \in Nat /\ b <= e(i) /\ ids[i] = Ids(b, e(i))}
<1>10. 0 \in S
  <2>1. Ids(b, b) = << >> /\ b <= b /\ 0 \in 0..n
    BY <1>1, <1>2, IdsFact
  <2> QED  BY <1>2, <1>9, <2>1
<1>11. ASSUME NEW i \in 1..n, i - 1 \in S PROVE i \in S
  <2> DEFINE k == i - 1
             x == e(k)
             d == IF i = 1 THEN c ELSE After(s[k])
  <2>1. x \in Nat /\ b <= x /\ ids[k] = Ids(b, x)
    BY <1>11
  <2>2. Matches(d, s[i])
    BY DEF Chain, n
  <2>3. Begun(d) = x
    <3>1. CASE i = 1
      BY <3>1 DEF b
    <3>2. CASE i # 1
      <4>1. k \in 1..n /\ k # 0 /\ k - 1 \in 0..n
        BY <1>1, <3>2
      <4>2. Matches(IF k = 1 THEN c ELSE After(s[k - 1]), s[k])
        BY <4>1 DEF Chain, n
      <4>3. Begun(After(s[k])) = s[k].id
        BY <4>2, BegunFact
      <4> QED  BY <3>2, <4>1, <4>3
    <3> QED  BY <3>1, <3>2
  <2>4. s[i].id \in Nat /\ Begun(d) = IF s[i].pos = 1 THEN s[i].id - 1 ELSE s[i].id
    BY <2>2, BegunFact
  <2>5. ids[i] = IF s[i].pos = 1 THEN Append(ids[k], s[i].id) ELSE ids[k]
    BY <1>9
  <2>6. e(i) = s[i].id /\ i \in 0..n
    BY <1>1
  <2> HIDE DEF x, d, k, e
  <2>7. CASE s[i].pos = 1
    <3>1. s[i].id = x + 1 /\ b <= x + 1
      BY <1>2, <2>1, <2>3, <2>4, <2>7
    <3>2. Append(Ids(b, x), x + 1) = Ids(b, x + 1)
      BY <1>2, <2>1, IdsFact
    <3> QED  BY <2>1, <2>4, <2>5, <2>6, <2>7, <3>1, <3>2
  <2>8. CASE s[i].pos # 1
    BY <2>1, <2>3, <2>4, <2>5, <2>6, <2>8
  <2> QED  BY <2>7, <2>8
<1> HIDE DEF S
<1>12. \A i \in 0..n : i \in S
  BY <1>1, <1>10, <1>11, UpTo
<1>13. e(n) \in Nat /\ b <= e(n) /\ ids[n] = Ids(b, e(n))
  <2>1. n \in S
    BY <1>1, <1>12
  <2> QED  BY <2>1 DEF S
<1>14. Begun(EndOf(c, s)) = e(n)
  <2>1. CASE n = 0
    BY <2>1 DEF EndOf, n, b
  <2>2. CASE n # 0
    <3>1. n \in 1..n
      BY <1>1, <2>2
    <3>2. Matches(IF n = 1 THEN c ELSE After(s[n - 1]), s[n])
      BY <3>1 DEF Chain, n
    <3>3. Begun(After(s[n])) = s[n].id
      BY <3>2, BegunFact
    <3> QED  BY <2>2, <3>3 DEF EndOf, n
  <2> QED  BY <2>1, <2>2
<1> QED  BY <1>8, <1>13, <1>14 DEF b

----------------------------------------------------------------------------
(* The inductive invariant.                                                *)

SendGood(msgs, last, offset, size) ==
    Numbered(msgs, last) /\ OffsetValid(msgs, offset) /\ size = Total(Lengths(msgs))
Bound == Largest + ReadMax + HdrLen + MAX_SIZE
Room(q) == q # << >> /\ complete(q[1]) => Total(AnnouncedSizes(q)) <= ReceiveFloodSize
Here(n) == Cursor(vRecvMsg[n], processed[n])

OutGood(n) == SendGood(vSendMsg[n], pushed[n], nSendOffset[n], nSendSize[n])
InGood(n) ==
    /\ RecvGood(vRecvMsg[n], processed[n]) /\ ~Rejected(vRecvMsg[n])
    /\ Total(AnnouncedSizes(vRecvMsg[n])) <= Bound
    /\ fdset[n] = "recv" => Room(vRecvMsg[n])

\* The units on the wire continue what the peer has, up to what n has sent.
WireGood(n) ==
    up[Peer(n)] =>
        /\ Chain(Here(Peer(n)), wire[n])
        /\ up[n] => EndOf(Here(Peer(n)), wire[n]) = Position(vSendMsg[n], pushed[n], nSendOffset[n])

BuffersTyped ==
    /\ vSendMsg \in [Nodes -> Seq(SentMessages)] /\ wire \in [Nodes -> Seq(Unit)]
    /\ vRecvMsg \in [Nodes -> Seq(RecvMessages)] /\ \A n \in Nodes : Len(wire[n]) <= Wire
    /\ nSendOffset \in [Nodes -> Nat] /\ nSendSize \in [Nodes -> Nat]
    /\ fdset \in [Nodes -> {"none", "send", "recv"}] /\ busy \in [Nodes -> BOOLEAN]
    /\ pushed \in [Nodes -> Nat] /\ processed \in [Nodes -> Nat] /\ up \in [Nodes -> BOOLEAN]

StreamInv == BuffersTyped /\ \A n \in Nodes : OutGood(n) /\ InGood(n) /\ WireGood(n)

LEMMA PeerFact ==
    ASSUME NEW n \in Nodes
    PROVE  Peer(n) \in Nodes /\ Peer(n) # n /\ Peer(Peer(n)) = n /\ Nodes = {n, Peer(n)}
<1>1. PICK a \in Nodes, b \in Nodes : a # b /\ Nodes = {a, b}
  BY SocketBuffersAssumption
<1>2. \A x \in Nodes : \E m \in Nodes : m # x
  BY <1>1
<1>3. \A x \in Nodes : Peer(x) \in Nodes /\ Peer(x) # x
  BY <1>2 DEF Peer
<1> QED  BY <1>1, <1>3

LEMMA LeastFact ==
    ASSUME NEW a \in Int, NEW b \in Int
    PROVE  Least({a, b}) \in {a, b} /\ Least({a, b}) <= a /\ Least({a, b}) <= b
<1>1. \E x \in {a, b} : \A y \in {a, b} : x <= y
  <2>1. CASE a <= b
    BY <2>1
  <2>2. CASE ~(a <= b)
    BY <2>2
  <2> QED  BY <2>1, <2>2
<1> QED  BY <1>1 DEF Least

LEMMA BoundFact ==
    /\ HdrLen \in Nat \ {0} /\ Sizes \subseteq Nat /\ MAX_SIZE \in Nat /\ ReceiveFloodSize \in Nat
    /\ Wire \in Nat /\ ReadMax \in Nat /\ Bound \in Nat /\ Largest \in Nat
    /\ ReceiveFloodSize <= Largest /\ HdrLen + MAX_SIZE <= Largest /\ Largest <= Bound
    /\ Bound = Largest + ReadMax + HdrLen + MAX_SIZE
<1>1. /\ HdrLen \in Nat \ {0} /\ Sizes \subseteq Nat /\ MAX_SIZE \in Nat /\ ReceiveFloodSize \in Nat
      /\ Wire \in Nat /\ ReadMax \in Nat
  BY SocketBuffersAssumption
<1>2. /\ Largest \in Nat /\ ReceiveFloodSize <= Largest /\ HdrLen + MAX_SIZE <= Largest
  BY <1>1 DEF Largest
<1> HIDE DEF Largest
<1> QED  BY <1>1, <1>2 DEF Bound

LEMMA NothingReceived ==
    ASSUME NEW p \in Nat
    PROVE  /\ << >> \in Seq(RecvMessages) /\ RecvGood(<< >>, p) /\ ~Rejected(<< >>)
           /\ Total(AnnouncedSizes(<< >>)) <= Bound /\ Room(<< >>)
<1>1. << >> \in Seq(RecvMessages) /\ Len(<< >>) = 0
  OBVIOUS
<1>2. RecvGood(<< >>, p) /\ ~Rejected(<< >>)
  BY <1>1 DEF RecvGood, Rejected
<1>3. AnnouncedSizes(<< >>) \in Seq(Nat) /\ Len(AnnouncedSizes(<< >>)) = 0
  BY <1>2, SizesFact
<1>4. Total(AnnouncedSizes(<< >>)) = 0
  BY <1>3, UptoFact DEF Total
<1> QED  BY <1>1, <1>2, <1>4, BoundFact DEF Room

LEMMA NothingSent ==
    ASSUME NEW last \in Nat
    PROVE  /\ << >> \in Seq(SentMessages) /\ SendGood(<< >>, last, 0, 0)
           /\ Position(<< >>, last, 0) = [id |-> last + 1, pos |-> 1, size |-> 0]
<1>1. << >> \in Seq(SentMessages) /\ Len(<< >>) = 0
  OBVIOUS
<1>2. Numbered(<< >>, last) /\ OffsetValid(<< >>, 0)
  BY <1>1 DEF Numbered, OffsetValid
<1>3. Total(Lengths(<< >>)) = 0
  <2>1. Lengths(<< >>) \in Seq(Nat) /\ Len(Lengths(<< >>)) = 0
    BY <1>1, LengthsFact
  <2> QED  BY <2>1, UptoFact DEF Total
<1>4. Position(<< >>, last, 0) = [id |-> last - Len(<< >>) + 0 + 1, pos |-> 0 + 1, size |-> 0]
  BY <1>1, <1>2, PositionStart
<1>5. last - Len(<< >>) + 0 + 1 = last + 1
  BY <1>1
<1> QED  BY <1>1, <1>2, <1>3, <1>4, <1>5 DEF SendGood

LEMMA BuffersInitInv == BuffersInit => StreamInv
<1> SUFFICES ASSUME BuffersInit PROVE StreamInv
  OBVIOUS
<1>1. /\ vSendMsg = [n \in Nodes |-> << >>]
      /\ nSendOffset = [n \in Nodes |-> 0] /\ nSendSize = [n \in Nodes |-> 0]
      /\ wire = [n \in Nodes |-> << >>] /\ vRecvMsg = [n \in Nodes |-> << >>]
      /\ fdset = [n \in Nodes |-> "none"] /\ busy = [n \in Nodes |-> FALSE]
      /\ pushed = [n \in Nodes |-> 0] /\ processed = [n \in Nodes |-> 0]
      /\ up = [n \in Nodes |-> TRUE]
  BY DEF BuffersInit
<1>2. BuffersTyped
  <2>1. << >> \in Seq(SentMessages) /\ << >> \in Seq(Unit) /\ << >> \in Seq(RecvMessages) /\ Len(<< >>) = 0
    OBVIOUS
  <2>2. 0 <= Wire
    BY BoundFact
  <2> QED  BY <1>1, <2>1, <2>2 DEF BuffersTyped
<1>3. ASSUME NEW n \in Nodes PROVE OutGood(n) /\ InGood(n) /\ WireGood(n)
  <2>1. OutGood(n)
    BY <1>1, NothingSent DEF OutGood
  <2>2. InGood(n)
    BY <1>1, NothingReceived DEF InGood
  <2>3. WireGood(n)
    <3>1. Peer(n) \in Nodes
      BY PeerFact
    <3>2. wire[n] = << >> /\ vRecvMsg[Peer(n)] = << >> /\ processed[Peer(n)] = 0 /\ vSendMsg[n] = << >>
          /\ pushed[n] = 0 /\ nSendOffset[n] = 0
      BY <1>1, <3>1
    <3>3. Here(Peer(n)) = [id |-> 0 + 1, pos |-> 1, size |-> 0]
      BY <3>2 DEF Here, Cursor
    <3>4. Chain(Here(Peer(n)), wire[n]) /\ EndOf(Here(Peer(n)), wire[n]) = Here(Peer(n))
      BY <3>2 DEF Chain, EndOf
    <3>5. Position(vSendMsg[n], pushed[n], nSendOffset[n]) = [id |-> 0 + 1, pos |-> 1, size |-> 0]
      BY <3>2, NothingSent
    <3> QED  BY <3>3, <3>4, <3>5 DEF WireGood
  <2> QED  BY <2>1, <2>2, <2>3
<1> QED  BY <1>2, <1>3 DEF StreamInv

\* What is left alone stays good.
LEMMA OutFrame ==
    ASSUME NEW n, OutGood(n), vSendMsg'[n] = vSendMsg[n], nSendOffset'[n] = nSendOffset[n],
           nSendSize'[n] = nSendSize[n], pushed'[n] = pushed[n]
    PROVE  OutGood(n)'
BY DEF OutGood

LEMMA InFrame ==
    ASSUME NEW n, InGood(n), vRecvMsg'[n] = vRecvMsg[n], processed'[n] = processed[n],
           fdset'[n] = "recv" => fdset[n] = "recv"
    PROVE  InGood(n)'
BY DEF InGood

LEMMA WireFrame ==
    ASSUME NEW n, WireGood(n), up'[n] = up[n], up'[Peer(n)] = up[Peer(n)], wire'[n] = wire[n],
           vRecvMsg'[Peer(n)] = vRecvMsg[Peer(n)], processed'[Peer(n)] = processed[Peer(n)],
           vSendMsg'[n] = vSendMsg[n], nSendOffset'[n] = nSendOffset[n], pushed'[n] = pushed[n]
    PROVE  WireGood(n)'
BY DEF WireGood, Here, Peer

\* Only the flags change.
LEMMA FlagsInv ==
    ASSUME StreamInv, UNCHANGED <<sending, wire, vRecvMsg, processed, up>>,
           fdset' \in [Nodes -> {"none", "send", "recv"}], busy' \in [Nodes -> BOOLEAN],
           \A n \in Nodes : fdset'[n] = "recv" => fdset[n] = "recv" \/ Room(vRecvMsg[n])
    PROVE  StreamInv'
<1>1. BuffersTyped /\ \A n \in Nodes : OutGood(n) /\ InGood(n) /\ WireGood(n)
  BY DEF StreamInv
<1>2. /\ vSendMsg' = vSendMsg /\ nSendOffset' = nSendOffset /\ nSendSize' = nSendSize /\ pushed' = pushed
      /\ wire' = wire /\ vRecvMsg' = vRecvMsg /\ processed' = processed /\ up' = up
  BY DEF sending
<1>3. BuffersTyped'
  BY <1>1, <1>2 DEF BuffersTyped
<1>4. ASSUME NEW n \in Nodes PROVE OutGood(n)' /\ InGood(n)' /\ WireGood(n)'
  <2>1. OutGood(n)'
    BY <1>1, <1>2 DEF OutGood
  <2>2. InGood(n)'
    <3>1. fdset'[n] = "recv" => Room(vRecvMsg[n])
      BY <1>1 DEF InGood
    <3> QED  BY <1>1, <1>2, <3>1 DEF InGood
  <2>3. WireGood(n)'
    BY <1>1, <1>2 DEF WireGood, Here, Peer
  <2> QED  BY <2>1, <2>2, <2>3
<1> QED  BY <1>3, <1>4 DEF StreamInv

\* A node closes its socket.
LEMMA ClosedInv ==
    ASSUME StreamInv, NEW n \in Nodes, NEW locked, Closed(n, locked),
           fdset' \in [Nodes -> {"none", "send", "recv"}],
           \A k \in Nodes : fdset'[k] = "recv" => fdset[k] = "recv"
    PROVE  StreamInv'
<1> DEFINE m == Peer(n)
<1>1. BuffersTyped /\ \A k \in Nodes : OutGood(k) /\ InGood(k) /\ WireGood(k)
  BY DEF StreamInv
<1>2. m \in Nodes /\ m # n /\ Peer(m) = n /\ Nodes = {n, m} /\ Peer(m)' = n /\ Peer(n)' = m
  BY PeerFact DEF Peer
<1>3. /\ vSendMsg' = vSendMsg /\ nSendOffset' = nSendOffset /\ nSendSize' = nSendSize /\ pushed' = pushed
      /\ busy' = busy /\ processed' = processed
      /\ up' = [up EXCEPT ![n] = FALSE]
      /\ vRecvMsg' = [vRecvMsg EXCEPT ![n] = IF locked THEN << >> ELSE vRecvMsg[n]]
      /\ wire' = [wire EXCEPT ![m] = << >>]
  BY DEF Closed, sending
<1> HIDE DEF m
<1>4. /\ vSendMsg \in [Nodes -> Seq(SentMessages)] /\ wire \in [Nodes -> Seq(Unit)]
      /\ vRecvMsg \in [Nodes -> Seq(RecvMessages)] /\ \A k \in Nodes : Len(wire[k]) <= Wire
      /\ nSendOffset \in [Nodes -> Nat] /\ nSendSize \in [Nodes -> Nat]
      /\ busy \in [Nodes -> BOOLEAN]
      /\ pushed \in [Nodes -> Nat] /\ processed \in [Nodes -> Nat] /\ up \in [Nodes -> BOOLEAN]
  BY <1>1 DEF BuffersTyped
<1>5. /\ up'[n] = FALSE /\ up'[m] = up[m] /\ vRecvMsg'[m] = vRecvMsg[m] /\ wire'[n] = wire[n] /\ wire'[m] = << >>
      /\ vRecvMsg'[n] = << >> \/ vRecvMsg'[n] = vRecvMsg[n]
  BY <1>2, <1>3, <1>4
<1>6. BuffersTyped'
  <2>1. vRecvMsg' \in [Nodes -> Seq(RecvMessages)]
    BY <1>3, <1>4
  <2>2. wire' \in [Nodes -> Seq(Unit)] /\ \A k \in Nodes : Len(wire'[k]) <= Wire
    <3>1. wire' \in [Nodes -> Seq(Unit)]
      <4> DEFINE U == Seq(Unit)
      <4>1. << >> \in U /\ wire \in [Nodes -> U]
        BY <1>4
      <4> HIDE DEF U
      <4>2. wire' \in [Nodes -> U]
        BY <1>3, <4>1
      <4> QED  BY <4>2 DEF U
    <3>2. Len(wire'[n]) <= Wire /\ Len(wire'[m]) <= Wire
      BY <1>4, <1>5, BoundFact
    <3> QED  BY <1>2, <3>1, <3>2
  <2>3. up' \in [Nodes -> BOOLEAN]
    BY <1>3, <1>4
  <2> QED  BY <1>3, <1>4, <2>1, <2>2, <2>3 DEF BuffersTyped
<1>7. \A k \in Nodes : OutGood(k)'
  BY <1>1, <1>3 DEF OutGood
<1>8. InGood(n)'
  <2>1. CASE vRecvMsg'[n] = << >>
    <3>1. processed'[n] \in Nat
      BY <1>3, <1>4
    <3> QED  BY <2>1, <3>1, NothingReceived DEF InGood
  <2>2. CASE vRecvMsg'[n] = vRecvMsg[n]
    BY <1>1, <1>3, <2>2, InFrame
  <2> QED  BY <1>5, <2>1, <2>2
<1>9. InGood(m)'
  BY <1>1, <1>2, <1>3, <1>5, InFrame
<1>10. WireGood(m)'
  BY <1>2, <1>5 DEF WireGood
<1>11. WireGood(n)'
  <2>1. up[m] => Chain(Here(m), wire[n])
    BY <1>1 DEF WireGood, m
  <2>2. Here(m)' = Here(m)
    BY <1>3, <1>5 DEF Here
  <2> QED  BY <1>2, <1>5, <2>1, <2>2 DEF WireGood
<1>12. \A k \in Nodes : InGood(k)' /\ WireGood(k)'
  BY <1>2, <1>8, <1>9, <1>10, <1>11
<1> QED  BY <1>6, <1>7, <1>12 DEF StreamInv

----------------------------------------------------------------------------
(* Sending keeps the invariant.                                            *)

\* One more message is queued.
LEMMA AppendFact ==
    ASSUME NEW msgs \in Seq(SentMessages), NEW last \in Nat, NEW offset, NEW size,
           SendGood(msgs, last, offset, size), NEW data \in Sizes
    PROVE  LET msg == [id |-> last + 1, size |-> data]
               r == Append(msgs, msg)
           IN  /\ r \in Seq(SentMessages) /\ SendGood(r, last + 1, offset, size + Length(msg))
               /\ size \in Nat /\ Length(msg) \in Nat
               /\ Position(r, last + 1, offset) = Position(msgs, last, offset)
<1> DEFINE msg == [id |-> last + 1, size |-> data]
           r == Append(msgs, msg)
           n == Len(msgs)
           l == Lengths(msgs)
           k == Lengths(r)
           x == Length(msg)
<1>1. n \in Nat /\ data \in Nat /\ HdrLen \in Nat \ {0} /\ (n = 0 <=> msgs = << >>)
  BY BoundFact
<1>2. msg \in SentMessages /\ x = HdrLen + data /\ x \in Nat /\ msg.id = last + 1 /\ msg.size = data
  BY <1>1 DEF SentMessages, Length
<1>3. /\ r \in Seq(SentMessages) /\ Len(r) = n + 1 /\ r # << >>
      /\ \A i \in 1..n : r[i] = msgs[i]
      /\ r[n + 1] = msg
  BY <1>2, AppendProperties
<1>4. Numbered(msgs, last) /\ OffsetValid(msgs, offset) /\ size = Total(l)
  BY DEF SendGood
<1> HIDE DEF r, n
<1>5. Numbered(r, last + 1)
  <2> SUFFICES ASSUME NEW i \in 1..(n + 1) PROVE r[i].id = (last + 1) - (n + 1) + i
    BY <1>3 DEF Numbered
  <2>1. CASE i \in 1..n
    <3>1. msgs[i].id = last - n + i
      BY <1>4, <2>1 DEF Numbered, n
    <3>2. last - n + i = (last + 1) - (n + 1) + i
      BY <1>1
    <3> QED  BY <1>3, <2>1, <3>1, <3>2
  <2>2. CASE i \notin 1..n
    <3>1. i = n + 1 /\ last + 1 = (last + 1) - (n + 1) + i
      BY <1>1, <2>2
    <3> HIDE DEF msg
    <3> QED  BY <1>2, <1>3, <3>1
  <2> QED  BY <2>1, <2>2
<1>6. OffsetValid(r, offset) /\ (n = 0 => offset = 0) /\ offset \in Nat
  <2>1. CASE n = 0
    <3>1. offset = 0 /\ r[1] = msg
      BY <1>1, <1>3, <1>4, <2>1 DEF OffsetValid
    <3>2. 0 < x
      BY <1>1, <1>2
    <3> QED  BY <1>3, <3>1, <3>2 DEF OffsetValid
  <2>2. CASE n # 0
    <3>1. 1 \in 1..n
      BY <1>1, <2>2
    <3> QED  BY <1>1, <1>3, <1>4, <2>2, <3>1 DEF OffsetValid
  <2> QED  BY <2>1, <2>2
<1>7. size \in Nat /\ size + x = Total(k)
  <2>1. /\ l \in Seq(Nat) /\ Len(l) = n /\ k \in Seq(Nat) /\ Len(k) = n + 1
        /\ \A i \in 1..n : l[i] = HdrLen + msgs[i].size
        /\ \A i \in 1..(n + 1) : k[i] = HdrLen + r[i].size
    <3>1. l \in Seq(Nat) /\ Len(l) = n /\ \A i \in 1..n : l[i] = HdrLen + msgs[i].size
      BY LengthsFact DEF n
    <3>2. k \in Seq(Nat) /\ Len(k) = n + 1 /\ \A i \in 1..(n + 1) : k[i] = HdrLen + r[i].size
      BY <1>3, LengthsFact
    <3> QED  BY <3>1, <3>2
  <2> HIDE DEF l, k, msg, x
  <2>2. \A i \in 1..n : i \in 1..(n + 1)
    BY <1>1
  <2>3. \A i \in 1..n : k[i] = l[i]
    BY <1>3, <2>1, <2>2
  <2>4. n <= Len(l) /\ n <= Len(k) /\ n \in 0..n /\ n + 1 \in 1..(n + 1) /\ (n + 1) - 1 = n
    BY <1>1, <2>1
  <2>5. Upto(k, n) = Upto(l, n)
    BY <1>1, <2>1, <2>3, <2>4, UptoAgree
  <2>6. Upto(k, n + 1) = Upto(k, n) + k[n + 1]
    <3>1. Upto(k, n + 1) = Upto(k, (n + 1) - 1) + k[n + 1]
      BY <2>1, <2>4, UptoFact
    <3> QED  BY <2>4, <3>1
  <2>7. k[n + 1] = x
    BY <1>2, <1>3, <2>1, <2>4
  <2>8. Upto(l, n) \in Nat
    BY <2>1, <2>4, UptoFact
  <2> QED  BY <1>4, <2>1, <2>5, <2>6, <2>7, <2>8 DEF Total
<1>8. Position(r, last + 1, offset) = Position(msgs, last, offset)
  <2> DEFINE a == IF offset = 0 THEN 0 ELSE r[1].size
             b == IF offset = 0 THEN 0 ELSE msgs[1].size
  <2>1. Position(r, last + 1, offset) = [id |-> (last + 1) - (n + 1) + 0 + 1, pos |-> offset + 1, size |-> a]
    BY <1>3, <1>6, PositionStart
  <2>2. Position(msgs, last, offset) = [id |-> last - n + 0 + 1, pos |-> offset + 1, size |-> b]
    BY <1>4, PositionStart DEF n
  <2>3. a = b
    <3>1. offset # 0 => 1 \in 1..n
      BY <1>1, <1>6
    <3> QED  BY <1>3, <3>1
  <2>4. (last + 1) - (n + 1) + 0 + 1 = last - n + 0 + 1
    BY <1>1
  <2> QED  BY <2>1, <2>2, <2>3, <2>4
<1> QED  BY <1>2, <1>3, <1>5, <1>6, <1>7, <1>8 DEF SendGood, r

\* send() takes some of the units.
LEMMA SocketSendFact ==
    ASSUME BuffersTyped, NEW n \in Nodes, NEW msgs \in Seq(SentMessages), NEW last \in Nat, NEW size,
           SendGood(msgs, last, nSendOffset[n], size), SocketSendData(n, msgs, size)
    PROVE  /\ vSendMsg' \in [Nodes -> Seq(SentMessages)] /\ wire' \in [Nodes -> Seq(Unit)]
           /\ nSendOffset' \in [Nodes -> Nat] /\ nSendSize' \in [Nodes -> Nat]
           /\ \A k \in Nodes : Len(wire'[k]) <= Wire
           /\ \A k \in Nodes : k # n => /\ vSendMsg'[k] = vSendMsg[k] /\ wire'[k] = wire[k]
                                        /\ nSendOffset'[k] = nSendOffset[k] /\ nSendSize'[k] = nSendSize[k]
           /\ SendGood(vSendMsg'[n], last, nSendOffset'[n], nSendSize'[n])
           /\ \A c : Chain(c, wire[n]) /\ EndOf(c, wire[n]) = Position(msgs, last, nSendOffset[n]) =>
                  /\ Chain(c, wire'[n])
                  /\ EndOf(c, wire'[n]) = Position(vSendMsg'[n], last, nSendOffset'[n])
<1> DEFINE offset == nSendOffset[n]
           u == Unsent(msgs, offset)
<1>1. /\ vSendMsg \in [Nodes -> Seq(SentMessages)] /\ wire \in [Nodes -> Seq(Unit)]
      /\ \A k \in Nodes : Len(wire[k]) <= Wire
      /\ nSendOffset \in [Nodes -> Nat] /\ nSendSize \in [Nodes -> Nat]
  BY DEF BuffersTyped
<1>2. PICK k \in 0..Least({Wire - Len(wire[n]), Len(u)}) :
        LET sent == SentInFull(msgs, nSendOffset[n] + k)
        IN /\ wire' = [wire EXCEPT ![n] = @ \o SubSeq(Unsent(msgs, nSendOffset[n]), 1, k)]
           /\ vSendMsg' = [vSendMsg EXCEPT ![n] = SubSeq(msgs, sent + 1, Len(msgs))]
           /\ nSendOffset' = [nSendOffset EXCEPT ![n] = OffsetAfter(msgs, @, k)]
           /\ nSendSize' = [nSendSize EXCEPT ![n] = SizeAfter(size, msgs, nSendOffset[n], k)]
  BY DEF SocketSendData
<1> DEFINE sent == SentInFull(msgs, offset + k)
           s == SubSeq(u, 1, k)
           left == SubSeq(msgs, sent + 1, Len(msgs))
           after == OffsetAfter(msgs, offset, k)
           rest == SizeAfter(size, msgs, offset, k)
           w == wire[n]
<1>3. /\ wire' = [wire EXCEPT ![n] = w \o s] /\ vSendMsg' = [vSendMsg EXCEPT ![n] = left]
      /\ nSendOffset' = [nSendOffset EXCEPT ![n] = after] /\ nSendSize' = [nSendSize EXCEPT ![n] = rest]
  BY <1>2
<1>4. Numbered(msgs, last) /\ OffsetValid(msgs, offset) /\ size = Total(Lengths(msgs))
  BY DEF SendGood
<1>5. w \in Seq(Unit) /\ Len(w) \in Nat /\ Len(w) <= Wire /\ Wire \in Nat
  BY <1>1, BoundFact
<1>6. k \in 0..Len(u) /\ Len(w) + k <= Wire
  <2> DEFINE a == Wire - Len(w)
             b == Len(u)
  <2>1. b \in Nat
    <3>1. Total(Lengths(msgs)) \in Nat /\ offset \in Nat /\ offset <= Total(Lengths(msgs))
      <4>1. Lengths(msgs) \in Seq(Nat) /\ Len(Lengths(msgs)) \in 0..Len(Lengths(msgs))
        BY LengthsFact
      <4>2. Total(Lengths(msgs)) \in Nat
        BY <4>1, UptoFact DEF Total
      <4> QED  BY <1>4, <4>2, PositionStart DEF OffsetValid
    <3> DEFINE t == Total(Lengths(msgs)) - offset
    <3>2. t \in Nat
      BY <3>1
    <3> HIDE DEF t
    <3>3. u = [j \in 1..t |-> UnitAt(msgs, offset + j)]
      BY DEF Unsent, t
    <3> HIDE DEF u
    <3> QED  BY <3>2, <3>3
  <2>2. a \in Int
    BY <1>5
  <2>3. Least({a, b}) \in {a, b} /\ Least({a, b}) <= a /\ Least({a, b}) <= b
    <3>1. b \in Int
      BY <2>1
    <3> HIDE DEF a, b
    <3> QED  BY <2>2, <3>1, LeastFact
  <2>4. k \in 0..Least({a, b})
    BY <1>2
  <2> HIDE DEF b
  <2>5. k \in 0..b /\ k <= a /\ k \in Nat
    <3> DEFINE z == Least({a, b})
    <3>1. z \in Int /\ z <= a /\ z <= b /\ k \in 0..z
      BY <2>1, <2>2, <2>3, <2>4
    <3> HIDE DEF z, a
    <3> QED  BY <2>1, <2>2, <3>1
  <2>6. k <= Wire - Len(w)
    BY <2>5
  <2> QED  BY <1>5, <2>5, <2>6 DEF b
<1>7. /\ s \in Seq(Unit) /\ Len(s) = k /\ Chain(Position(msgs, last, offset), s)
      /\ left \in Seq(SentMessages) /\ Numbered(left, last) /\ OffsetValid(left, after)
      /\ Total(Lengths(left)) = Total(Lengths(msgs)) - Upto(Lengths(msgs), sent)
      /\ EndOf(Position(msgs, last, offset), s) = Position(left, last, after)
  BY <1>4, <1>6, SendFact
<1>8. rest = Total(Lengths(left)) /\ rest \in Nat /\ after \in Nat
  <2>1. rest = size - Upto(Lengths(msgs), sent)
    BY DEF SizeAfter
  <2>2. Total(Lengths(left)) \in Nat
    <3> DEFINE l == Lengths(left)
    <3>1. l \in Seq(Nat)
      BY <1>7, LengthsFact
    <3> HIDE DEF l
    <3>2. Len(l) \in 0..Len(l)
      BY <3>1
    <3>3. Total(l) \in Nat
      BY <3>1, <3>2, UptoFact DEF Total
    <3> QED  BY <3>3 DEF l
  <2> QED  BY <1>4, <1>7, <2>1, <2>2 DEF OffsetValid
<1> HIDE DEF s, left, after, rest, w, u, sent, offset
<1>9. w \o s \in Seq(Unit) /\ Len(w \o s) = Len(w) + k
  BY <1>5, <1>7, ConcatFact
<1>10. /\ vSendMsg' \in [Nodes -> Seq(SentMessages)] /\ wire' \in [Nodes -> Seq(Unit)]
       /\ nSendOffset' \in [Nodes -> Nat] /\ nSendSize' \in [Nodes -> Nat]
  <2>1. vSendMsg' \in [Nodes -> Seq(SentMessages)]
    BY <1>1, <1>3, <1>7
  <2>2. wire' \in [Nodes -> Seq(Unit)]
    <3> DEFINE x == w \o s
    <3>1. x \in Seq(Unit) /\ wire' = [wire EXCEPT ![n] = x]
      BY <1>3, <1>9
    <3> HIDE DEF x
    <3> QED  BY <1>1, <3>1
  <2> QED  BY <1>1, <1>3, <1>8, <2>1, <2>2
<1>11. /\ vSendMsg'[n] = left /\ nSendOffset'[n] = after /\ nSendSize'[n] = rest
       /\ \A j \in Nodes : j # n => /\ vSendMsg'[j] = vSendMsg[j] /\ wire'[j] = wire[j]
                                    /\ nSendOffset'[j] = nSendOffset[j] /\ nSendSize'[j] = nSendSize[j]
  BY <1>1, <1>3
<1>12. wire'[n] = w \o s
  BY <1>1, <1>3
<1>13. \A j \in Nodes : Len(wire'[j]) <= Wire
  BY <1>1, <1>6, <1>9, <1>11, <1>12
<1>14. SendGood(vSendMsg'[n], last, nSendOffset'[n], nSendSize'[n])
  BY <1>7, <1>8, <1>11 DEF SendGood
<1>15. ASSUME NEW c, Chain(c, w), EndOf(c, w) = Position(msgs, last, offset)
       PROVE  Chain(c, wire'[n]) /\ EndOf(c, wire'[n]) = Position(vSendMsg'[n], last, nSendOffset'[n])
  BY <1>5, <1>7, <1>11, <1>12, <1>15, ChainConcat
<1> QED  BY <1>10, <1>11, <1>13, <1>14, <1>15 DEF w, offset

LEMMA SendKeeps ==
    ASSUME StreamInv, NEW n \in Nodes, NEW msgs \in Seq(SentMessages), NEW last \in Nat, NEW size,
           SendGood(msgs, last, nSendOffset[n], size), SocketSendData(n, msgs, size), up[n],
           Position(msgs, last, nSendOffset[n]) = Position(vSendMsg[n], pushed[n], nSendOffset[n]),
           pushed' \in [Nodes -> Nat], pushed'[n] = last, \A k \in Nodes : k # n => pushed'[k] = pushed[k],
           UNCHANGED <<vRecvMsg, busy, processed, up>>,
           fdset' \in [Nodes -> {"none", "send", "recv"}],
           \A k \in Nodes : fdset'[k] = "recv" => fdset[k] = "recv"
    PROVE  StreamInv'
<1> DEFINE m == Peer(n)
<1>1. BuffersTyped /\ \A k \in Nodes : OutGood(k) /\ InGood(k) /\ WireGood(k)
  BY DEF StreamInv
<1>2. m \in Nodes /\ m # n /\ Peer(m) = n /\ Nodes = {n, m} /\ Peer(m)' = n /\ Peer(n)' = m /\ Peer(n) = m
  BY PeerFact DEF Peer
<1> HIDE DEF m
<1>3. /\ vSendMsg' \in [Nodes -> Seq(SentMessages)] /\ wire' \in [Nodes -> Seq(Unit)]
      /\ nSendOffset' \in [Nodes -> Nat] /\ nSendSize' \in [Nodes -> Nat]
      /\ \A k \in Nodes : Len(wire'[k]) <= Wire
      /\ \A k \in Nodes : k # n => /\ vSendMsg'[k] = vSendMsg[k] /\ wire'[k] = wire[k]
                                   /\ nSendOffset'[k] = nSendOffset[k] /\ nSendSize'[k] = nSendSize[k]
      /\ SendGood(vSendMsg'[n], last, nSendOffset'[n], nSendSize'[n])
      /\ \A c : Chain(c, wire[n]) /\ EndOf(c, wire[n]) = Position(msgs, last, nSendOffset[n]) =>
             /\ Chain(c, wire'[n])
             /\ EndOf(c, wire'[n]) = Position(vSendMsg'[n], last, nSendOffset'[n])
  BY <1>1, SocketSendFact
<1>4. vRecvMsg' = vRecvMsg /\ busy' = busy /\ processed' = processed /\ up' = up
  OBVIOUS
<1>5. BuffersTyped'
  BY <1>1, <1>3, <1>4 DEF BuffersTyped
<1>6. OutGood(n)'
  BY <1>3 DEF OutGood
<1>7. OutGood(m)'
  BY <1>1, <1>2, <1>3, OutFrame
<1>8. \A k \in Nodes : InGood(k)'
  BY <1>1, <1>4, InFrame
<1>9. WireGood(m)'
  BY <1>1, <1>2, <1>3, <1>4, WireFrame
<1>10. WireGood(n)'
  <2>1. up[m] => Chain(Here(m), wire[n]) /\ EndOf(Here(m), wire[n]) = Position(vSendMsg[n], pushed[n], nSendOffset[n])
    BY <1>1, <1>2 DEF WireGood
  <2>2. Here(m)' = Here(m)
    BY <1>4 DEF Here
  <2>3. up[m] => Chain(Here(m), wire'[n]) /\ EndOf(Here(m), wire'[n]) = Position(vSendMsg'[n], last, nSendOffset'[n])
    BY <1>3, <2>1
  <2> QED  BY <1>2, <1>4, <2>2, <2>3 DEF WireGood
<1>11. \A k \in Nodes : OutGood(k)' /\ InGood(k)' /\ WireGood(k)'
  BY <1>2, <1>6, <1>7, <1>8, <1>9, <1>10
<1> QED  BY <1>5, <1>11 DEF StreamInv

LEMMA PushMessageInv ==
    ASSUME StreamInv, NEW n \in Nodes, NEW data \in Sizes, PushMessage(n, data)
    PROVE  StreamInv'
<1> DEFINE m == Peer(n)
           msg == [id |-> pushed[n] + 1, size |-> data]
           msgs == vSendMsg[n]
<1>1. BuffersTyped /\ \A k \in Nodes : OutGood(k) /\ InGood(k) /\ WireGood(k)
  BY DEF StreamInv
<1>2. m \in Nodes /\ m # n /\ Peer(m) = n /\ Nodes = {n, m} /\ Peer(m)' = n /\ Peer(n)' = m /\ Peer(n) = m
  BY PeerFact DEF Peer
<1> HIDE DEF m
<1>3. /\ vSendMsg \in [Nodes -> Seq(SentMessages)] /\ nSendSize \in [Nodes -> Nat] /\ pushed \in [Nodes -> Nat]
      /\ fdset \in [Nodes -> {"none", "send", "recv"}] /\ nSendOffset \in [Nodes -> Nat]
  BY <1>1 DEF BuffersTyped
<1>4. /\ up[n] /\ pushed' = [pushed EXCEPT ![n] = pushed[n] + 1]
      /\ vRecvMsg' = vRecvMsg /\ fdset' = fdset /\ busy' = busy /\ processed' = processed /\ up' = up
      /\ \/ msgs = << >> /\ SocketSendData(n, <<msg>>, nSendSize[n] + Length(msg))
         \/ /\ vSendMsg' = [vSendMsg EXCEPT ![n] = Append(msgs, msg)]
            /\ nSendSize' = [nSendSize EXCEPT ![n] = nSendSize[n] + Length(msg)]
            /\ nSendOffset' = nSendOffset /\ wire' = wire
  BY DEF PushMessage
<1> DEFINE last == pushed[n] + 1
           r == Append(msgs, msg)
           size == nSendSize[n] + Length(msg)
<1>5. /\ last \in Nat /\ pushed' \in [Nodes -> Nat] /\ pushed'[n] = last
      /\ \A k \in Nodes : k # n => pushed'[k] = pushed[k]
  BY <1>3, <1>4
<1>6. msgs \in Seq(SentMessages) /\ pushed[n] \in Nat /\ SendGood(msgs, pushed[n], nSendOffset[n], nSendSize[n])
  BY <1>1, <1>3 DEF OutGood
<1>7. /\ r \in Seq(SentMessages) /\ SendGood(r, last, nSendOffset[n], size) /\ size \in Nat
      /\ Position(r, last, nSendOffset[n]) = Position(msgs, pushed[n], nSendOffset[n])
  <2>1. /\ r \in Seq(SentMessages) /\ SendGood(r, last, nSendOffset[n], size)
        /\ nSendSize[n] \in Nat /\ Length(msg) \in Nat
        /\ Position(r, last, nSendOffset[n]) = Position(msgs, pushed[n], nSendOffset[n])
    BY <1>6, AppendFact
  <2> HIDE DEF msg
  <2>2. size \in Nat
    BY <2>1
  <2> HIDE DEF size, last, r
  <2> QED  BY <2>1, <2>2
<1>8. msgs = << >> => <<msg>> = r
  OBVIOUS
<1> HIDE DEF last, r, size
<1>9. CASE msgs = << >> /\ SocketSendData(n, <<msg>>, nSendSize[n] + Length(msg))
  <2>1. SocketSendData(n, r, size)
    BY <1>8, <1>9 DEF size
  <2>2. \A k \in Nodes : fdset'[k] = "recv" => fdset[k] = "recv"
    BY <1>4
  <2> QED  BY <1>3, <1>4, <1>5, <1>7, <2>1, <2>2, SendKeeps
<1>10. CASE /\ vSendMsg' = [vSendMsg EXCEPT ![n] = Append(msgs, msg)]
            /\ nSendSize' = [nSendSize EXCEPT ![n] = nSendSize[n] + Length(msg)]
            /\ nSendOffset' = nSendOffset /\ wire' = wire
  <2>1. /\ vSendMsg' = [vSendMsg EXCEPT ![n] = r] /\ nSendSize' = [nSendSize EXCEPT ![n] = size]
        /\ nSendOffset' = nSendOffset /\ wire' = wire
    BY <1>10 DEF r, size
  <2>2. /\ vSendMsg' \in [Nodes -> Seq(SentMessages)] /\ nSendSize' \in [Nodes -> Nat]
        /\ vSendMsg'[n] = r /\ nSendSize'[n] = size /\ vSendMsg'[m] = vSendMsg[m] /\ nSendSize'[m] = nSendSize[m]
    BY <1>2, <1>3, <1>7, <2>1
  <2>3. BuffersTyped'
    BY <1>1, <1>4, <1>5, <2>1, <2>2 DEF BuffersTyped
  <2>4. OutGood(n)'
    BY <1>5, <1>7, <2>1, <2>2 DEF OutGood
  <2>5. OutGood(m)'
    BY <1>1, <1>2, <1>5, <2>1, <2>2, OutFrame
  <2>6. \A k \in Nodes : InGood(k)'
    BY <1>1, <1>4, InFrame
  <2>7. WireGood(m)'
    BY <1>1, <1>2, <1>4, <1>5, <2>1, <2>2, WireFrame
  <2>8. WireGood(n)'
    <3>1. up[m] => Chain(Here(m), wire[n]) /\ EndOf(Here(m), wire[n]) = Position(vSendMsg[n], pushed[n], nSendOffset[n])
      BY <1>1, <1>2, <1>4 DEF WireGood
    <3>2. Here(m)' = Here(m)
      BY <1>4 DEF Here
    <3> QED  BY <1>2, <1>4, <1>5, <1>7, <2>1, <2>2, <3>1, <3>2 DEF WireGood
  <2>9. \A k \in Nodes : OutGood(k)' /\ InGood(k)' /\ WireGood(k)'
    BY <1>2, <2>4, <2>5, <2>6, <2>7, <2>8
  <2> QED  BY <2>3, <2>9 DEF StreamInv
<1> QED  BY <1>4, <1>9, <1>10

LEMMA SendInv ==
    ASSUME StreamInv, NEW n \in Nodes, Send(n)
    PROVE  StreamInv'
<1>1. BuffersTyped /\ \A k \in Nodes : OutGood(k) /\ InGood(k) /\ WireGood(k)
  BY DEF StreamInv
<1>2. /\ vSendMsg \in [Nodes -> Seq(SentMessages)] /\ pushed \in [Nodes -> Nat]
      /\ fdset \in [Nodes -> {"none", "send", "recv"}]
  BY <1>1 DEF BuffersTyped
<1>3. /\ up[n] /\ fdset' = [fdset EXCEPT ![n] = "none"] /\ SocketSendData(n, vSendMsg[n], nSendSize[n])
      /\ UNCHANGED <<vRecvMsg, busy, processed, up>> /\ pushed' = pushed
  BY DEF Send
<1>4. SendGood(vSendMsg[n], pushed[n], nSendOffset[n], nSendSize[n])
  BY <1>1 DEF OutGood
<1>5. /\ fdset' \in [Nodes -> {"none", "send", "recv"}]
      /\ \A k \in Nodes : fdset'[k] = "recv" => fdset[k] = "recv"
  BY <1>2, <1>3
<1>6. vSendMsg[n] \in Seq(SentMessages) /\ pushed[n] \in Nat /\ pushed' \in [Nodes -> Nat]
  BY <1>2, <1>3
<1> QED  BY <1>3, <1>4, <1>5, <1>6, SendKeeps

----------------------------------------------------------------------------
(* Receiving and processing keep the invariant.                            *)

\* What recv() returns, when it is not rejected.
Taken(n, k) ==
    /\ k \in 1..ReadMax /\ k <= Len(wire[Peer(n)])
    /\ ~Rejected(ReceiveMsgBytes(vRecvMsg[n], SubSeq(wire[Peer(n)], 1, k)))
    /\ vRecvMsg' = [vRecvMsg EXCEPT ![n] = ReceiveMsgBytes(vRecvMsg[n], SubSeq(wire[Peer(n)], 1, k))]
    /\ wire' = [wire EXCEPT ![Peer(n)] = SubSeq(wire[Peer(n)], k + 1, Len(wire[Peer(n)]))]
    /\ UNCHANGED <<sending, busy, processed, up>>

LEMMA ReceiveCases ==
    ASSUME StreamInv, NEW n \in Nodes, Receive(n)
    PROVE  Closed(n, TRUE) \/ \E k : Taken(n, k)
<1> DEFINE w == wire[Peer(n)]
<1>1. wire \in [Nodes -> Seq(Unit)] /\ Peer(n) \in Nodes
  BY PeerFact DEF StreamInv, BuffersTyped
<1>2. w \in Seq(Unit) /\ Len(w) \in Nat /\ ReadMax \in Nat
  BY <1>1, BoundFact
<1>3. PICK k \in 1..Least({ReadMax, Len(w)}) :
        LET received == ReceiveMsgBytes(vRecvMsg[n], SubSeq(wire[Peer(n)], 1, k))
        IN \/ /\ ~Rejected(received)
              /\ vRecvMsg' = [vRecvMsg EXCEPT ![n] = received]
              /\ wire' = [wire EXCEPT ![Peer(n)] = SubSeq(@, k + 1, Len(@))]
              /\ UNCHANGED <<sending, busy, processed, up>>
           \/ Rejected(received) /\ Closed(n, TRUE)
  BY DEF Receive
<1>4. k \in 1..ReadMax /\ k <= Len(w)
  <2> DEFINE b == Len(w)
             z == Least({ReadMax, b})
  <2>1. b \in Int /\ ReadMax \in Int
    BY <1>2
  <2>2. z \in {ReadMax, b} /\ z <= ReadMax /\ z <= b
    <3> HIDE DEF b
    <3> QED  BY <2>1, LeastFact
  <2>3. k \in 1..z
    BY <1>3
  <2> HIDE DEF z, b
  <2>4. k \in 1..ReadMax /\ k <= b
    BY <2>1, <2>2, <2>3
  <2> QED  BY <2>4 DEF b
<1> QED  BY <1>3, <1>4 DEF Taken

\* The receive buffer after the units, and the rest of the stream.
LEMMA TakenFact ==
    ASSUME StreamInv, NEW n \in Nodes, NEW k, Taken(n, k), up[n]
    PROVE  /\ vRecvMsg' \in [Nodes -> Seq(RecvMessages)] /\ wire' \in [Nodes -> Seq(Unit)]
           /\ \A j \in Nodes : Len(wire'[j]) <= Wire
           /\ vRecvMsg'[Peer(n)] = vRecvMsg[Peer(n)] /\ wire'[n] = wire[n]
           /\ RecvGood(vRecvMsg'[n], processed[n]) /\ ~Rejected(vRecvMsg'[n])
           /\ UnitsIn(vRecvMsg'[n]) = UnitsIn(vRecvMsg[n]) + k
           /\ LET c == Cursor(vRecvMsg'[n], processed[n])
              IN  /\ Chain(c, wire'[Peer(n)])
                  /\ EndOf(c, wire'[Peer(n)]) = EndOf(Here(n), wire[Peer(n)])
<1> DEFINE m == Peer(n)
           w == wire[m]
           q == vRecvMsg[n]
           s == SubSeq(w, 1, k)
           t == SubSeq(w, k + 1, Len(w))
           r == ReceiveMsgBytes(q, s)
<1>1. BuffersTyped /\ \A j \in Nodes : OutGood(j) /\ InGood(j) /\ WireGood(j)
  BY DEF StreamInv
<1>2. m \in Nodes /\ m # n /\ Peer(m) = n
  BY PeerFact
<1>3. /\ wire \in [Nodes -> Seq(Unit)] /\ vRecvMsg \in [Nodes -> Seq(RecvMessages)]
      /\ \A j \in Nodes : Len(wire[j]) <= Wire
      /\ processed \in [Nodes -> Nat]
  BY <1>1 DEF BuffersTyped
<1>4. /\ k \in 1..ReadMax /\ k <= Len(w) /\ ~Rejected(r)
      /\ vRecvMsg' = [vRecvMsg EXCEPT ![n] = r] /\ wire' = [wire EXCEPT ![m] = t]
  BY DEF Taken
<1>5. w \in Seq(Unit) /\ Len(w) \in Nat /\ Len(w) <= Wire /\ Wire \in Nat /\ q \in Seq(RecvMessages) /\ processed[n] \in Nat
  BY <1>2, <1>3, BoundFact
<1>6. Chain(Here(n), w)
  BY <1>1, <1>2 DEF WireGood
<1>7. k \in 0..Len(w) /\ k \in Nat
  <2> HIDE DEF w
  <2> QED  BY <1>4, <1>5
<1> HIDE DEF m
<1>8. /\ s \in Seq(Unit) /\ Len(s) = k /\ t \in Seq(Unit)
      /\ Chain(Here(n), s) /\ Chain(EndOf(Here(n), s), t)
      /\ EndOf(EndOf(Here(n), s), t) = EndOf(Here(n), w)
  <2> HIDE DEF w
  <2> QED  BY <1>5, <1>6, <1>7, ChainSplit
<1>9. Len(t) <= Wire
  <2>1. Len(t) = Len(w) - k
    <3> HIDE DEF w
    <3> QED  BY <1>5, <1>7, SuffixFact
  <2> HIDE DEF w, t
  <2> QED  BY <1>5, <1>7, <2>1
<1>10. RecvGood(q, processed[n]) /\ Here(n) = Cursor(q, processed[n])
  BY <1>1 DEF InGood, Here
<1> HIDE DEF s, t, w
<1>11. /\ RecvGood(r, processed[n]) /\ Cursor(r, processed[n]) = EndOf(Here(n), s)
       /\ UnitsIn(r) = UnitsIn(q) + k
  BY <1>5, <1>8, <1>10, ReceiveFact
<1>12. r \in Seq(RecvMessages)
  BY <1>11 DEF RecvGood
<1> HIDE DEF r
<1>13. /\ vRecvMsg' \in [Nodes -> Seq(RecvMessages)] /\ wire' \in [Nodes -> Seq(Unit)]
       /\ vRecvMsg'[n] = r /\ wire'[m] = t /\ vRecvMsg'[m] = vRecvMsg[m] /\ wire'[n] = wire[n]
  BY <1>2, <1>3, <1>4, <1>8, <1>12
<1>14. \A j \in Nodes : Len(wire'[j]) <= Wire
  <2>1. \A j \in Nodes : j # m => wire'[j] = wire[j]
    BY <1>3, <1>4
  <2> QED  BY <1>3, <1>9, <1>13, <2>1
<1> QED  BY <1>4, <1>8, <1>11, <1>13, <1>14 DEF w, m

LEMMA TakenInv ==
    ASSUME StreamInv, NEW n \in Nodes, NEW k, Taken(n, k), up[n], fdset[n] = "recv",
           fdset' = [fdset EXCEPT ![n] = "none"]
    PROVE  StreamInv'
<1> DEFINE m == Peer(n)
           q == vRecvMsg[n]
           r == vRecvMsg'[n]
<1>1. BuffersTyped /\ \A j \in Nodes : OutGood(j) /\ InGood(j) /\ WireGood(j)
  BY DEF StreamInv
<1>2. m \in Nodes /\ m # n /\ Peer(m) = n /\ Nodes = {n, m} /\ Peer(m)' = n /\ Peer(n)' = m /\ Peer(n) = m
  BY PeerFact DEF Peer
<1>3. /\ vRecvMsg' \in [Nodes -> Seq(RecvMessages)] /\ wire' \in [Nodes -> Seq(Unit)]
      /\ \A j \in Nodes : Len(wire'[j]) <= Wire
      /\ vRecvMsg'[m] = vRecvMsg[m] /\ wire'[n] = wire[n]
      /\ RecvGood(r, processed[n]) /\ ~Rejected(r)
      /\ UnitsIn(r) = UnitsIn(q) + k
      /\ Chain(Cursor(r, processed[n]), wire'[m])
      /\ EndOf(Cursor(r, processed[n]), wire'[m]) = EndOf(Here(n), wire[m])
  BY TakenFact
<1>4. /\ vSendMsg' = vSendMsg /\ nSendOffset' = nSendOffset /\ nSendSize' = nSendSize /\ pushed' = pushed
      /\ busy' = busy /\ processed' = processed /\ up' = up
      /\ k \in 1..ReadMax
  BY DEF Taken, sending
<1> HIDE DEF m
<1>5. fdset \in [Nodes -> {"none", "send", "recv"}]
  BY <1>1 DEF BuffersTyped
<1>6. fdset' \in [Nodes -> {"none", "send", "recv"}] /\ fdset'[n] = "none" /\ fdset'[m] = fdset[m]
  BY <1>2, <1>5
<1>7. BuffersTyped'
  BY <1>1, <1>3, <1>4, <1>6 DEF BuffersTyped
<1>8. \A j \in Nodes : OutGood(j)'
  BY <1>1, <1>4, OutFrame
<1>9. InGood(m)'
  BY <1>1, <1>2, <1>3, <1>4, <1>6, InFrame
<1>10. Total(AnnouncedSizes(r)) <= Bound
  <2> DEFINE T(x) == Total(AnnouncedSizes(x))
  <2>1. RecvGood(q, processed[n]) /\ ~Rejected(q) /\ Room(q)
    BY <1>1 DEF InGood
  <2>2. /\ T(q) \in Nat /\ UnitsIn(q) \in Nat /\ UnitsIn(q) <= T(q)
        /\ Len(q) = 0 \/ ~complete(q[1]) => T(q) <= HdrLen + MAX_SIZE
    BY <2>1, AnnouncedBound
  <2>3. T(r) \in Nat /\ UnitsIn(r) \in Nat /\ T(r) <= UnitsIn(r) + HdrLen + MAX_SIZE
    BY <1>3, AnnouncedBound
  <2>4. T(q) <= Largest
    <3>1. CASE q # << >> /\ complete(q[1])
      <4>1. T(q) <= ReceiveFloodSize
        BY <2>1, <3>1 DEF Room
      <4> HIDE DEF T
      <4> QED  BY <2>2, <4>1, BoundFact
    <3>2. CASE ~(q # << >> /\ complete(q[1]))
      <4>1. Len(q) = 0 \/ ~complete(q[1])
        BY <3>2
      <4>2. T(q) <= HdrLen + MAX_SIZE
        BY <2>2, <4>1
      <4> HIDE DEF T
      <4> QED  BY <2>2, <4>2, BoundFact
    <3> QED  BY <3>1, <3>2
  <2> DEFINE x == T(q)
             y == T(r)
             a == UnitsIn(q)
             b == UnitsIn(r)
  <2>5. x \in Nat /\ y \in Nat /\ a \in Nat /\ b = a + k /\ a <= x /\ x <= Largest /\ y <= b + HdrLen + MAX_SIZE
    BY <1>3, <2>2, <2>3, <2>4
  <2> HIDE DEF x, y, a, b, T
  <2>6. y <= Bound
    BY <1>4, <2>5, BoundFact
  <2> QED  BY <2>6 DEF y, T
<1>11. InGood(n)'
  BY <1>3, <1>4, <1>6, <1>10 DEF InGood
<1>12. WireGood(n)'
  BY <1>1, <1>2, <1>3, <1>4, WireFrame
<1>13. WireGood(m)'
  <2>1. up[m] => EndOf(Here(n), wire[m]) = Position(vSendMsg[m], pushed[m], nSendOffset[m])
    BY <1>1, <1>2 DEF WireGood
  <2>2. Here(n)' = Cursor(r, processed[n])
    BY <1>4 DEF Here
  <2> QED  BY <1>2, <1>3, <1>4, <2>1, <2>2 DEF WireGood
<1>14. \A j \in Nodes : InGood(j)' /\ WireGood(j)'
  BY <1>2, <1>9, <1>11, <1>12, <1>13
<1> QED  BY <1>7, <1>8, <1>14 DEF StreamInv

\* The handler takes the first message.
LEMMA HandleFact ==
    ASSUME StreamInv, NEW n \in Nodes, HandleMessage(n)
    PROVE  /\ vRecvMsg' = [vRecvMsg EXCEPT ![n] = Tail(vRecvMsg[n])]
           /\ processed' = [processed EXCEPT ![n] = processed[n] + 1]
           /\ vRecvMsg[n] # << >> /\ complete(vRecvMsg[n][1])
           /\ UNCHANGED <<sending, wire, fdset, busy, up>> /\ up[n]
<1>1. /\ vRecvMsg' = [vRecvMsg EXCEPT ![n] = Tail(vRecvMsg[n])]
      /\ processed' = [processed EXCEPT ![n] = Head(vRecvMsg[n]).hdr[1].id]
      /\ vRecvMsg[n] # << >> /\ complete(Head(vRecvMsg[n]))
      /\ UNCHANGED <<sending, wire, fdset, busy, up>> /\ up[n]
  BY DEF HandleMessage, MayProcess
<1>2. RecvGood(vRecvMsg[n], processed[n]) /\ processed[n] \in Nat /\ ~Rejected(vRecvMsg[n])
  BY DEF StreamInv, InGood, BuffersTyped
<1>3. Head(vRecvMsg[n]) = vRecvMsg[n][1]
  <2>1. vRecvMsg[n] \in Seq(RecvMessages)
    BY <1>2 DEF RecvGood
  <2> QED  BY <1>1, <2>1
<1>4. Head(vRecvMsg[n]).hdr[1].id = processed[n] + 1
  BY <1>1, <1>2, <1>3, PopFact
<1> QED  BY <1>1, <1>3, <1>4

LEMMA HandleMessageInv ==
    ASSUME StreamInv, NEW n \in Nodes, HandleMessage(n)
    PROVE  StreamInv'
<1> DEFINE m == Peer(n)
           q == vRecvMsg[n]
           r == Tail(q)
           p == processed[n]
<1>1. BuffersTyped /\ \A j \in Nodes : OutGood(j) /\ InGood(j) /\ WireGood(j)
  BY DEF StreamInv
<1>2. m \in Nodes /\ m # n /\ Peer(m) = n /\ Nodes = {n, m} /\ Peer(m)' = n /\ Peer(n)' = m /\ Peer(n) = m
  BY PeerFact DEF Peer
<1>3. /\ vRecvMsg' = [vRecvMsg EXCEPT ![n] = r] /\ processed' = [processed EXCEPT ![n] = p + 1]
      /\ q # << >> /\ complete(q[1])
      /\ UNCHANGED <<sending, wire, fdset, busy, up>>
  BY HandleFact
<1>4. /\ vSendMsg' = vSendMsg /\ nSendOffset' = nSendOffset /\ nSendSize' = nSendSize /\ pushed' = pushed
      /\ wire' = wire /\ fdset' = fdset /\ busy' = busy /\ up' = up
  BY <1>3 DEF sending
<1>5. /\ vRecvMsg \in [Nodes -> Seq(RecvMessages)] /\ processed \in [Nodes -> Nat]
  BY <1>1 DEF BuffersTyped
<1>6. RecvGood(q, p) /\ ~Rejected(q) /\ Total(AnnouncedSizes(q)) <= Bound /\ (fdset[n] = "recv" => Room(q)) /\ p \in Nat
  BY <1>1, <1>5 DEF InGood
<1>7. /\ RecvGood(r, p + 1) /\ Cursor(r, p + 1) = Cursor(q, p) /\ ~Rejected(r)
      /\ Total(AnnouncedSizes(r)) <= Total(AnnouncedSizes(q))
  BY <1>3, <1>6, PopFact
<1>8. r \in Seq(RecvMessages) /\ p + 1 \in Nat
  BY <1>6, <1>7 DEF RecvGood
<1> HIDE DEF m, r, p
<1>9. /\ vRecvMsg' \in [Nodes -> Seq(RecvMessages)] /\ processed' \in [Nodes -> Nat]
      /\ vRecvMsg'[n] = r /\ processed'[n] = p + 1 /\ vRecvMsg'[m] = vRecvMsg[m] /\ processed'[m] = processed[m]
  BY <1>2, <1>3, <1>5, <1>8
<1>10. BuffersTyped'
  BY <1>1, <1>4, <1>9 DEF BuffersTyped
<1>11. \A j \in Nodes : OutGood(j)'
  BY <1>1, <1>4, OutFrame
<1>12. InGood(m)'
  BY <1>1, <1>2, <1>4, <1>9, InFrame
<1>13. InGood(n)'
  <2> DEFINE x == Total(AnnouncedSizes(q))
             y == Total(AnnouncedSizes(r))
  <2>1. x \in Nat
    BY <1>6, AnnouncedBound
  <2>2. y \in Nat
    BY <1>7, <1>8, AnnouncedBound
  <2>3. y <= Bound /\ (fdset[n] = "recv" => y <= ReceiveFloodSize)
    <3>1. fdset[n] = "recv" => x <= ReceiveFloodSize
      BY <1>3, <1>6 DEF Room
    <3>2. y <= x /\ x <= Bound
      BY <1>6, <1>7
    <3> HIDE DEF x, y
    <3> QED  BY <2>1, <2>2, <3>1, <3>2, BoundFact
  <2> QED  BY <1>4, <1>7, <1>9, <2>3 DEF InGood, Room
<1>14. WireGood(n)'
  BY <1>1, <1>2, <1>4, <1>9, WireFrame
<1>15. WireGood(m)'
  <2>1. Here(n)' = Here(n)
    BY <1>7, <1>9 DEF Here, p
  <2>2. up[n] => /\ Chain(Here(n), wire[m])
                 /\ up[m] => EndOf(Here(n), wire[m]) = Position(vSendMsg[m], pushed[m], nSendOffset[m])
    BY <1>1, <1>2 DEF WireGood
  <2> QED  BY <1>2, <1>4, <2>1, <2>2 DEF WireGood
<1>16. \A j \in Nodes : InGood(j)' /\ WireGood(j)'
  BY <1>2, <1>12, <1>13, <1>14, <1>15
<1> QED  BY <1>10, <1>11, <1>16 DEF StreamInv

LEMMA BuffersNextInv == StreamInv /\ [BuffersNext]_bufferVars => StreamInv'
<1> SUFFICES ASSUME StreamInv, [BuffersNext]_bufferVars PROVE StreamInv'
  OBVIOUS
<1>1. /\ fdset \in [Nodes -> {"none", "send", "recv"}] /\ busy \in [Nodes -> BOOLEAN]
  BY DEF StreamInv, BuffersTyped
<1>2. ASSUME UNCHANGED bufferVars PROVE StreamInv'
  <2>1. UNCHANGED <<sending, wire, vRecvMsg, processed, up>> /\ fdset' = fdset /\ busy' = busy
    BY <1>2 DEF bufferVars
  <2> QED  BY <1>1, <2>1, FlagsInv
<1>3. ASSUME NEW n \in Nodes, Closed(n, TRUE) \/ Closed(n, ~busy[n]), fdset' = fdset \/ fdset' = [fdset EXCEPT ![n] = "none"]
      PROVE  StreamInv'
  <2>1. /\ fdset' \in [Nodes -> {"none", "send", "recv"}]
        /\ \A k \in Nodes : fdset'[k] = "recv" => fdset[k] = "recv"
    BY <1>1, <1>3
  <2>2. CASE Closed(n, TRUE)
    BY <2>1, <2>2, ClosedInv
  <2>3. CASE Closed(n, ~busy[n])
    BY <2>1, <2>3, ClosedInv
  <2> QED  BY <1>3, <2>2, <2>3
<1>4. ASSUME NEW n \in Nodes,
             \/ \E data \in Sizes : PushMessage(n, data)
             \/ PushFails(n) \/ FlaggedDisconnect(n)
             \/ SelectSend(n) \/ SelectRecv(n) \/ NotReady(n) \/ Receive(n) \/ ReceiveEnd(n) \/ Send(n) \/ SendError(n)
             \/ BeginProcess(n) \/ HandleMessage(n) \/ EndProcess(n)
      PROVE  StreamInv'
  <2>1. CASE \E data \in Sizes : PushMessage(n, data)
    BY <2>1, PushMessageInv
  <2>2. CASE PushFails(n) \/ FlaggedDisconnect(n) \/ ReceiveEnd(n) \/ SendError(n)
    <3>1. Closed(n, TRUE) \/ Closed(n, ~busy[n])
      BY <2>2 DEF PushFails, FlaggedDisconnect, ReceiveEnd, SendError
    <3>2. fdset' = fdset \/ fdset' = [fdset EXCEPT ![n] = "none"]
      BY <2>2 DEF PushFails, FlaggedDisconnect, ReceiveEnd, SendError
    <3> QED  BY <1>3, <3>1, <3>2
  <2>3. CASE SelectSend(n) \/ SelectRecv(n) \/ NotReady(n)
    <3>1. UNCHANGED <<sending, wire, vRecvMsg, processed, up>> /\ busy' = busy
      BY <2>3 DEF SelectSend, SelectRecv, NotReady
    <3>2. \/ fdset' = [fdset EXCEPT ![n] = "send"] \/ fdset' = [fdset EXCEPT ![n] = "none"]
          \/ fdset' = [fdset EXCEPT ![n] = "recv"] /\ WantsData(n)
      BY <2>3 DEF SelectSend, SelectRecv, NotReady
    <3>3. WantsData(n) => Room(vRecvMsg[n])
      <4>1. vRecvMsg[n] \in Seq(RecvMessages)
        BY DEF StreamInv, BuffersTyped
      <4>2. vRecvMsg[n] # << >> => Head(vRecvMsg[n]) = vRecvMsg[n][1]
        BY <4>1
      <4> QED  BY <4>2 DEF WantsData, Room, TotalRecvSize, AnnouncedSizes
    <3>4. /\ fdset' \in [Nodes -> {"none", "send", "recv"}]
          /\ \A k \in Nodes : fdset'[k] = "recv" => fdset[k] = "recv" \/ Room(vRecvMsg[k])
      BY <1>1, <3>2, <3>3
    <3> QED  BY <1>1, <3>1, <3>4, FlagsInv
  <2>4. CASE BeginProcess(n) \/ EndProcess(n)
    <3>1. UNCHANGED <<sending, wire, vRecvMsg, processed, up>> /\ fdset' = fdset
      BY <2>4 DEF BeginProcess, EndProcess
    <3>2. busy' = [busy EXCEPT ![n] = TRUE] \/ busy' = [busy EXCEPT ![n] = FALSE]
      BY <2>4 DEF BeginProcess, EndProcess
    <3>3. busy' \in [Nodes -> BOOLEAN]
      BY <1>1, <3>2
    <3> QED  BY <1>1, <3>1, <3>3, FlagsInv
  <2>5. CASE Receive(n)
    <3>1. up[n] /\ fdset[n] = "recv" /\ fdset' = [fdset EXCEPT ![n] = "none"]
      BY <2>5 DEF Receive
    <3>2. Closed(n, TRUE) \/ \E k : Taken(n, k)
      BY <2>5, ReceiveCases
    <3>3. ASSUME NEW k, Taken(n, k) PROVE StreamInv'
      BY <3>1, <3>3, TakenInv
    <3> QED  BY <1>3, <3>1, <3>2, <3>3
  <2>6. CASE Send(n)
    BY <2>6, SendInv
  <2>7. CASE HandleMessage(n)
    BY <2>7, HandleMessageInv
  <2> QED  BY <1>4, <2>1, <2>2, <2>3, <2>4, <2>5, <2>6, <2>7
<1> QED  BY <1>2, <1>4 DEF BuffersNext

THEOREM StreamInvHolds == BuffersSpec => []StreamInv
BY BuffersInitInv, BuffersNextInv, PTL DEF BuffersSpec

LEMMA StreamSafe == StreamInv => SendAccounting /\ FramesIntact /\ RecvBounded
<1> SUFFICES ASSUME StreamInv PROVE SendAccounting /\ FramesIntact /\ RecvBounded
  OBVIOUS
<1>1. BuffersTyped /\ \A n \in Nodes : OutGood(n) /\ InGood(n)
  BY DEF StreamInv
<1>2. SendAccounting
  <2> SUFFICES ASSUME NEW n \in Nodes
               PROVE  /\ nSendSize[n] = Total(Lengths(vSendMsg[n]))
                      /\ IF vSendMsg[n] = << >> THEN nSendOffset[n] = 0 ELSE nSendOffset[n] < Length(Head(vSendMsg[n]))
    BY DEF SendAccounting
  <2>1. vSendMsg[n] \in Seq(SentMessages)
    BY <1>1 DEF BuffersTyped
  <2>2. vSendMsg[n] # << >> => Head(vSendMsg[n]) = vSendMsg[n][1]
    BY <2>1
  <2> QED  BY <1>1, <2>2 DEF OutGood, SendGood, OffsetValid
<1>3. RecvBounded
  BY <1>1 DEF RecvBounded, InGood, Bound, TotalRecvSize, AnnouncedSizes
<1>4. FramesIntact
  <2> SUFFICES ASSUME NEW n \in Nodes, NEW i \in 1..Len(vRecvMsg[n])
               PROVE  LET msg == vRecvMsg[n][i]
                          units == msg.hdr \o msg.data
                      IN \A k \in 1..Len(units) : units[k].id = units[1].id /\ units[k].pos = k
    BY DEF FramesIntact
  <2> DEFINE msg == vRecvMsg[n][i]
             h == Len(msg.hdr)
             d == Len(msg.data)
             units == msg.hdr \o msg.data
  <2>1. Frame(msg)
    BY <1>1 DEF InGood, RecvGood
  <2> HIDE DEF msg
  <2>2. /\ msg.hdr \in Seq(Unit) /\ msg.data \in Seq(Unit) /\ HdrLen \in Nat \ {0} /\ h \in 1..HdrLen /\ d \in Nat
    BY <2>1, FrameFact
  <2>3. /\ \A k \in 1..h : msg.hdr[k].id = msg.hdr[1].id /\ msg.hdr[k].pos = k
        /\ \A k \in 1..d : h = HdrLen /\ msg.data[k].id = msg.hdr[1].id /\ msg.data[k].pos = HdrLen + k
    <3>1. d # 0 => h = HdrLen
      BY <2>1 DEF Frame, RecvMessages
    <3>2. \A k \in 1..d : d # 0
      BY <2>2
    <3> QED  BY <2>1, <3>1, <3>2 DEF Frame
  <2>4. /\ Len(units) = h + d
        /\ \A k \in 1..h : units[k] = msg.hdr[k]
        /\ \A k \in 1..d : units[h + k] = msg.data[k]
    <3> DEFINE s == msg.hdr
               t == msg.data
    <3>1. s \in Seq(Unit) /\ t \in Seq(Unit)
      BY <2>2
    <3> HIDE DEF s, t
    <3>2. /\ Len(s \o t) = Len(s) + Len(t)
          /\ \A k \in 1..Len(s) : (s \o t)[k] = s[k]
          /\ \A k \in 1..Len(t) : (s \o t)[Len(s) + k] = t[k]
      BY <3>1, ConcatFact
    <3> QED  BY <3>2 DEF s, t
  <2> HIDE DEF h, d, units
  <2>5. units[1] = msg.hdr[1]
    BY <2>2, <2>4
  <2>6. ASSUME NEW k \in 1..(h + d) PROVE units[k].id = units[1].id /\ units[k].pos = k
    <3>1. CASE k \in 1..h
      BY <2>3, <2>4, <2>5, <3>1
    <3>2. CASE k \notin 1..h
      <4> DEFINE j == k - h
      <4>1. j \in 1..d /\ h + j = k
        BY <2>2, <3>2
      <4> HIDE DEF j
      <4> QED  BY <2>3, <2>4, <2>5, <4>1
    <3> QED  BY <3>1, <3>2
  <2> QED  BY <2>4, <2>6 DEF units, msg
<1> QED  BY <1>2, <1>3, <1>4

----------------------------------------------------------------------------
(* The buffers implement the stream.                                       *)

\* The last message of n that can still reach its peer.
Top(n) == IF up[n] THEN pushed[n] ELSE Begun(EndOf(Here(Peer(n)), wire[n]))

\* Between the handlers there are the messages after the last processed one, in order.
LEMMA QueueFact ==
    ASSUME StreamInv, NEW n \in Nodes
    PROVE  /\ pushed[n] \in Nat /\ processed[Peer(n)] \in Nat
           /\ queue[n] = IF up[Peer(n)] THEN Ids(processed[Peer(n)], Top(n)) ELSE << >>
           /\ up[Peer(n)] =>
                  /\ Begun(EndOf(Here(Peer(n)), wire[n])) \in Nat
                  /\ processed[Peer(n)] + Len(vRecvMsg[Peer(n)]) <= Begun(EndOf(Here(Peer(n)), wire[n]))
                  /\ up[n] => Begun(EndOf(Here(Peer(n)), wire[n])) <= pushed[n]
<1> DEFINE m == Peer(n)
           q == vRecvMsg[m]
           p == processed[m]
           c == Here(m)
           msgs == vSendMsg[n]
           last == pushed[n]
           offset == nSendOffset[n]
           z == EndOf(c, wire[n])
<1>1. BuffersTyped /\ \A k \in Nodes : OutGood(k) /\ InGood(k) /\ WireGood(k)
  BY DEF StreamInv
<1>2. m \in Nodes
  BY PeerFact
<1>3. /\ last \in Nat /\ p \in Nat /\ wire[n] \in Seq(Unit) /\ msgs \in Seq(SentMessages)
      /\ RecvGood(q, p) /\ Numbered(msgs, last) /\ OffsetValid(msgs, offset) /\ c = Cursor(q, p)
  BY <1>1, <1>2 DEF BuffersTyped, InGood, OutGood, SendGood, Here
<1>4. queue[n] = IF ~up[m] THEN << >> ELSE Arrived(m) \o Starts(wire[n]) \o IF up[n] THEN Queued(n) ELSE << >>
  BY DEF queue
<1>5. CASE ~up[m]
  BY <1>3, <1>4, <1>5
<1>6. CASE up[m]
  <2>1. Chain(c, wire[n]) /\ (up[n] => z = Position(msgs, last, offset))
    BY <1>1, <1>6 DEF WireGood
  <2> DEFINE k == Len(q)
             b == Len(msgs)
  <2>2. k \in Nat /\ b \in Nat /\ q \in Seq(RecvMessages)
    BY <1>3 DEF RecvGood
  <2>3. Begun(c) = p + k
    <3>1. CASE k = 0
      <4>1. (p + 1) - 1 = p + k
        BY <1>3, <3>1
      <4>2. c = [id |-> p + 1, pos |-> 1, size |-> 0]
        BY <1>3, <3>1 DEF Cursor
      <4> QED  BY <4>1, <4>2 DEF Begun
    <3>2. CASE k # 0
      <4> DEFINE msg == q[k]
      <4>1. k \in 1..k
        <5> HIDE DEF k
        <5> QED  BY <2>2, <3>2
      <4>2. Frame(msg) /\ msg.hdr[1].id = p + k
        BY <1>3, <4>1 DEF RecvGood
      <4>3. c = MsgCursor(msg)
        BY <1>3, <3>2 DEF Cursor
      <4> HIDE DEF k, msg
      <4>4. Len(msg.hdr) \in 1..HdrLen /\ Len(msg.data) \in Nat /\ HdrLen \in Nat
        BY <4>2, FrameFact
      <4>5. CASE complete(msg)
        <5>1. c = [id |-> (p + k) + 1, pos |-> 1, size |-> 0] /\ ((p + k) + 1) - 1 = p + k
          BY <1>3, <2>2, <4>2, <4>3, <4>5 DEF MsgCursor
        <5> QED  BY <5>1 DEF Begun
      <4>6. CASE ~complete(msg)
        <5>1. c = [id |-> p + k, pos |-> Count(msg) + 1, size |-> msg.hdr[1].size]
          BY <4>2, <4>3, <4>6 DEF MsgCursor
        <5>2. Count(msg) + 1 # 1
          <6> DEFINE h == Len(msg.hdr)
                     d == Len(msg.data)
          <6>1. Count(msg) = h + d
            BY DEF Count
          <6>2. h \in 1..HdrLen /\ d \in Nat /\ HdrLen \in Nat
            BY <4>4
          <6> HIDE DEF h, d
          <6> QED  BY <6>1, <6>2
        <5> QED  BY <5>1, <5>2 DEF Begun
      <4> QED  BY <4>5, <4>6
    <3> QED  BY <3>1, <3>2
  <2>4. Arrived(m) = Ids(p, p + k)
    <3>1. \A i \in 1..k : q[i].hdr[1].id = p + i
      BY <1>3 DEF RecvGood
    <3>2. Arrived(m) = [i \in 1..k |-> p + i]
      BY <3>1 DEF Arrived
    <3>3. (p + k) - p = k
      <4> HIDE DEF k, p
      <4> QED  BY <1>3, <2>2
    <3> QED  BY <3>2, <3>3 DEF Ids
  <2>5. p + k \in Nat /\ p <= p + k
    <3> HIDE DEF k, p
    <3> QED  BY <1>3, <2>2
  <2> HIDE DEF k, c
  <2>6. Begun(z) \in Nat /\ p + k <= Begun(z) /\ Starts(wire[n]) = Ids(p + k, Begun(z))
    <3>1. Begun(c) \in Nat
      BY <2>3, <2>5
    <3>2. Begun(EndOf(c, wire[n])) \in Nat /\ Begun(c) <= Begun(EndOf(c, wire[n]))
          /\ Starts(wire[n]) = Ids(Begun(c), Begun(EndOf(c, wire[n])))
      BY <1>3, <2>1, <3>1, StartsFact
    <3> QED  BY <2>3, <3>2
  <2> HIDE DEF z
  <2>7. Ids(p, p + k) \o Ids(p + k, Begun(z)) = Ids(p, Begun(z)) /\ p <= Begun(z)
    <3> HIDE DEF p
    <3>1. p <= Begun(z)
      BY <1>3, <2>2, <2>6
    <3> QED  BY <1>3, <2>5, <2>6, <3>1, IdsConcat
  <2>8. CASE ~up[n]
    <3>1. queue[n] = Ids(p, p + k) \o Ids(p + k, Begun(z)) \o << >>
      BY <1>4, <1>6, <2>4, <2>6, <2>8
    <3>2. Ids(p, Begun(z)) \o << >> = Ids(p, Begun(z))
      <4>1. Ids(p, Begun(z)) \in Seq(Nat)
        BY <1>3, <2>6, <2>7, IdsFact
      <4> DEFINE x == Ids(p, Begun(z))
      <4> HIDE DEF x
      <4>2. x \in Seq(Nat)
        BY <4>1 DEF x
      <4>3. x \o << >> = x
        BY <4>2, ConcatEmptySeq
      <4> QED  BY <4>3 DEF x
    <3>3. Top(n) = Begun(z)
      BY <2>8 DEF Top, z, c
    <3> QED  BY <1>3, <1>6, <2>6, <2>7, <2>8, <3>1, <3>2, <3>3 DEF z, c, k
  <2>9. CASE up[n]
    <3> DEFINE begun == IF offset > 0 THEN 1 ELSE 0
    <3>1. z = [id |-> last - b + 0 + 1, pos |-> offset + 1, size |-> IF offset = 0 THEN 0 ELSE msgs[1].size]
      BY <1>3, <2>1, <2>9, PositionStart
    <3>2. offset \in Nat /\ (b = 0 => offset = 0)
      BY <1>3 DEF OffsetValid
    <3>3. begun \in 0..b /\ Begun(z) = (last - b) + begun
      <4>1. CASE offset = 0
        <5>1. (last - b + 0 + 1) - 1 = (last - b) + 0 /\ ~(0 > 0) /\ 0 \in 0..b /\ 0 + 1 = 1
          <6> HIDE DEF last, b
          <6> QED  BY <1>3, <2>2
        <5> QED  BY <3>1, <4>1, <5>1 DEF Begun
      <4>2. CASE offset # 0
        <5>1. last - b + 0 + 1 = (last - b) + 1 /\ offset > 0 /\ 1 \in 0..b /\ offset + 1 # 1
          <6> HIDE DEF last, b, offset
          <6> QED  BY <1>3, <2>2, <3>2, <4>2
        <5> QED  BY <3>1, <4>2, <5>1 DEF Begun
      <4> QED  BY <4>1, <4>2
    <3>4. Queued(n) = Ids(Begun(z), last)
      <4>1. Queued(n) = [i \in 1..(b - begun) |-> msgs[i + begun].id]
        BY DEF Queued
      <4>2. \A i \in 1..(b - begun) : msgs[i + begun].id = Begun(z) + i
        <5> SUFFICES ASSUME NEW i \in 1..(b - begun) PROVE msgs[i + begun].id = Begun(z) + i
          OBVIOUS
        <5> DEFINE j == i + begun
        <5>1. j \in 1..b /\ last - b + j = ((last - b) + begun) + i
          <6> HIDE DEF last, b, begun
          <6> QED  BY <1>3, <2>2, <3>3
        <5> HIDE DEF j
        <5>2. msgs[j].id = last - b + j
          BY <1>3, <5>1 DEF Numbered
        <5> QED  BY <3>3, <5>1, <5>2 DEF j
      <4>3. b - begun = last - Begun(z)
        <5> HIDE DEF last, b, begun
        <5> QED  BY <1>3, <2>2, <3>3
      <4> HIDE DEF begun
      <4> QED  BY <4>1, <4>2, <4>3 DEF Ids
    <3>5. Begun(z) <= last
      <4> HIDE DEF last, b, begun
      <4> QED  BY <1>3, <2>2, <3>3
    <3>6. queue[n] = Ids(p, p + k) \o Ids(p + k, Begun(z)) \o Ids(Begun(z), last)
      BY <1>4, <1>6, <2>4, <2>6, <2>9, <3>4
    <3>7. queue[n] = Ids(p, last)
      <4>1. Ids(p, Begun(z)) \o Ids(Begun(z), last) = Ids(p, last)
        <5> HIDE DEF p, last
        <5> QED  BY <1>3, <2>6, <2>7, <3>5, IdsConcat
      <4> QED  BY <2>7, <3>6, <4>1
    <3> QED  BY <1>3, <1>6, <2>6, <2>9, <3>5, <3>7 DEF Top, z, c, k
  <2> QED  BY <2>8, <2>9
<1> QED  BY <1>5, <1>6

\* The state of the stream, in every state of the buffers.
Beyond(n) == Begun(EndOf(Here(Peer(n)), wire[n]))
QueueGood ==
    /\ queue = [n \in Nodes |-> queue[n]]
    /\ pushed \in [Nodes -> Nat] /\ processed \in [Nodes -> Nat] /\ up \in [Nodes -> BOOLEAN]
    /\ \A n \in Nodes :
          /\ ~up[Peer(n)] => queue[n] = << >>
          /\ up[Peer(n)] =>
                /\ queue[n] = Ids(processed[Peer(n)], Top(n))
                /\ Beyond(n) \in Nat /\ Top(n) \in Nat /\ Beyond(n) <= Top(n)
                /\ processed[Peer(n)] <= Beyond(n)
                /\ vRecvMsg[Peer(n)] # << >> => processed[Peer(n)] + 1 <= Beyond(n)

LEMMA QueueShape == StreamInv => QueueGood
<1> SUFFICES ASSUME StreamInv PROVE QueueGood
  OBVIOUS
<1>1. /\ pushed \in [Nodes -> Nat] /\ processed \in [Nodes -> Nat] /\ up \in [Nodes -> BOOLEAN]
      /\ vRecvMsg \in [Nodes -> Seq(RecvMessages)]
  BY DEF StreamInv, BuffersTyped
<1>2. \A n \in Nodes : queue[n] = IF up[Peer(n)] THEN Ids(processed[Peer(n)], Top(n)) ELSE << >>
  BY QueueFact
<1>3. queue = [n \in Nodes |-> queue[n]]
  BY DEF queue
<1>4. ASSUME NEW n \in Nodes, up[Peer(n)]
      PROVE  /\ Beyond(n) \in Nat /\ Top(n) \in Nat /\ Beyond(n) <= Top(n)
             /\ processed[Peer(n)] <= Beyond(n)
             /\ vRecvMsg[Peer(n)] # << >> => processed[Peer(n)] + 1 <= Beyond(n)
  <2> DEFINE m == Peer(n)
             k == Len(vRecvMsg[m])
  <2>1. /\ Beyond(n) \in Nat /\ pushed[n] \in Nat
        /\ processed[m] + k <= Beyond(n)
        /\ up[n] => Beyond(n) <= pushed[n]
    BY <1>4, QueueFact DEF Beyond
  <2>2. Top(n) = IF up[n] THEN pushed[n] ELSE Beyond(n)
    BY DEF Top, Beyond
  <2>3. m \in Nodes
    BY PeerFact
  <2>4. k \in Nat /\ processed[m] \in Nat /\ (vRecvMsg[m] # << >> => k # 0)
    <3>1. vRecvMsg[m] \in Seq(RecvMessages)
      BY <1>1, <2>3
    <3> QED  BY <1>1, <2>3, <3>1
  <2>5. Top(n) \in Nat /\ Beyond(n) <= Top(n)
    BY <2>1, <2>2
  <2> HIDE DEF k
  <2>6. processed[m] <= Beyond(n) /\ (vRecvMsg[m] # << >> => processed[m] + 1 <= Beyond(n))
    <3> HIDE DEF m
    <3> QED  BY <2>1, <2>4
  <2> QED  BY <2>1, <2>5, <2>6
<1> QED  BY <1>1, <1>2, <1>3, <1>4 DEF QueueGood

LEMMA ChangeOne ==
    ASSUME NEW f, NEW g, NEW n \in Nodes,
           f = [k \in Nodes |-> f[k]], g = [k \in Nodes |-> g[k]], g[Peer(n)] = f[Peer(n)]
    PROVE  \A x : g[n] = x => g = [f EXCEPT ![n] = x]
<1>1. Peer(n) # n /\ Nodes = {n, Peer(n)}
  BY PeerFact
<1> SUFFICES ASSUME NEW x, g[n] = x PROVE g = [f EXCEPT ![n] = x]
  OBVIOUS
<1>2. \A k \in Nodes : g[k] = [f EXCEPT ![n] = x][k]
  BY <1>1
<1> QED  BY <1>2

\* A step that only moves units is a stuttering step of the stream.
LEMMA StreamStutter ==
    ASSUME QueueGood, QueueGood', up' = up, pushed' = pushed, processed' = processed,
           \A n \in Nodes : up[Peer(n)] /\ ~up[n] => Beyond(n)' = Beyond(n)
    PROVE  UNCHANGED <<queue, pushed, processed, up>>
<1>1. \A n \in Nodes : up[Peer(n)] => Top(n)' = Top(n)
  BY DEF Top, Beyond, Peer
<1>2. ASSUME NEW n \in Nodes PROVE queue'[n] = queue[n]
  <2>1. Peer(n)' = Peer(n)
    BY DEF Peer
  <2>2. CASE up[Peer(n)]
    <3>1. queue[n] = Ids(processed[Peer(n)], Top(n))
      BY <2>2 DEF QueueGood
    <3>2. queue'[n] = Ids(processed[Peer(n)], Top(n)')
      BY <2>1, <2>2 DEF QueueGood
    <3> QED  BY <1>1, <2>2, <3>1, <3>2
  <2>3. CASE ~up[Peer(n)]
    BY <2>1, <2>3 DEF QueueGood
  <2> QED  BY <2>2, <2>3
<1>3. queue = [n \in Nodes |-> queue[n]] /\ queue' = [n \in Nodes |-> queue'[n]]
  BY DEF QueueGood
<1>4. queue' = queue
  <2> DEFINE f == queue
             g == queue'
  <2>1. f = [n \in Nodes |-> f[n]] /\ g = [n \in Nodes |-> g[n]] /\ \A n \in Nodes : g[n] = f[n]
    BY <1>2, <1>3
  <2> HIDE DEF f, g
  <2>2. g = f
    BY <2>1
  <2> QED  BY <2>2 DEF f, g
<1> QED  BY <1>4

LEMMA PushStep ==
    ASSUME StreamInv, QueueGood, QueueGood', NEW n \in Nodes, NEW data \in Sizes, PushMessage(n, data)
    PROVE  Stream!Push(n)
<1> DEFINE m == Peer(n)
           f == queue
           g == queue'
           x == IF up[m] THEN Append(queue[n], pushed[n] + 1) ELSE << >>
<1>1. m \in Nodes /\ m # n /\ Peer(m) = n /\ Peer(m)' = n /\ Peer(n)' = m
  BY PeerFact DEF Peer
<1>2. /\ up[n] /\ up' = up /\ processed' = processed /\ vRecvMsg' = vRecvMsg
      /\ pushed' = [pushed EXCEPT ![n] = pushed[n] + 1]
  BY DEF PushMessage
<1>3. wire'[m] = wire[m]
  <2>1. wire \in [Nodes -> Seq(Unit)]
    BY DEF StreamInv, BuffersTyped
  <2> QED  BY <1>1, <2>1 DEF PushMessage, SocketSendData
<1>4. pushed \in [Nodes -> Nat] /\ processed \in [Nodes -> Nat] /\ f = [k \in Nodes |-> f[k]] /\ g = [k \in Nodes |-> g[k]]
  BY DEF QueueGood
<1>5. g[n] = x
  <2>1. CASE ~up[m]
    BY <1>1, <1>2, <2>1 DEF QueueGood
  <2>2. CASE up[m]
    <3>1. queue[n] = Ids(processed[m], pushed[n]) /\ processed[m] <= pushed[n]
      <4>1. Top(n) = pushed[n]
        BY <1>2 DEF Top
      <4>2. /\ queue[n] = Ids(processed[m], Top(n)) /\ Beyond(n) \in Nat /\ Beyond(n) <= Top(n)
            /\ processed[m] <= Beyond(n)
        BY <2>2 DEF QueueGood
      <4>3. processed[m] \in Nat /\ pushed[n] \in Nat
        BY <1>1, <1>4
      <4> QED  BY <4>1, <4>2, <4>3
    <3>2. g[n] = Ids(processed[m], pushed[n] + 1)
      <4>1. Top(n)' = pushed[n] + 1
        BY <1>2, <1>4 DEF Top
      <4> QED  BY <1>1, <1>2, <2>2, <4>1 DEF QueueGood
    <3>3. processed[m] \in Nat /\ pushed[n] \in Nat
      BY <1>1, <1>4
    <3>4. Append(Ids(processed[m], pushed[n]), pushed[n] + 1) = Ids(processed[m], pushed[n] + 1)
      BY <3>1, <3>3, IdsFact
    <3> QED  BY <2>2, <3>1, <3>2, <3>4
  <2> QED  BY <2>1, <2>2
<1>6. g[m] = f[m]
  <2>1. Top(m)' = Top(m)
    <3>1. pushed'[m] = pushed[m]
      BY <1>1, <1>2, <1>4
    <3>2. Here(n)' = Here(n)
      BY <1>2 DEF Here
    <3> QED  BY <1>1, <1>2, <1>3, <3>1, <3>2 DEF Top
  <2>2. f[m] = Ids(processed[n], Top(m))
    BY <1>1, <1>2 DEF QueueGood
  <2>3. g[m] = Ids(processed[n], Top(m)')
    BY <1>1, <1>2 DEF QueueGood
  <2> QED  BY <2>1, <2>2, <2>3
<1> HIDE DEF f, g, x
<1>7. g = [f EXCEPT ![n] = x]
  BY <1>4, <1>5, <1>6, ChangeOne
<1>8. Stream!Peer(n) = m
  BY DEF Stream!Peer, Peer
<1> QED  BY <1>2, <1>7, <1>8 DEF Stream!Push, f, g, x

LEMMA ProcessStep ==
    ASSUME StreamInv, QueueGood, QueueGood', NEW n \in Nodes, HandleMessage(n)
    PROVE  Stream!Process(n)
<1> DEFINE m == Peer(n)
           p == processed[n]
           f == queue
           g == queue'
           t == Top(m)
<1>1. m \in Nodes /\ m # n /\ Peer(m) = n /\ Peer(m)' = n /\ Peer(n)' = m
  BY PeerFact DEF Peer
<1>2. /\ vRecvMsg' = [vRecvMsg EXCEPT ![n] = Tail(vRecvMsg[n])]
      /\ processed' = [processed EXCEPT ![n] = p + 1]
      /\ vRecvMsg[n] # << >> /\ complete(vRecvMsg[n][1])
      /\ UNCHANGED <<sending, wire, fdset, busy, up>> /\ up[n]
  BY HandleFact
<1>3. pushed' = pushed /\ wire' = wire /\ up' = up
  BY <1>2 DEF sending
<1>4. /\ pushed \in [Nodes -> Nat] /\ processed \in [Nodes -> Nat] /\ f = [k \in Nodes |-> f[k]] /\ g = [k \in Nodes |-> g[k]]
      /\ p \in Nat
  BY DEF QueueGood
<1>5. vRecvMsg \in [Nodes -> Seq(RecvMessages)] /\ RecvGood(vRecvMsg[n], p) /\ ~Rejected(vRecvMsg[n])
  BY DEF StreamInv, BuffersTyped, InGood
<1>6. f[m] = Ids(p, t) /\ t \in Nat /\ p + 1 <= t
  <2>1. /\ f[m] = Ids(p, t) /\ t \in Nat /\ Beyond(m) \in Nat /\ Beyond(m) <= t /\ p + 1 <= Beyond(m)
    BY <1>1, <1>2 DEF QueueGood
  <2> HIDE DEF p, t, f
  <2> QED  BY <1>4, <2>1
<1>7. Here(n)' = Here(n)
  <2>1. Cursor(Tail(vRecvMsg[n]), p + 1) = Cursor(vRecvMsg[n], p)
    BY <1>2, <1>4, <1>5, PopFact
  <2>2. vRecvMsg'[n] = Tail(vRecvMsg[n]) /\ processed'[n] = p + 1
    BY <1>2, <1>4, <1>5
  <2> QED  BY <2>1, <2>2 DEF Here
<1>8. g[m] = Ids(p + 1, t)
  <2>1. Top(m)' = t
    BY <1>1, <1>3, <1>7 DEF Top
  <2>2. processed'[n] = p + 1
    BY <1>2, <1>4
  <2> QED  BY <1>1, <1>2, <1>3, <2>1, <2>2 DEF QueueGood
<1>9. g[n] = f[n]
  <2>1. processed'[m] = processed[m] /\ vRecvMsg'[m] = vRecvMsg[m]
    BY <1>1, <1>2, <1>4, <1>5
  <2>2. Top(n)' = Top(n)
    BY <1>1, <1>3, <2>1 DEF Top, Here
  <2> QED  BY <1>1, <1>3, <2>1, <2>2 DEF QueueGood
<1> HIDE DEF f, g, p, t
<1>10. f[m] # << >> /\ Head(f[m]) = p + 1 /\ Tail(f[m]) = Ids(p + 1, t)
  <2> DEFINE s == f[m]
             r == Ids(p + 1, t)
  <2>1. p <= t /\ t - p \in Nat \ {0} /\ t - (p + 1) \in Nat /\ p + 1 \in Nat /\ (t - p) - 1 = t - (p + 1)
    BY <1>4, <1>6
  <2>2. s \in Seq(Nat) /\ Len(s) = t - p /\ \A i \in 1..(t - p) : s[i] = p + i
    <3>1. /\ Ids(p, t) \in Seq(Nat) /\ Len(Ids(p, t)) = t - p
          /\ \A i \in 1..(t - p) : Ids(p, t)[i] = p + i
      BY <1>4, <1>6, <2>1, IdsFact
    <3> QED  BY <1>6, <3>1
  <2>3. r \in Seq(Nat) /\ Len(r) = t - (p + 1) /\ \A i \in 1..(t - (p + 1)) : r[i] = (p + 1) + i
    BY <1>6, <2>1, IdsFact
  <2> HIDE DEF s, r
  <2>4. s # << >>
    BY <2>1, <2>2
  <2>5. Head(s) = p + 1
    BY <2>1, <2>2, <2>4
  <2>6. Tail(s) = r
    <3> DEFINE q == Tail(s)
    <3>1. q \in Seq(Nat) /\ Len(q) = (t - p) - 1 /\ \A i \in 1..((t - p) - 1) : q[i] = s[i + 1]
      BY <2>2, <2>4
    <3> HIDE DEF q
    <3>2. ASSUME NEW i \in 1..(t - (p + 1)) PROVE q[i] = r[i]
      <4>1. i + 1 \in 1..(t - p) /\ p + (i + 1) = (p + 1) + i
        BY <1>4, <1>6
      <4> QED  BY <2>1, <2>2, <2>3, <3>1, <4>1
    <3>3. Len(q) = Len(r) /\ \A i \in 1..Len(q) : q[i] = r[i]
      BY <2>1, <2>3, <3>1, <3>2
    <3>4. q = r
      BY <2>3, <3>1, <3>3, SeqEqual
    <3> QED  BY <3>4 DEF q
  <2> QED  BY <2>4, <2>5, <2>6 DEF s, r
<1>11. g = [f EXCEPT ![m] = Tail(f[m])]
  <2>1. g[Peer(m)] = f[Peer(m)] /\ g[m] = Tail(f[m])
    BY <1>1, <1>8, <1>9, <1>10
  <2> HIDE DEF m
  <2>2. \A x : g[m] = x => g = [f EXCEPT ![m] = x]
    BY <1>1, <1>4, <2>1, ChangeOne
  <2> QED  BY <2>1, <2>2
<1>12. processed' = [processed EXCEPT ![n] = Head(f[m])]
  BY <1>2, <1>10
<1>13. Stream!Peer(n) = m
  BY DEF Stream!Peer, Peer
<1> QED  BY <1>2, <1>3, <1>10, <1>11, <1>12, <1>13 DEF Stream!Process, f, g

LEMMA CloseStep ==
    ASSUME StreamInv, QueueGood, QueueGood', NEW n \in Nodes, NEW locked, Closed(n, locked), up[n]
    PROVE  \E kept \in 0..Len(queue[n]) : Stream!Close(n, kept)
<1> DEFINE m == Peer(n)
           p == processed[m]
           f == queue
           g == queue'
<1>1. m \in Nodes /\ m # n /\ Peer(m) = n /\ Peer(m)' = n /\ Peer(n)' = m /\ Nodes = {n, m}
  BY PeerFact DEF Peer
<1>2. /\ up' = [up EXCEPT ![n] = FALSE] /\ pushed' = pushed /\ processed' = processed
      /\ vRecvMsg' = [vRecvMsg EXCEPT ![n] = IF locked THEN << >> ELSE vRecvMsg[n]]
      /\ wire' = [wire EXCEPT ![m] = << >>]
  BY DEF Closed, sending
<1>3. /\ pushed \in [Nodes -> Nat] /\ processed \in [Nodes -> Nat] /\ up \in [Nodes -> BOOLEAN]
      /\ f = [k \in Nodes |-> f[k]] /\ g = [k \in Nodes |-> g[k]]
  BY DEF QueueGood
<1>4. vRecvMsg \in [Nodes -> Seq(RecvMessages)] /\ wire \in [Nodes -> Seq(Unit)]
  BY DEF StreamInv, BuffersTyped
<1>5. up'[n] = FALSE /\ up'[m] = up[m] /\ vRecvMsg'[m] = vRecvMsg[m] /\ wire'[n] = wire[n]
  BY <1>1, <1>2, <1>3, <1>4
<1>6. g[m] = << >>
  BY <1>1, <1>5 DEF QueueGood
<1>7. \E kept \in 0..Len(f[n]) : g[n] = SubSeq(f[n], 1, kept)
  <2>1. CASE ~up[m]
    <3>1. f[n] = << >> /\ g[n] = << >>
      BY <1>1, <1>5, <2>1 DEF QueueGood
    <3>2. 0 \in 0..Len(f[n]) /\ SubSeq(f[n], 1, 0) = << >>
      BY <3>1
    <3> QED  BY <3>1, <3>2
  <2>2. CASE up[m]
    <3> DEFINE a == Beyond(n)
               t == Top(n)
    <3>1. f[n] = Ids(p, t) /\ a \in Nat /\ t \in Nat /\ a <= t /\ p <= a /\ p \in Nat
      BY <1>1, <1>3, <2>2 DEF QueueGood
    <3>2. Beyond(n)' = a
      BY <1>1, <1>2, <1>5 DEF Beyond, Here
    <3>3. Top(n)' = a
      BY <1>5, <3>2 DEF Top, Beyond
    <3>4. g[n] = Ids(p, a)
      BY <1>1, <1>2, <1>5, <2>2, <3>3 DEF QueueGood
    <3> HIDE DEF a, t, p, f, g
    <3> DEFINE s == Ids(p, t)
               r == Ids(p, a)
               k == a - p
               q == SubSeq(s, 1, k)
    <3>5. k \in 0..(t - p) /\ t - p \in Nat /\ p <= t
      BY <3>1
    <3>6. /\ s \in Seq(Nat) /\ Len(s) = t - p /\ \A i \in 1..(t - p) : s[i] = p + i
          /\ r \in Seq(Nat) /\ Len(r) = k /\ \A i \in 1..k : r[i] = p + i
      BY <3>1, <3>5, IdsFact
    <3> HIDE DEF s, r, k
    <3>7. k \in Nat /\ q \in Seq(Nat) /\ Len(q) = k /\ \A i \in 1..k : q[i] = s[i] /\ i \in 1..(t - p)
      BY <3>5, <3>6
    <3> HIDE DEF q
    <3>8. Len(q) = Len(r) /\ \A i \in 1..Len(q) : q[i] = r[i]
      BY <3>6, <3>7
    <3>9. q = r
      BY <3>6, <3>7, <3>8, SeqEqual
    <3> QED  BY <3>1, <3>4, <3>5, <3>6, <3>9 DEF q, r, s
  <2> QED  BY <2>1, <2>2
<1>8. PICK kept \in 0..Len(f[n]) : g[n] = SubSeq(f[n], 1, kept)
  BY <1>7
<1> DEFINE x == SubSeq(f[n], 1, kept)
<1>9. g = [f EXCEPT ![m] = << >>, ![n] = x]
  <2> HIDE DEF f, g, x
  <2>1. \A k \in Nodes : g[k] = [f EXCEPT ![m] = << >>, ![n] = x][k]
    <3>1. n \in DOMAIN f /\ m \in DOMAIN f
      BY <1>1, <1>3
    <3> QED  BY <1>1, <1>3, <1>6, <1>8, <3>1 DEF x
  <2> QED  BY <1>3, <2>1
<1>10. g = [f EXCEPT ![m] = << >>, ![n] = SubSeq(@, 1, kept)]
  <2>1. [f EXCEPT ![m] = << >>][n] = f[n]
    BY <1>1, <1>3
  <2> HIDE DEF f, g
  <2> QED  BY <1>9, <2>1
<1>11. Stream!Peer(n) = m
  BY DEF Stream!Peer, Peer
<1>12. Stream!Close(n, kept)
  BY <1>2, <1>10, <1>11 DEF Stream!Close
<1> QED  BY <1>12

\* Every step of the buffers is a step of the stream.
LEMMA StreamSteps ==
    ASSUME StreamInv, QueueGood, QueueGood', [BuffersNext]_bufferVars
    PROVE  [Stream!Next]_<<queue, pushed, processed, up>>
<1> DEFINE rest == UNCHANGED <<queue, pushed, processed, up>>
<1>1. ASSUME wire' = wire, vRecvMsg' = vRecvMsg, UNCHANGED <<pushed, processed, up>>
      PROVE  rest
  <2>1. \A k \in Nodes : Beyond(k)' = Beyond(k)
    BY <1>1 DEF Beyond, Here, Peer
  <2> QED  BY <1>1, <2>1, StreamStutter
<1>2. ASSUME NEW n \in Nodes,
             \/ \E data \in Sizes : PushMessage(n, data)
             \/ PushFails(n) \/ FlaggedDisconnect(n)
             \/ SelectSend(n) \/ SelectRecv(n) \/ NotReady(n) \/ Receive(n) \/ ReceiveEnd(n) \/ Send(n) \/ SendError(n)
             \/ BeginProcess(n) \/ HandleMessage(n) \/ EndProcess(n)
      PROVE  Stream!Next \/ rest
  <2> DEFINE m == Peer(n)
  <2>1. m \in Nodes /\ m # n /\ Peer(m) = n /\ Nodes = {n, m}
    BY PeerFact
  <2>2. \A locked : Closed(n, locked) /\ up[n] => Stream!Next
    <3> SUFFICES ASSUME NEW locked, Closed(n, locked), up[n] PROVE Stream!Next
      OBVIOUS
    <3>1. \E kept \in 0..Len(queue[n]) : Stream!Close(n, kept)
      BY CloseStep
    <3> QED  BY <3>1 DEF Stream!Next
  <2>3. CASE \E data \in Sizes : PushMessage(n, data)
    <3>1. Stream!Push(n)
      BY <2>3, PushStep
    <3> QED  BY <3>1 DEF Stream!Next
  <2>4. CASE PushFails(n) \/ FlaggedDisconnect(n) \/ ReceiveEnd(n) \/ SendError(n)
    <3>1. up[n] /\ (Closed(n, TRUE) \/ Closed(n, ~busy[n]))
      BY <2>4 DEF PushFails, FlaggedDisconnect, ReceiveEnd, SendError
    <3> QED  BY <2>2, <3>1
  <2>5. CASE SelectSend(n) \/ SelectRecv(n) \/ NotReady(n) \/ BeginProcess(n) \/ EndProcess(n)
    <3>1. wire' = wire /\ vRecvMsg' = vRecvMsg /\ UNCHANGED <<pushed, processed, up>>
      BY <2>5 DEF SelectSend, SelectRecv, NotReady, BeginProcess, EndProcess, sending
    <3> QED  BY <1>1, <3>1
  <2>6. CASE Receive(n)
    <3>1. up[n] /\ (Closed(n, TRUE) \/ \E k : Taken(n, k))
      BY <2>6, ReceiveCases DEF Receive
    <3>2. ASSUME NEW k, Taken(n, k) PROVE rest
      <4>1. /\ vRecvMsg'[m] = vRecvMsg[m] /\ wire'[n] = wire[n]
            /\ LET c == Cursor(vRecvMsg'[n], processed[n])
               IN  EndOf(c, wire'[m]) = EndOf(Here(n), wire[m])
        BY <3>1, <3>2, TakenFact
      <4>2. UNCHANGED <<pushed, processed, up>>
        BY <3>2 DEF Taken, sending
      <4> HIDE DEF m
      <4>3. Peer(n)' = m /\ Peer(m)' = n /\ Peer(n) = m
        BY <2>1 DEF Peer, m
      <4>4. Beyond(n)' = Beyond(n)
        BY <4>1, <4>2, <4>3 DEF Beyond, Here
      <4>5. Beyond(m)' = Beyond(m)
        BY <2>1, <4>1, <4>2, <4>3 DEF Beyond, Here
      <4>6. \A j \in Nodes : Beyond(j)' = Beyond(j)
        BY <2>1, <4>4, <4>5
      <4> QED  BY <4>2, <4>6, StreamStutter
    <3> QED  BY <2>2, <3>1, <3>2
  <2>7. CASE Send(n)
    <3>1. up[n] /\ UNCHANGED <<pushed, processed, up>> /\ vRecvMsg' = vRecvMsg
      BY <2>7 DEF Send
    <3>2. wire'[m] = wire[m]
      <4>1. wire \in [Nodes -> Seq(Unit)]
        BY DEF StreamInv, BuffersTyped
      <4> QED  BY <2>1, <2>7, <4>1 DEF Send, SocketSendData
    <3>3. Beyond(m)' = Beyond(m)
      BY <2>1, <3>1, <3>2 DEF Beyond, Here, Peer
    <3>4. \A k \in Nodes : up[Peer(k)] /\ ~up[k] => Beyond(k)' = Beyond(k)
      BY <2>1, <3>1, <3>3
    <3> QED  BY <3>1, <3>4, StreamStutter
  <2>8. CASE HandleMessage(n)
    <3>1. Stream!Process(n)
      BY <2>8, ProcessStep
    <3> QED  BY <3>1 DEF Stream!Next
  <2> QED  BY <1>2, <2>3, <2>4, <2>5, <2>6, <2>7, <2>8
<1>3. CASE UNCHANGED bufferVars
  <2>1. wire' = wire /\ vRecvMsg' = vRecvMsg /\ UNCHANGED <<pushed, processed, up>>
    BY <1>3 DEF bufferVars, sending
  <2> QED  BY <1>1, <2>1
<1>4. CASE BuffersNext
  BY <1>2, <1>4 DEF BuffersNext
<1> QED  BY <1>3, <1>4

LEMMA StreamStart == BuffersInit => Stream!Init
<1> SUFFICES ASSUME BuffersInit PROVE Stream!Init
  OBVIOUS
<1>1. /\ pushed = [n \in Nodes |-> 0] /\ processed = [n \in Nodes |-> 0] /\ up = [n \in Nodes |-> TRUE]
  BY DEF BuffersInit
<1>2. QueueGood
  BY BuffersInitInv, QueueShape
<1>3. ASSUME NEW n \in Nodes PROVE queue[n] = << >>
  <2>1. Peer(n) \in Nodes
    BY PeerFact
  <2>2. Top(n) = 0
    BY <1>1 DEF Top
  <2>3. queue[n] = Ids(0, 0)
    BY <1>1, <1>2, <2>1, <2>2 DEF QueueGood
  <2> QED  BY <2>3, IdsFact
<1>4. queue = [n \in Nodes |-> << >>]
  <2> DEFINE f == queue
  <2>1. f = [n \in Nodes |-> f[n]] /\ \A n \in Nodes : f[n] = << >>
    BY <1>2, <1>3 DEF QueueGood
  <2> HIDE DEF f
  <2>2. f = [n \in Nodes |-> << >>]
    BY <2>1
  <2> QED  BY <2>2 DEF f
<1> QED  BY <1>1, <1>4 DEF Stream!Init

\* Messages are processed in the order they were pushed, each once, none skipped,
\* until an end closes; the send counters are exact, every partly received message
\* is whole so far, and the receive buffer is bounded: whatever parts send() and
\* recv() make of the stream, whatever the sizes of the buffers.
THEOREM StreamStaysKept == BuffersSpec => StreamKept
<1>1. StreamInv /\ [BuffersNext]_bufferVars => QueueGood /\ QueueGood'
  <2>1. StreamInv' => QueueGood'
    BY QueueShape, PTL
  <2> QED  BY <2>1, QueueShape, BuffersNextInv
<1>2. StreamInv /\ [BuffersNext]_bufferVars => [Stream!Next]_<<queue, pushed, processed, up>>
  BY <1>1, StreamSteps
<1>3. BuffersSpec => ImplementsStream
  BY <1>2, StreamStart, StreamInvHolds, PTL DEF BuffersSpec, ImplementsStream, Stream!Spec
<1> QED  BY <1>3, StreamSafe, StreamInvHolds, PTL DEF StreamKept
=============================================================================
