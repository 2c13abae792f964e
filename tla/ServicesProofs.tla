---------------------------- MODULE ServicesProofs ----------------------------
(***************************************************************************)
(* Proofs about the node's connections and the services around it: the     *)
(* locked pages, the order of locks, the JSON-RPC server, the node's own   *)
(* addresses, the sessions with peers, connecting through proxies, the     *)
(* relay of transactions, and the life cycle of a connection.              *)
(* Each has an inductive invariant of its own, one lemma per action that   *)
(* may disturb it, and the theorem about its specification.                *)
(***************************************************************************)
EXTENDS LockedPages, LockOrder, RpcServer, LocalAddrs, PeerSession, ProxyConnect, TxRelay, NodeLifecycle,
        FiniteSetTheorems, SequenceTheorems, NumberFacts, TLAPS

----------------------------------------------------------------------------
(* Locked pages.  The count of a page is the number of ranges that have    *)
(* been locked on it and not unlocked yet.                                 *)

PagesType ==
    /\ range \in [Allocators -> [at : {"none", "allocated", "locked", "cleansed", "unlocked"},
                                 p : Nat, size : Nat]]
    /\ DOMAIN histogram = osLocked \cup refused

Covering(t) == range[t].at \in {"locked", "cleansed"}
Sharers(q) == {t \in Allocators : Covering(t) /\ q \in PagesOf(t)}

PagesInv ==
    /\ PagesType
    /\ \A q : q \in DOMAIN histogram <=> Sharers(q) # {}
    /\ \A q \in DOMAIN histogram : histogram[q] = Cardinality(Sharers(q))
    /\ \A a \in secret : \E t \in Allocators : range[t].at = "locked" /\ a \in BytesOf(t)

\* A step that only moves a range on, between stages, leaves the bytes and pages of all alone.
LEMMA PagesKept ==
    ASSUME PagesType, NEW t \in Allocators, NEW at,
           range' = [range EXCEPT ![t].at = at]
    PROVE  /\ \A u \in Allocators : PagesOf(u)' = PagesOf(u) /\ BytesOf(u)' = BytesOf(u)
           /\ \A u \in Allocators : range'[u].at = IF u = t THEN at ELSE range[u].at
<1>1. \A u \in Allocators : /\ range'[u].p = range[u].p /\ range'[u].size = range[u].size
                            /\ range'[u].at = IF u = t THEN at ELSE range[u].at
  BY DEF PagesType
<1>2. \A u \in Allocators : BytesOf(u)' = BytesOf(u)
  BY <1>1 DEF BytesOf
<1> QED  BY <1>1, <1>2 DEF PagesOf

LEMMA SharersFinite == \A q : IsFiniteSet(Sharers(q))
<1>1. \A q : Sharers(q) \subseteq Allocators
  BY DEF Sharers
<1> QED  BY <1>1, FS_Subset, LockedPagesAssumption

LEMMA AllocateKeeps == ASSUME PagesInv, NEW t \in Allocators, Allocate(t) PROVE PagesInv'
<1> USE DEF PagesInv
<1>1. PICK p \in 0 .. HeapSize - 1, n \in RangeSizes :
        range' = [range EXCEPT ![t] = [at |-> "allocated", p |-> p, size |-> n]]
  BY DEF Allocate
<1>2. /\ range[t].at = "none" /\ range'[t].at = "allocated"
      /\ \A u \in Allocators \ {t} : range'[u] = range[u]
      /\ PagesType'
      /\ UNCHANGED <<histogram, osLocked, refused, secret>>
  BY <1>1, LockedPagesAssumption DEF Allocate, PagesType
<1>3. \A u \in Allocators \ {t} : PagesOf(u)' = PagesOf(u) /\ BytesOf(u)' = BytesOf(u)
  BY <1>2 DEF PagesOf, BytesOf
<1>4. \A q : Sharers(q)' = Sharers(q)
  BY <1>2, <1>3 DEF Sharers, Covering
<1> QED  BY <1>2, <1>3, <1>4

LEMMA LockRangeKeeps == ASSUME PagesInv, NEW t \in Allocators, LockRange(t) PROVE PagesInv'
<1>a. /\ PagesType
      /\ \A q : q \in DOMAIN histogram <=> Sharers(q) # {}
      /\ \A q \in DOMAIN histogram : histogram[q] = Cardinality(Sharers(q))
      /\ \A a \in secret : \E u \in Allocators : range[u].at = "locked" /\ a \in BytesOf(u)
  BY DEF PagesInv
<1>b. PagesType
  BY <1>a
<1> DEFINE new == PagesOf(t) \ DOMAIN histogram
<1>1. PICK fails \in SUBSET new :
        osLocked' = osLocked \cup (new \ fails) /\ refused' = refused \cup fails
  BY DEF LockRange
<1>2. /\ range[t].at = "allocated" /\ range' = [range EXCEPT ![t].at = "locked"]
      /\ DOMAIN histogram' = DOMAIN histogram \cup PagesOf(t)
      /\ \A q \in DOMAIN histogram' :
           histogram'[q] = IF q \in new THEN 1 ELSE histogram[q] + (IF q \in PagesOf(t) THEN 1 ELSE 0)
      /\ secret' = secret
  BY DEF LockRange
<1>3. PagesType'
  BY <1>b, <1>1, <1>2 DEF PagesType
<1>0. range' = [range EXCEPT ![t].at = "locked"]
  BY DEF LockRange
<1> HIDE DEF new
<1>4. /\ \A u \in Allocators : PagesOf(u)' = PagesOf(u) /\ BytesOf(u)' = BytesOf(u)
      /\ \A u \in Allocators : range'[u].at = IF u = t THEN "locked" ELSE range[u].at
  BY <1>b, <1>0, PagesKept
<1>5. \A q : Sharers(q)' = IF q \in PagesOf(t) THEN Sharers(q) \cup {t} ELSE Sharers(q)
  BY <1>2, <1>4 DEF Sharers, Covering
<1>6. \A q : t \notin Sharers(q)
  BY <1>2 DEF Sharers, Covering
<1>7. \A q : q \in DOMAIN histogram' <=> Sharers(q)' # {}
  BY <1>a, <1>2, <1>5
<1>8. \A q \in DOMAIN histogram' : histogram'[q] = Cardinality(Sharers(q)')
  <2> TAKE q \in DOMAIN histogram'
  <2>1. /\ IsFiniteSet(Sharers(q)) /\ Cardinality(Sharers(q)) \in Nat
        /\ Cardinality(Sharers(q) \cup {t}) = Cardinality(Sharers(q)) + 1
    BY <1>6, SharersFinite, FS_AddElement, FS_CardinalityType
  <2>2. CASE q \in new
    <3>1. Sharers(q) = {} /\ q \in PagesOf(t)
      BY <1>a, <2>2 DEF new
    <3>2. histogram'[q] = 1 /\ Cardinality(Sharers(q)) = 0
      BY <1>2, <2>2, <3>1, FS_EmptySet
    <3>3. Sharers(q)' = Sharers(q) \cup {t}
      BY <1>5, <3>1
    <3> QED  BY <2>1, <3>2, <3>3
  <2>3. CASE q \notin new /\ q \in PagesOf(t)
    <3>1. Sharers(q)' = Sharers(q) \cup {t} /\ histogram'[q] = histogram[q] + 1 /\ q \in DOMAIN histogram
      BY <1>2, <1>5, <2>3 DEF new
    <3> QED  BY <1>a, <2>1, <3>1
  <2>4. CASE q \notin PagesOf(t)
    <3>1. Sharers(q)' = Sharers(q) /\ histogram'[q] = histogram[q] /\ q \in DOMAIN histogram
      BY <1>a, <1>2, <1>5, <2>1, <2>4 DEF new
    <3> QED  BY <1>a, <3>1
  <2> QED  BY <2>2, <2>3, <2>4
<1>9. \A a \in secret' : \E u \in Allocators : range'[u].at = "locked" /\ a \in BytesOf(u)'
  BY <1>a, <1>2, <1>4
<1> QED  BY <1>3, <1>7, <1>8, <1>9 DEF PagesInv

LEMMA CleanseKeeps == ASSUME PagesInv, NEW t \in Allocators, Cleanse(t) PROVE PagesInv'
<1> USE DEF PagesInv
<1>1. /\ range[t].at = "locked" /\ range' = [range EXCEPT ![t].at = "cleansed"]
      /\ secret' = secret \ BytesOf(t) /\ UNCHANGED <<histogram, osLocked, refused>>
  BY DEF Cleanse
<1>2. PagesType'
  BY <1>1 DEF PagesType
<1>3. /\ \A u \in Allocators : PagesOf(u)' = PagesOf(u) /\ BytesOf(u)' = BytesOf(u)
      /\ \A u \in Allocators : range'[u].at = IF u = t THEN "cleansed" ELSE range[u].at
  BY <1>1, PagesKept
<1>4. \A q : Sharers(q)' = Sharers(q)
  BY <1>1, <1>3 DEF Sharers, Covering
<1>5. \A a \in secret' : \E u \in Allocators : range'[u].at = "locked" /\ a \in BytesOf(u)'
  BY <1>1, <1>3
<1> QED  BY <1>1, <1>2, <1>4, <1>5

LEMMA UnlockRangeKeeps == ASSUME PagesInv, NEW t \in Allocators, UnlockRange(t) PROVE PagesInv'
<1>a. /\ PagesType
      /\ \A q : q \in DOMAIN histogram <=> Sharers(q) # {}
      /\ \A q \in DOMAIN histogram : histogram[q] = Cardinality(Sharers(q))
      /\ \A a \in secret : \E u \in Allocators : range[u].at = "locked" /\ a \in BytesOf(u)
  BY DEF PagesInv
<1>b. PagesType
  BY <1>a
<1> DEFINE last == {q \in PagesOf(t) : histogram[q] = 1}
<1>1. /\ range[t].at = "cleansed" /\ range' = [range EXCEPT ![t].at = "unlocked"]
      /\ DOMAIN histogram' = DOMAIN histogram \ last
      /\ \A q \in DOMAIN histogram' : histogram'[q] = histogram[q] - (IF q \in PagesOf(t) THEN 1 ELSE 0)
      /\ osLocked' = osLocked \ last /\ refused' = refused \ last /\ secret' = secret
  BY DEF UnlockRange
<1>2. PagesType'
  BY <1>b, <1>1 DEF PagesType
<1>0. range' = [range EXCEPT ![t].at = "unlocked"]
  BY DEF UnlockRange
<1>3. /\ \A u \in Allocators : PagesOf(u)' = PagesOf(u) /\ BytesOf(u)' = BytesOf(u)
      /\ \A u \in Allocators : range'[u].at = IF u = t THEN "unlocked" ELSE range[u].at
  BY <1>b, <1>0, PagesKept
<1>4. \A q : Sharers(q)' = Sharers(q) \ {t}
  BY <1>1, <1>3 DEF Sharers, Covering
<1>5. \A q : t \in Sharers(q) <=> q \in PagesOf(t)
  BY <1>1 DEF Sharers, Covering
<1>6. \A q : /\ IsFiniteSet(Sharers(q)) /\ Cardinality(Sharers(q)) \in Nat
             /\ IsFiniteSet(Sharers(q) \ {t})
             /\ Cardinality(Sharers(q) \ {t}) = Cardinality(Sharers(q)) - (IF t \in Sharers(q) THEN 1 ELSE 0)
  BY SharersFinite, FS_RemoveElement, FS_CardinalityType
<1>7. \A q : q \in PagesOf(t) => q \in DOMAIN histogram /\ (q \in last <=> Sharers(q) \ {t} = {})
  <2> TAKE q
  <2> SUFFICES ASSUME q \in PagesOf(t)
               PROVE  q \in DOMAIN histogram /\ (q \in last <=> Sharers(q) \ {t} = {})
    OBVIOUS
  <2>1. t \in Sharers(q) /\ q \in DOMAIN histogram /\ histogram[q] = Cardinality(Sharers(q))
    BY <1>a, <1>5
  <2>2. Sharers(q) \ {t} = {} <=> Cardinality(Sharers(q) \ {t}) = 0
    BY <1>6, FS_EmptySet
  <2>3. Sharers(q) \ {t} = {} <=> Cardinality(Sharers(q)) = 1
    BY <1>6, <2>1, <2>2
  <2> QED  BY <2>1, <2>3
<1>8. \A q : q \in DOMAIN histogram' <=> Sharers(q)' # {}
  BY <1>a, <1>1, <1>4, <1>5, <1>7
<1>9. \A q \in DOMAIN histogram' : histogram'[q] = Cardinality(Sharers(q)')
  BY <1>a, <1>1, <1>4, <1>5, <1>6
<1>10. \A a \in secret' : \E u \in Allocators : range'[u].at = "locked" /\ a \in BytesOf(u)'
  BY <1>a, <1>1, <1>3
<1> QED  BY <1>2, <1>8, <1>9, <1>10 DEF PagesInv

LEMMA FreeMemoryKeeps == ASSUME PagesInv, NEW t \in Allocators, FreeMemory(t) PROVE PagesInv'
<1> USE DEF PagesInv
<1>1. /\ range[t].at = "unlocked" /\ range'[t].at = "none"
      /\ \A u \in Allocators \ {t} : range'[u] = range[u]
      /\ PagesType'
      /\ UNCHANGED <<histogram, osLocked, refused, secret>>
  BY DEF FreeMemory, PagesType, NoRange
<1>2. \A u \in Allocators \ {t} : PagesOf(u)' = PagesOf(u) /\ BytesOf(u)' = BytesOf(u)
  BY <1>1 DEF PagesOf, BytesOf
<1>3. \A q : Sharers(q)' = Sharers(q)
  BY <1>1, <1>2 DEF Sharers, Covering
<1> QED  BY <1>1, <1>2, <1>3

LEMMA UseMemoryKeeps == ASSUME PagesInv, NEW t \in Allocators, UseMemory(t) PROVE PagesInv'
<1> USE DEF PagesInv
<1>1. /\ range[t].at = "locked" /\ UNCHANGED <<histogram, osLocked, refused, range>>
      /\ secret' \subseteq secret \cup BytesOf(t)
  BY DEF UseMemory
<1>2. \A u \in Allocators : PagesOf(u)' = PagesOf(u) /\ BytesOf(u)' = BytesOf(u)
  BY <1>1 DEF PagesOf, BytesOf
<1>3. \A q : Sharers(q)' = Sharers(q)
  BY <1>1, <1>2 DEF Sharers, Covering
<1>4. PagesType'
  BY <1>1 DEF PagesType
<1> QED  BY <1>1, <1>2, <1>3, <1>4

LEMMA PagesInvGives == ASSUME PagesInv PROVE SecretsLocked
<1> USE DEF PagesInv
<1>1. \A t \in Allocators : \A a \in BytesOf(t) : Page(a) \in PagesOf(t)
  BY DEF PagesOf
<1>2. \A t \in Allocators : Covering(t) => PagesOf(t) \subseteq osLocked \cup refused
  BY DEF Sharers, PagesType
<1>3. osLocked \cup refused =
        UNION {PagesOf(t) : t \in {u \in Allocators : range[u].at \in {"locked", "cleansed"}}}
  BY <1>2 DEF Sharers, Covering, PagesType
<1>4. \A a \in secret : \E t \in Allocators : range[t].at = "locked" /\ a \in BytesOf(t)
                                              /\ Page(a) \in osLocked \cup refused
  BY <1>1, <1>2 DEF Covering
<1> QED  BY <1>3, <1>4 DEF SecretsLocked

\* For any heap, page size and number of threads: memory with a secret stays in locked pages, and
\* pages are unlocked with their last range (LockedPageManagerBase).
THEOREM SecretsStayLocked == PagesSpec => []SecretsLocked
<1>1. PagesInit => PagesInv
  <2> SUFFICES ASSUME PagesInit PROVE PagesInv
    OBVIOUS
  <2>1. \A q : Sharers(q) = {}
    BY DEF PagesInit, Sharers, Covering, NoRange
  <2> QED  BY <2>1 DEF PagesInit, PagesInv, PagesType, NoRange
<1>2. PagesInv /\ [PagesNext]_pageVars => PagesInv'
  <2> SUFFICES ASSUME PagesInv, [PagesNext]_pageVars PROVE PagesInv'
    OBVIOUS
  <2>1. CASE PagesNext
    BY <2>1, AllocateKeeps, LockRangeKeeps, UseMemoryKeeps, CleanseKeeps, UnlockRangeKeeps,
       FreeMemoryKeeps DEF PagesNext
  <2>2. CASE UNCHANGED pageVars
    <3>1. \A t : PagesOf(t)' = PagesOf(t) /\ BytesOf(t)' = BytesOf(t) /\ Covering(t)' = Covering(t)
      BY <2>2 DEF pageVars, PagesOf, BytesOf, Covering
    <3>2. \A q : Sharers(q)' = Sharers(q)
      BY <2>2, <3>1 DEF Sharers
    <3> QED  BY <2>2, <3>1, <3>2 DEF pageVars, PagesInv, PagesType
  <2> QED  BY <2>1, <2>2
<1>3. PagesInv => SecretsLocked
  BY PagesInvGives
<1> QED  BY <1>1, <1>2, <1>3, PTL DEF PagesSpec

----------------------------------------------------------------------------
(* Lock order.                                                             *)

OrderType ==
    /\ lockstack \in [LockThreads -> Seq(CritSections)]
    /\ wants \in [LockThreads -> {<<>>} \cup {<<c>> : c \in CritSections}]

\* What a thread waits for is the last section it entered.
WaitsForLast ==
    \A t \in LockThreads : wants[t] # <<>> =>
        lockstack[t] # <<>> /\ wants[t][1] = lockstack[t][Len(lockstack[t])]

\* A section is held by one thread.
Exclusive == \A t, u \in LockThreads : t # u => Holds(t) \cap Holds(u) = {}

\* A thread that waits for a section it does not hold has noted the order of all it holds and that
\* one, or was warned; of an order that was noted both ways one way was reported.
OrderNoted ==
    \A t \in LockThreads : wants[t] # <<>> =>
        \/ wants[t][1] \in Holds(t) \/ Warned(t)
        \/ \A a \in Holds(t) : <<a, wants[t][1]>> \in lockorders
OneWay ==
    \A a, b : a # b /\ <<a, b>> \in lockorders /\ <<b, a>> \in lockorders =>
        <<a, b>> \in reports \/ <<b, a>> \in reports

OrderInv == OrderType /\ WaitsForLast /\ Exclusive /\ OrderNoted /\ OneWay

\* push_lock goes through the whole stack, or ends at a pair it reports.
LEMMA AllChecked ==
    ASSUME NEW stack \in Seq(CritSections), NEW c, NEW known,
           \A i \in 1 .. Len(stack) : stack[i] # c
    PROVE  \/ \A i \in 1 .. Len(stack) : <<stack[i], c>> \in PairsToCheck(stack, c, known)
           \/ \E i \in 1 .. Len(stack) : /\ <<stack[i], c>> \in PairsToCheck(stack, c, known) \ known
                                         /\ <<c, stack[i]>> \in known
<1> DEFINE new(i) == <<stack[i], c>> \notin known
           ends(i) == stack[i] = c \/ (new(i) /\ <<c, stack[i]>> \in known)
           upto == {i \in 1 .. Len(stack) : \A j \in 1 .. i - 1 : ~ends(j)}
           E == {i \in 1 .. Len(stack) : ends(i)}
<1>1. PairsToCheck(stack, c, known) = {<<stack[i], c>> : i \in {k \in upto : stack[k] # c}}
  BY DEF PairsToCheck
<1>2. Len(stack) \in Nat
  BY LenProperties
<1>3. CASE E # {}
  <2>1. E \in SUBSET Nat
    BY <1>2
  <2>2. PICK k \in E : \A j \in E : k <= j
    BY <1>3, <2>1, LeastNumber
  <2>3. k \in upto /\ stack[k] # c
    BY <1>2, <2>2
  <2>4. <<stack[k], c>> \in PairsToCheck(stack, c, known)
    BY <1>1, <2>3
  <2>5. <<stack[k], c>> \notin known /\ <<c, stack[k]>> \in known
    BY <2>2, <2>3
  <2> QED  BY <2>2, <2>4, <2>5
<1>4. CASE E = {}
  <2>1. \A i \in 1 .. Len(stack) : ~ends(i)
    BY <1>4
  <2>2. ASSUME NEW i \in 1 .. Len(stack) PROVE <<stack[i], c>> \in PairsToCheck(stack, c, known)
    <3>1. \A j \in 1 .. i - 1 : ~ends(j)
      BY <1>2, <2>1
    <3>2. i \in upto
      BY <3>1
    <3> QED  BY <1>1, <3>2
  <2> QED  BY <2>2
<1> QED  BY <1>3, <1>4

\* What is on a stack below the sections w that are waited for.
LEMMA HeldSections ==
    ASSUME NEW s \in Seq(CritSections), NEW w, Len(w) \in 0 .. Len(s)
    PROVE  ToSet(SubSeq(s, 1, Len(s) - Len(w))) = {s[i] : i \in 1 .. Len(s) - Len(w)}
<1> DEFINE n == Len(s) - Len(w)
<1>1. Len(s) \in Nat /\ n \in 0 .. Len(s)
  BY LenProperties
<1>2. \A i \in 1 .. n : s[i] \in CritSections
  BY <1>1, ElementOfSeq
<1>3. /\ SubSeq(s, 1, n) \in Seq(CritSections) /\ Len(SubSeq(s, 1, n)) = n
      /\ \A i \in 1 .. n : SubSeq(s, 1, n)[i] = s[i]
  <2> HIDE DEF n
  <2> QED  BY <1>1, <1>2, SubSeqProperties
<1>4. DOMAIN SubSeq(s, 1, n) = 1 .. n
  BY <1>3, LenProperties
<1> QED  BY <1>3, <1>4 DEF ToSet

\* The same for w of a thread: one section, the last of the stack, or none.
LEMMA HoldsFact ==
    ASSUME NEW s \in Seq(CritSections), NEW w,
           w = <<>> \/ ((\E c : w = <<c>>) /\ s # <<>>)
    PROVE  ToSet(SubSeq(s, 1, Len(s) - Len(w))) =
             {s[i] : i \in 1 .. (IF w = <<>> THEN Len(s) ELSE Len(s) - 1)}
<1>1. Len(s) \in Nat /\ (s # <<>> => Len(s) > 0)
  BY EmptySeq, LenProperties
<1>2. Len(w) = IF w = <<>> THEN 0 ELSE 1
  <2>1. CASE w = <<>>
    BY <2>1, EmptySeq
  <2>2. CASE w # <<>>
    <3>1. PICK c : w = <<c>>
      BY <2>2
    <3>2. Len(<<c>>) = 1
      OBVIOUS
    <3> QED  BY <2>2, <3>1, <3>2
  <2> QED  BY <2>1, <2>2
<1>3. Len(w) \in 0 .. Len(s)
  BY <1>1, <1>2
<1>4. ToSet(SubSeq(s, 1, Len(s) - Len(w))) = {s[i] : i \in 1 .. Len(s) - Len(w)}
  BY <1>3, HeldSections
<1>5. Len(s) - Len(w) = IF w = <<>> THEN Len(s) ELSE Len(s) - 1
  BY <1>1, <1>2
<1> QED  BY <1>4, <1>5

LEMMA EnterKeeps ==
    ASSUME OrderInv, NEW t \in LockThreads, NEW c \in CritSections, EnterCritical(t, c)
    PROVE  OrderInv'
<1> DEFINE s == lockstack[t]
           checked == PairsToCheck(s, c, lockorders)
<1>1. /\ OrderType /\ WaitsForLast /\ Exclusive /\ OrderNoted /\ OneWay
  BY DEF OrderInv
<1>2. /\ wants[t] = <<>>
      /\ lockorders' = lockorders \cup (checked \ lockorders)
      /\ reports' = reports \cup {p \in checked \ lockorders : <<p[2], p[1]>> \in lockorders}
      /\ lockstack' = [lockstack EXCEPT ![t] = Append(s, c)]
      /\ wants' = [wants EXCEPT ![t] = <<c>>]
  BY DEF EnterCritical
<1> HIDE DEF checked
<1>3. /\ s \in Seq(CritSections) /\ Len(s) \in Nat
      /\ Append(s, c) \in Seq(CritSections) /\ Len(Append(s, c)) = Len(s) + 1
      /\ \A i \in 1 .. Len(s) : Append(s, c)[i] = s[i]
      /\ Append(s, c)[Len(s) + 1] = c
  BY <1>1, AppendProperties, LenProperties DEF OrderType
<1> HIDE DEF s
<1>4. OrderType'
  BY <1>1, <1>2, <1>3 DEF OrderType
<1>5. /\ lockstack'[t] = Append(s, c) /\ wants'[t] = <<c>> /\ wants'[t] # <<>> /\ wants'[t][1] = c
      /\ \A u \in LockThreads \ {t} : lockstack'[u] = lockstack[u] /\ wants'[u] = wants[u]
      /\ lockstack[t] = s /\ Append(s, c) # <<>>
  BY <1>1, <1>2, <1>3, EmptySeq DEF OrderType, s
<1>6. WaitsForLast'
  BY <1>1, <1>3, <1>5 DEF WaitsForLast
<1>7. Holds(t) = {s[i] : i \in 1 .. Len(s)}
  BY <1>2, <1>3, <1>5, HoldsFact DEF Holds
<1>8. Holds(t)' = {s[i] : i \in 1 .. Len(s)}
  <2>1. Holds(t)' = {Append(s, c)[i] : i \in 1 .. Len(Append(s, c)) - 1}
    <3>1. Append(s, c) \in Seq(CritSections) /\ <<c>> # <<>> /\ (\E d : <<c>> = <<d>>) /\ Append(s, c) # <<>>
      BY <1>3, <1>5
    <3>2. ToSet(SubSeq(Append(s, c), 1, Len(Append(s, c)) - Len(<<c>>))) =
            {Append(s, c)[i] : i \in 1 .. (IF <<c>> = <<>> THEN Len(Append(s, c)) ELSE Len(Append(s, c)) - 1)}
      BY <3>1, HoldsFact
    <3> QED  BY <1>5, <3>1, <3>2 DEF Holds
  <2>2. Len(Append(s, c)) - 1 = Len(s)
    BY <1>3
  <2> QED  BY <1>3, <2>1, <2>2
<1>9. \A u \in LockThreads : Holds(u)' = Holds(u)
  <2>1. \A u \in LockThreads \ {t} : Holds(u)' = Holds(u)
    BY <1>5 DEF Holds
  <2> QED  BY <1>7, <1>8, <2>1
<1>10. Exclusive'
  BY <1>1, <1>9 DEF Exclusive
<1>11. \/ c \in Holds(t) \/ \A a \in Holds(t) : <<a, c>> \in lockorders'
       \/ \E a \in Holds(t) : <<a, c>> \in reports'
  <2> SUFFICES ASSUME c \notin Holds(t)
               PROVE  \/ \A a \in Holds(t) : <<a, c>> \in lockorders'
                      \/ \E a \in Holds(t) : <<a, c>> \in reports'
    OBVIOUS
  <2>1. \A i \in 1 .. Len(s) : s[i] # c
    BY <1>7
  <2>2. \/ \A i \in 1 .. Len(s) : <<s[i], c>> \in checked
        \/ \E i \in 1 .. Len(s) : <<s[i], c>> \in checked \ lockorders /\ <<c, s[i]>> \in lockorders
    BY <1>3, <2>1, AllChecked DEF checked
  <2>3. CASE \A i \in 1 .. Len(s) : <<s[i], c>> \in checked
    BY <1>2, <1>7, <2>3
  <2>4. CASE \E i \in 1 .. Len(s) : <<s[i], c>> \in checked \ lockorders /\ <<c, s[i]>> \in lockorders
    <3>1. PICK i \in 1 .. Len(s) : <<s[i], c>> \in checked \ lockorders /\ <<c, s[i]>> \in lockorders
      BY <2>4
    <3>2. <<s[i], c>> \in reports'
      BY <1>2, <3>1
    <3>3. s[i] \in Holds(t)
      BY <1>7
    <3> QED  BY <3>2, <3>3
  <2> QED  BY <2>2, <2>3, <2>4
<1>12. OrderNoted'
  <2> SUFFICES ASSUME NEW u \in LockThreads, wants'[u] # <<>>
               PROVE  \/ wants'[u][1] \in Holds(u)' \/ Warned(u)'
                      \/ \A a \in Holds(u)' : <<a, wants'[u][1]>> \in lockorders'
    BY DEF OrderNoted
  <2>1. CASE u = t
    BY <1>5, <1>9, <1>11, <2>1 DEF Warned
  <2>2. CASE u # t
    <3>1. wants'[u] = wants[u] /\ Holds(u)' = Holds(u) /\ wants[u] # <<>>
      BY <1>5, <1>9, <2>2
    <3>2. \/ wants[u][1] \in Holds(u) \/ Warned(u)
          \/ \A a \in Holds(u) : <<a, wants[u][1]>> \in lockorders
      BY <1>1, <3>1 DEF OrderNoted
    <3>3. Warned(u) => Warned(u)'
      BY <1>2, <3>1 DEF Warned
    <3> QED  BY <1>2, <3>1, <3>2, <3>3
  <2> QED  BY <2>1, <2>2
<1>13. \A p \in checked : \E a : p = <<a, c>> /\ a # c
  BY DEF checked, PairsToCheck
<1>14. OneWay'
  <2> SUFFICES ASSUME NEW a, NEW b, a # b, <<a, b>> \in lockorders', <<b, a>> \in lockorders'
               PROVE  <<a, b>> \in reports' \/ <<b, a>> \in reports'
    BY DEF OneWay
  <2>1. <<a, b>> \in lockorders /\ <<b, a>> \in lockorders => <<a, b>> \in reports' \/ <<b, a>> \in reports'
    BY <1>1, <1>2 DEF OneWay
  <2>2. \A x, y : <<x, y>> \in checked \ lockorders /\ <<y, x>> \in lockorders => <<x, y>> \in reports'
    BY <1>2
  <2>3. ~(<<a, b>> \in checked /\ <<b, a>> \in checked)
    BY <1>13
  <2> QED  BY <1>2, <2>1, <2>2, <2>3
<1> QED  BY <1>4, <1>6, <1>10, <1>12, <1>14 DEF OrderInv

\* A thread that does not wait afterwards has taken sections X, or left some, and notes nothing.
LEMMA HeldChanges ==
    ASSUME OrderInv, NEW t \in LockThreads, OrderType', WaitsForLast', wants'[t] = <<>>,
           \A u \in LockThreads \ {t} : lockstack'[u] = lockstack[u] /\ wants'[u] = wants[u],
           UNCHANGED <<lockorders, reports>>,
           NEW X, Holds(t)' \subseteq Holds(t) \cup X,
           \A u \in LockThreads \ {t} : X \cap Holds(u) = {}
    PROVE  OrderInv'
<1>1. /\ OrderType /\ WaitsForLast /\ Exclusive /\ OrderNoted /\ OneWay
  BY DEF OrderInv
<1>2. \A u \in LockThreads \ {t} : Holds(u)' = Holds(u)
  BY DEF Holds
<1>3. Exclusive'
  BY <1>1, <1>2 DEF Exclusive
<1>4. OrderNoted'
  <2>1. \A u \in LockThreads \ {t} : Warned(u)' <=> Warned(u)
    BY <1>2 DEF Warned
  <2> QED  BY <1>1, <1>2, <2>1 DEF OrderNoted
<1>5. OneWay'
  BY <1>1 DEF OneWay
<1> QED  BY <1>3, <1>4, <1>5 DEF OrderInv

LEMMA AcquireKeeps == ASSUME OrderInv, NEW t \in LockThreads, Acquire(t) PROVE OrderInv'
<1> DEFINE s == lockstack[t]
<1>1. OrderType /\ WaitsForLast /\ Exclusive
  BY DEF OrderInv
<1>2. /\ wants[t] # <<>> /\ FreeFor(t, wants[t][1]) /\ wants' = [wants EXCEPT ![t] = <<>>]
      /\ UNCHANGED <<lockstack, lockorders, reports>>
  BY DEF Acquire
<1>3. PICK c \in CritSections : wants[t] = <<c>>
  BY <1>1, <1>2 DEF OrderType
<1>4. s \in Seq(CritSections) /\ s # <<>> /\ Len(s) \in Nat \ {0} /\ s[Len(s)] = c
  <2>1. s \in Seq(CritSections) /\ s # <<>> /\ s[Len(s)] = wants[t][1]
    BY <1>1, <1>2 DEF OrderType, WaitsForLast
  <2>2. wants[t][1] = c
    BY <1>3
  <2>3. Len(s) \in Nat \ {0}
    BY <2>1, EmptySeq, LenProperties
  <2> QED  BY <2>1, <2>2, <2>3
<1>5. OrderType'
  BY <1>1, <1>2 DEF OrderType
<1>6. /\ wants'[t] = <<>> /\ lockstack'[t] = s
      /\ \A u \in LockThreads \ {t} : lockstack'[u] = lockstack[u] /\ wants'[u] = wants[u]
  BY <1>1, <1>2 DEF OrderType
<1>7. WaitsForLast'
  BY <1>1, <1>6 DEF WaitsForLast
<1>8. Holds(t)' \subseteq Holds(t) \cup {c}
  <2>1. ToSet(SubSeq(s, 1, Len(s) - Len(wants[t]))) =
          {s[i] : i \in 1 .. (IF wants[t] = <<>> THEN Len(s) ELSE Len(s) - 1)}
    BY <1>3, <1>4, HoldsFact
  <2>2. ToSet(SubSeq(s, 1, Len(s) - Len(wants'[t]))) =
          {s[i] : i \in 1 .. (IF wants'[t] = <<>> THEN Len(s) ELSE Len(s) - 1)}
    BY <1>4, <1>6, HoldsFact
  <2>3. Holds(t) = {s[i] : i \in 1 .. Len(s) - 1}
    BY <1>2, <2>1 DEF Holds
  <2>4. Holds(t)' = {s[i] : i \in 1 .. Len(s)}
    BY <1>6, <2>2 DEF Holds
  <2> HIDE DEF s
  <2> QED  BY <1>4, <2>3, <2>4
<1>9. \A u \in LockThreads \ {t} : {c} \cap Holds(u) = {}
  BY <1>2, <1>3 DEF FreeFor
<1> QED  BY <1>2, <1>5, <1>6, <1>7, <1>8, <1>9, HeldChanges

LEMMA TryKeeps ==
    ASSUME OrderInv, NEW t \in LockThreads, NEW c \in CritSections, TryEnter(t, c)
    PROVE  OrderInv'
<1> DEFINE s == lockstack[t]
<1>1. OrderType /\ WaitsForLast /\ Exclusive
  BY DEF OrderInv
<1>2. /\ wants[t] = <<>> /\ FreeFor(t, c) /\ lockstack' = [lockstack EXCEPT ![t] = Append(s, c)]
      /\ UNCHANGED <<wants, lockorders, reports>>
  BY DEF TryEnter
<1>3. /\ s \in Seq(CritSections) /\ Len(s) \in Nat
      /\ Append(s, c) \in Seq(CritSections) /\ Len(Append(s, c)) = Len(s) + 1
      /\ \A i \in 1 .. Len(s) : Append(s, c)[i] = s[i]
      /\ Append(s, c)[Len(s) + 1] = c
  BY <1>1, AppendProperties, LenProperties DEF OrderType
<1>4. OrderType'
  BY <1>1, <1>2, <1>3 DEF OrderType
<1>5. /\ wants'[t] = <<>> /\ lockstack'[t] = Append(s, c)
      /\ \A u \in LockThreads \ {t} : lockstack'[u] = lockstack[u] /\ wants'[u] = wants[u]
  BY <1>1, <1>2 DEF OrderType
<1>6. WaitsForLast'
  BY <1>1, <1>5 DEF WaitsForLast
<1>7. Holds(t)' \subseteq Holds(t) \cup {c}
  <2>1. ToSet(SubSeq(s, 1, Len(s) - Len(wants[t]))) =
          {s[i] : i \in 1 .. (IF wants[t] = <<>> THEN Len(s) ELSE Len(s) - 1)}
    BY <1>2, <1>3, HoldsFact
  <2>2. ToSet(SubSeq(Append(s, c), 1, Len(Append(s, c)) - Len(wants'[t]))) =
          {Append(s, c)[i] : i \in 1 .. (IF wants'[t] = <<>> THEN Len(Append(s, c)) ELSE Len(Append(s, c)) - 1)}
    BY <1>3, <1>5, HoldsFact
  <2>3. Holds(t) = {s[i] : i \in 1 .. Len(s)}
    BY <1>2, <2>1 DEF Holds
  <2>4. Holds(t)' = {Append(s, c)[i] : i \in 1 .. Len(s) + 1}
    BY <1>3, <1>5, <2>2 DEF Holds
  <2> HIDE DEF s
  <2> QED  BY <1>3, <2>3, <2>4
<1>8. \A u \in LockThreads \ {t} : {c} \cap Holds(u) = {}
  BY <1>2 DEF FreeFor
<1> QED  BY <1>2, <1>4, <1>5, <1>6, <1>7, <1>8, HeldChanges

LEMMA LeaveKeeps == ASSUME OrderInv, NEW t \in LockThreads, LeaveCritical(t) PROVE OrderInv'
<1> DEFINE s == lockstack[t]
<1>1. OrderType /\ WaitsForLast /\ Exclusive
  BY DEF OrderInv
<1>2. /\ wants[t] = <<>> /\ s # <<>> /\ lockstack' = [lockstack EXCEPT ![t] = Front(s)]
      /\ UNCHANGED <<wants, lockorders, reports>>
  BY DEF LeaveCritical
<1>3. s \in Seq(CritSections) /\ Len(s) \in Nat \ {0}
  BY <1>1, <1>2, EmptySeq, LenProperties DEF OrderType
<1>4. /\ Front(s) \in Seq(CritSections) /\ Len(Front(s)) = Len(s) - 1
      /\ \A i \in 1 .. Len(s) - 1 : Front(s)[i] = s[i]
  <2>1. \A i \in 1 .. Len(s) - 1 : s[i] \in CritSections
    BY <1>3, ElementOfSeq
  <2>2. Len(s) - 1 \in 0 .. Len(s)
    BY <1>3
  <2>3. /\ SubSeq(s, 1, Len(s) - 1) \in Seq(CritSections)
        /\ Len(SubSeq(s, 1, Len(s) - 1)) = Len(s) - 1
        /\ \A i \in 1 .. Len(s) - 1 : SubSeq(s, 1, Len(s) - 1)[i] = s[i]
    <3> DEFINE n == Len(s) - 1
    <3>1. n \in Nat /\ \A i \in 1 .. n : s[i] \in CritSections
      BY <1>3, <2>1
    <3>2. /\ SubSeq(s, 1, n) \in Seq(CritSections) /\ Len(SubSeq(s, 1, n)) = n
          /\ \A i \in 1 .. n : SubSeq(s, 1, n)[i] = s[i]
      <4> HIDE DEF n, s
      <4> QED  BY <3>1, SubSeqProperties
    <3> QED  BY <3>2
  <2> QED  BY <2>3 DEF Front
<1>5. OrderType'
  BY <1>1, <1>2, <1>4 DEF OrderType
<1>6. /\ wants'[t] = <<>> /\ lockstack'[t] = Front(s)
      /\ \A u \in LockThreads \ {t} : lockstack'[u] = lockstack[u] /\ wants'[u] = wants[u]
  BY <1>1, <1>2 DEF OrderType
<1>7. WaitsForLast'
  BY <1>1, <1>6 DEF WaitsForLast
<1>8. Holds(t)' \subseteq Holds(t) \cup {}
  <2>1. ToSet(SubSeq(s, 1, Len(s) - Len(wants[t]))) =
          {s[i] : i \in 1 .. (IF wants[t] = <<>> THEN Len(s) ELSE Len(s) - 1)}
    BY <1>2, <1>3, HoldsFact
  <2>2. ToSet(SubSeq(Front(s), 1, Len(Front(s)) - Len(wants'[t]))) =
          {Front(s)[i] : i \in 1 .. (IF wants'[t] = <<>> THEN Len(Front(s)) ELSE Len(Front(s)) - 1)}
    BY <1>4, <1>6, HoldsFact
  <2>3. Holds(t) = {s[i] : i \in 1 .. Len(s)}
    BY <1>2, <2>1 DEF Holds
  <2>4. Holds(t)' = {Front(s)[i] : i \in 1 .. Len(s) - 1}
    BY <1>4, <1>6, <2>2 DEF Holds
  <2>5. \A i \in 1 .. Len(s) - 1 : i \in 1 .. Len(s)
    BY <1>3
  <2> SUFFICES ASSUME NEW x \in Holds(t)' PROVE x \in Holds(t) \cup {}
    OBVIOUS
  <2>6. PICK i \in 1 .. Len(s) - 1 : x = Front(s)[i]
    BY <2>4
  <2>7. x = s[i] /\ i \in 1 .. Len(s)
    BY <1>4, <2>5, <2>6
  <2> HIDE DEF s
  <2> QED  BY <2>3, <2>7
<1>9. \A u \in LockThreads \ {t} : {} \cap Holds(u) = {}
  OBVIOUS
<1> QED  BY <1>2, <1>5, <1>6, <1>7, <1>8, <1>9, HeldChanges

\* For any threads and sections: when two threads wait for each other, one of them holds a section
\* that was reported together with the one it waits for (push_lock of DEBUG_LOCKORDER).
THEOREM DeadlocksForetold == OrderSpec => []DeadlockForetold
<1>1. OrderInit => OrderInv
  <2> SUFFICES ASSUME OrderInit PROVE OrderInv
    OBVIOUS
  <2>1. \A t \in LockThreads : lockstack[t] = <<>> /\ wants[t] = <<>>
    BY DEF OrderInit
  <2>2. OrderType
    BY EmptySeq DEF OrderInit, OrderType
  <2>3. \A t \in LockThreads : Holds(t) = {}
    <3> TAKE t \in LockThreads
    <3>1. <<>> \in Seq(CritSections) /\ Len(<<>>) = 0
      BY EmptySeq
    <3>2. ToSet(SubSeq(<<>>, 1, Len(<<>>) - Len(<<>>))) =
            {<<>>[i] : i \in 1 .. (IF <<>> = <<>> THEN Len(<<>>) ELSE Len(<<>>) - 1)}
      BY <3>1, HoldsFact
    <3>3. ToSet(SubSeq(<<>>, 1, Len(<<>>) - Len(<<>>))) = {}
      BY <3>1, <3>2
    <3> QED  BY <2>1, <3>3 DEF Holds
  <2> QED  BY <2>1, <2>2, <2>3 DEF OrderInit, OrderInv, WaitsForLast, Exclusive, OrderNoted, OneWay
<1>2. OrderInv /\ [OrderNext]_orderVars => OrderInv'
  <2> SUFFICES ASSUME OrderInv, [OrderNext]_orderVars PROVE OrderInv'
    OBVIOUS
  <2>1. CASE OrderNext
    BY <2>1, EnterKeeps, AcquireKeeps, TryKeeps, LeaveKeeps DEF OrderNext
  <2>2. CASE UNCHANGED orderVars
    BY <2>2 DEF orderVars, OrderInv, OrderType, WaitsForLast, Exclusive, OrderNoted, OneWay, Warned, Holds
  <2> QED  BY <2>1, <2>2
<1>3. OrderInv => DeadlockForetold
  <2> SUFFICES ASSUME OrderInv, NEW t \in LockThreads, NEW u \in LockThreads, t # u,
                      wants[t] # <<>>, wants[u] # <<>>,
                      wants[t][1] \in Holds(u), wants[u][1] \in Holds(t),
                      ~Warned(t), ~Warned(u)
               PROVE  FALSE
    BY DEF DeadlockForetold
  <2>1. wants[t][1] \notin Holds(t) /\ wants[u][1] \notin Holds(u)
    BY DEF OrderInv, Exclusive
  <2>2. <<wants[u][1], wants[t][1]>> \in lockorders /\ <<wants[t][1], wants[u][1]>> \in lockorders
    BY <2>1 DEF OrderInv, OrderNoted
  <2>3. wants[t][1] # wants[u][1]
    BY <2>1
  <2>4. <<wants[u][1], wants[t][1]>> \in reports \/ <<wants[t][1], wants[u][1]>> \in reports
    BY <2>2, <2>3 DEF OrderInv, OneWay
  <2> QED  BY <2>4 DEF Warned
<1> QED  BY <1>1, <1>2, <1>3, PTL DEF OrderSpec

----------------------------------------------------------------------------
(* The JSON-RPC server.                                                    *)

Worker == [at : {"idle", "read", "lock", "run"}, client : RpcClients \cup {0}, n : Nat, last : BOOLEAN]

RpcType ==
    /\ server \in {"off", "on", "stopped", "failed"}
    /\ listening \in SUBSET Acceptors /\ pending \in [Acceptors -> Nat]
    /\ ready \in Seq(Acceptors \X (RpcClients \cup {0}))
    /\ worker \in [Workers -> Worker]
    /\ client \in [RpcClients -> {"new", "queued", "served", "closed"}]
    /\ csMain \in {<<>>} \cup {<<w>> : w \in Workers}
    /\ server = "off" => ready = <<>> /\ listening = {}

\* An open acceptor has one accept: in progress, or completed and waiting for its handler.
OneAccept ==
    \A a \in listening :
        \/ pending[a] = 1 /\ \A i \in 1 .. Len(ready) : ready[i][1] # a
        \/ /\ pending[a] = 0
           /\ \E i \in 1 .. Len(ready) : /\ ready[i][1] = a
                                         /\ \A j \in 1 .. Len(ready) : ready[j][1] = a => j = i

\* A client that waits is in the queue once.
Queued ==
    \A i \in 1 .. Len(ready) : ready[i][2] # 0 =>
        /\ client[ready[i][2]] = "queued"
        /\ \A j \in 1 .. Len(ready) : ready[j][2] = ready[i][2] => j = i

OneWorker ==
    \A c \in RpcClients :
        IF client[c] = "served"
        THEN \E w \in Workers : worker[w].client = c /\ \A v \in Workers : worker[v].client = c => v = w
        ELSE \A w \in Workers : worker[w].client # c
WorkerBusy == \A w \in Workers : worker[w].at = "idle" <=> worker[w].client = 0
LockedRuns == csMain # <<>> => worker[csMain[1]].at = "run"

RpcInv == RpcType /\ OneAccept /\ Queued /\ OneWorker /\ WorkerBusy /\ LockedRuns

LEMMA StartKeeps == ASSUME RpcInv, StartRPCThreads PROVE RpcInv'
<1>1. RpcType /\ OneWorker /\ WorkerBusy /\ LockedRuns
  BY DEF RpcInv
<1>2. PICK open \in SUBSET Acceptors :
        /\ listening' = open /\ pending' = [a \in Acceptors |-> IF a \in open THEN 1 ELSE 0]
        /\ server' = IF open = {} THEN "failed" ELSE "on"
  BY DEF StartRPCThreads
<1>3. server = "off" /\ ready = <<>> /\ Len(ready) = 0 /\ UNCHANGED <<ready, worker, client, csMain>>
  BY <1>1, EmptySeq DEF StartRPCThreads, RpcType
<1>4. RpcType'
  BY <1>1, <1>2, <1>3 DEF RpcType
<1>5. OneAccept' /\ Queued'
  BY <1>2, <1>3 DEF OneAccept, Queued
<1>6. OneWorker' /\ WorkerBusy' /\ LockedRuns'
  BY <1>1, <1>3 DEF OneWorker, WorkerBusy, LockedRuns
<1> QED  BY <1>4, <1>5, <1>6 DEF RpcInv

LEMMA AcceptKeeps == ASSUME RpcInv, NEW a \in Acceptors, AcceptDone(a) PROVE RpcInv'
<1>1. RpcType /\ OneAccept /\ Queued /\ OneWorker /\ WorkerBusy /\ LockedRuns
  BY DEF RpcInv
<1>2. /\ a \in listening /\ pending[a] > 0 /\ server # "stopped"
      /\ pending' = [pending EXCEPT ![a] = @ - 1]
      /\ UNCHANGED <<server, listening, worker, csMain>>
  BY DEF AcceptDone
<1>3. PICK c \in RpcClients \cup {0} :
        /\ ready' = Append(ready, <<a, c>>)
        /\ IF c = 0 THEN client' = client
           ELSE client[c] = "new" /\ client' = [client EXCEPT ![c] = "queued"]
  BY RpcServerAssumption DEF AcceptDone
<1>4. /\ Len(ready) \in Nat /\ <<a, c>> \in Acceptors \X (RpcClients \cup {0})
      /\ ready' \in Seq(Acceptors \X (RpcClients \cup {0})) /\ Len(ready') = Len(ready) + 1
      /\ \A i \in 1 .. Len(ready) : ready'[i] = ready[i]
      /\ ready'[Len(ready) + 1] = <<a, c>>
  BY <1>1, <1>3, AppendProperties, LenProperties DEF RpcType
<1>5. server # "off" /\ pending[a] \in Nat \ {0} /\ pending[a] = 1
      /\ \A i \in 1 .. Len(ready) : ready[i][1] # a
  BY <1>1, <1>2 DEF RpcType, OneAccept
<1>6. RpcType'
  <2>1. client' \in [RpcClients -> {"new", "queued", "served", "closed"}]
    BY <1>1, <1>3 DEF RpcType
  <2>2. pending' \in [Acceptors -> Nat]
    BY <1>1, <1>2, <1>5 DEF RpcType
  <2> QED  BY <1>1, <1>2, <1>4, <1>5, <2>1, <2>2 DEF RpcType
<1>9. /\ \A i \in 1 .. Len(ready') : i \in 1 .. Len(ready) \/ i = Len(ready) + 1
      /\ \A i \in 1 .. Len(ready) : i \in 1 .. Len(ready')
  BY <1>4
<1>7. OneAccept'
  <2> SUFFICES ASSUME NEW b \in listening
               PROVE  \/ pending'[b] = 1 /\ \A i \in 1 .. Len(ready') : ready'[i][1] # b
                      \/ /\ pending'[b] = 0
                         /\ \E i \in 1 .. Len(ready') : /\ ready'[i][1] = b
                                                        /\ \A j \in 1 .. Len(ready') : ready'[j][1] = b => j = i
    BY <1>2 DEF OneAccept
  <2>1. CASE b = a
    <3>1. pending'[a] = 0
      BY <1>1, <1>2, <1>5 DEF RpcType
    <3>2. ready'[Len(ready) + 1][1] = a /\ \A j \in 1 .. Len(ready') : ready'[j][1] = a => j = Len(ready) + 1
      BY <1>4, <1>5
    <3> QED  BY <1>4, <2>1, <3>1, <3>2
  <2>2. CASE b # a
    <3>1. pending'[b] = pending[b] /\ ready'[Len(ready) + 1][1] # b
      BY <1>1, <1>2, <1>4, <2>2 DEF RpcType
    <3>2. CASE pending[b] = 1 /\ \A i \in 1 .. Len(ready) : ready[i][1] # b
      <4>1. \A i \in 1 .. Len(ready') : ready'[i][1] # b
        <5> TAKE i \in 1 .. Len(ready')
        <5>1. CASE i \in 1 .. Len(ready)
          BY <1>4, <3>2, <5>1
        <5>2. CASE i = Len(ready) + 1
          BY <3>1, <5>2
        <5> QED  BY <1>9, <5>1, <5>2
      <4> QED  BY <3>1, <3>2, <4>1
    <3>3. CASE pending[b] = 0 /\ \E i \in 1 .. Len(ready) : /\ ready[i][1] = b
                                                           /\ \A j \in 1 .. Len(ready) : ready[j][1] = b => j = i
      <4>1. PICK i \in 1 .. Len(ready) : /\ ready[i][1] = b
                                        /\ \A j \in 1 .. Len(ready) : ready[j][1] = b => j = i
        BY <3>3
      <4>2. i \in 1 .. Len(ready') /\ ready'[i][1] = b
        BY <1>4, <1>9, <4>1
      <4>3. \A j \in 1 .. Len(ready') : ready'[j][1] = b => j = i
        <5> SUFFICES ASSUME NEW j \in 1 .. Len(ready'), ready'[j][1] = b PROVE j = i
          OBVIOUS
        <5>1. j # Len(ready) + 1
          BY <3>1
        <5>2. j \in 1 .. Len(ready)
          BY <1>9, <5>1
        <5>3. ready'[j] = ready[j]
          BY <1>4, <5>2
        <5> QED  BY <4>1, <5>2, <5>3
      <4> QED  BY <3>1, <3>3, <4>2, <4>3
    <3> QED  BY <1>1, <3>2, <3>3 DEF OneAccept
  <2> QED  BY <2>1, <2>2
<1>8. Queued'
  <2> SUFFICES ASSUME NEW i \in 1 .. Len(ready'), ready'[i][2] # 0
               PROVE  /\ client'[ready'[i][2]] = "queued"
                      /\ \A j \in 1 .. Len(ready') : ready'[j][2] = ready'[i][2] => j = i
    BY DEF Queued
  <2>1. \A k \in 1 .. Len(ready) : ready[k][2] # 0 => ready[k][2] \in RpcClients /\ client[ready[k][2]] = "queued"
    BY <1>1 DEF Queued, RpcType
  <2>2. c # 0 => c \in RpcClients /\ client'[c] = "queued" /\ \A k \in 1 .. Len(ready) : ready[k][2] # c
    BY <1>1, <1>3, <2>1 DEF RpcType
  <2>3. CASE i = Len(ready) + 1
    BY <1>4, <2>2, <2>3
  <2>4. CASE i \in 1 .. Len(ready)
    <3>1. client'[ready[i][2]] = "queued"
      BY <1>1, <1>3, <1>4, <2>1, <2>2, <2>4 DEF RpcType
    <3>2. \A j \in 1 .. Len(ready) : ready[j][2] = ready[i][2] => j = i
      BY <1>1, <1>4, <2>4 DEF Queued
    <3>3. ready[i][2] # c
      BY <1>4, <2>2, <2>4
    <3>4. ready'[i] = ready[i]
      BY <1>4, <2>4
    <3>5. ASSUME NEW j \in 1 .. Len(ready'), ready'[j][2] = ready'[i][2] PROVE j = i
      <4>1. j # Len(ready) + 1
        BY <1>4, <3>3, <3>4, <3>5
      <4>2. j \in 1 .. Len(ready)
        BY <1>9, <4>1
      <4>3. ready'[j] = ready[j]
        BY <1>4, <4>2
      <4> QED  BY <3>2, <3>4, <3>5, <4>2, <4>3
    <3> QED  BY <3>1, <3>4, <3>5
  <2> QED  BY <1>9, <2>3, <2>4
<1>10. OneWorker'
  <2>1. \A d \in RpcClients : client'[d] = "served" <=> client[d] = "served"
    BY <1>1, <1>3 DEF RpcType
  <2> QED  BY <1>1, <1>2, <2>1 DEF OneWorker
<1>11. WorkerBusy' /\ LockedRuns'
  BY <1>1, <1>2 DEF WorkerBusy, LockedRuns
<1> QED  BY <1>6, <1>7, <1>8, <1>10, <1>11 DEF RpcInv

LEMMA HandlerKeeps == ASSUME RpcInv, NEW w \in Workers, RPCAcceptHandler(w) PROVE RpcInv'
<1> DEFINE a == Head(ready)[1]
           c == Head(ready)[2]
<1>1. RpcType /\ OneAccept /\ Queued /\ OneWorker /\ WorkerBusy /\ LockedRuns
  BY DEF RpcInv
<1>2. /\ server = "on" /\ worker[w].at = "idle" /\ ready # <<>>
      /\ pending' = [pending EXCEPT ![a] = @ + 1] /\ ready' = Tail(ready)
      /\ worker' = (IF c \in Allowed THEN [worker EXCEPT ![w] = [@ EXCEPT !.at = "read", !.client = c]] ELSE worker)
      /\ client' = IF c = 0 THEN client
                   ELSE [client EXCEPT ![c] = IF c \in Allowed THEN "served" ELSE "closed"]
      /\ UNCHANGED <<server, listening, csMain>>
  BY DEF RPCAcceptHandler
<1>3. /\ Len(ready) \in Nat \ {0} /\ Head(ready) = ready[1] /\ ready[1] \in Acceptors \X (RpcClients \cup {0})
      /\ ready' \in Seq(Acceptors \X (RpcClients \cup {0})) /\ Len(ready') = Len(ready) - 1
      /\ \A i \in 1 .. Len(ready') : ready'[i] = ready[i + 1]
  <2>1. ready \in Seq(Acceptors \X (RpcClients \cup {0}))
    BY <1>1 DEF RpcType
  <2>2. Len(ready) \in Nat \ {0}
    BY <1>2, <2>1, EmptySeq, LenProperties
  <2>3. Head(ready) = ready[1]
    BY <1>2, <2>1
  <2> QED  BY <1>2, <2>1, <2>2, <2>3, HeadTailProperties
<1>4. /\ a = ready[1][1] /\ c = ready[1][2] /\ a \in Acceptors /\ c \in RpcClients \cup {0}
      /\ (c \in Allowed => c # 0)
  BY <1>3, RpcServerAssumption
<1> HIDE DEF a, c
<1>5. RpcType'
  <2>1. client' \in [RpcClients -> {"new", "queued", "served", "closed"}]
    BY <1>1, <1>2, <1>4 DEF RpcType
  <2>2. pending' \in [Acceptors -> Nat]
    BY <1>1, <1>2, <1>4 DEF RpcType
  <2>3. worker' \in [Workers -> Worker]
    BY <1>1, <1>2, <1>4 DEF RpcType, Worker
  <2> QED  BY <1>1, <1>2, <1>3, <2>1, <2>2, <2>3 DEF RpcType
<1>6. OneAccept'
  <2> SUFFICES ASSUME NEW b \in listening
               PROVE  \/ pending'[b] = 1 /\ \A i \in 1 .. Len(ready') : ready'[i][1] # b
                      \/ /\ pending'[b] = 0
                         /\ \E i \in 1 .. Len(ready') : /\ ready'[i][1] = b
                                                        /\ \A j \in 1 .. Len(ready') : ready'[j][1] = b => j = i
    BY <1>2 DEF OneAccept
  <2>1. CASE b = a
    <3>1. pending[a] = 0 /\ \A j \in 1 .. Len(ready) : ready[j][1] = a => j = 1
      BY <1>1, <1>3, <1>4, <2>1 DEF OneAccept
    <3>2. pending'[a] = 1
      BY <1>1, <1>2, <1>4, <3>1 DEF RpcType
    <3> QED  BY <1>3, <2>1, <3>1, <3>2
  <2>2. CASE b # a
    <3>1. pending'[b] = pending[b] /\ ready[1][1] # b
      BY <1>1, <1>2, <1>4, <2>2 DEF RpcType
    <3>2. CASE pending[b] = 1 /\ \A i \in 1 .. Len(ready) : ready[i][1] # b
      BY <1>3, <3>1, <3>2
    <3>3. CASE pending[b] = 0 /\ \E i \in 1 .. Len(ready) : /\ ready[i][1] = b
                                                           /\ \A j \in 1 .. Len(ready) : ready[j][1] = b => j = i
      <4>1. PICK i \in 1 .. Len(ready) : ready[i][1] = b /\ \A j \in 1 .. Len(ready) : ready[j][1] = b => j = i
        BY <3>3
      <4>2. i # 1 /\ i - 1 \in 1 .. Len(ready') /\ ready'[i - 1][1] = b
        BY <1>3, <3>1, <4>1
      <4>3. ASSUME NEW j \in 1 .. Len(ready'), ready'[j][1] = b PROVE j = i - 1
        <5>1. j + 1 \in 1 .. Len(ready) /\ ready'[j] = ready[j + 1]
          BY <1>3
        <5>2. j + 1 = i
          BY <4>1, <4>3, <5>1
        <5> QED  BY <5>2
      <4> QED  BY <3>1, <3>3, <4>2, <4>3
    <3> QED  BY <1>1, <3>2, <3>3 DEF OneAccept
  <2> QED  BY <2>1, <2>2
<1>7. \A i \in 1 .. Len(ready') : i + 1 \in 1 .. Len(ready) /\ ready'[i] = ready[i + 1]
  BY <1>3
<1>8. Queued'
  <2> SUFFICES ASSUME NEW i \in 1 .. Len(ready'), ready'[i][2] # 0
               PROVE  /\ client'[ready'[i][2]] = "queued"
                      /\ \A j \in 1 .. Len(ready') : ready'[j][2] = ready'[i][2] => j = i
    BY DEF Queued
  <2>1. /\ client[ready'[i][2]] = "queued" /\ ready'[i][2] \in RpcClients
        /\ \A j \in 1 .. Len(ready) : ready[j][2] = ready'[i][2] => j = i + 1
    BY <1>1, <1>7 DEF Queued, RpcType
  <2>2. ready'[i][2] # c
    BY <1>3, <1>4, <2>1
  <2>3. client'[ready'[i][2]] = "queued"
    BY <1>1, <1>2, <1>4, <2>1, <2>2 DEF RpcType
  <2>4. ASSUME NEW j \in 1 .. Len(ready'), ready'[j][2] = ready'[i][2] PROVE j = i
    <3>1. j + 1 \in 1 .. Len(ready) /\ ready'[j] = ready[j + 1]
      BY <1>7
    <3>2. j + 1 = i + 1
      BY <2>1, <2>4, <3>1
    <3> QED  BY <3>2
  <2> QED  BY <2>3, <2>4
<1>9. c # 0 => client[c] = "queued"
  BY <1>1, <1>3, <1>4 DEF Queued
<1>10. worker[w].client = 0
  BY <1>1, <1>2 DEF WorkerBusy
<1>11. OneWorker'
  <2> SUFFICES ASSUME NEW d \in RpcClients
               PROVE  IF client'[d] = "served"
                      THEN \E v \in Workers : worker'[v].client = d /\ \A u \in Workers : worker'[u].client = d => u = v
                      ELSE \A v \in Workers : worker'[v].client # d
    BY DEF OneWorker
  <2>0. d # 0
    BY RpcServerAssumption
  <2>1. CASE d = c /\ c \in Allowed
    <3>1. client'[d] = "served" /\ worker'[w].client = d
      BY <1>1, <1>2, <1>4, <2>0, <2>1 DEF RpcType, Worker
    <3>2. \A u \in Workers \ {w} : worker'[u] = worker[u]
      BY <1>1, <1>2 DEF RpcType
    <3>3. \A u \in Workers : worker[u].client # d
      BY <1>1, <1>9, <2>0, <2>1 DEF OneWorker
    <3> QED  BY <3>1, <3>2, <3>3
  <2>2. CASE d = c /\ c \notin Allowed
    <3>1. client'[d] = "closed" /\ worker' = worker
      BY <1>1, <1>2, <1>4, <2>0, <2>2 DEF RpcType
    <3>2. \A u \in Workers : worker[u].client # d
      BY <1>1, <1>9, <2>0, <2>2 DEF OneWorker
    <3> QED  BY <3>1, <3>2
  <2>3. CASE d # c
    <3>1. client'[d] = client[d]
      BY <1>1, <1>2, <2>3 DEF RpcType
    <3>2. \A u \in Workers : worker'[u].client = d <=> worker[u].client = d
      BY <1>1, <1>2, <1>10, <2>0, <2>3 DEF RpcType, Worker
    <3> QED  BY <1>1, <3>1, <3>2 DEF OneWorker
  <2> QED  BY <2>1, <2>2, <2>3
<1>12. WorkerBusy'
  BY <1>1, <1>2, <1>4 DEF WorkerBusy, RpcType, Worker
<1>13. LockedRuns'
  BY <1>1, <1>2 DEF LockedRuns, RpcType
<1> QED  BY <1>5, <1>6, <1>8, <1>11, <1>12, <1>13 DEF RpcInv

\* A connection that ends leaves its worker idle and its client without one.
LEMMA CloseKeeps ==
    ASSUME RpcInv, NEW w \in Workers, worker[w].at # "idle", CloseConn(w), UNCHANGED ready
    PROVE  /\ client' \in [RpcClients -> {"new", "queued", "served", "closed"}]
           /\ worker' \in [Workers -> Worker]
           /\ Queued' /\ OneWorker' /\ WorkerBusy'
<1> DEFINE c == worker[w].client
<1>1. RpcType /\ Queued /\ OneWorker /\ WorkerBusy
  BY DEF RpcInv
<1>2. /\ client' = [client EXCEPT ![c] = "closed"]
      /\ worker' = [worker EXCEPT ![w] = IdleWorker]
  BY DEF CloseConn
<1>3. worker[w] \in Worker /\ c \in RpcClients
  BY <1>1 DEF RpcType, WorkerBusy, Worker
<1> HIDE DEF c
<1>4. /\ worker' \in [Workers -> Worker] /\ worker'[w] = IdleWorker
      /\ \A v \in Workers \ {w} : worker'[v] = worker[v]
  BY <1>1, <1>2 DEF RpcType, IdleWorker, Worker
<1>5. /\ client' \in [RpcClients -> {"new", "queued", "served", "closed"}] /\ client'[c] = "closed"
      /\ \A d \in RpcClients \ {c} : client'[d] = client[d]
  BY <1>1, <1>2, <1>3 DEF RpcType
<1>6. client[c] = "served" /\ \A v \in Workers : worker[v].client = c => v = w
  BY <1>1, <1>3 DEF OneWorker, c
<1>7. \A i \in 1 .. Len(ready) : ready[i][2] # 0 => ready[i][2] \in RpcClients
  BY <1>1 DEF RpcType
<1>8. Queued'
  BY <1>1, <1>5, <1>6, <1>7 DEF Queued
<1>9. OneWorker'
  <2> SUFFICES ASSUME NEW d \in RpcClients
               PROVE  IF client'[d] = "served"
                      THEN \E v \in Workers : worker'[v].client = d /\ \A u \in Workers : worker'[u].client = d => u = v
                      ELSE \A v \in Workers : worker'[v].client # d
    BY DEF OneWorker
  <2>0. d # 0 /\ worker'[w].client = 0
    BY <1>4, RpcServerAssumption DEF IdleWorker
  <2>1. CASE d = c
    BY <1>4, <1>5, <1>6, <2>0, <2>1
  <2>2. CASE d # c
    <3>1. client'[d] = client[d]
      BY <1>5, <2>2
    <3>2. \A v \in Workers : worker'[v].client = d <=> worker[v].client = d
      BY <1>4, <2>0, <2>2 DEF c
    <3> QED  BY <1>1, <3>1, <3>2 DEF OneWorker
  <2> QED  BY <2>1, <2>2
<1>10. WorkerBusy'
  BY <1>1, <1>4 DEF WorkerBusy, IdleWorker
<1> QED  BY <1>4, <1>5, <1>8, <1>9, <1>10

LEMMA RefuseKeeps == ASSUME RpcInv, NEW w \in Workers, RefuseRequest(w) PROVE RpcInv'
<1>1. RpcType /\ OneAccept /\ LockedRuns
  BY DEF RpcInv
<1>2. /\ worker[w].at = "read" /\ CloseConn(w)
      /\ UNCHANGED <<server, listening, pending, ready, csMain>>
  BY DEF RefuseRequest
<1>3. /\ client' \in [RpcClients -> {"new", "queued", "served", "closed"}]
      /\ worker' \in [Workers -> Worker]
      /\ Queued' /\ OneWorker' /\ WorkerBusy'
  BY <1>2, CloseKeeps
<1>4. RpcType' /\ OneAccept'
  BY <1>1, <1>2, <1>3 DEF RpcType, OneAccept
<1>5. LockedRuns'
  BY <1>1, <1>2 DEF LockedRuns, RpcType, CloseConn
<1> QED  BY <1>3, <1>4, <1>5 DEF RpcInv

\* A worker that goes on with its connection: only where it stands and what it counts change.
LEMMA WorkOn ==
    ASSUME RpcInv, NEW w \in Workers, NEW r \in Worker, worker[w].at # "idle", r.at # "idle",
           r.client = worker[w].client, worker' = [worker EXCEPT ![w] = r], UNCHANGED <<client, ready>>
    PROVE  worker' \in [Workers -> Worker] /\ Queued' /\ OneWorker' /\ WorkerBusy'
<1>1. RpcType /\ Queued /\ OneWorker /\ WorkerBusy
  BY DEF RpcInv
<1>2. worker' \in [Workers -> Worker] /\ \A v \in Workers : worker'[v].client = worker[v].client
  BY <1>1 DEF RpcType
<1>3. Queued' /\ OneWorker'
  BY <1>1, <1>2 DEF Queued, OneWorker
<1>4. WorkerBusy'
  BY <1>1, <1>2 DEF WorkerBusy, RpcType
<1> QED  BY <1>2, <1>3, <1>4

LEMMA ReadKeeps == ASSUME RpcInv, NEW w \in Workers, ReadRequest(w) PROVE RpcInv'
<1>1. RpcType /\ OneAccept /\ LockedRuns
  BY DEF RpcInv
<1>2. PICK last \in BOOLEAN, safe \in BOOLEAN :
        worker' = [worker EXCEPT ![w] = [@ EXCEPT !.at = IF safe THEN "run" ELSE "lock", !.last = last]]
  BY DEF ReadRequest
<1>3. worker[w].at = "read" /\ UNCHANGED <<server, listening, pending, ready, client, csMain>>
  BY DEF ReadRequest
<1> DEFINE r == [worker[w] EXCEPT !.at = IF safe THEN "run" ELSE "lock", !.last = last]
<1>4. r \in Worker /\ r.at # "idle" /\ r.client = worker[w].client /\ worker' = [worker EXCEPT ![w] = r]
  BY <1>1, <1>2 DEF RpcType, Worker
<1> HIDE DEF r
<1>5. worker' \in [Workers -> Worker] /\ Queued' /\ OneWorker' /\ WorkerBusy'
  BY <1>3, <1>4, WorkOn
<1>6. RpcType' /\ OneAccept'
  BY <1>1, <1>3, <1>5 DEF RpcType, OneAccept
<1>7. LockedRuns'
  BY <1>1, <1>3, <1>4 DEF LockedRuns, RpcType
<1> QED  BY <1>5, <1>6, <1>7 DEF RpcInv

LEMMA LockKeeps == ASSUME RpcInv, NEW w \in Workers, LockForCommand(w) PROVE RpcInv'
<1>1. RpcType /\ OneAccept /\ LockedRuns
  BY DEF RpcInv
<1>2. /\ worker[w].at = "lock" /\ csMain = <<>> /\ csMain' = <<w>>
      /\ worker' = [worker EXCEPT ![w].at = "run"]
      /\ UNCHANGED <<server, listening, pending, ready, client>>
  BY DEF LockForCommand
<1> DEFINE r == [worker[w] EXCEPT !.at = "run"]
<1>3. r \in Worker /\ r.at = "run" /\ r.client = worker[w].client /\ worker' = [worker EXCEPT ![w] = r]
  BY <1>1, <1>2 DEF RpcType, Worker
<1> HIDE DEF r
<1>4. worker' \in [Workers -> Worker] /\ Queued' /\ OneWorker' /\ WorkerBusy'
  BY <1>2, <1>3, WorkOn
<1>5. RpcType' /\ OneAccept'
  BY <1>1, <1>2, <1>4 DEF RpcType, OneAccept
<1>6. LockedRuns'
  BY <1>1, <1>2, <1>3 DEF LockedRuns, RpcType
<1> QED  BY <1>4, <1>5, <1>6 DEF RpcInv

LEMMA FinishKeeps == ASSUME RpcInv, NEW w \in Workers, FinishCommand(w) PROVE RpcInv'
<1>1. RpcType /\ OneAccept /\ LockedRuns
  BY DEF RpcInv
<1>2. /\ worker[w].at = "run" /\ csMain' = (IF csMain = <<w>> THEN <<>> ELSE csMain)
      /\ UNCHANGED <<server, listening, pending, ready>>
  BY DEF FinishCommand
<1>3. /\ client' \in [RpcClients -> {"new", "queued", "served", "closed"}]
      /\ worker' \in [Workers -> Worker]
      /\ Queued' /\ OneWorker' /\ WorkerBusy'
      /\ \A v \in Workers \ {w} : worker'[v] = worker[v]
  <2>1. CASE CloseConn(w)
    <3>1. \A v \in Workers \ {w} : worker'[v] = worker[v]
      BY <1>1, <2>1 DEF RpcType, CloseConn
    <3> QED  BY <1>2, <2>1, <3>1, CloseKeeps
  <2>2. CASE /\ ~worker[w].last
             /\ worker' = [worker EXCEPT ![w].at = "read", ![w].n = @ + 1]
             /\ UNCHANGED client
    <3> DEFINE r == [at |-> "read", client |-> worker[w].client, n |-> worker[w].n + 1, last |-> worker[w].last]
    <3>0. worker[w] \in Worker
      BY <1>1 DEF RpcType
    <3>1. r \in Worker /\ r.at # "idle" /\ r.client = worker[w].client
      BY <3>0 DEF Worker
    <3>2. worker' = [worker EXCEPT ![w] = r]
      BY <1>1, <2>2, <3>0 DEF RpcType, Worker
    <3> HIDE DEF r
    <3>3. worker' \in [Workers -> Worker] /\ Queued' /\ OneWorker' /\ WorkerBusy'
      BY <1>2, <2>2, <3>1, <3>2, WorkOn
    <3>4. \A v \in Workers \ {w} : worker'[v] = worker[v]
      BY <1>1, <3>2 DEF RpcType
    <3> QED  BY <1>1, <2>2, <3>3, <3>4 DEF RpcType
  <2> QED  BY <2>1, <2>2 DEF FinishCommand
<1>4. RpcType'
  BY <1>1, <1>2, <1>3 DEF RpcType
<1>5. OneAccept'
  BY <1>1, <1>2 DEF OneAccept
<1>6. LockedRuns'
  <2> SUFFICES ASSUME csMain' # <<>> PROVE worker'[csMain'[1]].at = "run"
    BY DEF LockedRuns
  <2>1. csMain' = csMain /\ csMain # <<w>>
    BY <1>2
  <2>2. PICK v \in Workers : csMain = <<v>>
    BY <1>1, <2>1 DEF RpcType
  <2>3. v # w /\ worker[v].at = "run"
    BY <1>1, <2>1, <2>2 DEF LockedRuns
  <2> QED  BY <1>3, <2>1, <2>2, <2>3
<1> QED  BY <1>3, <1>4, <1>5, <1>6 DEF RpcInv

LEMMA StopKeeps == ASSUME RpcInv, StopRPCThreads PROVE RpcInv'
<1>1. RpcType /\ OneAccept /\ Queued /\ OneWorker /\ WorkerBusy /\ LockedRuns
  BY DEF RpcInv
<1>2. server' = "stopped" /\ UNCHANGED <<listening, pending, ready, worker, client, csMain>>
  BY DEF StopRPCThreads
<1>3. RpcType'
  BY <1>1, <1>2 DEF RpcType
<1> QED  BY <1>1, <1>2, <1>3 DEF RpcInv, OneAccept, Queued, OneWorker, WorkerBusy, LockedRuns

LEMMA ListensFollows == RpcInv => ServerListens
<1> SUFFICES ASSUME RpcInv PROVE ServerListens
  OBVIOUS
<1>1. RpcType /\ OneAccept /\ OneWorker /\ LockedRuns
  BY DEF RpcInv
<1>2. DOMAIN ready = 1 .. Len(ready)
  BY <1>1, LenProperties DEF RpcType
<1>3. ASSUME NEW a \in listening
      PROVE  pending[a] + Cardinality({i \in DOMAIN ready : ready[i][1] = a}) = 1
  <2> DEFINE waits == {i \in 1 .. Len(ready) : ready[i][1] = a}
  <2>1. CASE pending[a] = 1 /\ \A i \in 1 .. Len(ready) : ready[i][1] # a
    <3>1. waits = {}
      BY <2>1
    <3>2. Cardinality(waits) = 0
      BY <3>1, FS_EmptySet
    <3> HIDE DEF waits
    <3>3. pending[a] + Cardinality(waits) = 1
      BY <2>1, <3>2
    <3> QED  BY <1>2, <3>3 DEF waits
  <2>2. CASE pending[a] = 0 /\ \E i \in 1 .. Len(ready) : /\ ready[i][1] = a
                                                         /\ \A j \in 1 .. Len(ready) : ready[j][1] = a => j = i
    <3>1. PICK i \in 1 .. Len(ready) : ready[i][1] = a /\ \A j \in 1 .. Len(ready) : ready[j][1] = a => j = i
      BY <2>2
    <3>2. waits = {i}
      BY <3>1
    <3> HIDE DEF waits
    <3>3. Cardinality(waits) = 1
      BY <3>2, FS_Singleton
    <3>4. pending[a] + Cardinality(waits) = 1
      BY <2>2, <3>3
    <3> QED  BY <1>2, <3>4 DEF waits
  <2> QED  BY <1>1, <2>1, <2>2 DEF OneAccept
<1>4. ASSUME NEW c \in RpcClients
      PROVE  Cardinality({w \in Workers : worker[w].client = c}) = IF client[c] = "served" THEN 1 ELSE 0
  <2> DEFINE S == {w \in Workers : worker[w].client = c}
  <2>1. CASE client[c] = "served"
    <3>1. PICK w \in Workers : worker[w].client = c /\ \A v \in Workers : worker[v].client = c => v = w
      BY <1>1, <2>1 DEF OneWorker
    <3>2. S = {w}
      BY <3>1
    <3> HIDE DEF S
    <3>3. Cardinality(S) = 1
      BY <3>2, FS_Singleton
    <3> QED  BY <2>1, <3>3 DEF S
  <2>2. CASE client[c] # "served"
    <3>1. S = {}
      BY <1>1, <2>2 DEF OneWorker
    <3>2. Cardinality(S) = 0
      BY <3>1, FS_EmptySet
    <3> QED  BY <2>2, <3>2
  <2> QED  BY <2>1, <2>2
<1>5. csMain # <<>> => worker[csMain[1]].at = "run"
  BY <1>1 DEF LockedRuns
<1> QED  BY <1>3, <1>4, <1>5 DEF ServerListens

\* For any workers, acceptors and clients: an open acceptor always has one accept, in progress or
\* waiting for its handler, a client has one worker, and the locks are held by a worker that runs
\* a command (RPCAcceptHandler, ServiceConnection, CRPCTable::execute).
THEOREM ServerKeepsListening == RpcSpec => []ServerListens
<1>1. RpcInit => RpcInv
  <2> SUFFICES ASSUME RpcInit PROVE RpcInv
    OBVIOUS
  <2>1. Len(<<>>) = 0 /\ <<>> \in Seq(Acceptors \X (RpcClients \cup {0}))
    BY EmptySeq
  <2>2. RpcType
    BY <2>1 DEF RpcInit, RpcType, Worker, IdleWorker
  <2>3. OneAccept /\ Queued /\ LockedRuns
    BY <2>1 DEF RpcInit, OneAccept, Queued, LockedRuns
  <2>4. OneWorker /\ WorkerBusy
    BY RpcServerAssumption DEF RpcInit, OneWorker, WorkerBusy, IdleWorker
  <2> QED  BY <2>2, <2>3, <2>4 DEF RpcInv
<1>2. RpcInv /\ [RpcNext]_rpcVars => RpcInv'
  <2> SUFFICES ASSUME RpcInv, [RpcNext]_rpcVars PROVE RpcInv'
    OBVIOUS
  <2>1. CASE RpcNext
    BY <2>1, StartKeeps, StopKeeps, AcceptKeeps, HandlerKeeps, RefuseKeeps, ReadKeeps, LockKeeps, FinishKeeps
       DEF RpcNext
  <2>2. CASE UNCHANGED rpcVars
    BY <2>2 DEF rpcVars, RpcInv, RpcType, OneAccept, Queued, OneWorker, WorkerBusy, LockedRuns
  <2> QED  BY <2>1, <2>2
<1> QED  BY <1>1, <1>2, ListensFollows, PTL DEF RpcSpec

----------------------------------------------------------------------------
(* The node's own addresses.  A peer that was connected before the last    *)
(* change of the map knows the best address, or a thread will visit it.    *)

LocalType ==
    /\ localHost \in [Locals -> 0 .. MaxScore]
    /\ connected \subseteq PeerNodes /\ settled \subseteq connected
    /\ addrLocal \in [PeerNodes -> Locals \cup {0}]
    /\ told \in [PeerNodes -> SUBSET Locals]
    /\ advert \in [LocalThreads -> {<<>>} \cup ({"wanted", "visiting"} \X SUBSET PeerNodes)]

ToVisit(t) == IF advert[t] = <<>> THEN {} ELSE advert[t][2]

ToldOrVisited ==
    \A n \in settled : \/ Known = {} \/ addrLocal[n] = GetLocal(n)
                       \/ \E t \in LocalThreads : n \in ToVisit(t)

NoneLimited ==
    /\ \A a \in Known : NetOf[a] \notin limited
    /\ \A n \in PeerNodes : \A a \in told[n] : NetOf[a] \notin limited

LocalInv == LocalType /\ ToldOrVisited /\ NoneLimited

BetterFor(n, a, b) ==
    \/ ReachOf[n][a] > ReachOf[n][b]
    \/ ReachOf[n][a] = ReachOf[n][b] /\ localHost[a] > localHost[b]
IsBest(n, a) == \A b \in Known \ {a} : ~BetterFor(n, b, a) /\ (BetterFor(n, a, b) \/ a < b)

\* Of the known addresses one is the best for a peer: the most reachable, of the highest score
\* among those, the first of the map among those.
LEMMA BestExists ==
    ASSUME NEW n \in PeerNodes, localHost \in [Locals -> 0 .. MaxScore], Known # {}
    PROVE  \E a \in Known : IsBest(n, a)
<1>1. /\ Known \subseteq Locals /\ Locals \subseteq Nat
      /\ \A a \in Locals : ReachOf[n][a] \in 0 .. 6 /\ localHost[a] \in 0 .. MaxScore
  BY LocalAddrsAssumption DEF Known
<1>2. PICK r \in Known : \A b \in Known : ReachOf[n][b] <= ReachOf[n][r]
  <2> DEFINE S == {6 - ReachOf[n][b] : b \in Known}
  <2>1. S \in SUBSET Nat /\ S # {}
    <3>1. \A b \in Known : 6 - ReachOf[n][b] \in Nat
      BY <1>1
    <3> QED  BY <3>1
  <2>2. \E x \in S : \A y \in S : x <= y
    <3> HIDE DEF S
    <3> QED  BY <2>1, LeastNumber
  <2>3. PICK r \in Known : \A y \in S : 6 - ReachOf[n][r] <= y
    BY <2>2
  <2>4. \A b \in Known : 6 - ReachOf[n][r] <= 6 - ReachOf[n][b]
    BY <2>3
  <2> QED  BY <1>1, <2>3, <2>4
<1> DEFINE R == {b \in Known : ReachOf[n][b] = ReachOf[n][r]}
<1>3. PICK s \in R : \A b \in R : localHost[b] <= localHost[s]
  <2> DEFINE S == {MaxScore - localHost[b] : b \in R}
  <2>1. S \in SUBSET Nat /\ S # {}
    <3>1. MaxScore \in Nat
      BY LocalAddrsAssumption
    <3>2. \A b \in R : MaxScore - localHost[b] \in Nat
      BY <1>1, <3>1
    <3> QED  BY <1>2, <3>2
  <2>2. \E x \in S : \A y \in S : x <= y
    <3> HIDE DEF S
    <3> QED  BY <2>1, LeastNumber
  <2>3. PICK s \in R : \A y \in S : MaxScore - localHost[s] <= y
    BY <2>2
  <2>4. \A b \in R : MaxScore - localHost[s] <= MaxScore - localHost[b]
    BY <2>3
  <2> HIDE DEF S
  <2> QED  BY <1>1, <2>3, <2>4, LocalAddrsAssumption
<1> DEFINE T == {b \in R : localHost[b] = localHost[s]}
<1>4. PICK a \in T : \A b \in T : a <= b
  <2>1. T \in SUBSET Nat /\ T # {}
    BY <1>1, <1>3
  <2> HIDE DEF T
  <2> QED  BY <2>1, LeastNumber
<1>5. a \in Known /\ ReachOf[n][a] = ReachOf[n][r] /\ localHost[a] = localHost[s]
  OBVIOUS
<1>6. ASSUME NEW b \in Known \ {a} PROVE ~BetterFor(n, b, a) /\ (BetterFor(n, a, b) \/ a < b)
  <2>1. /\ ReachOf[n][b] \in 0 .. 6 /\ ReachOf[n][a] \in 0 .. 6 /\ ReachOf[n][b] <= ReachOf[n][a]
        /\ localHost[b] \in 0 .. MaxScore /\ localHost[a] \in 0 .. MaxScore /\ a \in Nat /\ b \in Nat
    BY <1>1, <1>2, <1>5
  <2>2. ReachOf[n][b] = ReachOf[n][a] => localHost[b] <= localHost[a]
    BY <1>3, <1>5
  <2>3. ReachOf[n][b] = ReachOf[n][a] /\ localHost[b] = localHost[a] => a <= b
    BY <1>4, <1>5
  <2>4. MaxScore \in Nat
    BY LocalAddrsAssumption
  <2> QED  BY <2>1, <2>2, <2>3, <2>4 DEF BetterFor
<1> QED  BY <1>5, <1>6 DEF IsBest

LEMMA BestKnown ==
    ASSUME NEW n \in PeerNodes, localHost \in [Locals -> 0 .. MaxScore]
    PROVE  IF Known = {} THEN GetLocal(n) = 0 ELSE GetLocal(n) \in Known
<1>1. CASE Known = {}
  BY <1>1 DEF GetLocal
<1>2. CASE Known # {}
  <2>1. \E a \in Known : IsBest(n, a)
    BY <1>2, BestExists
  <2>2. (CHOOSE a \in Known : IsBest(n, a)) \in Known
    BY <2>1
  <2>3. GetLocal(n) = CHOOSE a \in Known : IsBest(n, a)
    BY <1>2 DEF GetLocal, IsBest, BetterFor
  <2> QED  BY <1>2, <2>2, <2>3
<1> QED  BY <1>1, <1>2

LEMMA SameLocal == ASSUME UNCHANGED localHost, NEW n PROVE Known' = Known /\ GetLocal(n)' = GetLocal(n)
BY DEF GetLocal, Known
\* A step that changes the map of addresses: all the peers are to be visited by t.
LEMMA ChangeKeeps ==
    ASSUME LocalInv, NEW t \in LocalThreads, NEW a \in Locals,
           NEW score \in 1 .. MaxScore, localHost' = [localHost EXCEPT ![a] = score],
           NetOf[a] \notin limited, settled' = connected, StartAdvert(t),
           UNCHANGED <<limited, connected, addrLocal, told>>
    PROVE  LocalInv'
<1>1. LocalType /\ NoneLimited
  BY DEF LocalInv
<1>2. /\ advert' = [advert EXCEPT ![t] = <<"wanted", PeerNodes>>]
      /\ <<"wanted", PeerNodes>> \in {"wanted", "visiting"} \X SUBSET PeerNodes
      /\ <<"wanted", PeerNodes>> # <<>> /\ <<"wanted", PeerNodes>>[2] = PeerNodes
  BY DEF StartAdvert
<1>3. LocalType'
  <2>1. localHost' \in [Locals -> 0 .. MaxScore]
    BY <1>1, LocalAddrsAssumption DEF LocalType
  <2>2. advert' \in [LocalThreads -> {<<>>} \cup ({"wanted", "visiting"} \X SUBSET PeerNodes)]
    BY <1>1, <1>2 DEF LocalType
  <2> QED  BY <1>1, <2>1, <2>2 DEF LocalType
<1>4. ToldOrVisited'
  <2>1. ToVisit(t)' = PeerNodes
    BY <1>1, <1>2 DEF LocalType, ToVisit
  <2>2. settled' \subseteq PeerNodes
    BY <1>1 DEF LocalType
  <2> QED  BY <2>1, <2>2 DEF ToldOrVisited
<1>5. NoneLimited'
  <2>1. Known' \subseteq Known \cup {a}
    BY <1>1 DEF Known, LocalType
  <2> QED  BY <1>1, <2>1 DEF NoneLimited
<1> QED  BY <1>3, <1>4, <1>5 DEF LocalInv

LEMMA AddLocalKeeps ==
    ASSUME LocalInv, NEW t \in LocalThreads, NEW a \in Locals, NEW s \in FirstScores, AddLocal(t, a, s)
    PROVE  LocalInv'
<1> DEFINE score == IF localHost[a] = 0 THEN s ELSE IF s >= localHost[a] THEN s + 1 ELSE localHost[a]
<1>1. localHost[a] \in 0 .. MaxScore /\ s \in 1 .. MaxScore - 1 /\ MaxScore \in Nat
  BY LocalAddrsAssumption DEF LocalInv, LocalType
<1>2. score \in 1 .. MaxScore
  BY <1>1
<1>3. /\ localHost' = [localHost EXCEPT ![a] = score] /\ NetOf[a] \notin limited /\ settled' = connected
      /\ StartAdvert(t) /\ UNCHANGED <<limited, connected, addrLocal, told>>
  BY DEF AddLocal
<1> HIDE DEF score
<1> QED  BY <1>2, <1>3, ChangeKeeps

LEMMA SeenLocalKeeps ==
    ASSUME LocalInv, NEW t \in LocalThreads, NEW a \in Locals, SeenLocal(t, a)
    PROVE  LocalInv'
<1> DEFINE score == localHost[a] + 1
<1>1. localHost[a] \in 1 .. MaxScore - 1 /\ MaxScore \in Nat
  BY LocalAddrsAssumption DEF SeenLocal
<1>2. score \in 1 .. MaxScore
  BY <1>1
<1>3. NetOf[a] \notin limited
  BY <1>1 DEF LocalInv, NoneLimited, Known
<1>4. /\ localHost' = [localHost EXCEPT ![a] = score] /\ settled' = connected
      /\ StartAdvert(t) /\ UNCHANGED <<limited, connected, addrLocal, told>>
  BY DEF SeenLocal
<1> HIDE DEF score
<1> QED  BY <1>2, <1>3, <1>4, ChangeKeeps

LEMMA LockNodesKeeps == ASSUME LocalInv, NEW t \in LocalThreads, LockNodes(t) PROVE LocalInv'
<1>1. LocalType /\ ToldOrVisited /\ NoneLimited
  BY DEF LocalInv
<1>2. /\ advert[t] # <<>> /\ advert' = [advert EXCEPT ![t][1] = "visiting"]
      /\ UNCHANGED <<limited, localHost, connected, settled, addrLocal, told>>
  BY DEF LockNodes
<1>3. advert[t] \in {"wanted", "visiting"} \X SUBSET PeerNodes
  BY <1>1, <1>2 DEF LocalType
<1>4. /\ [advert[t] EXCEPT ![1] = "visiting"] \in {"wanted", "visiting"} \X SUBSET PeerNodes
      /\ [advert[t] EXCEPT ![1] = "visiting"][2] = advert[t][2]
      /\ [advert[t] EXCEPT ![1] = "visiting"] # <<>>
  BY <1>3
<1>5. LocalType' /\ \A u \in LocalThreads : ToVisit(u)' = ToVisit(u)
  BY <1>1, <1>2, <1>4 DEF LocalType, ToVisit
<1>6. ToldOrVisited' /\ NoneLimited'
  <2>1. Known' = Known /\ \A n \in settled : GetLocal(n)' = GetLocal(n)
    BY <1>2, SameLocal
  <2> QED  BY <1>1, <1>2, <1>5, <2>1 DEF ToldOrVisited, NoneLimited
<1> QED  BY <1>5, <1>6 DEF LocalInv

LEMMA VisitKeeps == ASSUME LocalInv, NEW t \in LocalThreads, NEW n \in PeerNodes, VisitPeer(t, n) PROVE LocalInv'
<1> DEFINE best == GetLocal(n)
           rest == advert[t][2] \ {n}
           next == IF rest = {} THEN <<>> ELSE <<"visiting", rest>>
<1>1. LocalType /\ ToldOrVisited /\ NoneLimited
  BY DEF LocalInv
<1>2. /\ Visiting(t) /\ n \in advert[t][2] /\ advert' = [advert EXCEPT ![t] = next]
      /\ IF n \in connected /\ best # 0 /\ best # addrLocal[n]
         THEN /\ addrLocal' = [addrLocal EXCEPT ![n] = best]
              /\ told' = [told EXCEPT ![n] = @ \cup {best}]
         ELSE UNCHANGED <<addrLocal, told>>
      /\ UNCHANGED <<limited, localHost, connected, settled>>
  BY DEF VisitPeer
<1>3. Known' = Known /\ \A m \in settled : GetLocal(m)' = GetLocal(m)
  BY <1>2, SameLocal
<1>4. IF Known = {} THEN best = 0 ELSE best \in Known
  BY <1>1, BestKnown DEF LocalType
<1>5. best \in Locals \cup {0} /\ (best # 0 => best \in Known) /\ (Known # {} => best # 0)
  BY <1>4, LocalAddrsAssumption DEF Known
<1> HIDE DEF best
<1>6. advert[t] # <<>> /\ advert[t] \in {"wanted", "visiting"} \X SUBSET PeerNodes
  BY <1>1, <1>2 DEF Visiting, LocalType
<1>7. next \in {<<>>} \cup ({"wanted", "visiting"} \X SUBSET PeerNodes)
  BY <1>6
<1>8. (IF next = <<>> THEN {} ELSE next[2]) = rest
  BY <1>6
<1>9. ToVisit(t) = rest \cup {n}
  BY <1>2, <1>6 DEF ToVisit
<1> HIDE DEF next, rest
<1>10. ToVisit(t)' = rest /\ \A u \in LocalThreads \ {t} : ToVisit(u)' = ToVisit(u)
  BY <1>1, <1>2, <1>8 DEF ToVisit, LocalType
<1>11. LocalType'
  <2>1. advert' \in [LocalThreads -> {<<>>} \cup ({"wanted", "visiting"} \X SUBSET PeerNodes)]
    BY <1>1, <1>2, <1>7 DEF LocalType
  <2>2. addrLocal' \in [PeerNodes -> Locals \cup {0}]
    BY <1>1, <1>2, <1>5 DEF LocalType
  <2>3. told' \in [PeerNodes -> SUBSET Locals]
    <3>1. best # 0 => best \in Locals
      BY <1>5 DEF Known
    <3> QED  BY <1>1, <1>2, <3>1 DEF LocalType
  <2> QED  BY <1>1, <1>2, <2>1, <2>2, <2>3 DEF LocalType
<1>12. ToldOrVisited'
  <2> SUFFICES ASSUME NEW m \in settled, Known # {}, \A u \in LocalThreads : m \notin ToVisit(u)'
               PROVE  addrLocal'[m] = GetLocal(m)
    BY <1>2, <1>3 DEF ToldOrVisited
  <2>0. m \in PeerNodes /\ m \in connected
    BY <1>1 DEF LocalType
  <2>1. CASE m = n
    BY <1>1, <1>2, <1>5, <2>0, <2>1 DEF LocalType, best
  <2>2. CASE m # n
    <3>1. \A u \in LocalThreads : m \notin ToVisit(u)
      BY <1>9, <1>10, <2>2
    <3>2. addrLocal'[m] = addrLocal[m]
      BY <1>1, <1>2, <2>0, <2>2 DEF LocalType
    <3> QED  BY <1>1, <3>1, <3>2 DEF ToldOrVisited
  <2> QED  BY <2>1, <2>2
<1>13. NoneLimited'
  <2>1. \A m \in PeerNodes : told'[m] \subseteq told[m] \cup Known
    BY <1>1, <1>2, <1>5 DEF LocalType
  <2> QED  BY <1>1, <1>2, <1>3, <2>1 DEF NoneLimited
<1> QED  BY <1>11, <1>12, <1>13 DEF LocalInv

LEMMA ConnectsKeeps == ASSUME LocalInv, NEW n \in PeerNodes, PeerConnects(n) PROVE LocalInv'
<1>1. LocalType /\ ToldOrVisited /\ NoneLimited
  BY DEF LocalInv
<1>2. PICK a \in Locals \cup {0} : addrLocal' = [addrLocal EXCEPT ![n] = a]
  BY DEF PeerConnects
<1>3. /\ n \notin connected /\ connected' = connected \cup {n}
      /\ UNCHANGED <<limited, localHost, settled, told, advert>>
  BY DEF PeerConnects
<1>4. LocalType'
  BY <1>1, <1>2, <1>3 DEF LocalType
<1>5. Known' = Known /\ \A m \in settled : GetLocal(m)' = GetLocal(m)
  BY <1>3, SameLocal
<1>6. \A m \in settled : addrLocal'[m] = addrLocal[m]
  BY <1>1, <1>2, <1>3 DEF LocalType
<1>7. \A u \in LocalThreads : ToVisit(u)' = ToVisit(u)
  BY <1>3 DEF ToVisit
<1> QED  BY <1>1, <1>3, <1>4, <1>5, <1>6, <1>7 DEF LocalInv, ToldOrVisited, NoneLimited

LEMMA LeavesKeeps == ASSUME LocalInv, NEW n \in PeerNodes, PeerLeaves(n) PROVE LocalInv'
<1>1. LocalType /\ ToldOrVisited /\ NoneLimited
  BY DEF LocalInv
<1>2. /\ connected' = connected \ {n} /\ settled' = settled \ {n}
      /\ addrLocal' = [addrLocal EXCEPT ![n] = 0] /\ told' = [told EXCEPT ![n] = {}]
      /\ UNCHANGED <<limited, localHost, advert>>
  BY DEF PeerLeaves
<1>3. LocalType'
  BY <1>1, <1>2 DEF LocalType
<1>4. Known' = Known /\ \A m \in settled : GetLocal(m)' = GetLocal(m)
  BY <1>2, SameLocal
<1>5. \A m \in settled' : m \in settled /\ addrLocal'[m] = addrLocal[m]
  BY <1>1, <1>2 DEF LocalType
<1>6. \A u \in LocalThreads : ToVisit(u)' = ToVisit(u)
  BY <1>2 DEF ToVisit
<1>7. ToldOrVisited'
  BY <1>1, <1>4, <1>5, <1>6 DEF ToldOrVisited
<1>8. NoneLimited'
  <2>1. \A m \in PeerNodes : told'[m] \subseteq told[m]
    BY <1>1, <1>2 DEF LocalType
  <2> QED  BY <1>1, <1>2, <1>4, <2>1 DEF NoneLimited
<1> QED  BY <1>3, <1>7, <1>8 DEF LocalInv

\* For any addresses, peers and threads: when no thread has still to advertise, a peer that was
\* there before the last change has been told the address that is best for it, and none was told
\* an address of a limited network (AddLocal, SeenLocal, AdvertizeLocal).
THEOREM AddressesAdvertised == LocalSpec => []BestAdvertised
<1>1. LocalInit => LocalInv
  <2> SUFFICES ASSUME LocalInit PROVE LocalInv
    OBVIOUS
  <2>1. Known = {}
    BY DEF LocalInit, Known
  <2> QED  BY <2>1, LocalAddrsAssumption DEF LocalInit, LocalInv, LocalType, ToldOrVisited, NoneLimited
<1>2. LocalInv /\ [LocalNext]_localVars => LocalInv'
  <2> SUFFICES ASSUME LocalInv, [LocalNext]_localVars PROVE LocalInv'
    OBVIOUS
  <2>1. CASE LocalNext
    BY <2>1, AddLocalKeeps, SeenLocalKeeps, LockNodesKeeps, VisitKeeps, ConnectsKeeps, LeavesKeeps DEF LocalNext
  <2>2. CASE UNCHANGED localVars
    <3>1. Known' = Known /\ \A m \in settled : GetLocal(m)' = GetLocal(m)
      BY <2>2, SameLocal DEF localVars
    <3> QED  BY <2>2, <3>1 DEF localVars, LocalInv, LocalType, ToldOrVisited, NoneLimited, ToVisit
  <2> QED  BY <2>1, <2>2
<1>3. LocalInv => BestAdvertised
  BY DEF LocalInv, ToldOrVisited, NoneLimited, BestAdvertised, ToVisit
<1> QED  BY <1>1, <1>2, <1>3, PTL DEF LocalSpec

----------------------------------------------------------------------------
(* The sessions with the peers.  An alert that concerns this version is    *)
(* never marked as known to a peer that has not got it.                    *)

NodeFields == {"up", "nVersion", "strSubVer", "fSuccessfullyConnected", "fDisconnect", "nMisbehavior",
               "setKnown", "nRecvVersion", "vRecvGetData", "alerts", "sent", "nonce"}
IsNode(n) == /\ DOMAIN n = NodeFields
             /\ n.setKnown \subseteq Alerts /\ n.alerts \subseteq Alerts

SessionType ==
    /\ node = [p \in SPeers |-> node[p]] /\ \A p \in SPeers : IsNode(node[p])
    /\ mapAlerts \subseteq Alerts /\ now \in Nat

Held(n) == \A a \in n.setKnown : AppliesToMe(a) => a \in n.alerts
Reached(n, S) == n.up /\ n.fSuccessfullyConnected => \A a \in S : AppliesToMe(a) => a \in n.alerts

SessionInv ==
    /\ SessionType /\ CancelledGone
    /\ \A p \in SPeers : Held(node[p]) /\ Reached(node[p], mapAlerts)

LEMMA GoneIsNode ==
    /\ IsNode(Gone) /\ Gone.setKnown = {} /\ Gone.alerts = {}
    /\ Gone.fSuccessfullyConnected = FALSE
<1>1. Gone.setKnown = {} /\ Gone.alerts = {} /\ Gone.fSuccessfullyConnected = FALSE
  BY DEF Gone
<1>2. DOMAIN Gone = NodeFields
  BY DEF Gone, NodeFields
<1> QED  BY <1>1, <1>2 DEF IsNode

\* RelayTo gives a peer every alert that concerns this version, unless it is marked as known.
LEMMA RelayGives ==
    ASSUME NEW n, IsNode(n), NEW S \in SUBSET Alerts, Held(n)
    PROVE  /\ IsNode(RelayTo(n, S)) /\ Held(RelayTo(n, S))
           /\ RelayTo(n, S).up = n.up /\ RelayTo(n, S).fSuccessfullyConnected = n.fSuccessfullyConnected
           /\ n.alerts \subseteq RelayTo(n, S).alerts
           /\ \A a \in S : AppliesToMe(a) => a \in RelayTo(n, S).alerts
<1> DEFINE new == {a \in S \ n.setKnown : IsInEffect(a)}
           pushed == {a \in new : May(n, a)}
           r == [n EXCEPT !.setKnown = n.setKnown \cup new, !.alerts = n.alerts \cup pushed]
<1>1. RelayTo(n, S) = r
  BY DEF RelayTo
<1>2. new \subseteq Alerts /\ pushed \subseteq Alerts
  OBVIOUS
<1>3. \A a : AppliesToMe(a) => IsInEffect(a) /\ May(n, a)
  BY DEF AppliesToMe, AppliesTo, May
<1>4. \A a \in new : AppliesToMe(a) => a \in pushed
  BY <1>3
<1>5. \A a \in S : AppliesToMe(a) => a \in n.setKnown \/ a \in pushed
  BY <1>3
<1> HIDE DEF new, pushed
<1>6. /\ r.up = n.up /\ r.fSuccessfullyConnected = n.fSuccessfullyConnected
      /\ r.setKnown = n.setKnown \cup new /\ r.alerts = n.alerts \cup pushed
      /\ DOMAIN r = NodeFields
  BY DEF IsNode, NodeFields
<1> HIDE DEF r
<1>7. IsNode(r)
  BY <1>2, <1>6 DEF IsNode
<1>8. Held(r)
  BY <1>4, <1>6 DEF Held
<1>9. \A a \in S : AppliesToMe(a) => a \in r.alerts
  BY <1>5, <1>6 DEF Held
<1> QED  BY <1>1, <1>6, <1>7, <1>8, <1>9

\* A step that changes one node and no alert.
LEMMA NodeChanges ==
    ASSUME SessionInv, NEW p \in SPeers, NEW r, IsNode(r), node' = [node EXCEPT ![p] = r],
           Held(r), Reached(r, mapAlerts), UNCHANGED <<mapAlerts, now>>
    PROVE  SessionInv'
<1>1. SessionType /\ CancelledGone /\ \A q \in SPeers : Held(node[q]) /\ Reached(node[q], mapAlerts)
  BY DEF SessionInv
<1>2. node' = [q \in SPeers |-> node'[q]] /\ \A q \in SPeers : node'[q] = IF q = p THEN r ELSE node[q]
  BY <1>1 DEF SessionType
<1>3. SessionType'
  BY <1>1, <1>2 DEF SessionType, IsNode
<1>4. \A q \in SPeers : Held(node'[q]) /\ Reached(node'[q], mapAlerts)
  BY <1>1, <1>2
<1>5. \A q \in SPeers : Held(node[q])' /\ Reached(node[q], mapAlerts)'
  BY <1>4 DEF Held, Reached, AppliesToMe, AppliesTo, IsInEffect
<1>6. CancelledGone'
  BY <1>1 DEF CancelledGone, Cancels, IsInEffect
<1> QED  BY <1>3, <1>5, <1>6 DEF SessionInv

\* A node that differs in what is not about alerts, and is not newly connected.
Alike(r, n) ==
    /\ IsNode(r) /\ r.setKnown = n.setKnown /\ r.alerts = n.alerts
    /\ r.up = n.up /\ r.fSuccessfullyConnected = n.fSuccessfullyConnected

LEMMA AlikeKeeps ==
    ASSUME SessionInv, NEW p \in SPeers, NEW r, Alike(r, node[p]), node' = [node EXCEPT ![p] = r],
           UNCHANGED <<mapAlerts, now>>
    PROVE  SessionInv'
<1>1. IsNode(r) /\ Held(r) /\ Reached(r, mapAlerts)
  BY DEF SessionInv, Held, Reached, Alike
<1> QED  BY <1>1, NodeChanges

LEMMA ConnectKeeps == ASSUME SessionInv, NEW p \in SPeers, Connect(p) PROVE SessionInv'
<1> DEFINE r == IF p \in InboundPeers THEN [Gone EXCEPT !.up = TRUE]
                ELSE [Gone EXCEPT !.up = TRUE, !.sent = {"version"}, !.nonce = nLocalHostNonce + 1]
<1>1. node' = [node EXCEPT ![p] = r] /\ UNCHANGED <<mapAlerts, now>>
  BY DEF Connect
<1>2. DOMAIN r = NodeFields /\ r.setKnown = {} /\ r.alerts = {} /\ ~r.fSuccessfullyConnected
  <2>1. CASE p \in InboundPeers
    BY <2>1, GoneIsNode DEF NodeFields, IsNode
  <2>2. CASE p \notin InboundPeers
    BY <2>2, GoneIsNode DEF NodeFields, IsNode
  <2> QED  BY <2>1, <2>2
<1> HIDE DEF r
<1>3. IsNode(r) /\ Held(r) /\ Reached(r, mapAlerts)
  BY <1>2 DEF IsNode, Held, Reached
<1> QED  BY <1>1, <1>3, NodeChanges

LEMMA DropKeeps == ASSUME SessionInv, NEW p \in SPeers, Drop(p) PROVE SessionInv'
<1>1. SessionType /\ CancelledGone /\ \A q \in SPeers : Held(node[q]) /\ Reached(node[q], mapAlerts)
  BY DEF SessionInv
<1>2. /\ node' = [q \in SPeers |-> IF q \in {p, FarEnd[p]} THEN Gone ELSE node[q]]
      /\ UNCHANGED <<mapAlerts, nLocalHostNonce, now>>
  BY DEF Drop
<1>3. IsNode(Gone) /\ Held(Gone) /\ Reached(Gone, mapAlerts)
  BY GoneIsNode DEF Held, Reached
<1>4. SessionType'
  BY <1>1, <1>2, <1>3 DEF SessionType, IsNode
<1>5. \A q \in SPeers : Held(node'[q]) /\ Reached(node'[q], mapAlerts)
  BY <1>1, <1>2, <1>3
<1>6. \A q \in SPeers : Held(node[q])' /\ Reached(node[q], mapAlerts)'
  BY <1>2, <1>5 DEF Held, Reached, AppliesToMe, AppliesTo, IsInEffect
<1>7. CancelledGone'
  BY <1>1, <1>2 DEF CancelledGone, Cancels, IsInEffect
<1> QED  BY <1>4, <1>6, <1>7 DEF SessionInv

LEMMA VersionKeeps == ASSUME SessionInv, NEW p \in SPeers, Version(p) PROVE SessionInv'
<1>1. SessionType /\ IsNode(node[p]) /\ Held(node[p])
  BY DEF SessionInv, SessionType
<1>2. PICK m \in Announced(p) :
        LET n == [node[p] EXCEPT !.nVersion = ActingVersion(m.nVersion), !.strSubVer = m.strSubVer]
            greeted == IF p \in InboundPeers
                    THEN [n EXCEPT !.sent = @ \cup {"version", "verack"}, !.nonce = nLocalHostNonce + 1]
                    ELSE [n EXCEPT !.sent = @ \cup {"verack"}]
        IN /\ Handled(p) /\ node[p].nVersion = 0
           /\ \/ /\ m.nVersion < MIN_PROTO_VERSION
                 /\ node' = [node EXCEPT ![p] = [@ EXCEPT !.nVersion = m.nVersion, !.fDisconnect = TRUE]]
                 /\ UNCHANGED nLocalHostNonce
              \/ /\ m.nVersion >= MIN_PROTO_VERSION /\ ConnectedToSelf(m)
                 /\ node' = [node EXCEPT ![p] = [n EXCEPT !.fDisconnect = TRUE]]
                 /\ UNCHANGED nLocalHostNonce
              \/ /\ m.nVersion >= MIN_PROTO_VERSION /\ ~ConnectedToSelf(m)
                 /\ node' = [node EXCEPT ![p] = VersionDone(greeted)]
                 /\ IF p \in InboundPeers THEN PushVersion(greeted) ELSE UNCHANGED nLocalHostNonce
           /\ UNCHANGED <<mapAlerts, now>>
  BY Zenon DEF Version
<1> DEFINE n == [node[p] EXCEPT !.nVersion = ActingVersion(m.nVersion), !.strSubVer = m.strSubVer]
           greeted == IF p \in InboundPeers
                   THEN [n EXCEPT !.sent = n.sent \cup {"version", "verack"}, !.nonce = nLocalHostNonce + 1]
                   ELSE [n EXCEPT !.sent = n.sent \cup {"verack"}]
           early == [node[p] EXCEPT !.nVersion = m.nVersion, !.fDisconnect = TRUE]
           self == [n EXCEPT !.fDisconnect = TRUE]
<1>3. \/ node' = [node EXCEPT ![p] = early]
      \/ node' = [node EXCEPT ![p] = self]
      \/ node' = [node EXCEPT ![p] = VersionDone(greeted)]
  BY <1>2
<1>4. UNCHANGED <<mapAlerts, now>>
  BY <1>2
<1>5. Alike(n, node[p])
  BY <1>1 DEF IsNode, NodeFields, Alike
<1>6. Alike(early, node[p])
  BY <1>1 DEF IsNode, NodeFields, Alike
<1> HIDE DEF n, early
<1>7. Alike(self, node[p])
  BY <1>5 DEF IsNode, NodeFields, Alike
<1>8. Alike(greeted, node[p])
  <2>1. CASE p \in InboundPeers
    BY <1>5, <2>1 DEF IsNode, NodeFields, Alike
  <2>2. CASE p \notin InboundPeers
    BY <1>5, <2>2 DEF IsNode, NodeFields, Alike
  <2> QED  BY <2>1, <2>2
<1> HIDE DEF self, greeted
<1> DEFINE done == [RelayTo(greeted, mapAlerts) EXCEPT !.fSuccessfullyConnected = TRUE]
<1>9. IsNode(done) /\ Held(done) /\ Reached(done, mapAlerts)
  <2>1. IsNode(greeted) /\ Held(greeted) /\ mapAlerts \in SUBSET Alerts
    BY <1>1, <1>8 DEF Held, Alike, SessionType
  <2> DEFINE t == RelayTo(greeted, mapAlerts)
  <2>2. IsNode(t) /\ Held(t) /\ \A a \in mapAlerts : AppliesToMe(a) => a \in t.alerts
    BY <2>1, RelayGives
  <2> HIDE DEF t
  <2> DEFINE d == [t EXCEPT !.fSuccessfullyConnected = TRUE]
  <2>3. IsNode(d) /\ d.setKnown = t.setKnown /\ d.alerts = t.alerts
    BY <2>2 DEF IsNode, NodeFields
  <2> HIDE DEF d
  <2>4. IsNode(d) /\ Held(d) /\ Reached(d, mapAlerts)
    BY <2>2, <2>3 DEF Held, Reached
  <2> QED  BY <2>4 DEF d, t
<1>10. CASE node' = [node EXCEPT ![p] = early]
  BY <1>4, <1>6, <1>10, AlikeKeeps
<1>11. CASE node' = [node EXCEPT ![p] = self]
  BY <1>4, <1>7, <1>11, AlikeKeeps
<1>12. CASE node' = [node EXCEPT ![p] = VersionDone(greeted)]
  <2>1. VersionDone(greeted) = done
    BY DEF VersionDone
  <2> HIDE DEF done
  <2> QED  BY <1>4, <1>9, <1>12, <2>1, NodeChanges
<1> QED  BY <1>3, <1>10, <1>11, <1>12

\* The handlers that change one node, and none of its alerts.
LEMMA SmallKeeps ==
    ASSUME SessionInv, NEW p \in SPeers, VersionCut(p) \/ OutOfTurn(p) \/ Verack(p) \/ GetData(p)
    PROVE  SessionInv'
<1>1. SessionType /\ IsNode(node[p])
  BY DEF SessionInv, SessionType
<1>2. UNCHANGED <<mapAlerts, now>>
  BY DEF VersionCut, OutOfTurn, Verack, GetData
<1>3. CASE VersionCut(p)
  <2>1. PICK m \in Announced(p) : node' = [node EXCEPT ![p].nVersion = m.nVersion]
    BY <1>3 DEF VersionCut
  <2> DEFINE r == [node[p] EXCEPT !.nVersion = m.nVersion]
  <2>2. node' = [node EXCEPT ![p] = r]
    BY <2>1
  <2>3. Alike(r, node[p])
    BY <1>1 DEF IsNode, NodeFields, Alike
  <2> HIDE DEF r
  <2> QED  BY <1>2, <2>2, <2>3, AlikeKeeps
<1>4. CASE OutOfTurn(p)
  <2> DEFINE r == Misbehave(node[p], 1)
  <2>1. node' = [node EXCEPT ![p] = r]
    BY <1>4 DEF OutOfTurn
  <2>2. Alike(r, node[p])
    BY <1>1 DEF IsNode, NodeFields, Alike, Misbehave
  <2> HIDE DEF r
  <2> QED  BY <1>2, <2>1, <2>2, AlikeKeeps
<1>5. CASE Verack(p)
  <2> DEFINE v == IF node[p].nVersion < PROTOCOL_VERSION THEN node[p].nVersion ELSE PROTOCOL_VERSION
             r == [node[p] EXCEPT !.nRecvVersion = v]
  <2>1. node' = [node EXCEPT ![p] = r]
    BY <1>5 DEF Verack
  <2> HIDE DEF v
  <2>2. Alike(r, node[p])
    BY <1>1 DEF IsNode, NodeFields, Alike
  <2> HIDE DEF r
  <2> QED  BY <1>2, <2>1, <2>2, AlikeKeeps
<1>6. CASE GetData(p)
  <2> DEFINE r == [node[p] EXCEPT !.vRecvGetData = TRUE]
  <2>1. node' = [node EXCEPT ![p] = r]
    BY <1>6 DEF GetData
  <2>2. Alike(r, node[p])
    BY <1>1 DEF IsNode, NodeFields, Alike
  <2> HIDE DEF r
  <2> QED  BY <1>2, <2>1, <2>2, AlikeKeeps
<1> QED  BY <1>3, <1>4, <1>5, <1>6

\* Time only ends the effect of alerts.
LEMMA TickKeeps == ASSUME SessionInv, SessionTick PROVE SessionInv'
<1>1. SessionType /\ CancelledGone /\ \A q \in SPeers : Held(node[q]) /\ Reached(node[q], mapAlerts)
  BY DEF SessionInv
<1>2. now' = now + 1 /\ UNCHANGED <<node, mapAlerts, nLocalHostNonce>>
  BY DEF SessionTick
<1>3. \A a \in Alerts : IsInEffect(a)' => IsInEffect(a)
  BY <1>1, <1>2, PeerSessionAssumption DEF SessionType, IsInEffect
<1>4. \A a \in Alerts : AppliesToMe(a)' => AppliesToMe(a)
  BY <1>3 DEF AppliesToMe, AppliesTo
<1>5. \A a \in Alerts : \A b : Cancels(a, b)' => Cancels(a, b)
  BY <1>3 DEF Cancels
<1>6. SessionType'
  BY <1>1, <1>2 DEF SessionType, IsNode
<1>7. ASSUME NEW q \in SPeers PROVE Held(node[q])' /\ Reached(node[q], mapAlerts)'
  <2>1. Held(node[q]) /\ Reached(node[q], mapAlerts) /\ node[q].setKnown \subseteq Alerts /\ mapAlerts \subseteq Alerts
    BY <1>1 DEF SessionType, IsNode
  <2> QED  BY <1>2, <1>4, <2>1 DEF Held, Reached
<1>8. CancelledGone'
  BY <1>1, <1>2, <1>5 DEF CancelledGone, SessionType
<1> QED  BY <1>6, <1>7, <1>8 DEF SessionInv

\* What ProcessAlert leaves: no alert that another cancels, and none that was not there, but a.
LEMMA ProcessedAlerts ==
    ASSUME SessionInv, NEW a \in Alerts, ProcessAlert(a)
    PROVE  /\ mapAlerts' \subseteq Alerts
           /\ \A b \in mapAlerts' : b \in mapAlerts \/ (b = a /\ AcceptAlert(a))
           /\ \A b, c \in mapAlerts' : b # c => ~Cancels(b, c)
<1>1. mapAlerts \subseteq Alerts /\ \A b, c \in mapAlerts : b # c => ~Cancels(b, c)
  BY DEF SessionInv, SessionType, CancelledGone
<1>2. KeptAlerts(a) \subseteq mapAlerts /\ \A b \in KeptAlerts(a) : ~Cancels(a, b)
  BY DEF KeptAlerts
<1>3. CASE mapAlerts' = mapAlerts
  <2>1. \A b, c \in mapAlerts' : b # c => ~Cancels(b, c)
    BY <1>1, <1>3
  <2> QED  BY <1>1, <1>3, <2>1
<1>4. CASE mapAlerts' = KeptAlerts(a) /\ ~AcceptAlert(a)
  <2>1. \A b, c \in mapAlerts' : b # c => ~Cancels(b, c)
    BY <1>1, <1>2, <1>4
  <2> QED  BY <1>1, <1>2, <1>4, <2>1
<1>5. CASE mapAlerts' = KeptAlerts(a) \cup {a} /\ AcceptAlert(a)
  <2>1. \A b \in KeptAlerts(a) : ~Cancels(b, a)
    BY <1>5 DEF AcceptAlert
  <2> QED  BY <1>1, <1>2, <1>5, <2>1
<1>6. \/ mapAlerts' = mapAlerts
      \/ mapAlerts' = KeptAlerts(a) /\ ~AcceptAlert(a)
      \/ mapAlerts' = KeptAlerts(a) \cup {a} /\ AcceptAlert(a)
  BY DEF ProcessAlert
<1> QED  BY <1>3, <1>4, <1>5, <1>6

LEMMA AlertKeeps == ASSUME SessionInv, NEW p \in SPeers, Alert(p) PROVE SessionInv'
<1>1. SessionType /\ \A q \in SPeers : IsNode(node[q]) /\ Held(node[q]) /\ Reached(node[q], mapAlerts)
  BY DEF SessionInv, SessionType
<1>2. PICK a \in Alerts :
        /\ ProcessAlert(a)
        /\ node' = IF AcceptAlert(a)
                   THEN [q \in SPeers |->
                            LET n == IF q = p THEN [node[p] EXCEPT !.setKnown = @ \cup {a}, !.alerts = @ \cup {a}] ELSE node[q]
                            IN  IF n.up THEN RelayTo(n, {a}) ELSE n]
                   ELSE [node EXCEPT ![p] = Misbehave(@, 10)]
        /\ UNCHANGED <<nLocalHostNonce, now>>
  BY Zenon DEF Alert
<1>3. /\ mapAlerts' \subseteq Alerts
      /\ \A b \in mapAlerts' : b \in mapAlerts \/ (b = a /\ AcceptAlert(a))
      /\ \A b, c \in mapAlerts' : b # c => ~Cancels(b, c)
  BY <1>2, ProcessedAlerts
<1>4. CancelledGone'
  BY <1>2, <1>3 DEF CancelledGone, Cancels, IsInEffect
<1>5. ASSUME NEW q \in SPeers
      PROVE  IsNode(node'[q]) /\ Held(node'[q]) /\ Reached(node'[q], mapAlerts')
  <2>1. CASE AcceptAlert(a)
    <3> DEFINE sender == [node[p] EXCEPT !.setKnown = node[p].setKnown \cup {a}, !.alerts = node[p].alerts \cup {a}]
               n == IF q = p THEN sender ELSE node[q]
    <3>1. node'[q] = IF n.up THEN RelayTo(n, {a}) ELSE n
      BY <1>2, <2>1
    <3>2. /\ DOMAIN sender = NodeFields /\ sender.setKnown = node[p].setKnown \cup {a}
          /\ sender.alerts = node[p].alerts \cup {a} /\ sender.up = node[p].up
          /\ sender.fSuccessfullyConnected = node[p].fSuccessfullyConnected
      BY <1>1 DEF IsNode, NodeFields
    <3> HIDE DEF sender
    <3>3. IsNode(sender) /\ Held(sender) /\ Reached(sender, mapAlerts)
      BY <1>1, <3>2 DEF IsNode, Held, Reached
    <3>4. IsNode(n) /\ Held(n) /\ Reached(n, mapAlerts)
      BY <1>1, <3>3
    <3> HIDE DEF n
    <3>5. CASE ~n.up
      BY <3>1, <3>4, <3>5 DEF Reached
    <3>6. CASE n.up
      <4> DEFINE r == RelayTo(n, {a})
      <4>1. /\ IsNode(r) /\ Held(r) /\ r.up = n.up /\ r.fSuccessfullyConnected = n.fSuccessfullyConnected
            /\ n.alerts \subseteq r.alerts /\ (AppliesToMe(a) => a \in r.alerts)
        BY <3>4, RelayGives
      <4> HIDE DEF r
      <4>2. Reached(r, mapAlerts')
        BY <1>3, <3>4, <4>1 DEF Reached
      <4> QED  BY <3>1, <3>6, <4>1, <4>2 DEF r
    <3> QED  BY <3>5, <3>6
  <2>2. CASE ~AcceptAlert(a)
    <3> DEFINE r == Misbehave(node[p], 10)
    <3>1. Alike(r, node[p])
      BY <1>1 DEF IsNode, NodeFields, Alike, Misbehave
    <3>2. node'[q] = IF q = p THEN r ELSE node[q]
      BY <1>1, <1>2, <2>2 DEF SessionType
    <3> HIDE DEF r
    <3>3. IsNode(r) /\ Held(r) /\ Reached(r, mapAlerts)
      BY <1>1, <3>1 DEF Alike, Held, Reached
    <3>4. mapAlerts' \subseteq mapAlerts
      BY <1>3, <2>2
    <3>5. IsNode(node'[q]) /\ Held(node'[q]) /\ Reached(node'[q], mapAlerts)
      BY <1>1, <3>2, <3>3
    <3> QED  BY <3>4, <3>5 DEF Reached
  <2> QED  BY <2>1, <2>2
<1>6. node' = [q \in SPeers |-> node'[q]]
  BY <1>1, <1>2 DEF SessionType
<1>7. SessionType'
  BY <1>1, <1>2, <1>3, <1>5, <1>6 DEF SessionType, IsNode
<1>8. \A q \in SPeers : Held(node[q])' /\ Reached(node[q], mapAlerts)'
  BY <1>2, <1>5 DEF Held, Reached, AppliesToMe, AppliesTo, IsInEffect
<1> QED  BY <1>4, <1>7, <1>8 DEF SessionInv

\* For any peers and alerts: every peer that completed the handshake has every alert in effect
\* that concerns this version, and no alert is kept beside one that cancels it (the version and
\* alert handlers, RelayTo, ProcessAlert).
THEOREM AlertsAreKept == SessionSpec => []AlertsKept
<1>1. SessionInit => SessionInv
  <2> SUFFICES ASSUME SessionInit PROVE SessionInv
    OBVIOUS
  <2>1. node = [p \in SPeers |-> Gone] /\ mapAlerts = {} /\ now = 0
    BY DEF SessionInit
  <2>2. SessionType
    BY <2>1, GoneIsNode DEF SessionType
  <2>3. \A p \in SPeers : Held(node[p]) /\ Reached(node[p], mapAlerts)
    BY <2>1, GoneIsNode DEF Held, Reached
  <2> QED  BY <2>1, <2>2, <2>3 DEF SessionInv, CancelledGone
<1>2. SessionInv /\ [SessionNext]_sessionVars => SessionInv'
  <2> SUFFICES ASSUME SessionInv, [SessionNext]_sessionVars PROVE SessionInv'
    OBVIOUS
  <2>1. CASE SessionTick
    BY <2>1, TickKeeps
  <2>2. CASE \E p \in SPeers : Connect(p) \/ Drop(p) \/ Version(p) \/ VersionCut(p) \/ OutOfTurn(p)
                               \/ Verack(p) \/ GetData(p) \/ Alert(p)
    BY <2>2, ConnectKeeps, DropKeeps, VersionKeeps, SmallKeeps, AlertKeeps
  <2>3. CASE UNCHANGED sessionVars
    BY <2>3 DEF sessionVars, SessionInv, SessionType, IsNode, Held, Reached, CancelledGone, Cancels,
                AppliesToMe, AppliesTo, IsInEffect
  <2> QED  BY <2>1, <2>2, <2>3 DEF SessionNext
<1>3. SessionInv => AlertsKept
  BY DEF SessionInv, Reached, AlertsKept, AlertsReach
<1> QED  BY <1>1, <1>2, <1>3, PTL DEF SessionSpec

----------------------------------------------------------------------------
(* Connecting through proxies.  The socket of the call in progress is open *)
(* and has not been given to a caller.                                     *)

Destinations == {"ipv4", "ipv6", "unsupported", "name"}
Negotiation == {"socks4", "greet", "request", "answer", "name", "port"}

\* The way to a destination: the proxy that is set for it, 0 if there is none.
ViaOf(d) == IF d = "name" THEN nameproxy ELSE proxyInfo[d]

ProxyType ==
    /\ proxyInfo \in [{"ipv4", "ipv6", "unsupported"} -> Versions] /\ nameproxy \in {0, 5}
    /\ socks \in Seq({"open", "connected", "through", "closed"})
    /\ DOMAIN call = DOMAIN NoCall /\ call.at \in {"none", "connect", "wait"} \cup Negotiation
    /\ given \subseteq (DOMAIN socks) \X Destinations

CallSound ==
    /\ call.at = "none" => call.s = 0
    /\ call.at # "none" => call.dest \in Destinations /\ call.via = ViaOf(call.dest)
                           /\ (call.dest = "name" => call.via # 0)
    /\ call.at \in Negotiation => call.via # 0
    /\ call.at = "connect" => call.s = 0
    /\ call.at \in {"wait"} \cup Negotiation =>
         call.s \in DOMAIN socks /\ \A g \in given : g[1] # call.s

ProxyInv == ProxyType /\ CallSound /\ SocketsAccounted

LEMMA CallBegins ==
    ASSUME ProxyInv, ConnectSocketByName \/ \E net \in {"ipv4", "ipv6", "unsupported"} : ConnectSocket(net)
    PROVE  ProxyInv'
<1>1. /\ UNCHANGED <<proxyInfo, nameproxy, nameLookup, socks, given, stray>> /\ call.at = "none"
      /\ call' = NoCall \/ \E d \in Destinations : \E v \in Versions :
             call' = [at |-> "connect", dest |-> d, via |-> v, s |-> 0] /\ v = ViaOf(d) /\ (d = "name" => v # 0)
  <2>1. CASE ConnectSocketByName
    BY <2>1 DEF ConnectSocketByName, KeepSettings, Destinations, ViaOf, ProxyInv, ProxyType, Versions
  <2>2. CASE \E net \in {"ipv4", "ipv6", "unsupported"} : ConnectSocket(net)
    BY <2>2 DEF ConnectSocket, KeepSettings, Destinations, ViaOf, ProxyInv, ProxyType
  <2> QED  BY <2>1, <2>2
<1>2. call.s = 0 /\ call'.s = 0
  BY <1>1 DEF NoCall, ProxyInv, CallSound
<1>3. ProxyType' /\ CallSound'
  BY <1>1 DEF ProxyInv, ProxyType, CallSound, NoCall, ViaOf, Negotiation, Destinations
<1>4. SocketsAccounted'
  BY <1>1, <1>2 DEF ProxyInv, SocketsAccounted
<1> QED  BY <1>3, <1>4 DEF ProxyInv

LEMMA SocketMade == ASSUME ProxyInv, MakeSocket PROVE ProxyInv'
<1>1. /\ UNCHANGED <<proxyInfo, nameproxy, nameLookup, given, stray>> /\ call.at = "connect" /\ call.s = 0
      /\ \/ call' = NoCall /\ (UNCHANGED socks \/ socks' = Append(socks, "closed"))
         \/ /\ socks' = Append(socks, "open") /\ call' = [call EXCEPT !.at = "wait", !.s = Len(socks) + 1]
  BY DEF MakeSocket, KeepSettings, Return, ProxyInv, CallSound
<1>2. /\ socks \in Seq({"open", "connected", "through", "closed"}) /\ given \subseteq (DOMAIN socks) \X Destinations
      /\ DOMAIN call = DOMAIN NoCall /\ call.dest \in Destinations /\ call.via = ViaOf(call.dest)
      /\ (call.dest = "name" => call.via # 0)
  BY <1>1 DEF ProxyInv, ProxyType, CallSound
<1>3. CASE UNCHANGED socks /\ call' = NoCall
  BY <1>1, <1>3 DEF ProxyInv, ProxyType, CallSound, SocketsAccounted, NoCall, ViaOf, Negotiation
<1>4. CASE socks' = Append(socks, "closed") /\ call' = NoCall
  <2>1. /\ DOMAIN socks' = DOMAIN socks \cup {Len(socks) + 1} /\ \A s \in DOMAIN socks : socks'[s] = socks[s]
        /\ socks'[Len(socks) + 1] = "closed" /\ socks' \in Seq({"open", "connected", "through", "closed"})
        /\ 0 \notin DOMAIN socks
    BY <1>4, <1>2
  <2>2. ProxyType' /\ CallSound'
    BY <1>1, <1>4, <2>1 DEF ProxyInv, ProxyType, CallSound, NoCall, ViaOf, Negotiation
  <2>3. SocketsAccounted'
    BY <1>1, <1>2, <1>4, <2>1 DEF ProxyInv, SocketsAccounted
  <2> QED  BY <2>2, <2>3 DEF ProxyInv
<1>5. CASE socks' = Append(socks, "open") /\ call' = [call EXCEPT !.at = "wait", !.s = Len(socks) + 1]
  <2>1. /\ DOMAIN socks' = DOMAIN socks \cup {Len(socks) + 1} /\ \A s \in DOMAIN socks : socks'[s] = socks[s]
        /\ socks'[Len(socks) + 1] = "open" /\ socks' \in Seq({"open", "connected", "through", "closed"})
        /\ 0 \notin DOMAIN socks /\ Len(socks) + 1 \notin DOMAIN socks
    BY <1>5, <1>2
  <2>2. /\ call'.at = "wait" /\ call'.s = Len(socks) + 1 /\ call'.dest = call.dest /\ call'.via = call.via
        /\ DOMAIN call' = DOMAIN NoCall
    BY <1>5, <1>2 DEF NoCall
  <2>3. ProxyType'
    BY <1>1, <2>1, <2>2 DEF ProxyInv, ProxyType
  <2>4. CallSound'
    BY <1>1, <1>2, <2>1, <2>2 DEF CallSound, ViaOf, Negotiation
  <2>5. SocketsAccounted'
    BY <1>1, <1>2, <2>1, <2>2 DEF ProxyInv, SocketsAccounted
  <2> QED  BY <2>3, <2>4, <2>5 DEF ProxyInv
<1> QED  BY <1>1, <1>3, <1>4, <1>5

\* From a state with a socket in hand: it is closed, or given when the way is complete, or
\* the negotiation goes on, or it is lost.
LEMMA CallGoesOn ==
    ASSUME ProxyInv, call.at \in {"wait"} \cup Negotiation, KeepSettings,
           \/ socks' = [socks EXCEPT ![call.s] = "closed"] /\ call' = NoCall /\ UNCHANGED <<given, stray>>
           \/ /\ socks' = [socks EXCEPT ![call.s] = IF call.via = 0 THEN "connected" ELSE "through"]
              /\ given' = given \cup {<<call.s, call.dest>>} /\ call' = NoCall /\ UNCHANGED stray
           \/ /\ call.via # 0 /\ (UNCHANGED socks \/ socks' = [socks EXCEPT ![call.s] = "connected"])
              /\ \E at \in Negotiation : call' = [call EXCEPT !.at = at]
              /\ UNCHANGED <<given, stray>>
           \/ call' = NoCall /\ stray' = stray \cup {call.s} /\ UNCHANGED <<socks, given>>
    PROVE  ProxyInv'
<1>1. /\ UNCHANGED <<proxyInfo, nameproxy>>
      /\ socks \in Seq({"open", "connected", "through", "closed"}) /\ given \subseteq (DOMAIN socks) \X Destinations
      /\ DOMAIN call = DOMAIN NoCall /\ call.dest \in Destinations /\ call.via = ViaOf(call.dest)
      /\ (call.dest = "name" => call.via # 0)
      /\ call.s \in DOMAIN socks /\ \A g \in given : g[1] # call.s
  BY DEF ProxyInv, ProxyType, CallSound, KeepSettings, Negotiation
<1>2. ASSUME NEW x \in {"closed", "connected", "through"}, socks' = [socks EXCEPT ![call.s] = x]
      PROVE  /\ socks' \in Seq({"open", "connected", "through", "closed"}) /\ DOMAIN socks' = DOMAIN socks
             /\ \A s \in DOMAIN socks : socks'[s] = IF s = call.s THEN x ELSE socks[s]
  BY <1>1, <1>2
<1>3. CASE socks' = [socks EXCEPT ![call.s] = "closed"] /\ call' = NoCall /\ UNCHANGED <<given, stray>>
  <2>1. /\ socks' \in Seq({"open", "connected", "through", "closed"}) /\ DOMAIN socks' = DOMAIN socks
        /\ \A s \in DOMAIN socks : socks'[s] = IF s = call.s THEN "closed" ELSE socks[s]
    BY <1>2, <1>3
  <2>2. ProxyType' /\ CallSound'
    BY <1>1, <1>3, <2>1 DEF ProxyInv, ProxyType, CallSound, NoCall, Negotiation
  <2>3. SocketsAccounted'
    BY <1>1, <1>3, <2>1 DEF ProxyInv, SocketsAccounted
  <2> QED  BY <2>2, <2>3 DEF ProxyInv
<1>4. CASE /\ socks' = [socks EXCEPT ![call.s] = IF call.via = 0 THEN "connected" ELSE "through"]
           /\ given' = given \cup {<<call.s, call.dest>>} /\ call' = NoCall /\ UNCHANGED stray
  <2>1. /\ socks' \in Seq({"open", "connected", "through", "closed"}) /\ DOMAIN socks' = DOMAIN socks
        /\ \A s \in DOMAIN socks : socks'[s] = IF s = call.s THEN (IF call.via = 0 THEN "connected" ELSE "through")
                                               ELSE socks[s]
    BY <1>2, <1>4
  <2>2. ProxyType' /\ CallSound'
    BY <1>1, <1>4, <2>1 DEF ProxyInv, ProxyType, CallSound, NoCall, Negotiation
  <2>3. \A s \in DOMAIN socks' : socks'[s] # "closed" =>
            call'.s = s \/ s \in stray' \/ \E g \in given' : g[1] = s
    <3>1. \A s \in DOMAIN socks : socks[s] # "closed" =>
             call.s = s \/ s \in stray \/ \E g \in given : g[1] = s
      BY DEF ProxyInv, SocketsAccounted
    <3>2. <<call.s, call.dest>> \in given' /\ <<call.s, call.dest>>[1] = call.s /\ given \subseteq given'
      BY <1>4
    <3> QED  BY <1>4, <2>1, <3>1, <3>2
  <2>4. ASSUME NEW g \in given'
        PROVE  socks'[g[1]] = IF g[2] # "name" /\ proxyInfo'[g[2]] = 0 THEN "connected" ELSE "through"
    <3>1. CASE g \in given
      BY <3>1, <1>1, <2>1 DEF ProxyInv, SocketsAccounted
    <3>2. CASE g = <<call.s, call.dest>>
      BY <3>2, <1>1, <2>1 DEF ViaOf
    <3> QED  BY <2>4, <3>1, <3>2, <1>4
  <2> QED  BY <2>2, <2>3, <2>4 DEF ProxyInv, SocketsAccounted
<1>5. ASSUME NEW at \in Negotiation, call' = [call EXCEPT !.at = at], call.via # 0, UNCHANGED <<given, stray>>,
             UNCHANGED socks \/ socks' = [socks EXCEPT ![call.s] = "connected"]
      PROVE  ProxyInv'
  <2>1. /\ socks' \in Seq({"open", "connected", "through", "closed"}) /\ DOMAIN socks' = DOMAIN socks
        /\ \A s \in DOMAIN socks : s # call.s => socks'[s] = socks[s]
    BY <1>1, <1>2, <1>5
  <2>2. /\ call'.at = at /\ call'.s = call.s /\ call'.dest = call.dest /\ call'.via = call.via
        /\ DOMAIN call' = DOMAIN NoCall
    BY <1>1, <1>5 DEF NoCall
  <2>3. ProxyType' /\ CallSound'
    BY <1>1, <1>5, <2>1, <2>2 DEF ProxyInv, ProxyType, CallSound, ViaOf, Negotiation
  <2>4. SocketsAccounted'
    BY <1>1, <1>5, <2>1, <2>2 DEF ProxyInv, SocketsAccounted
  <2> QED  BY <2>3, <2>4 DEF ProxyInv
<1>6. CASE call' = NoCall /\ stray' = stray \cup {call.s} /\ UNCHANGED <<socks, given>>
  BY <1>1, <1>6 DEF ProxyInv, ProxyType, CallSound, SocketsAccounted, NoCall, Negotiation
<1> QED  BY <1>3, <1>4, <1>5, <1>6

\* For any number of sockets: whatever fails, each socket is closed, in the hands of the call,
\* or given to the caller once it leads where it should, but for the one that Socks5 loses.
THEOREM SocketsStayAccounted == ProxySpec => []SocketsAccounted
<1>1. ProxyInit => ProxyInv
  BY EmptySeq DEF ProxyInit, ProxyInv, ProxyType, CallSound, SocketsAccounted, NoCall, Negotiation
<1>2. ProxyInv /\ [ProxyNext]_proxyVars => ProxyInv'
  <2> SUFFICES ASSUME ProxyInv, [ProxyNext]_proxyVars PROVE ProxyInv'
    OBVIOUS
  <2>1. ASSUME call.at \in {"wait"} \cup Negotiation PROVE call.via = 0 => call.at = "wait"
    BY <2>1 DEF ProxyInv, CallSound
  <2>2. CASE FinishConnect
    BY <2>2, CallGoesOn DEF FinishConnect, Close, Return, Negotiation
  <2>3. CASE Socks4
    BY <2>1, <2>3, CallGoesOn DEF Socks4, Close, Through, Return, Negotiation
  <2>4. CASE Socks5Step
    <3>1. call.at \in {"greet", "request", "answer", "port"} /\ call.via # 0 /\ KeepSettings /\ UNCHANGED stray
      BY <2>1, <2>4 DEF Socks5Step, Negotiation
    <3>2. CASE Close(call.s) /\ Return
      BY <3>1, <3>2, CallGoesOn DEF Close, Return, Negotiation
    <3>3. CASE Through(call.s)
      BY <3>1, <3>3, CallGoesOn DEF Through, Negotiation
    <3>4. ASSUME NEW next \in {"request", "answer", "name", "port"}, call' = [call EXCEPT !.at = next],
                 UNCHANGED <<socks, given>>
          PROVE  ProxyInv'
      BY <3>1, <3>4, CallGoesOn DEF Negotiation
    <3> QED  BY <2>4, <3>2, <3>3, <3>4 DEF Socks5Step
  <2>5. CASE Socks5Name
    BY <2>1, <2>5, CallGoesOn DEF Socks5Name, Close, Return, Negotiation
  <2>6. CASE UNCHANGED proxyVars
    BY <2>6 DEF proxyVars, ProxyInv, ProxyType, CallSound, ViaOf, SocketsAccounted
  <2> QED  BY <2>2, <2>3, <2>4, <2>5, <2>6, CallBegins, SocketMade DEF ProxyNext
<1>3. ProxyInv => SocketsAccounted
  BY DEF ProxyInv
<1> QED  BY <1>1, <1>2, <1>3, PTL DEF ProxySpec

----------------------------------------------------------------------------
(* Relay of transactions and bloom filters.                                *)

Filter == [bits : SUBSET Nat, flags : {-1, 0, 1, 2}]
Scanned == [filter : Filter, found : BOOLEAN]
Asks(f, o) == f.flags = UpdateAll \/ (f.flags = UpdatePubKey /\ o \in PaysKey)

LEMMA ScanOutputFact ==
    ASSUME NEW s \in Scanned, NEW t \in Txs, NEW i \in DOMAIN Outs[t]
    PROVE  LET r == ScanOutput(s, t, i)
           IN  /\ r \in Scanned /\ r.filter.flags = s.filter.flags
               /\ s.filter.bits \subseteq r.filter.bits /\ (s.found => r.found)
               /\ \A d \in Outs[t][i] : Bits[d] \subseteq s.filter.bits =>
                     r.found /\ (Asks(s.filter, <<t, i>>) => Bits[<<t, i>>] \subseteq r.filter.bits)
<1>1. <<t, i>> \in OutPoints
  BY DEF OutPoints
<1>2. Bits[<<t, i>>] \subseteq Nat
  BY <1>1, TxRelayAssumption
<1>3. LET f == InsertMatched(s.filter, <<t, i>>)
      IN  /\ f \in Filter /\ f.flags = s.filter.flags /\ s.filter.bits \subseteq f.bits
          /\ Asks(s.filter, <<t, i>>) => Bits[<<t, i>>] \subseteq f.bits
  BY <1>2 DEF InsertMatched, insert, Asks, Scanned, Filter
<1> QED  BY <1>3 DEF ScanOutput, contains, Scanned

\* One unfolding of the loop of IsRelevantAndUpdate.
UnfoldScan(f, t, step) ==
    [i \in 0..Len(Outs[t]) |-> IF i = 0 THEN [filter |-> f, found |-> contains(f, t)]
                               ELSE ScanOutput(step[i - 1], t, i)]

\* The scan keeps the bits of the filter, and finds what pays to it.
LEMMA ScanFact ==
    ASSUME NEW f \in Filter, NEW t \in Txs
    PROVE  /\ Scan(f, t).filter \in Filter /\ Scan(f, t).filter.flags = f.flags
           /\ f.bits \subseteq Scan(f, t).filter.bits
           /\ Bits[t] \subseteq f.bits => Scan(f, t).found
           /\ \A i \in DOMAIN Outs[t] : \A d \in Outs[t][i] : Bits[d] \subseteq f.bits =>
                 /\ Scan(f, t).found
                 /\ Asks(f, <<t, i>>) => Bits[<<t, i>>] \subseteq Scan(f, t).filter.bits
<1> DEFINE n == Len(Outs[t])
           x0 == [filter |-> f, found |-> contains(f, t)]
           T == [q \in (1..n) \X Scanned |-> ScanOutput(q[2], t, q[1])]
<1>1. n \in Nat /\ DOMAIN Outs[t] = 1..n
  BY TxRelayAssumption
<1>2. x0 \in Scanned
  BY DEF Scanned, contains
<1>3. T \in [(1..n) \X Scanned -> Scanned]
  BY <1>1, ScanOutputFact
<1>4. \A i \in 1..n, s \in Scanned : T[<<i, s>>] = ScanOutput(s, t, i)
  OBVIOUS
<1> HIDE DEF T
<1>5. PICK g \in [0..n -> Scanned] : g = UnfoldOver(n, x0, T, g)
  <2> HIDE DEF n, x0
  <2>1. LoopOver(Scanned, x0, n, T)
    BY <1>1, <1>2, <1>3 DEF LoopOver
  <2> QED  BY <2>1, FiniteRecursion
<1>6. g = UnfoldScan(f, t, g)
  <2>1. \A i \in 0..n : UnfoldOver(n, x0, T, g)[i] = UnfoldScan(f, t, g)[i]
    <3> SUFFICES ASSUME NEW i \in 0..n PROVE UnfoldOver(n, x0, T, g)[i] = UnfoldScan(f, t, g)[i]
      OBVIOUS
    <3>1. i # 0 => i \in 1..n /\ g[i - 1] \in Scanned
      BY <1>1, <1>5
    <3> QED  BY <1>1, <1>4, <3>1 DEF UnfoldOver, UnfoldScan
  <2> QED  BY <1>5, <2>1 DEF UnfoldOver, UnfoldScan
<1>7. PICK step : /\ step = UnfoldScan(f, t, step)
                  /\ Scan(f, t) = step[n]
  <2> DEFINE step == CHOOSE x : x = UnfoldScan(f, t, x)
  <2>1. step = UnfoldScan(f, t, step)
    BY <1>6
  <2>2. Scan(f, t) = step[n]
    BY DEF Scan, UnfoldScan
  <2> QED  BY <2>1, <2>2
<1>8. step[0] = x0 /\ \A i \in 1..n : step[i] = ScanOutput(step[i - 1], t, i)
  <2>1. \A i \in 0..n : UnfoldScan(f, t, step)[i] = IF i = 0 THEN x0 ELSE ScanOutput(step[i - 1], t, i)
    BY DEF UnfoldScan
  <2> QED  BY <1>1, <1>7, <2>1
<1> DEFINE P(i) == /\ step[i] \in Scanned /\ step[i].filter.flags = f.flags
                   /\ f.bits \subseteq step[i].filter.bits
                   /\ Bits[t] \subseteq f.bits => step[i].found
                   /\ \A j \in 1..i : \A d \in Outs[t][j] : Bits[d] \subseteq f.bits =>
                         /\ step[i].found
                         /\ Asks(f, <<t, j>>) => Bits[<<t, j>>] \subseteq step[i].filter.bits
           S == {i \in 0..n : P(i)}
<1>9. P(0)
  <2>1. step[0] = [filter |-> f, found |-> contains(f, t)] /\ 1..0 = {}
    BY <1>8
  <2>2. step[0] \in Scanned /\ step[0].filter = f
    BY <1>2, <2>1
  <2>3. ASSUME Bits[t] \subseteq f.bits PROVE step[0].found
    <3>1. contains(f, t) = TRUE
      BY <2>3 DEF contains
    <3>2. step[0].found = TRUE
      BY <2>1, <3>1
    <3> QED  BY <3>2
  <2> QED  BY <2>1, <2>2, <2>3
<1>10. ASSUME NEW i \in 1..n, P(i - 1) PROVE P(i)
  <2>1. LET r == step[i]
            s == step[i - 1]
        IN  /\ r \in Scanned /\ r.filter.flags = s.filter.flags
            /\ s.filter.bits \subseteq r.filter.bits /\ (s.found => r.found)
            /\ \A d \in Outs[t][i] : Bits[d] \subseteq s.filter.bits =>
                   r.found /\ (Asks(s.filter, <<t, i>>) => Bits[<<t, i>>] \subseteq r.filter.bits)
    BY <1>1, <1>8, <1>10, ScanOutputFact
  <2>2. Asks(step[i - 1].filter, <<t, i>>) <=> Asks(f, <<t, i>>)
    BY <1>10 DEF Asks
  <2>3. ASSUME NEW j \in 1..i, NEW d \in Outs[t][j], Bits[d] \subseteq f.bits
        PROVE  /\ step[i].found
               /\ Asks(f, <<t, j>>) => Bits[<<t, j>>] \subseteq step[i].filter.bits
    <3>1. CASE j = i
      BY <1>10, <2>1, <2>2, <2>3, <3>1
    <3>2. CASE j # i
      <4>1. j \in 1..(i - 1)
        BY <1>1, <3>2
      <4>2. /\ step[i - 1].found
            /\ Asks(f, <<t, j>>) => Bits[<<t, j>>] \subseteq step[i - 1].filter.bits
        BY <1>10, <2>3, <4>1
      <4> QED  BY <2>1, <4>2
    <3> QED  BY <3>1, <3>2
  <2> QED  BY <1>10, <2>1, <2>3
<1> HIDE DEF P
<1>11. \A i \in 0..n : i \in S
  <2>1. 0 \in S /\ \A i \in 1..n : i - 1 \in S => i \in S
    BY <1>1, <1>9, <1>10
  <2> HIDE DEF S
  <2> QED  BY <1>1, <2>1, UpTo
<1>12. P(n)
  BY <1>1, <1>11
<1> QED  BY <1>1, <1>7, <1>12 DEF P, Scanned

RelayType ==
    /\ pfilter \in [RPeers -> Filter] /\ fRelayTxes \in [RPeers -> BOOLEAN]
    /\ watched \in [RPeers -> SUBSET (Data \cup OutPoints)]
    /\ due \in [RPeers -> SUBSET Txs] /\ vInventoryToSend \in [RPeers -> SUBSET Txs]
    /\ setInventoryKnown \in [RPeers -> SUBSET Txs]
    /\ vRelayExpiration \in Seq([at : Nat, tx : Txs]) /\ clock \in Nat /\ mapRelay \subseteq Txs

\* What a peer watches is in its filter.
WatchedIn == \A p \in RPeers : \A e \in watched[p] : Bits[e] \subseteq pfilter[p].bits

RelayInv == RelayType /\ WatchedIn /\ RelayKept

\* Messages that change the filter or the inventory of a peer.
LEMMA FilterMessageKeeps ==
    ASSUME RelayInv, NEW p \in RPeers, FilterLoad(p) \/ FilterAdd(p) \/ FilterClear(p) \/ PeerHas(p)
    PROVE  RelayInv'
<1>1. RelayType /\ WatchedIn /\ PromiseKept /\ RelayExpires
  BY DEF RelayInv, RelayKept
<1>2. UNCHANGED relayMaps /\ UNCHANGED vInventoryToSend
  BY DEF FilterLoad, FilterAdd, FilterClear, PeerHas
<1>3. RelayExpires'
  BY <1>1, <1>2 DEF relayMaps, RelayExpires
<1>4. ASSUME NEW f \in Filter, NEW W \in SUBSET (Data \cup OutPoints), NEW D \in SUBSET due[p],
             \A e \in W : Bits[e] \subseteq f.bits,
             pfilter' = [pfilter EXCEPT ![p] = f], watched' = [watched EXCEPT ![p] = W],
             due' = [due EXCEPT ![p] = D], UNCHANGED setInventoryKnown,
             fRelayTxes' \in [RPeers -> BOOLEAN]
      PROVE  RelayInv'
  <2>1. RelayType'
    BY <1>1, <1>2, <1>4 DEF RelayType, relayMaps
  <2>2. WatchedIn'
    BY <1>1, <1>4 DEF RelayType, WatchedIn
  <2>3. PromiseKept'
    BY <1>1, <1>2, <1>4 DEF RelayType, PromiseKept
  <2> QED  BY <1>3, <2>1, <2>2, <2>3 DEF RelayInv, RelayKept
<1>5. ASSUME NEW S \in SUBSET Data, NEW flags \in {UpdateNone, UpdateAll, UpdatePubKey},
             NEW f, f = [bits |-> UNION {Bits[e] : e \in S}, flags |-> flags]
      PROVE  f \in Filter /\ \A e \in S : Bits[e] \subseteq f.bits
  BY <1>5, TxRelayAssumption DEF Filter, UpdateNone, UpdateAll, UpdatePubKey
<1>6. CASE FilterLoad(p)
  <2>1. fRelayTxes' \in [RPeers -> BOOLEAN] /\ UNCHANGED setInventoryKnown
    BY <1>1, <1>6 DEF FilterLoad, RelayType
  <2>2. CASE UNCHANGED <<pfilter, watched, due>>
    BY <1>1, <1>2, <1>3, <2>1, <2>2 DEF RelayType, relayMaps, WatchedIn, PromiseKept, RelayInv, RelayKept
  <2>3. ASSUME NEW d \in Data, NEW flags \in {UpdateNone, UpdateAll, UpdatePubKey},
               pfilter' = [pfilter EXCEPT ![p] = [bits |-> UNION {Bits[e] : e \in {d}}, flags |-> flags]],
               watched' = [watched EXCEPT ![p] = {d}], due' = [due EXCEPT ![p] = {}]
        PROVE  RelayInv'
    <3> DEFINE f == [bits |-> UNION {Bits[e] : e \in {d}}, flags |-> flags]
    <3>1. f \in Filter /\ \A e \in {d} : Bits[e] \subseteq f.bits
      BY <1>5
    <3>2. pfilter' = [pfilter EXCEPT ![p] = f]
      BY <2>3
    <3>3. {d} \in SUBSET (Data \cup OutPoints) /\ {} \in SUBSET due[p]
      OBVIOUS
    <3> HIDE DEF f
    <3> QED  BY <1>4, <2>1, <2>3, <3>1, <3>2, <3>3
  <2> QED  BY <1>6, <2>2, <2>3 DEF FilterLoad
<1>7. CASE FilterAdd(p)
  <2>1. PICK e \in Data \cup OutPoints :
            /\ pfilter' = [pfilter EXCEPT ![p] = insert(pfilter[p], e)]
            /\ watched' = [watched EXCEPT ![p] = watched[p] \cup {e}]
            /\ UNCHANGED <<fRelayTxes, setInventoryKnown, due>>
    BY <1>7 DEF FilterAdd
  <2>2. Bits[e] \subseteq Nat
    BY TxRelayAssumption
  <2>3. /\ insert(pfilter[p], e) \in Filter
        /\ \A x \in watched[p] \cup {e} : Bits[x] \subseteq insert(pfilter[p], e).bits
    BY <1>1, <2>2 DEF insert, Filter, RelayType, WatchedIn
  <2>4. due' = [due EXCEPT ![p] = due[p]] /\ watched[p] \cup {e} \in SUBSET (Data \cup OutPoints)
    BY <1>1, <2>1 DEF RelayType
  <2>5. fRelayTxes' \in [RPeers -> BOOLEAN]
    BY <1>1, <2>1 DEF RelayType
  <2> QED  BY <1>4, <2>1, <2>3, <2>4, <2>5
<1>8. CASE FilterClear(p)
  <2>1. NoFilter \in Filter
    BY DEF NoFilter, Filter
  <2>2. fRelayTxes' \in [RPeers -> BOOLEAN]
    BY <1>1, <1>8 DEF FilterClear, RelayType
  <2>3. /\ pfilter' = [pfilter EXCEPT ![p] = NoFilter] /\ watched' = [watched EXCEPT ![p] = {}]
        /\ due' = [due EXCEPT ![p] = {}] /\ UNCHANGED setInventoryKnown
    BY <1>8 DEF FilterClear
  <2>4. {} \in SUBSET (Data \cup OutPoints) /\ {} \in SUBSET due[p] /\ \A e \in {} : Bits[e] \subseteq NoFilter.bits
    OBVIOUS
  <2> QED  BY <1>4, <2>1, <2>2, <2>3, <2>4
<1>9. CASE PeerHas(p)
  <2>1. PICK t \in Txs : setInventoryKnown' = [setInventoryKnown EXCEPT ![p] = @ \cup {t}]
    BY <1>9 DEF PeerHas
  <2>2. UNCHANGED <<pfilter, fRelayTxes, vInventoryToSend, watched, due>>
    BY <1>9 DEF PeerHas
  <2>3. RelayType'
    BY <1>1, <1>2, <2>1, <2>2 DEF RelayType, relayMaps
  <2>4. PromiseKept'
    BY <1>1, <2>1, <2>2 DEF RelayType, PromiseKept
  <2> QED  BY <1>1, <1>3, <2>2, <2>3, <2>4 DEF RelayInv, RelayKept, WatchedIn
<1> QED  BY <1>6, <1>7, <1>8, <1>9

\* A peer that was promised a transaction is told.
LEMMA PromisedIsTold ==
    ASSUME RelayType, WatchedIn, NEW p \in RPeers, NEW t \in Txs, fRelayTxes[p], Promised(p, t)
    PROVE  Told(p, t)
<1>1. SUFFICES ASSUME pfilter[p] # NoFilter PROVE IsRelevant(pfilter[p], t)
  BY DEF Told
<1>2. pfilter[p] \in Filter /\ \A e \in watched[p] : Bits[e] \subseteq pfilter[p].bits
  BY DEF RelayType, WatchedIn
<1>3. CASE t \in watched[p]
  BY <1>2, <1>3, ScanFact DEF IsRelevant
<1>4. ASSUME NEW i \in DOMAIN Outs[t], NEW d \in Outs[t][i], d \in watched[p]
      PROVE  IsRelevant(pfilter[p], t)
  BY <1>2, <1>4, ScanFact DEF IsRelevant
<1>5. ASSUME NEW e \in SigData[t] \cup Spends[t], e \in watched[p]
      PROVE  IsRelevant(pfilter[p], t)
  <2>1. Bits[e] \subseteq Scan(pfilter[p], t).filter.bits
    BY <1>2, <1>5, ScanFact
  <2> QED  BY <2>1 DEF IsRelevant, contains
<1> QED  BY <1>1, <1>3, <1>4, <1>5 DEF Promised

\* The entries that have expired are the first ones.
LEMMA ExpiredFirst ==
    ASSUME RelayType
    PROVE  /\ Cardinality(Expired) \in 0..Len(vRelayExpiration)
           /\ Expired = 1..Cardinality(Expired)
<1> DEFINE n == Len(vRelayExpiration)
           Later == {k \in Nat : k \in 1..(n + 1) /\ k \notin Expired}
<1>1. n \in Nat /\ DOMAIN vRelayExpiration = 1..n
  BY DEF RelayType
<1>2. Expired \subseteq 1..n /\ \A i \in Expired : \A j \in 1..i : j \in Expired
  BY <1>1 DEF Expired
<1>3. Later \in SUBSET Nat /\ n + 1 \in Later
  BY <1>1, <1>2
<1>4. PICK m \in Later : \A k \in Later : m <= k
  <2> HIDE DEF Later
  <2> QED  BY <1>3, LeastNumber
<1>5. m \in 1..(n + 1) /\ m \notin Expired /\ m - 1 \in 0..n
  BY <1>1, <1>4
<1>6. Expired = 1..(m - 1)
  <2>1. \A i \in Expired : i \in 1..(m - 1)
    BY <1>1, <1>2, <1>5
  <2>2. ASSUME NEW i \in 1..(m - 1) PROVE i \in Expired
    <3>1. i \in 1..(n + 1) /\ ~(m <= i)
      BY <1>1, <1>5
    <3> QED  BY <1>4, <3>1
  <2> QED  BY <2>1, <2>2
<1>7. Cardinality(1..(m - 1)) = m - 1
  BY <1>5, FS_Interval
<1> QED  BY <1>5, <1>6, <1>7

LEMMA RelayKeeps == ASSUME RelayInv, NEW t \in Txs, RelayTransaction(t) PROVE RelayInv'
<1> DEFINE c == Cardinality(Expired)
           n == Len(vRelayExpiration)
           rest == SubSeq(vRelayExpiration, c + 1, n)
           new == [at |-> clock + RelayPeriod, tx |-> t]
<1>1. RelayType /\ WatchedIn /\ PromiseKept /\ RelayExpires
  BY DEF RelayInv, RelayKept
<1>2. /\ mapRelay' = MapRelayAfter(t) /\ vRelayExpiration' = Append(rest, new)
      /\ pfilter' = [p \in RPeers |-> IF fRelayTxes[p] /\ pfilter[p] # NoFilter
                                      THEN Scan(pfilter[p], t).filter ELSE pfilter[p]]
      /\ vInventoryToSend' = [p \in RPeers |->
              IF Told(p, t) /\ t \notin setInventoryKnown[p] THEN vInventoryToSend[p] \cup {t}
              ELSE vInventoryToSend[p]]
      /\ due' = [p \in RPeers |-> IF fRelayTxes[p] /\ Promised(p, t) THEN due[p] \cup {t} ELSE due[p]]
      /\ watched' = [p \in RPeers |-> watched[p] \cup (IF fRelayTxes[p] THEN PaidTo(p, t) ELSE {})]
      /\ UNCHANGED <<fRelayTxes, setInventoryKnown, clock>>
  BY DEF RelayTransaction
<1>3. c \in 0..n /\ Expired = 1..c /\ n \in Nat /\ DOMAIN vRelayExpiration = 1..n
      /\ vRelayExpiration \in Seq([at : Nat, tx : Txs])
  BY <1>1, ExpiredFirst DEF RelayType
<1>4. new \in [at : Nat, tx : Txs]
  BY <1>1, TxRelayAssumption DEF RelayType
<1>5. /\ rest \in Seq([at : Nat, tx : Txs]) /\ Len(rest) = n - c
      /\ \A i \in 1..(n - c) : rest[i] = vRelayExpiration[c + i]
  <2>1. \A i \in (c + 1)..n : i \in 1..n /\ vRelayExpiration[i] \in [at : Nat, tx : Txs]
    <3>1. \A i \in 1..n : vRelayExpiration[i] \in [at : Nat, tx : Txs]
      BY <1>3, ElementOfSeq
    <3> HIDE DEF c, n
    <3>2. \A i \in (c + 1)..n : i \in 1..n
      BY <1>3
    <3> QED  BY <3>1, <3>2
  <2>2. c + 1 \in Int /\ n \in Int
    BY <1>3
  <2>3. /\ rest \in Seq([at : Nat, tx : Txs])
        /\ Len(rest) = IF c + 1 <= n THEN n - (c + 1) + 1 ELSE 0
        /\ \A i \in 1..(n - (c + 1) + 1) : rest[i] = vRelayExpiration[(c + 1) + i - 1]
    <3> HIDE DEF c, n
    <3> QED  BY <2>1, <2>2, SubSeqProperties
  <2> HIDE DEF c, n, rest
  <2>4. n - (c + 1) + 1 = n - c /\ \A i \in 1..(n - c) : (c + 1) + i - 1 = c + i
    BY <1>3
  <2>5. Len(rest) = n - c
    BY <1>3, <2>3
  <2> QED  BY <2>3, <2>4, <2>5
<1>6. RelayExpires'
  <2> SUFFICES ASSUME NEW u \in mapRelay'
               PROVE  \E i \in DOMAIN vRelayExpiration' : vRelayExpiration'[i].tx = u
    BY DEF RelayExpires
  <2> HIDE DEF new, rest
  <2>1. /\ DOMAIN vRelayExpiration' = 1..(n - c + 1) /\ vRelayExpiration'[n - c + 1] = new
        /\ \A i \in 1..(n - c) : vRelayExpiration'[i] = rest[i]
    BY <1>2, <1>3, <1>4, <1>5
  <2>2. CASE u = t
    BY <1>3, <2>1, <2>2 DEF new
  <2>3. CASE u # t
    <3>1. u \in mapRelay /\ u \notin {vRelayExpiration[i].tx : i \in Expired}
      BY <1>2, <2>3 DEF MapRelayAfter
    <3>2. PICK i \in 1..n : vRelayExpiration[i].tx = u
      BY <1>1, <1>3, <3>1 DEF RelayExpires
    <3>3. i \notin 1..c
      BY <1>3, <3>1, <3>2
    <3>4. i - c \in 1..(n - c) /\ c + (i - c) = i
      BY <1>3, <3>2, <3>3
    <3>5. rest[i - c] = vRelayExpiration[c + (i - c)] /\ i - c \in 1..(n - c + 1)
      <4> HIDE DEF c, n
      <4> QED  BY <1>3, <1>5, <3>4
    <3> QED  BY <2>1, <3>2, <3>4, <3>5
  <2> QED  BY <2>2, <2>3
<1>7. PromiseKept'
  <2> SUFFICES ASSUME NEW p \in RPeers, NEW u \in due'[p]
               PROVE  u \in vInventoryToSend'[p] \cup setInventoryKnown'[p]
    BY DEF PromiseKept
  <2>1. CASE u \in due[p]
    BY <1>1, <1>2, <2>1 DEF PromiseKept
  <2>2. CASE u \notin due[p]
    <3>1. u = t /\ fRelayTxes[p] /\ Promised(p, t)
      BY <1>2, <2>2
    <3>2. Told(p, t)
      BY <1>1, <3>1, PromisedIsTold
    <3> QED  BY <1>2, <3>1, <3>2
  <2> QED  BY <2>1, <2>2
<1>8. ASSUME NEW p \in RPeers
      PROVE  /\ pfilter'[p] \in Filter /\ watched'[p] \subseteq Data \cup OutPoints
             /\ \A e \in watched'[p] : Bits[e] \subseteq pfilter'[p].bits
  <2>1. /\ pfilter[p] \in Filter /\ watched[p] \subseteq Data \cup OutPoints
        /\ \A e \in watched[p] : Bits[e] \subseteq pfilter[p].bits
    BY <1>1 DEF RelayType, WatchedIn
  <2>2. /\ pfilter'[p] = IF fRelayTxes[p] /\ pfilter[p] # NoFilter THEN Scan(pfilter[p], t).filter ELSE pfilter[p]
        /\ watched'[p] = watched[p] \cup (IF fRelayTxes[p] THEN PaidTo(p, t) ELSE {})
    BY <1>2
  <2>3. pfilter'[p] \in Filter /\ pfilter[p].bits \subseteq pfilter'[p].bits
    BY <2>1, <2>2, ScanFact
  <2>4. ASSUME NEW o \in PaidTo(p, t), fRelayTxes[p]
        PROVE  o \in OutPoints /\ Bits[o] \subseteq pfilter'[p].bits
    <3>1. PICK i \in DOMAIN Outs[t] : o = <<t, i>>
      BY <2>4 DEF PaidTo
    <3>2. Asks(pfilter[p], <<t, i>>) /\ Outs[t][i] \cap watched[p] # {}
      BY <2>4, <3>1 DEF PaidTo, Asks
    <3>3. pfilter[p] # NoFilter
      BY <3>2 DEF Asks, NoFilter, UpdateAll, UpdatePubKey
    <3>4. PICK d \in Outs[t][i] : Bits[d] \subseteq pfilter[p].bits
      BY <2>1, <3>2
    <3>5. Bits[<<t, i>>] \subseteq Scan(pfilter[p], t).filter.bits
      BY <2>1, <3>2, <3>4, ScanFact
    <3> QED  BY <2>2, <2>4, <3>1, <3>3, <3>5 DEF OutPoints
  <2> QED  BY <2>1, <2>2, <2>3, <2>4
<1>9. RelayType'
  <2>1. pfilter' \in [RPeers -> Filter] /\ watched' \in [RPeers -> SUBSET (Data \cup OutPoints)]
    BY <1>2, <1>8
  <2>2. due' \in [RPeers -> SUBSET Txs] /\ vInventoryToSend' \in [RPeers -> SUBSET Txs]
    BY <1>1, <1>2 DEF RelayType
  <2>3. vRelayExpiration' \in Seq([at : Nat, tx : Txs])
    <3> HIDE DEF rest, new
    <3> QED  BY <1>2, <1>4, <1>5
  <2>4. mapRelay' \subseteq Txs
    BY <1>1, <1>2 DEF RelayType, MapRelayAfter
  <2> QED  BY <1>1, <1>2, <2>1, <2>2, <2>3, <2>4 DEF RelayType
<1> QED  BY <1>6, <1>7, <1>8, <1>9 DEF RelayInv, RelayKept, WatchedIn

\* For any transactions, filters and peers: whoever filters hears of all that it asked for, and of
\* what spends an output that paid to it; and nothing stays in mapRelay for ever.
THEOREM RelayStaysKept == RelaySpec => []RelayKept
<1>1. RelayInit => RelayInv
  <2> SUFFICES ASSUME RelayInit PROVE RelayInv
    OBVIOUS
  <2>1. NoFilter \in Filter
    BY DEF NoFilter, Filter
  <2>2. RelayType /\ WatchedIn
    BY <2>1, EmptySeq DEF RelayInit, RelayType, WatchedIn
  <2> QED  BY <2>2 DEF RelayInit, RelayInv, RelayKept, PromiseKept, RelayExpires
<1>2. RelayInv /\ [RelayNext]_relayVars => RelayInv'
  <2> SUFFICES ASSUME RelayInv, [RelayNext]_relayVars PROVE RelayInv'
    OBVIOUS
  <2>1. CASE RelayTick
    BY <2>1 DEF RelayTick, RelayInv, RelayType, WatchedIn, RelayKept, PromiseKept, RelayExpires
  <2>2. CASE UNCHANGED relayVars
    BY <2>2 DEF relayVars, RelayInv, RelayType, WatchedIn, RelayKept, PromiseKept, RelayExpires
  <2> QED  BY <2>1, <2>2, RelayKeeps, FilterMessageKeeps DEF RelayNext
<1>3. RelayInv => RelayKept
  BY DEF RelayInv
<1> QED  BY <1>1, <1>2, <1>3, PTL DEF RelaySpec

----------------------------------------------------------------------------
(* The life cycle of a connection (NodeLifecycle), for any number of CNode *)
(* objects, addresses, opener threads and slots: Inv is inductive.         *)

\* The sets whose sizes the invariant mentions are finite.
LEMMA Finite ==
    /\ \A X \in SUBSET Nodes : IsFiniteSet(X) /\ Cardinality(X) \in Nat
    /\ \A X \in SUBSET Openers : IsFiniteSet(X) /\ Cardinality(X) \in Nat
BY LifecycleAssumption, FS_Subset, FS_CardinalityType

\* Adding and removing one node or one opener.
LEMMA CountNodes ==
    ASSUME NEW X \in SUBSET Nodes, NEW n \in Nodes
    PROVE  /\ Cardinality(X \cup {n}) = IF n \in X THEN Cardinality(X) ELSE Cardinality(X) + 1
           /\ Cardinality(X \ {n}) = IF n \in X THEN Cardinality(X) - 1 ELSE Cardinality(X)
BY Finite, FS_AddElement, FS_RemoveElement

LEMMA CountOpeners ==
    ASSUME NEW X \in SUBSET Openers, NEW t \in Openers
    PROVE  /\ Cardinality(X \cup {t}) = IF t \in X THEN Cardinality(X) ELSE Cardinality(X) + 1
           /\ Cardinality(X \ {t}) = IF t \in X THEN Cardinality(X) - 1 ELSE Cardinality(X)
BY Finite, FS_AddElement, FS_RemoveElement

\* Setting one flag of a Boolean-valued function.
LEMMA SetFlag ==
    ASSUME NEW S, NEW f \in [S -> BOOLEAN], NEW x \in S, NEW b \in BOOLEAN
    PROVE  /\ [f EXCEPT ![x] = b] \in [S -> BOOLEAN]
           /\ [f EXCEPT ![x] = b][x] = b
           /\ \A y \in S : y # x => [f EXCEPT ![x] = b][y] = f[y]
           /\ {y \in S : [f EXCEPT ![x] = b][y]}
                = IF b THEN {y \in S : f[y]} \cup {x} ELSE {y \in S : f[y]} \ {x}
<1>1. /\ [f EXCEPT ![x] = b] \in [S -> BOOLEAN]
      /\ [f EXCEPT ![x] = b][x] = b
      /\ \A y \in S : y # x => [f EXCEPT ![x] = b][y] = f[y]
  BY Zenon
<1> DEFINE g == [f EXCEPT ![x] = b]
<1>2. g[x] = b /\ \A y \in S : y # x => g[y] = f[y]
  BY <1>1
<1> HIDE DEF g
<1>3. CASE b = TRUE
  BY <1>2, <1>3
<1>4. CASE b = FALSE
  BY <1>2, <1>4
<1>5. {y \in S : g[y]} = IF b THEN {y \in S : f[y]} \cup {x} ELSE {y \in S : f[y]} \ {x}
  <2>1. CASE b = TRUE
    BY <1>2, <2>1
  <2>2. CASE b = FALSE
    BY <1>2, <2>2
  <2> QED BY <2>1, <2>2
<1> QED BY <1>1, <1>5 DEF g

LEMMA InitInv == Init => Inv
<1> SUFFICES ASSUME Init PROVE Inv
  OBVIOUS
<1> USE DEF Init
<1>1. TypeOK
  BY LifecycleAssumption DEF TypeOK
<1>2. Allocated = {} /\ Holders = {} /\ Granted = {} /\ Inbound = {}
  BY DEF Allocated, Holders, Granted, Inbound
<1>3. Placement /\ Copies
  BY <1>2, LifecycleAssumption DEF Placement, Copies
<1>4. OpenerNodes /\ OpenerLocals /\ OpenerRefs /\ UsedNodesAlive
  BY DEF OpenerNodes, OpenerLocals, OpenerRefs, UsedNodesAlive, Uses
<1>5. RefCountExact
  BY DEF RefCountExact, One, HeldByNet
<1>6. GrantsConserved /\ InboundLimit
  BY <1>2, FS_EmptySet, LifecycleAssumption DEF GrantsConserved, InboundLimit
<1>7. ClosedOnceDisconnected
  BY DEF ClosedOnceDisconnected
<1> QED BY <1>1, <1>3, <1>4, <1>5, <1>6, <1>7 DEF Inv
----------------------------------------------------------------------------
(* Steps of the openers.                                                   *)

\* A step that leaves the nodes and the other threads alone preserves the
\* parts of Inv that are about them.
LEMMA NodesFrame ==
    ASSUME Inv, UNCHANGED <<unchangedByOpener, unchangedNodes>>
    PROVE  /\ Placement' /\ Copies' /\ RefCountExact' /\ InboundLimit' /\ ClosedOnceDisconnected'
           /\ Allocated' = Allocated /\ Holders' = Holders /\ Live' = Live
<1> USE DEF unchangedByOpener, unchangedNodes, nodeVars, netVars, msgVars
<1>1. Allocated' = Allocated /\ Holders' = Holders /\ Inbound' = Inbound /\ Live' = Live
  BY DEF Allocated, Holders, Inbound, Live
<1>2. Placement' /\ Copies'
  BY <1>1 DEF Inv, Placement, Copies
<1>3. RefCountExact' /\ InboundLimit' /\ ClosedOnceDisconnected'
  BY <1>1 DEF Inv, RefCountExact, InboundLimit, ClosedOnceDisconnected, One, HeldByNet
<1> QED BY <1>1, <1>2, <1>3

\* An opener that neither uses a node nor is going to.
LEMMA OpenerFrame ==
    ASSUME Inv, UNCHANGED <<unchangedByOpener, unchangedNodes>>, NEW t \in Openers, TypeOK',
           \A u \in Openers : u # t => /\ opc'[u] = opc[u] /\ oNode'[u] = oNode[u]
                                        /\ oAddr'[u] = oAddr[u] /\ oName'[u] = oName[u]
                                        /\ oGrant'[u] = oGrant[u],
           ~Uses(t)', opc'[t] = "found" => oNode'[t] \in Allocated,
           opc'[t] \notin {"idle", "granted"} => oAddr'[t] \in Addrs,
           opc'[t] \in {"idle", "granted"} => ~oName'[t],
           opc'[t] = "idle" => ~oGrant'[t], opc'[t] = "granted" => oGrant'[t]
    PROVE  OpenerNodes' /\ OpenerLocals' /\ OpenerRefs' /\ UsedNodesAlive'
<1>1. Allocated' = Allocated
  BY NodesFrame
<1>2. \A u \in Openers : u # t => (Uses(u)' <=> Uses(u))
  BY DEF Uses
<1>3. OpenerNodes'
  BY <1>1, <1>2 DEF Inv, OpenerNodes
<1>4. OpenerLocals'
  BY DEF Inv, OpenerLocals, Uses
<1>5. OpenerRefs'
  BY <1>2 DEF Inv, OpenerRefs, unchangedByOpener, unchangedNodes, nodeVars
<1>6. UsedNodesAlive'
  BY <1>2 DEF Inv, UsedNodesAlive, Uses, unchangedByOpener, unchangedNodes, netVars, msgVars
<1> QED BY <1>3, <1>4, <1>5, <1>6

\* The slot accounts when one opener's grant flag becomes b.
LEMMA OpenerGrant ==
    ASSUME Inv, UNCHANGED <<unchangedByOpener, unchangedNodes>>, NEW t \in Openers, NEW b \in BOOLEAN,
           oGrant' = [oGrant EXCEPT ![t] = b], semOutbound' \in Nat,
           semOutbound' + One(b) = semOutbound + One(oGrant[t])
    PROVE  GrantsConserved'
<1>1. Granted' = IF b THEN Granted \cup {t} ELSE Granted \ {t}
  BY SetFlag DEF Inv, TypeOK, Granted
<1>2. Cardinality(Granted') + One(oGrant[t]) = Cardinality(Granted) + One(b)
  <2>1. oGrant[t] <=> t \in Granted
    BY DEF Inv, TypeOK, Granted
  <2>2. Granted \in SUBSET Openers
    BY DEF Granted
  <2>3. CASE b = TRUE
    BY <1>1, <2>1, <2>2, <2>3, CountOpeners, Finite DEF One
  <2>4. CASE b = FALSE /\ t \in Granted
    BY <1>1, <2>1, <2>2, <2>4, CountOpeners, Finite DEF One
  <2>5. CASE b = FALSE /\ t \notin Granted
    BY <1>1, <2>1, <2>2, <2>5, CountOpeners, Finite DEF One
  <2> QED BY <2>3, <2>4, <2>5
<1>3. Holders' = Holders /\ Live' = Live /\ Cardinality(Holders) \in Nat /\ Cardinality(Granted) \in Nat
  BY NodesFrame, Finite DEF Holders, Granted
<1>4. Cardinality(Granted') \in Nat
  BY Finite DEF Granted
<1>5. One(b) \in Nat /\ One(oGrant[t]) \in Nat /\ semOutbound \in Nat /\ wild' = wild
  BY DEF One, Inv, TypeOK, unchangedNodes
<1>6. /\ semOutbound + Cardinality(Granted) + Cardinality(Holders) = nMaxOutbound
      /\ ~wild => Holders \subseteq Live
  BY DEF Inv, GrantsConserved
<1>7. semOutbound' + Cardinality(Granted') + Cardinality(Holders') = nMaxOutbound
  BY <1>2, <1>3, <1>4, <1>5, <1>6
<1> QED BY <1>3, <1>5, <1>6, <1>7 DEF GrantsConserved

LEMMA GetGrantInv ==
    ASSUME Inv, NEW t \in Openers, GetGrant(t)
    PROVE  Inv'
<1> USE DEF GetGrant
<1>1. TypeOK'
  BY DEF Inv, TypeOK, unchangedByOpener, unchangedNodes, nodeVars, netVars, msgVars
<1>2. ~oGrant[t] /\ oGrant'[t] /\ \A u \in Openers : u # t => oGrant'[u] = oGrant[u]
  BY SetFlag DEF Inv, TypeOK, OpenerLocals
<1>3. OpenerNodes' /\ OpenerLocals' /\ OpenerRefs' /\ UsedNodesAlive'
  <2>1. ~oName[t]
    BY DEF Inv, OpenerLocals
  <2> QED BY <1>1, <1>2, <2>1, OpenerFrame DEF Inv, TypeOK, Uses
<1>4. GrantsConserved'
  <2>1. semOutbound' + One(TRUE) = semOutbound + One(oGrant[t])
    BY <1>1, <1>2 DEF One, Inv, TypeOK
  <2> QED BY <1>1, <2>1, OpenerGrant DEF TypeOK
<1> QED BY <1>1, <1>3, <1>4, NodesFrame DEF Inv

\* Every way of beginning an attempt, with the grant it holds.
LEMMA AttemptInv ==
    ASSUME Inv, NEW t \in Openers, NEW a \in Addrs, NEW byName \in BOOLEAN, NEW g \in BOOLEAN,
           UNCHANGED <<unchangedByOpener, unchangedNodes>>, Attempt(t, a, byName, g),
           vOneShots' \in SUBSET Addrs, semOutbound' \in Nat,
           semOutbound' + One(g) = semOutbound + One(oGrant[t])
    PROVE  Inv'
<1> USE DEF Attempt
<1>1. oName' \in [Openers -> BOOLEAN] /\ oGrant' \in [Openers -> BOOLEAN]
  BY SetFlag DEF Inv, TypeOK
<1>2. TypeOK'
  BY <1>1 DEF Inv, TypeOK, unchangedByOpener, unchangedNodes, nodeVars, netVars, msgVars
<1>3. \A u \in Openers : u # t => oGrant'[u] = oGrant[u] /\ oName'[u] = oName[u]
  BY SetFlag DEF Inv, TypeOK
<1>4. OpenerNodes' /\ OpenerLocals' /\ OpenerRefs' /\ UsedNodesAlive'
  BY <1>2, <1>3, OpenerFrame DEF Inv, TypeOK, Uses
<1>5. GrantsConserved'
  BY OpenerGrant
<1> QED BY <1>2, <1>4, <1>5, NodesFrame DEF Inv

LEMMA ProcessOneShotInv ==
    ASSUME Inv, NEW t \in Openers, NEW a \in Addrs, ProcessOneShot(t, a)
    PROVE  Inv'
<1> USE DEF ProcessOneShot
<1>1. ~oGrant[t]
  BY DEF Inv, OpenerLocals
<1>2. CASE semOutbound > 0
  <2>1. semOutbound' \in Nat /\ semOutbound' + One(TRUE) = semOutbound + One(oGrant[t])
    BY <1>1, <1>2 DEF Inv, TypeOK, One
  <2>2. vOneShots' \in SUBSET Addrs
    BY DEF Inv, TypeOK
  <2> QED BY <1>2, <2>1, <2>2, AttemptInv
<1>3. CASE ~(semOutbound > 0)
  <2> USE DEF openVars
  <2>1. TypeOK'
    BY <1>3 DEF Inv, TypeOK, unchangedByOpener, unchangedNodes, nodeVars, netVars, msgVars
  <2>2. OpenerNodes' /\ OpenerLocals' /\ OpenerRefs' /\ UsedNodesAlive'
    <3>1. ~oName[t]
      BY DEF Inv, OpenerLocals
    <3> QED BY <1>1, <1>3, <2>1, <3>1, OpenerFrame DEF Uses
  <2>3. Granted' = Granted
    BY <1>3 DEF Granted
  <2>4. GrantsConserved'
    BY <1>3, <2>3, NodesFrame DEF Inv, GrantsConserved, unchangedNodes
  <2> QED BY <2>1, <2>2, <2>4, NodesFrame DEF Inv
<1> QED BY <1>2, <1>3

LEMMA ConnectArgInv ==
    ASSUME Inv, NEW t \in Openers, NEW a \in Addrs, ConnectArg(t, a)
    PROVE  Inv'
<1>1. ~oGrant[t]
  BY DEF Inv, OpenerLocals, ConnectArg
<1>2. semOutbound' \in Nat /\ semOutbound' + One(FALSE) = semOutbound + One(oGrant[t])
  BY <1>1 DEF ConnectArg, Inv, TypeOK, One
<1> QED BY <1>2, AttemptInv DEF ConnectArg, Inv, TypeOK

LEMMA ChooseInv ==
    ASSUME Inv, NEW t \in Openers, NEW a \in Addrs, NEW b \in BOOLEAN, Choose(t, a, b)
    PROVE  Inv'
<1>1. oGrant[t]
  BY DEF Inv, OpenerLocals, Choose
<1>2. semOutbound' \in Nat /\ semOutbound' + One(TRUE) = semOutbound + One(oGrant[t])
  BY <1>1 DEF Choose, Inv, TypeOK, One
<1>3. vOneShots' \in SUBSET Addrs
  BY DEF Choose, Inv, TypeOK
<1> QED BY <1>2, <1>3, AttemptInv DEF Choose

\* NoAddress, Refused and DialFails.
LEMMA GiveUpInv ==
    ASSUME Inv, NEW t \in Openers, GiveUp(t), opc[t] \in {"granted", "check", "dial"}
    PROVE  Inv'
<1> USE DEF GiveUp
<1>1. oName' \in [Openers -> BOOLEAN] /\ oGrant' \in [Openers -> BOOLEAN]
  BY SetFlag DEF Inv, TypeOK
<1>2. \A u \in Openers : u # t => oGrant'[u] = oGrant[u] /\ oName'[u] = oName[u]
  BY SetFlag DEF Inv, TypeOK
<1>3. ~oGrant'[t] /\ ~oName'[t]
  BY SetFlag DEF Inv, TypeOK
<1>4. vOneShots' \in SUBSET Addrs
  <2>1. CASE opc[t] = "granted"
    BY <2>1 DEF Inv, TypeOK, OpenerLocals, IsOneShot
  <2>2. CASE opc[t] # "granted"
    BY <2>2 DEF Inv, TypeOK, OpenerLocals
  <2> QED BY <2>1, <2>2
<1>5. semOutbound' \in Nat
  BY DEF Inv, TypeOK
<1>6. TypeOK'
  BY <1>1, <1>4, <1>5 DEF Inv, TypeOK, unchangedByOpener, unchangedNodes, nodeVars, netVars, msgVars
<1>7. OpenerNodes' /\ OpenerLocals' /\ OpenerRefs' /\ UsedNodesAlive'
  BY <1>2, <1>3, <1>6, OpenerFrame DEF Inv, TypeOK, Uses
<1>8. GrantsConserved'
  <2>1. semOutbound' + One(FALSE) = semOutbound + One(oGrant[t])
    BY DEF Inv, TypeOK, One
  <2> QED BY <1>5, <2>1, OpenerGrant
<1> QED BY <1>6, <1>7, <1>8, NodesFrame DEF Inv

\* Proceed, FindExisting and FindNone only move the opener on.
LEMMA MoveOnInv ==
    ASSUME Inv, NEW t \in Openers,
           Proceed(t) \/ FindNone(t) \/ \E n \in Nodes : FindExisting(t, n)
    PROVE  Inv'
<1> USE DEF Proceed, FindExisting, FindNone
<1>1. UNCHANGED <<unchangedByOpener, unchangedNodes, semOutbound, vOneShots, oAddr, oName, oGrant>>
  OBVIOUS
<1>2. TypeOK'
  <2>1. opc' \in [Openers -> {"idle", "granted", "check", "connect", "found", "dial", "connected", "moved"}]
    BY DEF Inv, TypeOK
  <2>2. oNode' \in [Openers -> Nodes \cup {NULL}]
    BY DEF Inv, TypeOK
  <2> QED BY <1>1, <2>1, <2>2 DEF Inv, TypeOK, unchangedByOpener, unchangedNodes, nodeVars,
                                  netVars, msgVars
<1>3. opc'[t] = "found" => oNode'[t] \in Allocated
  <2>1. Conflicting(oAddr[t], FALSE) \subseteq Allocated
    BY DEF Conflicting, Inv, Placement
  <2> QED BY <2>1 DEF Inv, TypeOK
<1>4. /\ opc'[t] \in {"connect", "found", "dial"} /\ oAddr'[t] \in Addrs
      /\ \A u \in Openers : u # t => opc'[u] = opc[u] /\ oNode'[u] = oNode[u]
  BY LifecycleAssumption DEF Inv, TypeOK, OpenerLocals
<1>5. OpenerNodes' /\ OpenerLocals' /\ OpenerRefs' /\ UsedNodesAlive'
  BY <1>1, <1>2, <1>3, <1>4, OpenerFrame DEF Uses
<1>6. Granted' = Granted
  BY <1>1 DEF Granted
<1>7. GrantsConserved'
  BY <1>1, <1>6, NodesFrame DEF Inv, GrantsConserved, unchangedNodes
<1> QED BY <1>1, <1>2, <1>5, <1>7, NodesFrame DEF Inv

LEMMA AddRefFoundInv ==
    ASSUME Inv, ~wild, NEW t \in Openers, AddRefFound(t)
    PROVE  Inv'
<1> USE DEF AddRefFound, unchangedByOpener, nodeVars, netVars, msgVars
<1> DEFINE n == oNode[t]
<1>1. n \in Nodes /\ n \in Allocated /\ addr[n] # NULL
  BY DEF Inv, OpenerNodes, Allocated
<1>2. /\ nRefCount'[n] = nRefCount[n] + 1 /\ extra'[n] = extra[n] + 1 /\ extra'[n] # 0
      /\ \A k \in Nodes : k # n => nRefCount'[k] = nRefCount[k] /\ extra'[k] = extra[k]
  BY <1>1 DEF Inv, TypeOK, AddRefs
<1>3. TypeOK'
  BY <1>1 DEF Inv, TypeOK, AddRefs
<1>4. Allocated' = Allocated /\ Holders' = Holders /\ Inbound' = Inbound /\ Live' = Live /\ Granted' = Granted
  BY DEF Allocated, Holders, Inbound, Live, Granted
<1>5. Placement'
  BY <1>1, <1>2, <1>4 DEF Inv, Placement
<1>6. Copies' /\ InboundLimit' /\ ClosedOnceDisconnected' /\ GrantsConserved'
  BY <1>4 DEF Inv, Copies, InboundLimit, ClosedOnceDisconnected, GrantsConserved
<1>7. /\ Uses(t)' /\ ~Uses(t) /\ oNode'[t] = n
      /\ \A u \in Openers : u # t => (Uses(u)' <=> Uses(u)) /\ opc'[u] = opc[u]
  BY DEF Inv, TypeOK, Uses
<1>8. OpenerNodes' /\ OpenerLocals'
  BY <1>1, <1>4, <1>7 DEF Inv, TypeOK, OpenerNodes, OpenerLocals, Uses
<1>9. OpenerRefs'
  <2> SUFFICES ASSUME NEW u \in Openers, Uses(u)', extra'[oNode[u]] = 0
               PROVE  /\ oNode[u] \notin released /\ ~fNetworkNode[oNode[u]] /\ ~fInbound[oNode[u]]
                      /\ \A v \in Openers : Uses(v)' /\ oNode[v] = oNode[u] => v = u
    BY DEF OpenerRefs
  <2>1. oNode[u] # n /\ u # t
    BY <1>2
  <2>2. oNode[u] \in Nodes /\ extra[oNode[u]] = 0 /\ Uses(u)
    BY <1>2, <1>7, <2>1 DEF Inv, OpenerNodes, Allocated
  <2> QED BY <1>7, <2>1, <2>2 DEF Inv, OpenerRefs
<1>10. UsedNodesAlive'
  BY <1>7 DEF Inv, UsedNodesAlive, Uses
<1>11. RefCountExact'
  <2>1. \A k \in Nodes : HeldByNet(k)' <=> HeldByNet(k)
    BY DEF HeldByNet
  <2> SUFFICES ASSUME NEW k \in Nodes
               PROVE  nRefCount'[k] = One(HeldByNet(k)') + One(k \in mCopy) + extra'[k]
                                      + One(addr[k] # NULL /\ k \notin released)
    BY DEF RefCountExact
  <2>2. nRefCount[k] = One(HeldByNet(k)) + One(k \in mCopy) + extra[k]
                       + One(addr[k] # NULL /\ k \notin released)
    BY DEF Inv, RefCountExact
  <2>3. One(HeldByNet(k)') = One(HeldByNet(k))
    BY <2>1 DEF One
  <2>4. /\ One(HeldByNet(k)) \in Nat /\ One(k \in mCopy) \in Nat
        /\ One(addr[k] # NULL /\ k \notin released) \in Nat
        /\ nRefCount[k] \in Nat /\ extra[k] \in Nat
    BY DEF One, Inv, TypeOK
  <2>5. CASE k = n
    BY <1>2, <2>2, <2>3, <2>4, <2>5
  <2>6. CASE k # n
    BY <1>2, <2>2, <2>3, <2>4, <2>6
  <2> QED BY <2>5, <2>6
<1> QED BY <1>3, <1>5, <1>6, <1>8, <1>9, <1>10, <1>11 DEF Inv

LEMMA DialInv ==
    ASSUME Inv, ~wild, NEW t \in Openers, NEW n \in Nodes, Dial(t, n)
    PROVE  Inv'
<1> USE DEF Dial, NewNode, unchangedByOpener, netVars, msgVars
<1>1. n \notin Allocated /\ n \notin vNodes \cup vNodesDisconnected \cup deleted /\ n # nRetiring
  BY LifecycleAssumption DEF Fresh, Allocated, Inv, Placement
<1>2. oAddr[t] \in Addrs /\ oAddr[t] # NULL
  BY LifecycleAssumption DEF Inv, OpenerLocals
<1>3. /\ named' \in [Nodes -> BOOLEAN] /\ fInbound' \in [Nodes -> BOOLEAN] /\ hSocket' \in [Nodes -> BOOLEAN]
      /\ ~fInbound'[n] /\ \A k \in Nodes : k # n => fInbound'[k] = fInbound[k] /\ hSocket'[k] = hSocket[k]
  BY SetFlag DEF Inv, TypeOK
<1>4. TypeOK'
  BY <1>2, <1>3 DEF Inv, TypeOK, AddRefs
<1>5. Allocated' = Allocated \cup {n}
  BY <1>2 DEF Inv, TypeOK, Allocated
<1>6. Live \subseteq Live' /\ Holders' = Holders /\ Granted' = Granted
  BY <1>5 DEF Inv, TypeOK, Allocated, Live, Holders, Granted
<1>7. Inbound' = Inbound
  <2>1. n \notin Inbound
    BY <1>1 DEF Inbound
  <2> QED BY <1>3, <2>1 DEF Inv, TypeOK, Inbound
<1>8. Placement'
  BY <1>1, <1>3, <1>5 DEF Inv, TypeOK, Placement
<1>9. Copies'
  BY <1>5 DEF Inv, Copies
<1>10. InboundLimit' /\ GrantsConserved'
  BY <1>6, <1>7 DEF Inv, InboundLimit, GrantsConserved
<1>11. ClosedOnceDisconnected'
  BY <1>1, <1>3 DEF Inv, TypeOK, ClosedOnceDisconnected
<1>12. /\ Uses(t)' /\ ~Uses(t) /\ oNode'[t] = n /\ opc'[t] = "connected"
       /\ \A u \in Openers : u # t => (Uses(u)' <=> Uses(u)) /\ opc'[u] = opc[u] /\ oNode'[u] = oNode[u]
  BY DEF Inv, TypeOK, Uses
<1>13. OpenerNodes' /\ OpenerLocals'
  BY <1>2, <1>5, <1>12 DEF Inv, OpenerNodes, OpenerLocals
<1>14. \A u \in Openers : Uses(u) => oNode[u] # n
  BY <1>1 DEF Inv, OpenerNodes
<1>15. OpenerRefs'
  <2> SUFFICES ASSUME NEW u \in Openers, Uses(u)', extra[oNode'[u]] = 0
               PROVE  /\ oNode'[u] \notin released /\ ~fNetworkNode[oNode'[u]] /\ ~fInbound'[oNode'[u]]
                      /\ \A v \in Openers : Uses(v)' /\ oNode'[v] = oNode'[u] => v = u
    BY DEF OpenerRefs
  <2>1. CASE u = t
    <3>1. n \notin released /\ ~fNetworkNode[n]
      BY <1>1 DEF Inv, Placement
    <3> QED BY <1>3, <1>12, <1>14, <2>1, <3>1
  <2>2. CASE u # t
    <3>1. Uses(u) /\ oNode'[u] = oNode[u] /\ oNode[u] # n /\ oNode[u] \in Nodes
      BY <1>12, <1>14, <2>2 DEF Inv, OpenerNodes, Allocated
    <3>2. \A v \in Openers : Uses(v)' /\ oNode'[v] = oNode'[u] => v = u
      BY <1>12, <2>2, <3>1 DEF Inv, OpenerRefs
    <3> QED BY <1>3, <3>1, <3>2 DEF Inv, OpenerRefs
  <2> QED BY <2>1, <2>2
<1>16. UsedNodesAlive'
  BY <1>1, <1>12 DEF Inv, UsedNodesAlive, Uses
<1>17. RefCountExact'
  <2>1. n \notin released /\ extra[n] = 0 /\ n \notin mCopy /\ ~HeldByNet(n) /\ addr[n] = NULL
    BY <1>1 DEF Inv, Placement, Copies, HeldByNet, Allocated
  <2>2. nRefCount'[n] = 1 /\ addr'[n] # NULL
    BY <1>2, <2>1 DEF Inv, TypeOK, RefCountExact, One, AddRefs
  <2>3. \A k \in Nodes : k # n => nRefCount'[k] = nRefCount[k] /\ addr'[k] = addr[k]
    BY DEF Inv, TypeOK, AddRefs
  <2>4. \A k \in Nodes : HeldByNet(k)' <=> HeldByNet(k)
    BY DEF HeldByNet
  <2>5. ASSUME NEW k \in Nodes, k # n
        PROVE  nRefCount'[k] = One(HeldByNet(k)') + One(k \in mCopy) + extra[k]
                               + One(addr'[k] # NULL /\ k \notin released)
    <3>1. nRefCount[k] = One(HeldByNet(k)) + One(k \in mCopy) + extra[k]
                         + One(addr[k] # NULL /\ k \notin released)
      BY DEF Inv, RefCountExact
    <3>2. One(HeldByNet(k)') = One(HeldByNet(k))
      BY <2>4 DEF One
    <3> QED BY <2>3, <2>5, <3>1, <3>2
  <2>6. nRefCount'[n] = One(HeldByNet(n)') + One(n \in mCopy) + extra[n]
                        + One(addr'[n] # NULL /\ n \notin released)
    BY <2>1, <2>2, <2>4 DEF One
  <2> QED BY <2>5, <2>6 DEF RefCountExact
<1> QED BY <1>4, <1>8, <1>9, <1>10, <1>11, <1>13, <1>15, <1>16, <1>17 DEF Inv

\* No count and no counted reference changes.
LEMMA RefsSame ==
    ASSUME Inv, UNCHANGED <<nRefCount, extra, addr, released, mCopy>>,
           \A k \in Nodes : HeldByNet(k)' <=> HeldByNet(k)
    PROVE  RefCountExact'
<1> SUFFICES ASSUME NEW k \in Nodes
             PROVE  nRefCount[k] = One(HeldByNet(k)') + One(k \in mCopy) + extra[k]
                                   + One(addr[k] # NULL /\ k \notin released)
  BY DEF RefCountExact
<1>1. One(HeldByNet(k)') = One(HeldByNet(k))
  BY DEF One
<1> QED BY <1>1 DEF Inv, RefCountExact

LEMMA MoveGrantInv ==
    ASSUME Inv, ~wild, NEW t \in Openers, MoveGrant(t)
    PROVE  Inv'
<1> USE DEF MoveGrant, unchangedByOpener, nodeVars, netVars, msgVars
<1> DEFINE n == oNode[t]
<1>1. n \in Nodes /\ n \in Allocated /\ n \in Live
  BY DEF Inv, OpenerNodes, UsedNodesAlive, Uses, Allocated, Live
<1>2. /\ oGrant' \in [Openers -> BOOLEAN] /\ Granted' = Granted \ {t} /\ ~oGrant'[t]
      /\ \A u \in Openers : u # t => oGrant'[u] = oGrant[u]
  BY SetFlag DEF Inv, TypeOK, Granted
<1>3. /\ grantOutbound' \in [Nodes -> BOOLEAN]
      /\ Holders' = IF oGrant[t] THEN Holders \cup {n} ELSE Holders
  <2>1. grantOutbound \in [Nodes -> BOOLEAN]
    BY DEF Inv, TypeOK
  <2>2. CASE oGrant[t]
    <3>1. grantOutbound' = [grantOutbound EXCEPT ![n] = TRUE]
      BY <2>2
    <3> QED BY <1>1, <2>1, <2>2, <3>1, SetFlag DEF Holders
  <2>3. CASE ~oGrant[t]
    BY <2>1, <2>3 DEF Holders
  <2> QED BY <2>2, <2>3
<1>4. semOutbound' \in Nat /\ semOutbound' = IF oGrant[t] /\ n \in Holders THEN semOutbound + 1 ELSE semOutbound
  BY <1>1 DEF Inv, TypeOK, SemAfterMove, Holders
<1>5. TypeOK'
  BY <1>2, <1>3, <1>4 DEF Inv, TypeOK
<1>6. Allocated' = Allocated /\ Inbound' = Inbound /\ Live' = Live
  BY DEF Allocated, Inbound, Live
<1>7. Placement' /\ Copies' /\ InboundLimit' /\ ClosedOnceDisconnected'
  BY <1>6 DEF Inv, Placement, Copies, InboundLimit, ClosedOnceDisconnected
<1>8. /\ Uses(t)' /\ Uses(t) /\ opc'[t] = "moved"
      /\ \A u \in Openers : (Uses(u)' <=> Uses(u)) /\ (u # t => opc'[u] = opc[u])
  BY DEF Inv, TypeOK, Uses
<1>9. OpenerNodes' /\ OpenerLocals'
  BY <1>2, <1>6, <1>8 DEF Inv, OpenerNodes, OpenerLocals, Uses
<1>10. OpenerRefs'
  BY <1>8 DEF Inv, OpenerRefs
<1>11. UsedNodesAlive'
  BY <1>8 DEF Inv, UsedNodesAlive, Uses
<1>12. RefCountExact'
  BY RefsSame DEF HeldByNet
<1>13. GrantsConserved'
  <2>1. Granted \in SUBSET Openers /\ Holders \in SUBSET Nodes /\ (oGrant[t] <=> t \in Granted)
    BY DEF Granted, Holders
  <2>2. Cardinality(Granted) \in Nat /\ Cardinality(Holders) \in Nat
    BY <2>1, Finite
  <2>3. /\ semOutbound \in Nat /\ semOutbound + Cardinality(Granted) + Cardinality(Holders) = nMaxOutbound
        /\ Holders \subseteq Live
    BY DEF Inv, TypeOK, GrantsConserved
  <2>4. Cardinality(Granted') = IF t \in Granted THEN Cardinality(Granted) - 1 ELSE Cardinality(Granted)
    BY <1>2, <2>1, CountOpeners
  <2>5. Cardinality(Holders') = IF t \in Granted /\ n \notin Holders THEN Cardinality(Holders) + 1 ELSE Cardinality(Holders)
    <3>1. Cardinality(Holders \cup {n}) = IF n \in Holders THEN Cardinality(Holders) ELSE Cardinality(Holders) + 1
      BY <1>1, <2>1, CountNodes
    <3> QED BY <1>3, <2>1, <3>1
  <2>6. semOutbound' = IF t \in Granted /\ n \in Holders THEN semOutbound + 1 ELSE semOutbound
    BY <1>4, <2>1
  <2>7. semOutbound' + Cardinality(Granted') + Cardinality(Holders') = nMaxOutbound
    BY <2>2, <2>3, <2>4, <2>5, <2>6
  <2>8. Holders' \subseteq Live'
    BY <1>1, <1>3, <1>6, <2>3
  <2> QED BY <2>7, <2>8 DEF GrantsConserved
<1> QED BY <1>5, <1>7, <1>9, <1>10, <1>11, <1>12, <1>13 DEF Inv

LEMMA MarkNetworkNodeInv ==
    ASSUME Inv, NEW t \in Openers, MarkNetworkNode(t)
    PROVE  Inv'
<1> USE DEF MarkNetworkNode, unchangedByOpener, nodeVars, netVars, msgVars
<1> DEFINE n == oNode[t]
<1>1. n \in Nodes /\ n \in Allocated
  BY DEF Inv, OpenerNodes, Uses, Allocated
<1>2. /\ fNetworkNode' \in [Nodes -> BOOLEAN] /\ \A k \in Nodes : k # n => fNetworkNode'[k] = fNetworkNode[k]
      /\ oName' \in [Openers -> BOOLEAN] /\ ~oName'[t] /\ \A u \in Openers : u # t => oName'[u] = oName[u]
  BY <1>1, SetFlag DEF Inv, TypeOK
<1>3. TypeOK'
  BY <1>2 DEF Inv, TypeOK
<1>4. /\ Allocated' = Allocated /\ Inbound' = Inbound /\ Live' = Live
      /\ Holders' = Holders /\ Granted' = Granted
  BY DEF Allocated, Inbound, Live, Holders, Granted
<1>5. Placement'
  BY <1>1, <1>2, <1>4 DEF Inv, Placement
<1>6. Copies' /\ InboundLimit' /\ ClosedOnceDisconnected' /\ GrantsConserved'
  BY <1>4 DEF Inv, Copies, InboundLimit, ClosedOnceDisconnected, GrantsConserved
<1>7. /\ ~Uses(t)' /\ Uses(t) /\ opc'[t] = "idle" /\ ~oGrant[t]
      /\ \A u \in Openers : u # t => /\ (Uses(u)' <=> Uses(u)) /\ opc'[u] = opc[u]
                                     /\ oNode'[u] = oNode[u] /\ oAddr'[u] = oAddr[u]
  BY DEF Inv, TypeOK, Uses, OpenerLocals
<1>8. OpenerNodes' /\ OpenerLocals'
  BY <1>2, <1>4, <1>7 DEF Inv, OpenerNodes, OpenerLocals
<1>9. OpenerRefs'
  <2> SUFFICES ASSUME NEW u \in Openers, Uses(u)', extra[oNode'[u]] = 0
               PROVE  /\ oNode'[u] \notin released /\ ~fNetworkNode'[oNode'[u]] /\ ~fInbound[oNode'[u]]
                      /\ \A v \in Openers : Uses(v)' /\ oNode'[v] = oNode'[u] => v = u
    BY DEF OpenerRefs
  <2>1. u # t /\ Uses(u) /\ oNode'[u] = oNode[u] /\ oNode[u] \in Nodes
    BY <1>7 DEF Inv, OpenerNodes, Allocated
  <2>2. oNode[u] # n
    BY <1>7, <2>1 DEF Inv, OpenerRefs
  <2> QED BY <1>2, <1>7, <2>1, <2>2 DEF Inv, OpenerRefs
<1>10. UsedNodesAlive'
  BY <1>7 DEF Inv, UsedNodesAlive, Uses
<1>11. RefCountExact'
  BY RefsSame DEF HeldByNet
<1> QED BY <1>3, <1>5, <1>6, <1>8, <1>9, <1>10, <1>11 DEF Inv
----------------------------------------------------------------------------
(* Steps of the socket handler.                                            *)

\* What holds of the openers, when neither they nor the references change.
LEMMA OpenersFrame ==
    ASSUME Inv, UNCHANGED <<openVars, wild, extra, fNetworkNode, fInbound, released, deleted>>,
           Allocated \subseteq Allocated', \A k \in nCopy' \cup mCopy' : k \notin deleted
    PROVE  OpenerNodes' /\ OpenerLocals' /\ OpenerRefs' /\ UsedNodesAlive' /\ Granted' = Granted
<1> USE DEF openVars
<1>1. \A u \in Openers : Uses(u)' <=> Uses(u)
  BY DEF Uses
<1>2. OpenerNodes' /\ OpenerLocals' /\ Granted' = Granted
  BY <1>1 DEF Inv, OpenerNodes, OpenerLocals, Granted
<1>3. OpenerRefs' /\ UsedNodesAlive'
  BY <1>1 DEF Inv, OpenerRefs, UsedNodesAlive
<1> QED BY <1>2, <1>3

\* NetLock, Keep, BeginDelete, PutOff and NetUnlock: only npc and nCopy change.
LEMMA NetLocalInv ==
    ASSUME Inv, NetLock \/ BeginDelete \/ NetUnlock \/ \E n \in Nodes : Keep(n) \/ PutOff(n)
    PROVE  Inv'
<1> USE DEF unchangedByNet, nodeVars, msgVars
<1>1. UNCHANGED <<vNodes, vNodesDisconnected, deleted, nRefCount, fDisconnect, hSocket, fNetworkNode,
                  grantOutbound, nodeVars, semOutbound, pnodeSync, nRetiring, released, vOneShots,
                  openVars, msgVars, extra, wild>>
  BY DEF NetLock, Keep, BeginDelete, PutOff, NetUnlock
<1>2. /\ npc \notin {"service", "retire"} /\ npc' \in {"disc", "delete", "accept"}
      /\ nCopy' \in SUBSET (nCopy \cup vNodes \cup vNodesDisconnected)
      /\ npc' = "accept" => nCopy' = {}
      /\ npc' = "disc" => nCopy' \subseteq vNodes
      /\ npc' = "delete" => nCopy' \subseteq vNodesDisconnected
  BY DEF NetLock, Keep, BeginDelete, PutOff, NetUnlock, Inv, Copies
<1>3. TypeOK'
  BY <1>1, <1>2 DEF Inv, TypeOK, openVars
<1>4. Allocated' = Allocated /\ Inbound' = Inbound /\ Live' = Live /\ Holders' = Holders
  BY <1>1 DEF Allocated, Inbound, Live, Holders
<1>5. Placement' /\ InboundLimit' /\ ClosedOnceDisconnected'
  BY <1>1, <1>2, <1>4 DEF Inv, Placement, InboundLimit, ClosedOnceDisconnected
<1>6. Copies'
  BY <1>1, <1>2, <1>4 DEF Inv, Copies, Placement
<1>7. \A k \in nCopy' \cup mCopy' : k \notin deleted
  BY <1>1, <1>2 DEF Inv, UsedNodesAlive, ClosedOnceDisconnected
<1>8. OpenerNodes' /\ OpenerLocals' /\ OpenerRefs' /\ UsedNodesAlive' /\ Granted' = Granted
  BY <1>1, <1>4, <1>7, OpenersFrame
<1>9. GrantsConserved'
  BY <1>1, <1>4, <1>8 DEF Inv, GrantsConserved
<1>10. RefCountExact'
  BY <1>1, <1>2, RefsSame DEF HeldByNet
<1> QED BY <1>3, <1>5, <1>6, <1>8, <1>9, <1>10 DEF Inv

\* The slot accounts when a node's grant is released.
LEMMA ReleaseGrant ==
    ASSUME Inv, NEW n \in Nodes, UNCHANGED wild, Granted' = Granted,
           semOutbound' = (IF grantOutbound[n] THEN semOutbound + 1 ELSE semOutbound),
           grantOutbound' = [grantOutbound EXCEPT ![n] = FALSE],
           Live \ {n} \subseteq Live'
    PROVE  GrantsConserved' /\ semOutbound' \in Nat /\ grantOutbound' \in [Nodes -> BOOLEAN]
<1>1. Holders' = Holders \ {n} /\ grantOutbound' \in [Nodes -> BOOLEAN]
  BY SetFlag DEF Inv, TypeOK, Holders
<1>2. Granted \in SUBSET Openers /\ Holders \in SUBSET Nodes /\ (grantOutbound[n] <=> n \in Holders)
  BY DEF Granted, Holders
<1>3. Cardinality(Granted) \in Nat /\ Cardinality(Holders) \in Nat
  BY <1>2, Finite
<1>4. Cardinality(Holders \ {n}) = IF n \in Holders THEN Cardinality(Holders) - 1 ELSE Cardinality(Holders)
  BY <1>2, CountNodes
<1>5. semOutbound \in Nat /\ semOutbound' = IF n \in Holders THEN semOutbound + 1 ELSE semOutbound
  BY <1>2 DEF Inv, TypeOK
<1>6. /\ semOutbound + Cardinality(Granted) + Cardinality(Holders) = nMaxOutbound
      /\ ~wild => Holders \subseteq Live
  BY DEF Inv, GrantsConserved
<1>7. semOutbound' + Cardinality(Granted') + Cardinality(Holders') = nMaxOutbound
  BY <1>1, <1>3, <1>4, <1>5, <1>6
<1>8. ~wild' => Holders' \subseteq Live'
  BY <1>1, <1>6
<1> QED BY <1>1, <1>5, <1>7, <1>8 DEF GrantsConserved

LEMMA DisconnectInv ==
    ASSUME Inv, NEW n \in Nodes, Disconnect(n)
    PROVE  Inv'
<1> USE DEF Disconnect, CloseSocketDisconnect, unchangedByNet, nodeVars, msgVars
<1>1. n \in vNodes /\ n \notin vNodesDisconnected \cup deleted /\ nRetiring = NULL /\ n # NULL
  BY LifecycleAssumption DEF Inv, Copies, Placement, ClosedOnceDisconnected
<1>2. /\ fDisconnect' \in [Nodes -> BOOLEAN] /\ hSocket' \in [Nodes -> BOOLEAN]
      /\ fDisconnect'[n] /\ ~hSocket'[n]
      /\ \A k \in Nodes : k # n => fDisconnect'[k] = fDisconnect[k] /\ hSocket'[k] = hSocket[k]
  BY SetFlag DEF Inv, TypeOK
<1>3. Allocated' = Allocated /\ Live' = Live
  BY DEF Allocated, Live
<1>4. Inbound' \in SUBSET Inbound /\ Inbound \in SUBSET Nodes
  BY DEF Inbound, Inv, TypeOK
<1>5. InboundLimit'
  <2>1. Cardinality(Inbound') <= Cardinality(Inbound)
    BY <1>4, Finite, FS_Subset
  <2> QED BY <1>4, <2>1, Finite, LifecycleAssumption DEF Inv, InboundLimit
<1>6. Placement'
  BY <1>1, <1>2, <1>3 DEF Inv, TypeOK, Placement
<1>7. Copies'
  BY <1>1, <1>3 DEF Inv, Copies
<1>8. ClosedOnceDisconnected'
  BY <1>1, <1>2 DEF Inv, TypeOK, ClosedOnceDisconnected
<1>9. OpenerNodes' /\ OpenerLocals' /\ OpenerRefs' /\ UsedNodesAlive' /\ Granted' = Granted
  BY <1>3, OpenersFrame DEF Inv, UsedNodesAlive
<1>10. GrantsConserved' /\ semOutbound' \in Nat /\ grantOutbound' \in [Nodes -> BOOLEAN]
  BY <1>3, <1>9, ReleaseGrant
<1>11. RefCountExact'
  BY RefsSame DEF HeldByNet
<1>12. TypeOK'
  BY <1>2, <1>10 DEF Inv, TypeOK, openVars
<1> QED BY <1>5, <1>6, <1>7, <1>8, <1>9, <1>10, <1>11, <1>12 DEF Inv

LEMMA RetireInv ==
    ASSUME Inv, Retire
    PROVE  Inv'
<1> USE DEF Retire, unchangedByNet, nodeVars, msgVars
<1> DEFINE n == nRetiring
<1>1. n \in Nodes /\ n # NULL /\ n \notin vNodes \cup vNodesDisconnected \cup deleted \cup released
  BY DEF Inv, TypeOK, Placement, ClosedOnceDisconnected
<1>2. addr[n] # NULL /\ ~hSocket[n] /\ fDisconnect[n]
  BY <1>1 DEF Inv, Placement, Allocated
<1>3. Allocated' = Allocated /\ Live' = Live /\ Inbound' = Inbound /\ Holders' = Holders /\ Granted' = Granted
  BY DEF Allocated, Live, Inbound, Holders, Granted, openVars
<1>4. \A k \in Nodes : ~HeldByNet(k) /\ ~HeldByNet(k)'
  BY DEF HeldByNet
<1>5. RefCountExact' /\ nRefCount' \in [Nodes -> Nat]
  <2>1. ASSUME NEW k \in Nodes
        PROVE  /\ nRefCount'[k] = One(HeldByNet(k)') + One(k \in mCopy) + extra[k]
                                  + One(addr[k] # NULL /\ k \notin released')
               /\ nRefCount'[k] \in Nat
    <3>1. nRefCount[k] = One(HeldByNet(k)) + One(k \in mCopy) + extra[k]
                         + One(addr[k] # NULL /\ k \notin released)
      BY DEF Inv, RefCountExact
    <3>2. One(k \in mCopy) \in Nat /\ extra[k] \in Nat /\ nRefCount[k] \in Nat
      BY DEF One, Inv, TypeOK
    <3>3. One(HeldByNet(k)) = 0 /\ One(HeldByNet(k)') = 0
      BY <1>4 DEF One
    <3>4. CASE MayRelease(n) /\ k = n
      <4>1. One(addr[k] # NULL /\ k \notin released) = 1
        BY <1>1, <1>2, <3>4 DEF One
      <4>2. One(addr[k] # NULL /\ k \notin released') = 0
        BY <3>4 DEF One
      <4>3. nRefCount'[k] = nRefCount[k] - 1
        BY <3>4 DEF Releases
      <4> QED BY <3>1, <3>2, <3>3, <4>1, <4>2, <4>3
    <3>5. CASE ~(MayRelease(n) /\ k = n)
      <4>1. nRefCount'[k] = nRefCount[k] /\ (k \in released' <=> k \in released)
        BY <3>5 DEF Releases
      <4>2. One(addr[k] # NULL /\ k \notin released') = One(addr[k] # NULL /\ k \notin released)
        BY <4>1 DEF One
      <4> QED BY <3>1, <3>2, <3>3, <4>1, <4>2
    <3> QED BY <3>4, <3>5
  <2>2. DOMAIN nRefCount' = Nodes /\ nRefCount' = [k \in Nodes |-> nRefCount'[k]]
    BY DEF Releases, Inv, TypeOK
  <2> QED BY <2>1, <2>2 DEF RefCountExact
<1>6. TypeOK'
  BY <1>1, <1>5 DEF Inv, TypeOK, openVars
<1>7. Placement'
  BY <1>1, <1>2, <1>3, LifecycleAssumption DEF Inv, TypeOK, Placement
<1>8. Copies' /\ InboundLimit' /\ GrantsConserved'
  BY <1>3 DEF Inv, Copies, InboundLimit, GrantsConserved
<1>9. ClosedOnceDisconnected'
  BY <1>1, <1>2, LifecycleAssumption DEF Inv, TypeOK, ClosedOnceDisconnected
<1>10. \A u \in Openers : Uses(u)' <=> Uses(u)
  BY DEF Uses, openVars
<1>11. OpenerNodes' /\ OpenerLocals' /\ UsedNodesAlive'
  BY <1>3, <1>10 DEF Inv, OpenerNodes, OpenerLocals, UsedNodesAlive, openVars
<1>12. OpenerRefs'
  <2>1. \A u \in Openers : Uses(u) /\ extra[oNode[u]] = 0 /\ oNode[u] = n => ~MayRelease(n)
    BY DEF Inv, OpenerRefs, MayRelease
  <2> QED BY <1>10, <2>1 DEF Inv, OpenerRefs, openVars
<1> QED BY <1>5, <1>6, <1>7, <1>8, <1>9, <1>11, <1>12 DEF Inv

LEMMA DeleteInv ==
    ASSUME Inv, NEW n \in Nodes, Delete(n)
    PROVE  Inv'
<1> USE DEF Delete, unchangedByNet, nodeVars, msgVars
<1>1. n \in vNodesDisconnected /\ n \in Allocated /\ n # NULL
  BY LifecycleAssumption DEF Inv, Copies, Placement
<1>2. n \notin mCopy /\ extra[n] = 0 /\ n \in released
  <2>1. nRefCount[n] = One(HeldByNet(n)) + One(n \in mCopy) + extra[n]
                       + One(addr[n] # NULL /\ n \notin released)
    BY DEF Inv, RefCountExact
  <2>2. nRefCount[n] = 0 /\ extra[n] \in Nat /\ addr[n] # NULL
    BY <1>1 DEF Deletable, Inv, TypeOK, Allocated
  <2>3. One(HeldByNet(n)) \in Nat /\ One(n \in mCopy) \in Nat /\ One(addr[n] # NULL /\ n \notin released) \in Nat
    BY DEF One
  <2>4. One(n \in mCopy) = 0 /\ extra[n] = 0 /\ One(addr[n] # NULL /\ n \notin released) = 0
    <3> DEFINE i == One(HeldByNet(n))
               j == One(n \in mCopy)
               k == extra[n]
               l == One(addr[n] # NULL /\ n \notin released)
    <3>1. i + j + k + l = 0 /\ i \in Nat /\ j \in Nat /\ k \in Nat /\ l \in Nat
      BY <2>1, <2>2, <2>3
    <3> HIDE DEF i, j, k, l
    <3>2. j = 0 /\ k = 0 /\ l = 0
      BY <3>1
    <3> QED BY <3>2 DEF j, k, l
  <2> QED BY <2>2, <2>4 DEF One
<1>3. \A u \in Openers : Uses(u)' <=> Uses(u)
  BY DEF Uses, openVars
<1>4. \A u \in Openers : Uses(u) => oNode[u] # n
  BY <1>2 DEF Inv, OpenerRefs
<1>5. UsedNodesAlive'
  BY <1>2, <1>3, <1>4 DEF Inv, UsedNodesAlive, Uses, openVars
<1>6. Allocated' = Allocated /\ Live' = Live \ {n} /\ Inbound' = Inbound /\ Granted' = Granted
  BY DEF Allocated, Live, Inbound, Granted, openVars
<1>7. GrantsConserved' /\ semOutbound' \in Nat /\ grantOutbound' \in [Nodes -> BOOLEAN]
  BY <1>6, ReleaseGrant
<1>8. TypeOK'
  BY <1>7 DEF Inv, TypeOK, openVars
<1>9. Placement'
  BY <1>1, <1>6 DEF Inv, TypeOK, Placement
<1>10. Copies' /\ InboundLimit'
  BY <1>6 DEF Inv, Copies, InboundLimit
<1>11. ClosedOnceDisconnected'
  BY <1>1 DEF Inv, TypeOK, ClosedOnceDisconnected
<1>12. OpenerNodes' /\ OpenerLocals' /\ OpenerRefs'
  BY <1>3, <1>6 DEF Inv, OpenerNodes, OpenerLocals, OpenerRefs, openVars
<1>13. RefCountExact'
  BY RefsSame DEF HeldByNet
<1> QED BY <1>5, <1>7, <1>8, <1>9, <1>10, <1>11, <1>12, <1>13 DEF Inv

LEMMA AcceptInv ==
    ASSUME Inv, NEW n \in Nodes, NEW a \in Addrs, Accept(n, a)
    PROVE  Inv'
<1> USE DEF Accept, NewNode, unchangedByNet, nodeVars, netVars, msgVars
<1>1. /\ addr[n] = NULL /\ n \notin Allocated /\ a # NULL
      /\ n \notin vNodes \cup vNodesDisconnected \cup deleted \cup released /\ n # nRetiring
      /\ extra[n] = 0 /\ n \notin mCopy /\ ~HeldByNet(n) /\ ~fInbound[n]
  BY LifecycleAssumption DEF Fresh, Inv, Allocated, Placement, Copies, HeldByNet
<1>2. /\ named' \in [Nodes -> BOOLEAN] /\ fInbound' \in [Nodes -> BOOLEAN] /\ hSocket' \in [Nodes -> BOOLEAN]
      /\ fInbound'[n] /\ \A k \in Nodes : k # n => fInbound'[k] = fInbound[k] /\ hSocket'[k] = hSocket[k]
  BY SetFlag DEF Inv, TypeOK
<1>3. TypeOK'
  BY <1>2 DEF Inv, TypeOK, AddRefs, openVars
<1>4. Allocated' = Allocated \cup {n}
  BY <1>1 DEF Inv, TypeOK, Allocated
<1>5. Live \subseteq Live' /\ Holders' = Holders
  BY <1>4 DEF Inv, TypeOK, Allocated, Live, Holders
<1>6. InboundLimit'
  <2>1. Inbound' = Inbound \cup {n}
    BY <1>1, <1>2 DEF Inbound, Inv, TypeOK
  <2>2. Inbound \in SUBSET Nodes
    BY DEF Inbound, Inv, TypeOK
  <2>3. Cardinality(Inbound') <= Cardinality(Inbound) + 1
    <3>1. Cardinality(Inbound) \in Nat
      BY <2>2, Finite
    <3>2. Cardinality(Inbound \cup {n}) = IF n \in Inbound THEN Cardinality(Inbound) ELSE Cardinality(Inbound) + 1
      BY <2>2, CountNodes
    <3> QED BY <2>1, <3>1, <3>2
  <2>4. Cardinality(Inbound) < nMaxInbound
    BY DEF RoomForInbound
  <2>5. Cardinality(Inbound) \in Nat /\ Inbound' \in SUBSET Nodes
    BY <2>1, <2>2, Finite
  <2>6. Cardinality(Inbound') \in Nat
    BY <2>5, Finite
  <2> QED BY <2>3, <2>4, <2>5, <2>6, LifecycleAssumption DEF InboundLimit
<1>7. Placement'
  BY <1>1, <1>2, <1>4 DEF Inv, TypeOK, Placement
<1>8. Copies'
  BY <1>4 DEF Inv, Copies
<1>9. ClosedOnceDisconnected'
  BY <1>1, <1>2 DEF Inv, TypeOK, ClosedOnceDisconnected
<1>10. \A u \in Openers : Uses(u)' <=> Uses(u)
  BY DEF Uses, openVars
<1>11. OpenerNodes' /\ OpenerLocals' /\ UsedNodesAlive' /\ Granted' = Granted
  BY <1>4, <1>10 DEF Inv, OpenerNodes, OpenerLocals, UsedNodesAlive, Granted, openVars
<1>12. OpenerRefs'
  <2>1. \A u \in Openers : Uses(u) => oNode[u] # n /\ oNode[u] \in Nodes
    BY <1>1 DEF Inv, OpenerNodes, Allocated
  <2> QED BY <1>2, <1>10, <2>1 DEF Inv, OpenerRefs, openVars
<1>13. GrantsConserved'
  BY <1>5, <1>11 DEF Inv, GrantsConserved
<1>14. RefCountExact'
  <2> SUFFICES ASSUME NEW k \in Nodes
               PROVE  nRefCount'[k] = One(HeldByNet(k)') + One(k \in mCopy) + extra[k]
                                      + One(addr'[k] # NULL /\ k \notin released)
    BY DEF RefCountExact
  <2>1. nRefCount[k] = One(HeldByNet(k)) + One(k \in mCopy) + extra[k]
                       + One(addr[k] # NULL /\ k \notin released)
    BY DEF Inv, RefCountExact
  <2>2. One(HeldByNet(k)') = One(HeldByNet(k))
    BY DEF One, HeldByNet
  <2>3. CASE k = n
    <3>1. nRefCount[k] = 0
      BY <1>1, <2>1, <2>3 DEF One
    <3>2. nRefCount'[k] = 1 /\ addr'[k] # NULL
      BY <1>1, <2>3, <3>1 DEF AddRefs, Inv, TypeOK
    <3> QED BY <1>1, <2>2, <2>3, <3>2 DEF One
  <2>4. CASE k # n
    <3>1. nRefCount'[k] = nRefCount[k] /\ addr'[k] = addr[k]
      BY <2>4 DEF AddRefs, Inv, TypeOK
    <3> QED BY <2>1, <2>2, <3>1
  <2> QED BY <2>3, <2>4
<1> QED BY <1>3, <1>6, <1>7, <1>8, <1>9, <1>11, <1>12, <1>13, <1>14 DEF Inv

\* The counts after a thread takes a reference on, or gives one back for,
\* every node of a set S that it did not hold, or held, before.
LEMMA RefsTaken ==
    ASSUME Inv, NEW S \in SUBSET Nodes, nRefCount' = AddRefs(S), UNCHANGED <<extra, addr, released>>,
           \/ /\ UNCHANGED mCopy
              /\ \A k \in Nodes : ~HeldByNet(k) /\ (HeldByNet(k)' <=> k \in S)
           \/ /\ mCopy = {} /\ mCopy' = S
              /\ \A k \in Nodes : HeldByNet(k)' <=> HeldByNet(k)
    PROVE  RefCountExact' /\ nRefCount' \in [Nodes -> Nat]
<1>1. nRefCount' \in [Nodes -> Nat]
  BY DEF Inv, TypeOK, AddRefs
<1> SUFFICES ASSUME NEW k \in Nodes
             PROVE  nRefCount'[k] = One(HeldByNet(k)') + One(k \in mCopy') + extra[k]
                                    + One(addr[k] # NULL /\ k \notin released)
  BY <1>1 DEF RefCountExact
<1> DEFINE rest == One(addr[k] # NULL /\ k \notin released)
<1>2. /\ nRefCount[k] = One(HeldByNet(k)) + One(k \in mCopy) + extra[k] + rest
      /\ nRefCount'[k] = nRefCount[k] + One(k \in S)
  BY DEF Inv, TypeOK, RefCountExact, AddRefs, One
<1>3. extra[k] \in Nat /\ rest \in Nat /\ One(k \in S) \in Nat /\ One(k \in mCopy) \in Nat
      /\ One(HeldByNet(k)) \in Nat
  BY DEF Inv, TypeOK, One
<1>4. One(HeldByNet(k)') + One(k \in mCopy') = One(HeldByNet(k)) + One(k \in mCopy) + One(k \in S)
  <2>1. CASE UNCHANGED mCopy /\ ~HeldByNet(k) /\ (HeldByNet(k)' <=> k \in S)
    BY <1>3, <2>1 DEF One
  <2>2. CASE mCopy = {} /\ mCopy' = S /\ (HeldByNet(k)' <=> HeldByNet(k))
    BY <1>3, <2>2 DEF One
  <2> QED BY <2>1, <2>2
<1>5. One(HeldByNet(k)') \in Nat /\ One(k \in mCopy') \in Nat
  BY DEF One
<1> HIDE DEF rest
<1>6. nRefCount'[k] = One(HeldByNet(k)') + One(k \in mCopy') + extra[k] + rest
  BY <1>2, <1>3, <1>4, <1>5
<1> QED BY <1>6 DEF rest

LEMMA RefsGiven ==
    ASSUME Inv, NEW S \in SUBSET Nodes, nRefCount' = Releases(S), UNCHANGED <<extra, addr, released>>,
           \/ /\ UNCHANGED mCopy
              /\ \A k \in Nodes : (HeldByNet(k) <=> k \in S) /\ ~HeldByNet(k)'
           \/ /\ mCopy = S /\ mCopy' = {}
              /\ \A k \in Nodes : HeldByNet(k)' <=> HeldByNet(k)
    PROVE  RefCountExact' /\ nRefCount' \in [Nodes -> Nat]
<1>1. ASSUME NEW k \in Nodes
      PROVE  /\ nRefCount'[k] = One(HeldByNet(k)') + One(k \in mCopy') + extra[k]
                                + One(addr[k] # NULL /\ k \notin released)
             /\ nRefCount'[k] \in Nat
  <2> DEFINE rest == One(addr[k] # NULL /\ k \notin released)
  <2>2. nRefCount[k] = One(HeldByNet(k)) + One(k \in mCopy) + extra[k] + rest
    BY DEF Inv, RefCountExact
  <2>3. nRefCount'[k] = nRefCount[k] - One(k \in S)
    BY DEF Inv, TypeOK, Releases, One
  <2>4. extra[k] \in Nat /\ rest \in Nat /\ One(k \in S) \in Nat /\ One(k \in mCopy) \in Nat
        /\ One(HeldByNet(k)) \in Nat
    BY DEF Inv, TypeOK, One
  <2>5. One(HeldByNet(k)') + One(k \in mCopy') + One(k \in S) = One(HeldByNet(k)) + One(k \in mCopy)
    <3>1. CASE UNCHANGED mCopy /\ (HeldByNet(k) <=> k \in S) /\ ~HeldByNet(k)'
      BY <2>4, <3>1 DEF One
    <3>2. CASE mCopy = S /\ mCopy' = {} /\ (HeldByNet(k)' <=> HeldByNet(k))
      BY <2>4, <3>2 DEF One
    <3> QED BY <3>1, <3>2
  <2>6. One(HeldByNet(k)') \in Nat /\ One(k \in mCopy') \in Nat
    BY DEF One
  <2> HIDE DEF rest
  <2>7. nRefCount'[k] = One(HeldByNet(k)') + One(k \in mCopy') + extra[k] + rest
    BY <2>2, <2>3, <2>4, <2>5, <2>6
  <2> QED BY <2>4, <2>6, <2>7 DEF rest
<1>2. nRefCount' = [k \in Nodes |-> nRefCount'[k]]
  BY DEF Releases
<1> QED BY <1>1, <1>2 DEF RefCountExact

\* What a step that changes only reference counts and the loops' locals
\* leaves alone.
LEMMA LoopFrame ==
    ASSUME Inv, UNCHANGED <<vNodes, vNodesDisconnected, deleted, fNetworkNode, fDisconnect, hSocket,
                            grantOutbound, nodeVars, semOutbound, openVars, nRetiring, histVars>>,
           npc' = "retire" <=> npc = "retire", \A k \in nCopy' \cup mCopy' : k \notin deleted
    PROVE  /\ Placement' /\ OpenerNodes' /\ OpenerLocals' /\ OpenerRefs' /\ UsedNodesAlive'
           /\ GrantsConserved' /\ InboundLimit' /\ ClosedOnceDisconnected' /\ Allocated' = Allocated
<1> USE DEF nodeVars, histVars
<1>1. Allocated' = Allocated /\ Inbound' = Inbound /\ Live' = Live /\ Holders' = Holders
  BY DEF Allocated, Inbound, Live, Holders
<1>2. Placement' /\ InboundLimit' /\ ClosedOnceDisconnected'
  BY <1>1 DEF Inv, Placement, InboundLimit, ClosedOnceDisconnected
<1>3. OpenerNodes' /\ OpenerLocals' /\ OpenerRefs' /\ UsedNodesAlive' /\ Granted' = Granted
  BY <1>1, OpenersFrame
<1>4. GrantsConserved'
  BY <1>1, <1>3 DEF Inv, GrantsConserved
<1> QED BY <1>1, <1>2, <1>3, <1>4

LEMMA NetCopyInv ==
    ASSUME Inv, NetCopy
    PROVE  Inv'
<1> USE DEF NetCopy, unchangedByNet, nodeVars, msgVars, histVars
<1>1. vNodes \in SUBSET Nodes /\ vNodes \subseteq Allocated /\ \A k \in vNodes : k \notin deleted
  BY DEF Inv, TypeOK, Placement, ClosedOnceDisconnected
<1>2. RefCountExact' /\ nRefCount' \in [Nodes -> Nat]
  BY <1>1, RefsTaken DEF HeldByNet
<1>3. TypeOK'
  BY <1>1, <1>2 DEF Inv, TypeOK, openVars
<1>4. \A k \in nCopy' \cup mCopy' : k \notin deleted
  BY <1>1 DEF Inv, UsedNodesAlive
<1>5. /\ Placement' /\ OpenerNodes' /\ OpenerLocals' /\ OpenerRefs' /\ UsedNodesAlive'
      /\ GrantsConserved' /\ InboundLimit' /\ ClosedOnceDisconnected' /\ Allocated' = Allocated
  BY <1>4, LoopFrame
<1>6. Copies'
  BY <1>1, <1>5 DEF Inv, Copies
<1> QED BY <1>2, <1>3, <1>5, <1>6 DEF Inv

LEMMA NetReleaseInv ==
    ASSUME Inv, NetRelease
    PROVE  Inv'
<1> USE DEF NetRelease, unchangedByNet, nodeVars, msgVars, histVars
<1>1. RefCountExact' /\ nRefCount' \in [Nodes -> Nat]
  BY RefsGiven DEF HeldByNet, Inv, TypeOK
<1>2. TypeOK'
  BY <1>1 DEF Inv, TypeOK, openVars
<1>3. /\ Placement' /\ OpenerNodes' /\ OpenerLocals' /\ OpenerRefs' /\ UsedNodesAlive'
      /\ GrantsConserved' /\ InboundLimit' /\ ClosedOnceDisconnected' /\ Allocated' = Allocated
  BY LoopFrame DEF Inv, UsedNodesAlive
<1>4. Copies'
  BY <1>3 DEF Inv, Copies
<1> QED BY <1>1, <1>2, <1>3, <1>4 DEF Inv

\* NetBreak and MsgBreak.
LEMMA BreakInv ==
    ASSUME Inv, NEW n \in Nodes, Break(n),
           UNCHANGED <<vNodes, vNodesDisconnected, deleted, nRefCount, fNetworkNode, grantOutbound,
                       nodeVars, semOutbound, vOneShots, openVars, netVars, msgVars, histVars>>
    PROVE  Inv'
<1> USE DEF nodeVars, netVars, msgVars, histVars
<1>1. fDisconnect' = [fDisconnect EXCEPT ![n] = TRUE]
  BY DEF Break, CloseSocketDisconnect
<1>2. fDisconnect' \in [Nodes -> BOOLEAN] /\ \A k \in Nodes : fDisconnect[k] => fDisconnect'[k]
  BY <1>1, SetFlag DEF Inv, TypeOK
<1>3. hSocket' \in [Nodes -> BOOLEAN] /\ \A k \in Nodes : ~hSocket[k] => ~hSocket'[k]
  <2>1. CASE hSocket' = hSocket
    BY <2>1 DEF Inv, TypeOK
  <2>2. CASE hSocket' = [hSocket EXCEPT ![n] = FALSE]
    BY <2>2, SetFlag DEF Inv, TypeOK
  <2> QED BY <2>1, <2>2 DEF Break, CloseSocketDisconnect
<1>4. pnodeSync' \in Nodes \cup {NULL}
  BY DEF Break, CloseSocketDisconnect, Inv, TypeOK
<1>5. TypeOK'
  BY <1>2, <1>3, <1>4 DEF Inv, TypeOK, openVars
<1>6. Allocated' = Allocated /\ Inbound' = Inbound /\ Live' = Live /\ Holders' = Holders
  BY DEF Allocated, Inbound, Live, Holders
<1>7. Placement'
  BY <1>2, <1>3, <1>6 DEF Inv, TypeOK, Placement
<1>8. Copies' /\ InboundLimit'
  BY <1>6 DEF Inv, Copies, InboundLimit
<1>9. ClosedOnceDisconnected'
  BY <1>2, <1>3 DEF Inv, TypeOK, ClosedOnceDisconnected
<1>10. OpenerNodes' /\ OpenerLocals' /\ OpenerRefs' /\ UsedNodesAlive' /\ Granted' = Granted
  BY <1>6, OpenersFrame DEF Inv, UsedNodesAlive
<1>11. GrantsConserved'
  BY <1>6, <1>10 DEF Inv, GrantsConserved
<1>12. RefCountExact'
  BY RefsSame DEF HeldByNet
<1> QED BY <1>5, <1>7, <1>8, <1>9, <1>10, <1>11, <1>12 DEF Inv
----------------------------------------------------------------------------
(* Steps of the message handler.                                           *)

LEMMA MsgCopyInv ==
    ASSUME Inv, MsgCopy
    PROVE  Inv'
<1> USE DEF MsgCopy, unchangedByMsg, nodeVars, netVars, histVars
<1>1. vNodes \in SUBSET Nodes /\ vNodes \subseteq Allocated /\ \A k \in vNodes : k \notin deleted
  BY DEF Inv, TypeOK, Placement, ClosedOnceDisconnected
<1>2. RefCountExact' /\ nRefCount' \in [Nodes -> Nat]
  <2>1. mCopy = {}
    BY DEF Inv, Copies
  <2> QED BY <1>1, <2>1, RefsTaken DEF HeldByNet
<1>3. TypeOK'
  BY <1>1, <1>2 DEF Inv, TypeOK, openVars
<1>4. \A k \in nCopy' \cup mCopy' : k \notin deleted
  BY <1>1 DEF Inv, UsedNodesAlive
<1>5. /\ Placement' /\ OpenerNodes' /\ OpenerLocals' /\ OpenerRefs' /\ UsedNodesAlive'
      /\ GrantsConserved' /\ InboundLimit' /\ ClosedOnceDisconnected' /\ Allocated' = Allocated
  BY <1>4, LoopFrame
<1>6. Copies'
  BY <1>1, <1>5 DEF Inv, Copies
<1> QED BY <1>2, <1>3, <1>5, <1>6 DEF Inv

\* PickSync, PickNone and SetSync change the handler's locals and pnodeSync.
LEMMA SyncInv ==
    ASSUME Inv, (\E n \in Nodes : PickSync(n)) \/ PickNone \/ SetSync
    PROVE  Inv'
<1> USE DEF unchangedByMsg, nodeVars, netVars, histVars
<1>1. /\ UNCHANGED <<nRefCount, fDisconnect, hSocket, mCopy, unchangedByMsg>>
      /\ mpc # "idle" /\ mpc' \in {"start", "process"} /\ (mpc' = "start" => mPick' \in mCopy)
      /\ mPick' \in Nodes \cup {NULL} /\ pnodeSync' \in Nodes \cup {NULL}
  BY DEF PickSync, PickNone, SetSync, Inv, TypeOK
<1>2. TypeOK'
  BY <1>1 DEF Inv, TypeOK, openVars
<1>3. RefCountExact'
  BY <1>1, RefsSame DEF HeldByNet
<1>4. /\ Placement' /\ OpenerNodes' /\ OpenerLocals' /\ OpenerRefs' /\ UsedNodesAlive'
      /\ GrantsConserved' /\ InboundLimit' /\ ClosedOnceDisconnected' /\ Allocated' = Allocated
  BY <1>1, LoopFrame DEF Inv, UsedNodesAlive
<1>5. Copies'
  BY <1>1, <1>4 DEF Inv, Copies
<1> QED BY <1>2, <1>3, <1>4, <1>5 DEF Inv

LEMMA MsgReleaseInv ==
    ASSUME Inv, MsgRelease
    PROVE  Inv'
<1> USE DEF MsgRelease, unchangedByMsg, nodeVars, netVars, histVars
<1>1. RefCountExact' /\ nRefCount' \in [Nodes -> Nat]
  BY RefsGiven DEF HeldByNet, Inv, TypeOK
<1>2. TypeOK'
  BY <1>1 DEF Inv, TypeOK, openVars
<1>3. /\ Placement' /\ OpenerNodes' /\ OpenerLocals' /\ OpenerRefs' /\ UsedNodesAlive'
      /\ GrantsConserved' /\ InboundLimit' /\ ClosedOnceDisconnected' /\ Allocated' = Allocated
  BY LoopFrame DEF Inv, UsedNodesAlive
<1>4. Copies'
  BY <1>3 DEF Inv, Copies
<1> QED BY <1>1, <1>2, <1>3, <1>4 DEF Inv
----------------------------------------------------------------------------
LEMMA StutterInv == Inv /\ UNCHANGED vars => Inv'
<1> SUFFICES ASSUME Inv, UNCHANGED vars PROVE Inv'
  OBVIOUS
<1> USE DEF vars, nodeVars, openVars, netVars, msgVars, histVars
<1>1. TypeOK'
  BY DEF Inv, TypeOK
<1>2. RefCountExact'
  BY RefsSame DEF HeldByNet
<1>3. /\ Placement' /\ OpenerNodes' /\ OpenerLocals' /\ OpenerRefs' /\ UsedNodesAlive'
      /\ GrantsConserved' /\ InboundLimit' /\ ClosedOnceDisconnected' /\ Allocated' = Allocated
  BY LoopFrame DEF Inv, UsedNodesAlive
<1>4. Copies'
  BY <1>3 DEF Inv, Copies
<1> QED BY <1>1, <1>2, <1>3, <1>4 DEF Inv

LEMMA OpenerStepInv == \A t \in Openers : Inv /\ ~wild /\ OpenerStep(t) => Inv'
<1> SUFFICES ASSUME NEW t \in Openers, Inv, ~wild, OpenerStep(t)
             PROVE  Inv'
  OBVIOUS
<1>1. ASSUME NEW a \in Addrs, ProcessOneShot(t, a) PROVE Inv'
  BY <1>1, ProcessOneShotInv
<1>2. ASSUME NEW a \in Addrs, ConnectArg(t, a) PROVE Inv'
  BY <1>2, ConnectArgInv
<1>3. ASSUME NEW a \in Addrs, NEW b \in BOOLEAN, Choose(t, a, b) PROVE Inv'
  BY <1>3, ChooseInv
<1>4. CASE GetGrant(t)
  BY <1>4, GetGrantInv
<1>5. CASE NoAddress(t) \/ Refused(t) \/ DialFails(t)
  BY <1>5, GiveUpInv DEF NoAddress, Refused, DialFails
<1>6. CASE Proceed(t) \/ FindNone(t) \/ \E n \in Nodes : FindExisting(t, n)
  BY <1>6, MoveOnInv
<1>7. CASE AddRefFound(t)
  BY <1>7, AddRefFoundInv
<1>8. CASE MoveGrant(t)
  BY <1>8, MoveGrantInv
<1>9. CASE MarkNetworkNode(t)
  BY <1>9, MarkNetworkNodeInv
<1>10. ASSUME NEW n \in Nodes, Dial(t, n) PROVE Inv'
  BY <1>10, DialInv
<1> QED BY <1>1, <1>2, <1>3, <1>4, <1>5, <1>6, <1>7, <1>8, <1>9, <1>10 DEF OpenerStep

LEMMA NetStepInv == Inv /\ NetStep => Inv'
<1> SUFFICES ASSUME Inv, NetStep PROVE Inv'
  OBVIOUS
<1>1. CASE NetLock \/ BeginDelete \/ NetUnlock \/ \E n \in Nodes : Keep(n) \/ PutOff(n)
  BY <1>1, NetLocalInv
<1>2. CASE Retire
  BY <1>2, RetireInv
<1>3. CASE NetCopy
  BY <1>3, NetCopyInv
<1>4. CASE NetRelease
  BY <1>4, NetReleaseInv
<1>5. ASSUME NEW n \in Nodes, Disconnect(n) PROVE Inv'
  BY <1>5, DisconnectInv
<1>6. ASSUME NEW n \in Nodes, Delete(n) PROVE Inv'
  BY <1>6, DeleteInv
<1>7. ASSUME NEW n \in Nodes, NetBreak(n) PROVE Inv'
  BY <1>7, BreakInv DEF NetBreak, unchangedByNet, histVars
<1>8. ASSUME NEW n \in Nodes, NEW a \in Addrs, Accept(n, a) PROVE Inv'
  BY <1>8, AcceptInv
<1> QED BY <1>1, <1>2, <1>3, <1>4, <1>5, <1>6, <1>7, <1>8 DEF NetStep

LEMMA MsgStepInv == Inv /\ MsgStep => Inv'
<1> SUFFICES ASSUME Inv, MsgStep PROVE Inv'
  OBVIOUS
<1>1. CASE MsgCopy
  BY <1>1, MsgCopyInv
<1>2. CASE (\E n \in Nodes : PickSync(n)) \/ PickNone \/ SetSync
  BY <1>2, SyncInv
<1>3. CASE MsgRelease
  BY <1>3, MsgReleaseInv
<1>4. ASSUME NEW n \in Nodes, MsgBreak(n) PROVE Inv'
  BY <1>4, BreakInv DEF MsgBreak, unchangedByMsg
<1> QED BY <1>1, <1>2, <1>3, <1>4 DEF MsgStep

LEMMA NextInv == Inv /\ [Next]_vars => Inv'
BY StutterInv, OpenerStepInv, NetStepInv, MsgStepInv DEF Next

\* The invariant of the CNode life cycle holds in every reachable state.
THEOREM InvHolds == Spec => []Inv
BY InitInv, NextInv, PTL DEF Spec

\* Every variable keeps the type of its declaration; in particular no
\* reference count and no semaphore value ever becomes negative.
THEOREM TypeCorrect == Spec => []TypeOK
<1>1. Inv => TypeOK
  BY DEF Inv
<1> QED BY <1>1, InvHolds, PTL

\* The count of every node is the number of its holders (net.cpp's AddRef
\* and Release calls match, but for those of ConnectNode).
THEOREM RefCountsHold == Spec => []RefCountExact
<1>1. Inv => RefCountExact
  BY DEF Inv
<1> QED BY <1>1, InvHolds, PTL

\* ThreadSocketHandler never frees a node that is in a loop's copy, or that
\* OpenNetworkConnection holds a reference on or has just made.
THEOREM UsedNodesStayAlive == Spec => []UsedNodesAlive
<1>1. Inv => UsedNodesAlive
  BY DEF Inv
<1> QED BY <1>1, InvHolds, PTL

\* No slot of semOutbound is lost or made up.
THEOREM GrantsHold == Spec => []GrantsConserved
<1>1. Inv => GrantsConserved
  BY DEF Inv
<1> QED BY <1>1, InvHolds, PTL

\* The accept loop never exceeds the inbound limit.
THEOREM InboundBounded == Spec => []InboundLimit
<1>1. Inv => InboundLimit
  BY DEF Inv
<1> QED BY <1>1, InvHolds, PTL

\* A disconnected node is in one place only, and its socket stays closed.
THEOREM SocketsClosed == Spec => []ClosedOnceDisconnected
<1>1. Inv => ClosedOnceDisconnected
  BY DEF Inv
<1> QED BY <1>1, InvHolds, PTL

\* All of them at once, as the run of the node lifecycle checks them.
THEOREM NodesStaySafe == Spec => []NodesSafe
<1>1. Inv => NodesSafe
  BY DEF Inv, NodesSafe
<1> QED BY <1>1, InvHolds, PTL
=============================================================================
