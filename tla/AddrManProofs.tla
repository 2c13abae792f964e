---------------------------- MODULE AddrManProofs ----------------------------
(***************************************************************************)
(* Proofs about AddrMan and PeersDat: the tables and the indexes over them *)
(* are exact for any addresses, ports, sources, hashes and sizes of the    *)
(* buckets, the manager implements the address book, and a dump and the    *)
(* restart that reads it lose nothing.                                     *)
(*                                                                         *)
(* The parts of the invariant are stated of values, not of variables:      *)
(* Add_ and MakeTried change the tables several times in one step, and the *)
(* lemmas are about each change.                                           *)
(***************************************************************************)
EXTENDS PeersDat, NumberFacts, FiniteSetTheorems, SequenceTheorems, TLAPS

----------------------------------------------------------------------------
(* The parts of the invariant.                                             *)

InfoFields == {"addr", "port", "source", "nTime", "nLastTry", "nLastSuccess", "nAttempts",
               "nRefCount", "fInTried", "nRandomPos"}
IsInfo(e) ==
    /\ DOMAIN e = InfoFields
    /\ e.addr \in Addrs /\ e.port \in Ports /\ e.source \in Sources
    /\ e.nRefCount \in Nat /\ e.fInTried \in BOOLEAN
Infos(info) == \A id \in DOMAIN info : IsInfo(info[id])

\* vRandom lists each entry once, and an entry knows its position.
Listed(info, rnd) ==
    /\ rnd \in Seq(DOMAIN info)
    /\ \A id \in DOMAIN info : info[id].nRandomPos \in 1 .. Len(rnd) /\ rnd[info[id].nRandomPos] = id
    /\ \A k \in 1 .. Len(rnd) : info[rnd[k]].nRandomPos = k

\* mapAddr finds each entry by its address.
Mapped(info, known) ==
    /\ DOMAIN known = {info[id].addr : id \in DOMAIN info}
    /\ \A id \in DOMAIN info : known[info[id].addr] = id

\* out: the entry that is being moved, which is in no table.
NewOf(info, out) == {id \in DOMAIN info \ {out} : ~info[id].fInTried}
TriedOf(info, out) == {id \in DOMAIN info \ {out} : info[id].fInTried}
Occ(buckets, id) == {b \in NewBuckets : id \in buckets[b]}

NewSound(info, out, buckets) ==
    /\ \A id \in NewOf(info, out) : /\ info[id].nRefCount = Cardinality(Occ(buckets, id))
                                    /\ info[id].nRefCount \in 1 .. ADDRMAN_NEW_BUCKETS_PER_ADDRESS
    /\ DOMAIN buckets = NewBuckets
    /\ \A b \in NewBuckets : /\ buckets[b] \subseteq NewOf(info, out)
                             /\ Cardinality(buckets[b]) <= ADDRMAN_NEW_BUCKET_SIZE

TriedHome(e) == TriedBucketOf[<<e.addr, e.port>>]
TriedSound(info, out, tried) ==
    /\ \A id \in TriedOf(info, out) :
          /\ info[id].nLastSuccess # 0 /\ info[id].nRefCount = 0
          /\ \E k \in 1 .. Len(tried[TriedHome(info[id])]) : tried[TriedHome(info[id])][k] = id
    /\ DOMAIN tried = TriedBuckets
    /\ \A b \in TriedBuckets :
          /\ tried[b] \in Seq(TriedOf(info, out)) /\ Len(tried[b]) <= ADDRMAN_TRIED_BUCKET_SIZE
          /\ \A k, l \in 1 .. Len(tried[b]) : tried[b][k] = tried[b][l] => k = l
          /\ \A k \in 1 .. Len(tried[b]) : TriedHome(info[tried[b][k]]) = b

\* What MakeTried and SelectTried rely on: the entry to move is in no bucket, its tried bucket is
\* full, and there is place where the entry came from.
MovingSound ==
    IF pc # "evict" THEN moving = NotMoving
    ELSE /\ DOMAIN moving = DOMAIN NotMoving
         /\ moving.id \in Ids /\ ~mapInfo[moving.id].fInTried
         /\ mapInfo[moving.id].nRefCount = 0 /\ mapInfo[moving.id].nLastSuccess # 0
         /\ moving.bucket = TriedHome(mapInfo[moving.id])
         /\ Len(vvTried[moving.bucket]) = ADDRMAN_TRIED_BUCKET_SIZE
         /\ moving.origin \in NewBuckets
         /\ Cardinality(vvNew[moving.origin]) < ADDRMAN_NEW_BUCKET_SIZE
         /\ moving.i \in Nat \ {0} /\ (moving.i > 1 => moving.nOldest # NoId)
         /\ moving.nOldest # NoId => moving.nOldestPos \in 1 .. ADDRMAN_TRIED_BUCKET_SIZE

AddrInv ==
    /\ nIdCount \in Nat /\ Ids \subseteq 0 .. (nIdCount - 1)
    /\ shuffled \in Nat /\ pc \in {"free", "evict", "getaddr"}
    /\ Infos(mapInfo) /\ Listed(mapInfo, vRandom) /\ Mapped(mapInfo, mapAddr)
    /\ NewSound(mapInfo, moving.id, vvNew) /\ TriedSound(mapInfo, moving.id, vvTried)
    /\ nNew = Cardinality(NewOf(mapInfo, moving.id)) /\ nTried = Cardinality(TriedOf(mapInfo, moving.id))
    /\ MovingSound

----------------------------------------------------------------------------
(* What the parts say.                                                     *)

LEMMA IdsFinite ==
    ASSUME NEW n \in Nat, NEW S \in SUBSET (0 .. (n - 1))
    PROVE  IsFiniteSet(S) /\ -1 \notin S
<1>1. IsFiniteSet(0 .. (n - 1))
  BY FS_Interval
<1>2. IsFiniteSet(S)
  BY <1>1, FS_Subset
<1> QED  BY <1>2

\* An entry whose references and table are those of another.
Alike(e, f) ==
    /\ IsInfo(e) /\ e.addr = f.addr /\ e.port = f.port
    /\ e.nRefCount = f.nRefCount /\ e.fInTried = f.fInTried
    /\ f.nLastSuccess # 0 => e.nLastSuccess # 0

LEMMA AlikeInfos ==
    ASSUME NEW info, NEW next, DOMAIN next = DOMAIN info, \A id \in DOMAIN info : Alike(next[id], info[id]),
           NEW known, NEW out, NEW buckets, NEW tried, Infos(info),
           Mapped(info, known), NewSound(info, out, buckets), TriedSound(info, out, tried)
    PROVE  /\ Infos(next) /\ Mapped(next, known)
           /\ NewOf(next, out) = NewOf(info, out) /\ TriedOf(next, out) = TriedOf(info, out)
           /\ NewSound(next, out, buckets) /\ TriedSound(next, out, tried)
<1>1. Infos(next)
  BY DEF Infos, Alike
<1>2. Mapped(next, known)
  BY DEF Mapped, Alike
<1>3. NewOf(next, out) = NewOf(info, out) /\ TriedOf(next, out) = TriedOf(info, out)
  BY DEF NewOf, TriedOf, Alike
<1>4. NewSound(next, out, buckets)
  <2>1. \A id \in NewOf(info, out) : next[id].nRefCount = info[id].nRefCount
    BY DEF NewOf, Alike
  <2> QED  BY <1>3, <2>1 DEF NewSound
<1>5. TriedSound(next, out, tried)
  <2>1. \A id \in TriedOf(info, out) :
          /\ TriedHome(next[id]) = TriedHome(info[id]) /\ next[id].nRefCount = info[id].nRefCount
          /\ info[id].nLastSuccess # 0 => next[id].nLastSuccess # 0
    BY DEF TriedOf, Alike, TriedHome
  <2>2. \A b \in TriedBuckets : \A k \in 1 .. Len(tried[b]) : tried[b][k] \in TriedOf(info, out)
    BY ElementOfSeq DEF TriedSound
  <2> QED  BY <1>3, <2>1, <2>2 DEF TriedSound
<1> QED  BY <1>1, <1>2, <1>3, <1>4, <1>5

\* The tried entries of the one are those of the other.
SameTried(info, out, next, out2) ==
    /\ TriedOf(next, out2) = TriedOf(info, out)
    /\ \A id \in TriedOf(info, out) :
          /\ next[id].addr = info[id].addr /\ next[id].port = info[id].port
          /\ next[id].nRefCount = info[id].nRefCount
          /\ info[id].nLastSuccess # 0 => next[id].nLastSuccess # 0

LEMMA TriedKept ==
    ASSUME NEW info, NEW next, NEW out, NEW out2, NEW tried, TriedSound(info, out, tried),
           SameTried(info, out, next, out2)
    PROVE  TriedSound(next, out2, tried)
<1>0. /\ TriedOf(next, out2) = TriedOf(info, out)
      /\ \A id \in TriedOf(info, out) :
            /\ next[id].addr = info[id].addr /\ next[id].port = info[id].port
            /\ next[id].nRefCount = info[id].nRefCount
            /\ info[id].nLastSuccess # 0 => next[id].nLastSuccess # 0
  BY DEF SameTried
<1>1. \A id \in TriedOf(info, out) : TriedHome(next[id]) = TriedHome(info[id])
  BY <1>0 DEF TriedHome
<1>2. \A b \in TriedBuckets : \A k \in 1 .. Len(tried[b]) : tried[b][k] \in TriedOf(info, out)
  BY ElementOfSeq DEF TriedSound
<1> QED  BY <1>0, <1>1, <1>2 DEF TriedSound

----------------------------------------------------------------------------
(* The indexes: an entry is created, and an entry goes away.               *)

With(f, x, y) == [z \in DOMAIN f \cup {x} |-> IF z = x THEN y ELSE f[z]]

LEMMA AppendEntry ==
    ASSUME NEW info, NEW rnd, NEW known, Listed(info, rnd), Mapped(info, known),
           NEW id, id \notin DOMAIN info, NEW e, e.nRandomPos = Len(rnd) + 1,
           e.addr \notin DOMAIN known
    PROVE  Listed(With(info, id, e), Append(rnd, id)) /\ Mapped(With(info, id, e), With(known, e.addr, id))
<1> DEFINE next == With(info, id, e)
<1>1. /\ rnd \in Seq(DOMAIN info)
      /\ \A j \in DOMAIN info : info[j].nRandomPos \in 1 .. Len(rnd) /\ rnd[info[j].nRandomPos] = j
      /\ \A k \in 1 .. Len(rnd) : info[rnd[k]].nRandomPos = k
  BY DEF Listed
<1>2. \A k \in 1 .. Len(rnd) : rnd[k] \in DOMAIN info
  BY <1>1, ElementOfSeq
<1>3. Len(rnd) \in Nat
  BY <1>1, LenProperties
<1>4. DOMAIN next = DOMAIN info \cup {id} /\ next[id] = e /\ \A j \in DOMAIN info : next[j] = info[j]
  BY DEF With
<1> HIDE DEF next
<1> DEFINE longer == Append(rnd, id)
<1>5. rnd \in Seq(DOMAIN next)
  BY <1>1, <1>4
<1>6. /\ longer \in Seq(DOMAIN next) /\ Len(longer) = Len(rnd) + 1
      /\ \A k \in 1 .. Len(rnd) : longer[k] = rnd[k]
      /\ longer[Len(rnd) + 1] = id
  BY <1>4, <1>5, AppendProperties
<1> HIDE DEF longer
<1>7. Listed(next, longer)
  <2>1. \A j \in DOMAIN next : next[j].nRandomPos \in 1 .. Len(longer) /\ longer[next[j].nRandomPos] = j
    <3> SUFFICES ASSUME NEW j \in DOMAIN next
                 PROVE  next[j].nRandomPos \in 1 .. Len(longer) /\ longer[next[j].nRandomPos] = j
      OBVIOUS
    <3>1. CASE j = id
      BY <1>3, <1>4, <1>6, <3>1
    <3>2. CASE j \in DOMAIN info
      BY <1>1, <1>3, <1>4, <1>6, <3>2
    <3> QED  BY <1>4, <3>1, <3>2
  <2>2. \A k \in 1 .. Len(longer) : next[longer[k]].nRandomPos = k
    <3> SUFFICES ASSUME NEW k \in 1 .. Len(longer)
                 PROVE  next[longer[k]].nRandomPos = k
      OBVIOUS
    <3>1. CASE k = Len(rnd) + 1
      BY <1>4, <1>6, <3>1
    <3>2. CASE k \in 1 .. Len(rnd)
      BY <1>1, <1>2, <1>4, <1>6, <3>2
    <3> QED  BY <1>3, <1>6, <3>1, <3>2
  <2> QED  BY <1>6, <2>1, <2>2 DEF Listed
<1>8. Mapped(next, With(known, e.addr, id))
  <2>1. /\ DOMAIN known = {info[j].addr : j \in DOMAIN info} /\ \A j \in DOMAIN info : known[info[j].addr] = j
    BY DEF Mapped
  <2>2. \A j \in DOMAIN info : info[j].addr \in DOMAIN known /\ info[j].addr # e.addr
    BY <2>1
  <2>3. DOMAIN known \cup {e.addr} = {next[j].addr : j \in DOMAIN next}
    BY <1>4, <2>1
  <2> QED  BY <1>4, <2>1, <2>2, <2>3 DEF Mapped, With
<1> QED  BY <1>7, <1>8 DEF longer, next

LEMMA DropEntry ==
    ASSUME NEW info, NEW rnd, NEW known, Infos(info), Listed(info, rnd), Mapped(info, known),
           NEW id \in DOMAIN info, NEW next, next = InfoWithout(info, rnd, id)
    PROVE  /\ DOMAIN next = DOMAIN info \ {id}
           /\ \A j \in DOMAIN next : next[j] = info[j] \/ next[j] = [info[j] EXCEPT !.nRandomPos = info[id].nRandomPos]
           /\ Infos(next) /\ Listed(next, RandomWithout(info, rnd, id))
           /\ Mapped(next, Without(known, info[id].addr))
<1>1. /\ rnd \in Seq(DOMAIN info)
      /\ \A j \in DOMAIN info : info[j].nRandomPos \in 1 .. Len(rnd) /\ rnd[info[j].nRandomPos] = j
      /\ \A k \in 1 .. Len(rnd) : info[rnd[k]].nRandomPos = k
  BY DEF Listed
<1>2. \A k \in 1 .. Len(rnd) : rnd[k] \in DOMAIN info
  BY <1>1, ElementOfSeq
<1> DEFINE n == Len(rnd)
           pos == info[id].nRandomPos
           last == rnd[n]
           shorter == RandomWithout(info, rnd, id)
<1>3. n \in Nat \ {0} /\ pos \in 1 .. n /\ rnd[pos] = id
  BY <1>1, LenProperties
<1>4. last \in DOMAIN info /\ info[last].nRandomPos = n
  BY <1>1, <1>2, <1>3
<1>5. /\ DOMAIN next = DOMAIN info \ {id}
      /\ \A j \in DOMAIN next : j # last => next[j] = info[j]
      /\ last # id => next[last] = [info[last] EXCEPT !.nRandomPos = pos]
  BY <1>4 DEF InfoWithout
<1>6. /\ DOMAIN shorter = 1 .. (n - 1) /\ n - 1 \in Nat
      /\ \A k \in 1 .. (n - 1) : k # pos => shorter[k] = rnd[k]
      /\ pos # n => shorter[pos] = last
  BY <1>3 DEF RandomWithout
<1>7. shorter = [k \in 1 .. (n - 1) |-> shorter[k]]
  BY <1>6 DEF RandomWithout
<1>8. last # id => next[last].nRandomPos = pos /\ DOMAIN next[last] = InfoFields
                   /\ \A f \in InfoFields \ {"nRandomPos"} : next[last][f] = info[last][f]
  <2>1. DOMAIN info[last] = InfoFields
    BY <1>4 DEF Infos, IsInfo
  <2> QED  BY <1>5, <2>1 DEF InfoFields
<1>9. /\ \A j \in DOMAIN next : /\ DOMAIN next[j] = InfoFields
                                /\ next[j].addr = info[j].addr /\ next[j].port = info[j].port
                                /\ next[j].source = info[j].source /\ next[j].nRefCount = info[j].nRefCount
                                /\ next[j].fInTried = info[j].fInTried
  <2> SUFFICES ASSUME NEW j \in DOMAIN next
               PROVE  /\ DOMAIN next[j] = InfoFields
                      /\ next[j].addr = info[j].addr /\ next[j].port = info[j].port
                      /\ next[j].source = info[j].source /\ next[j].nRefCount = info[j].nRefCount
                      /\ next[j].fInTried = info[j].fInTried
    OBVIOUS
  <2>1. CASE j = last
    BY <1>5, <1>8, <2>1 DEF InfoFields
  <2>2. CASE j # last
    BY <1>5, <2>2 DEF Infos, IsInfo
  <2> QED  BY <2>1, <2>2
<1> HIDE DEF n, pos, last, shorter
<1>10. Infos(next)
  BY <1>5, <1>9 DEF Infos, IsInfo
<1>11. \A k \in 1 .. (n - 1) : shorter[k] \in DOMAIN next /\ next[shorter[k]].nRandomPos = k
  <2> SUFFICES ASSUME NEW k \in 1 .. (n - 1)
               PROVE  shorter[k] \in DOMAIN next /\ next[shorter[k]].nRandomPos = k
    OBVIOUS
  <2>1. rnd[k] \in DOMAIN info /\ info[rnd[k]].nRandomPos = k
    BY <1>1, <1>2, <1>3 DEF n
  <2>2. CASE k = pos
    <3>1. last # id
      BY <1>3, <1>4, <2>2 DEF pos
    <3> QED  BY <1>3, <1>4, <1>5, <1>6, <1>8, <2>2, <3>1
  <2>3. CASE k # pos
    <3>1. rnd[k] # id /\ rnd[k] # last
      BY <1>3, <1>4, <2>1, <2>3 DEF pos
    <3> QED  BY <1>5, <1>6, <2>1, <2>3, <3>1
  <2> QED  BY <2>2, <2>3
<1>12. \A j \in DOMAIN next : next[j].nRandomPos \in 1 .. (n - 1) /\ shorter[next[j].nRandomPos] = j
  <2> SUFFICES ASSUME NEW j \in DOMAIN next
               PROVE  next[j].nRandomPos \in 1 .. (n - 1) /\ shorter[next[j].nRandomPos] = j
    OBVIOUS
  <2>1. j \in DOMAIN info /\ j # id /\ info[j].nRandomPos \in 1 .. n /\ rnd[info[j].nRandomPos] = j
    BY <1>1, <1>5 DEF n
  <2>2. CASE j = last
    <3>1. last # id /\ pos # n
      BY <1>3, <1>4, <2>1, <2>2 DEF last
    <3> QED  BY <1>3, <1>6, <1>8, <2>2, <3>1
  <2>3. CASE j # last
    <3>1. info[j].nRandomPos # n /\ info[j].nRandomPos # pos
      BY <1>3, <2>1, <2>3 DEF last
    <3> QED  BY <1>3, <1>5, <1>6, <2>1, <2>3, <3>1
  <2> QED  BY <2>2, <2>3
<1>13. shorter \in Seq(DOMAIN next) /\ Len(shorter) = n - 1
  BY <1>6, <1>7, <1>11, SeqDef, LenProperties
<1>14. Listed(next, shorter)
  BY <1>11, <1>12, <1>13 DEF Listed
<1>15. Mapped(next, Without(known, info[id].addr))
  <2>1. /\ DOMAIN known = {info[j].addr : j \in DOMAIN info} /\ \A j \in DOMAIN info : known[info[j].addr] = j
    BY DEF Mapped
  <2>2. \A j \in DOMAIN next : j \in DOMAIN info /\ next[j].addr = info[j].addr /\ info[j].addr # info[id].addr
    BY <1>5, <1>9, <2>1
  <2>3. DOMAIN Without(known, info[id].addr) = DOMAIN known \ {info[id].addr}
    BY DEF Without
  <2>4. DOMAIN known \ {info[id].addr} = {next[j].addr : j \in DOMAIN next}
    BY <1>5, <2>1, <2>2
  <2>5. \A j \in DOMAIN next : Without(known, info[id].addr)[next[j].addr] = j
    BY <2>1, <2>2 DEF Without
  <2> QED  BY <2>3, <2>4, <2>5 DEF Mapped
<1>16. \A j \in DOMAIN next : next[j] = info[j] \/ next[j] = [info[j] EXCEPT !.nRandomPos = info[id].nRandomPos]
  BY <1>5 DEF pos
<1> QED  BY <1>5, <1>10, <1>14, <1>15, <1>16 DEF shorter

----------------------------------------------------------------------------
(* References from the new buckets.                                        *)

NewCounted(info, out, buckets) ==
    /\ \A id \in NewOf(info, out) : info[id].nRefCount = Cardinality(Occ(buckets, id))
    /\ DOMAIN buckets = NewBuckets
    /\ \A b \in NewBuckets : buckets[b] \subseteq NewOf(info, out)

LEMMA OccFinite ==
    ASSUME NEW buckets, NEW id
    PROVE  IsFiniteSet(Occ(buckets, id)) /\ Cardinality(Occ(buckets, id)) \in Nat
<1>1. IsFiniteSet(Occ(buckets, id))
  BY AddrManAssumption, FS_Subset DEF Occ
<1> QED  BY <1>1, FS_CardinalityType

\* The entry id gets one more reference, from the bucket b.
Gained(info, id, next) == next = [info EXCEPT ![id].nRefCount = @ + 1]
PutIn(buckets, b, id, filled) == filled = [buckets EXCEPT ![b] = @ \cup {id}]

LEMMA Refers ==
    ASSUME NEW info, NEW out, NEW buckets, Infos(info), NewCounted(info, out, buckets),
           NEW id \in NewOf(info, out), NEW b \in NewBuckets, id \notin buckets[b],
           NEW next, Gained(info, id, next), NEW filled, PutIn(buckets, b, id, filled)
    PROVE  /\ Infos(next) /\ DOMAIN next = DOMAIN info
           /\ NewOf(next, out) = NewOf(info, out) /\ NewCounted(next, out, filled)
           /\ next[id].nRefCount = info[id].nRefCount + 1
<1>1. id \in DOMAIN info /\ IsInfo(info[id])
  BY DEF NewOf, Infos
<1>2. /\ DOMAIN next = DOMAIN info /\ \A j \in DOMAIN info : j # id => next[j] = info[j]
      /\ next[id] = [info[id] EXCEPT !.nRefCount = @ + 1]
  BY <1>1 DEF Gained
<1>3. /\ DOMAIN next[id] = InfoFields /\ next[id].nRefCount = info[id].nRefCount + 1
      /\ \A f \in InfoFields \ {"nRefCount"} : next[id][f] = info[id][f]
  BY <1>1, <1>2 DEF IsInfo, InfoFields
<1>4. Infos(next)
  BY <1>1, <1>2, <1>3 DEF Infos, IsInfo, InfoFields
<1>5. NewOf(next, out) = NewOf(info, out)
  BY <1>1, <1>2, <1>3 DEF NewOf, InfoFields
<1>6. /\ DOMAIN buckets = NewBuckets
      /\ \A j \in NewOf(info, out) : info[j].nRefCount = Cardinality(Occ(buckets, j))
      /\ \A c \in NewBuckets : buckets[c] \subseteq NewOf(info, out)
  BY DEF NewCounted
<1>7. /\ DOMAIN filled = NewBuckets /\ filled[b] = buckets[b] \cup {id}
      /\ \A c \in NewBuckets : c # b => filled[c] = buckets[c]
  BY <1>6 DEF PutIn
<1>8. Occ(filled, id) = Occ(buckets, id) \cup {b} /\ b \notin Occ(buckets, id)
  BY <1>7 DEF Occ
<1>9. \A j \in NewOf(info, out) : j # id => Occ(filled, j) = Occ(buckets, j)
  BY <1>7 DEF Occ
<1>10. Cardinality(Occ(filled, id)) = Cardinality(Occ(buckets, id)) + 1
  BY <1>8, OccFinite, FS_AddElement
<1>11. \A j \in NewOf(info, out) : next[j].nRefCount = Cardinality(Occ(filled, j))
  <2> SUFFICES ASSUME NEW j \in NewOf(info, out)
               PROVE  next[j].nRefCount = Cardinality(Occ(filled, j))
    OBVIOUS
  <2>1. CASE j = id
    BY <1>3, <1>6, <1>10, <2>1
  <2>2. CASE j # id
    BY <1>2, <1>6, <1>9, <2>2 DEF NewOf
  <2> QED  BY <2>1, <2>2
<1>12. \A c \in NewBuckets : filled[c] \subseteq NewOf(info, out)
  BY <1>6, <1>7
<1> QED  BY <1>2, <1>3, <1>4, <1>5, <1>7, <1>11, <1>12 DEF NewCounted

\* The entry id is taken out of the bucket b: it loses a reference or, with the last one, goes away.
Lost(info, id, next) ==
    /\ DOMAIN next \in {DOMAIN info, DOMAIN info \ {id}}
    /\ id \in DOMAIN next => next[id].nRefCount = info[id].nRefCount - 1 /\ info[id].nRefCount > 1
    /\ id \notin DOMAIN next => info[id].nRefCount = 1
    /\ \A j \in DOMAIN next :
          /\ next[j].fInTried = info[j].fInTried
          /\ next[j].addr = info[j].addr /\ next[j].port = info[j].port
          /\ next[j].nLastSuccess = info[j].nLastSuccess
          /\ j # id => next[j].nRefCount = info[j].nRefCount
TakenOut(buckets, b, id, left) == left = [buckets EXCEPT ![b] = @ \ {id}]

LEMMA Unrefers ==
    ASSUME NEW info, NEW out, NEW buckets, NewCounted(info, out, buckets),
           NEW b \in NewBuckets, NEW id \in buckets[b],
           NEW next, Lost(info, id, next), NEW left, TakenOut(buckets, b, id, left)
    PROVE  NewOf(next, out) = NewOf(info, out) \cap DOMAIN next /\ NewCounted(next, out, left)
<1> DEFINE S == DOMAIN next
<1>0. /\ S \in {DOMAIN info, DOMAIN info \ {id}}
      /\ id \in S => next[id].nRefCount = info[id].nRefCount - 1 /\ next[id].fInTried = info[id].fInTried
      /\ id \notin S => info[id].nRefCount = 1
      /\ \A j \in S : j # id => next[j].nRefCount = info[j].nRefCount /\ next[j].fInTried = info[j].fInTried
  BY DEF Lost
<1>1. /\ DOMAIN buckets = NewBuckets
      /\ \A j \in NewOf(info, out) : info[j].nRefCount = Cardinality(Occ(buckets, j))
      /\ \A c \in NewBuckets : buckets[c] \subseteq NewOf(info, out)
  BY DEF NewCounted
<1>2. id \in NewOf(info, out)
  BY <1>1
<1>3. NewOf(next, out) = NewOf(info, out) \cap S
  BY <1>0 DEF NewOf
<1>4. /\ DOMAIN left = NewBuckets /\ left[b] = buckets[b] \ {id}
      /\ \A c \in NewBuckets : c # b => left[c] = buckets[c]
  BY <1>1 DEF TakenOut
<1>5. Occ(left, id) = Occ(buckets, id) \ {b} /\ b \in Occ(buckets, id)
  BY <1>4 DEF Occ
<1>6. \A j \in NewOf(info, out) : j # id => Occ(left, j) = Occ(buckets, j)
  BY <1>4 DEF Occ
<1>7. Cardinality(Occ(left, id)) = Cardinality(Occ(buckets, id)) - 1
  BY <1>5, OccFinite, FS_RemoveElement
<1>8. \A j \in NewOf(next, out) : next[j].nRefCount = Cardinality(Occ(left, j))
  <2> SUFFICES ASSUME NEW j \in NewOf(next, out)
               PROVE  next[j].nRefCount = Cardinality(Occ(left, j))
    OBVIOUS
  <2>1. CASE j = id
    BY <1>0, <1>1, <1>2, <1>3, <1>7, <2>1
  <2>2. CASE j # id
    BY <1>0, <1>1, <1>3, <1>6, <2>2 DEF NewOf
  <2> QED  BY <2>1, <2>2
<1>9. \A c \in NewBuckets : left[c] \subseteq NewOf(next, out)
  <2>1. CASE id \in S
    <3>1. S = DOMAIN info
      BY <1>0, <2>1
    <3>2. NewOf(info, out) \subseteq S
      BY <3>1 DEF NewOf
    <3> QED  BY <1>1, <1>3, <1>4, <3>2
  <2>2. CASE id \notin S
    <3>1. Cardinality(Occ(left, id)) = 0
      BY <1>0, <1>1, <1>2, <1>7, <2>2
    <3>2. Occ(left, id) = {}
      BY <3>1, OccFinite, FS_EmptySet
    <3>3. \A c \in NewBuckets : id \notin left[c]
      BY <3>2 DEF Occ
    <3>4. \A c \in NewBuckets : left[c] \subseteq NewOf(info, out)
      BY <1>1, <1>4
    <3>5. NewOf(info, out) \ {id} \subseteq S
      BY <1>0 DEF NewOf
    <3> QED  BY <1>3, <3>3, <3>4, <3>5
  <2> QED  BY <2>1, <2>2
<1> QED  BY <1>3, <1>4, <1>8, <1>9 DEF NewCounted

LEMMA IndexKept ==
    ASSUME NEW info, NEW next, DOMAIN next = DOMAIN info,
           \A id \in DOMAIN info : next[id].addr = info[id].addr /\ next[id].nRandomPos = info[id].nRandomPos,
           NEW rnd, NEW known, Listed(info, rnd), Mapped(info, known)
    PROVE  Listed(next, rnd) /\ Mapped(next, known)
<1>1. /\ rnd \in Seq(DOMAIN info)
      /\ \A id \in DOMAIN info : info[id].nRandomPos \in 1 .. Len(rnd) /\ rnd[info[id].nRandomPos] = id
      /\ \A k \in 1 .. Len(rnd) : info[rnd[k]].nRandomPos = k
  BY DEF Listed
<1>2. \A k \in 1 .. Len(rnd) : rnd[k] \in DOMAIN info
  BY <1>1, ElementOfSeq
<1> QED  BY <1>1, <1>2 DEF Listed, Mapped

LEMMA Recounted ==
    ASSUME NEW info, Infos(info), NEW id \in DOMAIN info, NEW c \in Nat,
           NEW next, next = [info EXCEPT ![id].nRefCount = c]
    PROVE  /\ DOMAIN next = DOMAIN info /\ Infos(next) /\ next[id].nRefCount = c
           /\ \A j \in DOMAIN info : j # id => next[j] = info[j]
           /\ \A f \in InfoFields \ {"nRefCount"} : next[id][f] = info[id][f]
<1>1. IsInfo(info[id])
  BY DEF Infos
<1>2. /\ DOMAIN next = DOMAIN info /\ \A j \in DOMAIN info : j # id => next[j] = info[j]
      /\ next[id] = [info[id] EXCEPT !.nRefCount = c]
  OBVIOUS
<1>3. /\ DOMAIN next[id] = InfoFields /\ next[id].nRefCount = c
      /\ \A f \in InfoFields \ {"nRefCount"} : next[id][f] = info[id][f]
  BY <1>1, <1>2 DEF IsInfo, InfoFields
<1>4. Infos(next)
  BY <1>1, <1>2, <1>3 DEF Infos, IsInfo, InfoFields
<1> QED  BY <1>2, <1>3, <1>4

----------------------------------------------------------------------------
(* The end of Add_.                                                        *)

\* The address book that info and known stand for.
BookOf(info, known) == [a \in DOMAIN known |-> IF info[known[a]].fInTried THEN "tried" ELSE "new"]

LEMMA SameBook ==
    ASSUME NEW info, NEW next, NEW known, Mapped(info, known), DOMAIN next = DOMAIN info,
           \A id \in DOMAIN info : next[id].fInTried = info[id].fInTried
    PROVE  BookOf(next, known) = BookOf(info, known)
<1>1. \A a \in DOMAIN known : known[a] \in DOMAIN info
  BY DEF Mapped
<1> QED  BY <1>1 DEF BookOf

\* An entry is added, and possibly another one dropped.
Fits(info, rnd, known, out, count) ==
    /\ IsFiniteSet(DOMAIN info) /\ out \notin DOMAIN info
    /\ Infos(info) /\ Listed(info, rnd) /\ Mapped(info, known)
    /\ count = Cardinality(NewOf(info, out))

RefsBounded(info, out, id) ==
    /\ info[id].nRefCount \in 0 .. (ADDRMAN_NEW_BUCKETS_PER_ADDRESS - 1)
    /\ \A j \in NewOf(info, out) : j # id => info[j].nRefCount \in 1 .. ADDRMAN_NEW_BUCKETS_PER_ADDRESS

LEMMA DropReferenceSound ==
    ASSUME NEW info, NEW rnd, NEW known, NEW count, NEW out, Fits(info, rnd, known, out, count),
           NEW id \in NewOf(info, out), info[id].nRefCount >= 1,
           DropReference(id, info, rnd, known, count)
    PROVE  /\ Lost(info, id, mapInfo')
           /\ Fits(mapInfo', vRandom', mapAddr', out, nNew')
           /\ \/ BookOf(mapInfo', mapAddr') = BookOf(info, known)
              \/ BookOf(mapInfo', mapAddr') = Without(BookOf(info, known), info[id].addr)
<1>1. /\ IsFiniteSet(DOMAIN info) /\ out \notin DOMAIN info /\ Infos(info) /\ Listed(info, rnd)
      /\ Mapped(info, known) /\ count = Cardinality(NewOf(info, out))
  BY DEF Fits
<1>2. id \in DOMAIN info /\ ~info[id].fInTried /\ IsInfo(info[id]) /\ info[id].nRefCount \in Nat
  BY <1>1 DEF NewOf, Infos, IsInfo
<1>3. IsFiniteSet(NewOf(info, out))
  BY <1>1, FS_Subset DEF NewOf
<1>4. CASE info[id].nRefCount = 1
  <2>1. /\ mapInfo' = InfoWithout(info, rnd, id) /\ vRandom' = RandomWithout(info, rnd, id)
        /\ mapAddr' = Without(known, info[id].addr) /\ nNew' = count - 1
    BY <1>4 DEF DropReference
  <2>2. /\ DOMAIN mapInfo' = DOMAIN info \ {id}
        /\ \A j \in DOMAIN mapInfo' : \/ mapInfo'[j] = info[j]
                                      \/ mapInfo'[j] = [info[j] EXCEPT !.nRandomPos = info[id].nRandomPos]
        /\ Infos(mapInfo') /\ Listed(mapInfo', vRandom') /\ Mapped(mapInfo', mapAddr')
    <3>1. mapInfo' = InfoWithout(info, rnd, id) /\ id \in DOMAIN info
      BY <1>2, <2>1
    <3>2. /\ DOMAIN mapInfo' = DOMAIN info \ {id}
          /\ \A j \in DOMAIN mapInfo' : \/ mapInfo'[j] = info[j]
                                        \/ mapInfo'[j] = [info[j] EXCEPT !.nRandomPos = info[id].nRandomPos]
          /\ Infos(mapInfo') /\ Listed(mapInfo', RandomWithout(info, rnd, id))
          /\ Mapped(mapInfo', Without(known, info[id].addr))
      BY <1>1, <3>1, DropEntry
    <3> QED  BY <2>1, <3>2
  <2>3. \A j \in DOMAIN mapInfo' :
            /\ mapInfo'[j].fInTried = info[j].fInTried
            /\ mapInfo'[j].addr = info[j].addr /\ mapInfo'[j].port = info[j].port
            /\ mapInfo'[j].nLastSuccess = info[j].nLastSuccess /\ mapInfo'[j].nRefCount = info[j].nRefCount
    <3> SUFFICES ASSUME NEW j \in DOMAIN mapInfo'
                 PROVE  /\ mapInfo'[j].fInTried = info[j].fInTried
                        /\ mapInfo'[j].addr = info[j].addr /\ mapInfo'[j].port = info[j].port
                        /\ mapInfo'[j].nLastSuccess = info[j].nLastSuccess
                        /\ mapInfo'[j].nRefCount = info[j].nRefCount
      OBVIOUS
    <3>1. DOMAIN info[j] = InfoFields
      BY <1>1, <2>2 DEF Infos, IsInfo
    <3>2. CASE mapInfo'[j] = info[j]
      BY <3>2
    <3>3. CASE mapInfo'[j] = [info[j] EXCEPT !.nRandomPos = info[id].nRandomPos]
      BY <3>1, <3>3 DEF InfoFields
    <3> QED  BY <2>2, <3>2, <3>3
  <2>4. NewOf(mapInfo', out) = NewOf(info, out) \ {id}
    BY <2>2, <2>3 DEF NewOf
  <2>5. Cardinality(NewOf(mapInfo', out)) = Cardinality(NewOf(info, out)) - 1
    BY <1>3, <2>4, FS_RemoveElement
  <2>6. IsFiniteSet(DOMAIN mapInfo')
    BY <1>1, <2>2, FS_Subset
  <2>7. Fits(mapInfo', vRandom', mapAddr', out, nNew')
    BY <1>1, <2>1, <2>2, <2>5, <2>6 DEF Fits
  <2>8. BookOf(mapInfo', mapAddr') = Without(BookOf(info, known), info[id].addr)
    <3>1. /\ \A j \in DOMAIN info : known[info[j].addr] = j
          /\ DOMAIN known = {info[j].addr : j \in DOMAIN info}
      BY <1>1 DEF Mapped
    <3>2. DOMAIN mapAddr' = DOMAIN known \ {info[id].addr} /\ \A a \in DOMAIN mapAddr' : mapAddr'[a] = known[a]
      BY <2>1 DEF Without
    <3>3. \A a \in DOMAIN mapAddr' : known[a] \in DOMAIN mapInfo'
      BY <2>2, <3>1, <3>2
    <3>4. \A a \in DOMAIN mapAddr' : mapInfo'[mapAddr'[a]].fInTried = info[known[a]].fInTried
      BY <2>3, <3>2, <3>3
    <3> QED  BY <3>2, <3>4 DEF BookOf, Without
  <2>9. Lost(info, id, mapInfo')
    BY <1>4, <2>2, <2>3 DEF Lost
  <2> QED  BY <2>7, <2>8, <2>9
<1>5. CASE info[id].nRefCount # 1
  <2>1. /\ mapInfo' = [info EXCEPT ![id].nRefCount = @ - 1]
        /\ vRandom' = rnd /\ mapAddr' = known /\ nNew' = count
    BY <1>5 DEF DropReference
  <2>2. info[id].nRefCount - 1 \in Nat /\ info[id].nRefCount > 1
    BY <1>2, <1>5
  <2>3. mapInfo' = [info EXCEPT ![id].nRefCount = info[id].nRefCount - 1]
    BY <1>2, <2>1
  <2>4. /\ DOMAIN mapInfo' = DOMAIN info /\ Infos(mapInfo')
        /\ mapInfo'[id].nRefCount = info[id].nRefCount - 1
        /\ \A j \in DOMAIN info : j # id => mapInfo'[j] = info[j]
        /\ \A f \in InfoFields \ {"nRefCount"} : mapInfo'[id][f] = info[id][f]
    <3> DEFINE c == info[id].nRefCount - 1
    <3>1. c \in Nat /\ id \in DOMAIN info /\ mapInfo' = [info EXCEPT ![id].nRefCount = c]
      BY <1>2, <2>2, <2>3
    <3> HIDE DEF c
    <3>2. /\ DOMAIN mapInfo' = DOMAIN info /\ Infos(mapInfo') /\ mapInfo'[id].nRefCount = c
          /\ \A j \in DOMAIN info : j # id => mapInfo'[j] = info[j]
          /\ \A f \in InfoFields \ {"nRefCount"} : mapInfo'[id][f] = info[id][f]
      <4>1. Infos(mapInfo')
        BY <1>1, <3>1, Recounted
      <4>2. DOMAIN mapInfo' = DOMAIN info
        BY <1>1, <3>1, Recounted
      <4>3. mapInfo'[id].nRefCount = c
        BY <1>1, <3>1, Recounted
      <4>4. \A j \in DOMAIN info : j # id => mapInfo'[j] = info[j]
        BY <1>1, <3>1, Recounted
      <4>5. \A f \in InfoFields \ {"nRefCount"} : mapInfo'[id][f] = info[id][f]
        BY <1>1, <3>1, Recounted
      <4> QED  BY <4>1, <4>2, <4>3, <4>4, <4>5
    <3> QED  BY <3>2 DEF c
  <2>5. \A j \in DOMAIN info :
            /\ mapInfo'[j].fInTried = info[j].fInTried
            /\ mapInfo'[j].addr = info[j].addr /\ mapInfo'[j].port = info[j].port
            /\ mapInfo'[j].nLastSuccess = info[j].nLastSuccess
            /\ mapInfo'[j].nRandomPos = info[j].nRandomPos
    BY <2>4 DEF InfoFields
  <2>6. Listed(mapInfo', vRandom') /\ Mapped(mapInfo', mapAddr')
    <3>1. \A j \in DOMAIN info : mapInfo'[j].addr = info[j].addr /\ mapInfo'[j].nRandomPos = info[j].nRandomPos
      BY <2>5
    <3>2. Listed(mapInfo', rnd) /\ Mapped(mapInfo', known)
      BY <1>1, <2>4, <3>1, IndexKept
    <3> QED  BY <2>1, <3>2
  <2>7. NewOf(mapInfo', out) = NewOf(info, out)
    BY <2>4, <2>5 DEF NewOf
  <2>8. Fits(mapInfo', vRandom', mapAddr', out, nNew')
    BY <1>1, <2>1, <2>4, <2>6, <2>7 DEF Fits
  <2>9. BookOf(mapInfo', mapAddr') = BookOf(info, known)
    <3>1. BookOf(mapInfo', known) = BookOf(info, known)
      BY <1>1, <2>4, <2>5, SameBook
    <3> QED  BY <2>1, <3>1
  <2>10. /\ id \in DOMAIN info /\ DOMAIN mapInfo' = DOMAIN info
         /\ mapInfo'[id].nRefCount = info[id].nRefCount - 1
         /\ \A j \in DOMAIN info :
              /\ mapInfo'[j].fInTried = info[j].fInTried
              /\ mapInfo'[j].addr = info[j].addr /\ mapInfo'[j].port = info[j].port
              /\ mapInfo'[j].nLastSuccess = info[j].nLastSuccess
              /\ j # id => mapInfo'[j].nRefCount = info[j].nRefCount
    BY <1>2, <2>4, <2>5
  <2>11. Lost(info, id, mapInfo')
    BY <2>2, <2>10 DEF Lost
  <2> QED  BY <2>8, <2>9, <2>11
<1> QED  BY <1>4, <1>5

Sized(buckets) == \A b \in NewBuckets : Cardinality(buckets[b]) <= ADDRMAN_NEW_BUCKET_SIZE

\* What the end of Add_ leaves behind: at most one new entry, and not the one referred to, is gone.
Settled(info, known, out, id) ==
    /\ DOMAIN mapInfo' \subseteq DOMAIN info
    /\ Fits(mapInfo', vRandom', mapAddr', out, nNew') /\ NewSound(mapInfo', out, vvNew')
    /\ TriedOf(mapInfo', out) = TriedOf(info, out)
    /\ \A tried : TriedSound(info, out, tried) => TriedSound(mapInfo', out, tried)
    /\ \/ BookOf(mapInfo', mapAddr') = BookOf(info, known)
       \/ \E j \in NewOf(info, out) \ {id} :
             BookOf(mapInfo', mapAddr') = Without(BookOf(info, known), info[j].addr)

LEMMA PutInNewSettles ==
    ASSUME NEW info, NEW rnd, NEW known, NEW count, NEW out, Fits(info, rnd, known, out, count),
           NEW id \in NewOf(info, out), RefsBounded(info, out, id),
           NewCounted(info, out, vvNew), Sized(vvNew),
           NEW src \in Sources, NEW nNow, PutInNew(id, src, nNow, info, rnd, known, count)
    PROVE  Settled(info, known, out, id)
<1>1. /\ IsFiniteSet(DOMAIN info) /\ out \notin DOMAIN info /\ Infos(info) /\ Listed(info, rnd)
      /\ Mapped(info, known) /\ count = Cardinality(NewOf(info, out))
  BY DEF Fits
<1>2. /\ info[id].nRefCount \in 0 .. (ADDRMAN_NEW_BUCKETS_PER_ADDRESS - 1)
      /\ \A j \in NewOf(info, out) : j # id => info[j].nRefCount \in 1 .. ADDRMAN_NEW_BUCKETS_PER_ADDRESS
  BY DEF RefsBounded
<1>3. /\ DOMAIN vvNew = NewBuckets
      /\ \A j \in NewOf(info, out) : info[j].nRefCount = Cardinality(Occ(vvNew, j))
      /\ \A c \in NewBuckets : vvNew[c] \subseteq NewOf(info, out)
  BY DEF NewCounted
<1>4. \A c \in NewBuckets : Cardinality(vvNew[c]) <= ADDRMAN_NEW_BUCKET_SIZE
  BY DEF Sized
<1>5. \A c \in NewBuckets : IsFiniteSet(vvNew[c])
  BY <1>1, <1>3, FS_Subset DEF NewOf
<1>6. id \in DOMAIN info /\ IsInfo(info[id]) /\ ~info[id].fInTried /\ info[id].nRefCount \in Nat
  BY <1>1 DEF NewOf, Infos, IsInfo
<1>7. ADDRMAN_NEW_BUCKETS_PER_ADDRESS \in Nat \ {0} /\ ADDRMAN_NEW_BUCKET_SIZE \in Nat \ {0}
  BY AddrManAssumption
<1> DEFINE b == NewBucketOf[<<info[id].addr, src>>]
           referred == [info EXCEPT ![id].nRefCount = @ + 1]
           filled == [vvNew EXCEPT ![b] = @ \cup {id}]
<1>8. b \in NewBuckets
  BY <1>6, AddrManAssumption DEF IsInfo
<1>9. \/ /\ id \in vvNew[b]
         /\ mapInfo' = info /\ vRandom' = rnd /\ mapAddr' = known /\ nNew' = count /\ vvNew' = vvNew
      \/ /\ id \notin vvNew[b] /\ ~Full(b)
         /\ mapInfo' = referred /\ vRandom' = rnd /\ mapAddr' = known /\ nNew' = count
         /\ vvNew' = filled
      \/ /\ id \notin vvNew[b] /\ Full(b)
         /\ \E j \in vvNew[b] : /\ DropReference(j, referred, rnd, known, count)
                                /\ vvNew' = [vvNew EXCEPT ![b] = (@ \ {j}) \cup {id}]
  BY DEF PutInNew
<1> HIDE DEF b, referred, filled
<1>10. CASE id \in vvNew[b] /\ mapInfo' = info /\ vRandom' = rnd /\ mapAddr' = known /\ nNew' = count
            /\ vvNew' = vvNew
  <2>1. b \in Occ(vvNew, id)
    BY <1>8, <1>10 DEF Occ
  <2>2. info[id].nRefCount # 0
    BY <1>3, <2>1, OccFinite, FS_EmptySet
  <2>3. \A j \in NewOf(info, out) : info[j].nRefCount \in 1 .. ADDRMAN_NEW_BUCKETS_PER_ADDRESS
    BY <1>2, <1>6, <1>7, <2>2
  <2>4. NewSound(mapInfo', out, vvNew')
    BY <1>3, <1>4, <1>10, <2>3 DEF NewSound
  <2>5. Fits(mapInfo', vRandom', mapAddr', out, nNew')
    BY <1>10
  <2> QED  BY <1>10, <2>4, <2>5 DEF Settled
<1>11. ASSUME id \notin vvNew[b]
       PROVE  /\ Infos(referred) /\ DOMAIN referred = DOMAIN info
              /\ \A j \in DOMAIN info : j # id => referred[j] = info[j]
              /\ \A f \in InfoFields \ {"nRefCount"} : referred[id][f] = info[id][f]
              /\ referred[id].nRefCount = info[id].nRefCount + 1
              /\ NewOf(referred, out) = NewOf(info, out) /\ NewCounted(referred, out, filled)
  <2>1. referred = [info EXCEPT ![id].nRefCount = @ + 1] /\ filled = [vvNew EXCEPT ![b] = @ \cup {id}]
    BY DEF referred, filled
  <2>2. /\ Infos(referred) /\ DOMAIN referred = DOMAIN info
        /\ NewOf(referred, out) = NewOf(info, out) /\ NewCounted(referred, out, filled)
        /\ referred[id].nRefCount = info[id].nRefCount + 1
    <3>1. Gained(info, id, referred) /\ PutIn(vvNew, b, id, filled)
      BY <2>1 DEF Gained, PutIn
    <3> QED  BY <1>1, <1>8, <1>11, <3>1, Refers
  <2>3. /\ \A j \in DOMAIN info : j # id => referred[j] = info[j]
        /\ referred[id] = [info[id] EXCEPT !.nRefCount = @ + 1]
    BY <1>6, <2>1
  <2>4. \A f \in InfoFields \ {"nRefCount"} : referred[id][f] = info[id][f]
    BY <1>6, <2>3 DEF IsInfo
  <2> QED  BY <2>2, <2>3, <2>4
<1>12. ASSUME id \notin vvNew[b]
       PROVE  /\ \A j \in DOMAIN info : /\ referred[j].addr = info[j].addr /\ referred[j].port = info[j].port
                                        /\ referred[j].nRandomPos = info[j].nRandomPos
                                        /\ referred[j].fInTried = info[j].fInTried
                                        /\ referred[j].nLastSuccess = info[j].nLastSuccess
              /\ TriedOf(referred, out) = TriedOf(info, out)
              /\ \A j \in TriedOf(info, out) : j # id /\ referred[j].nRefCount = info[j].nRefCount
              /\ \A j \in NewOf(info, out) : referred[j].nRefCount \in 1 .. ADDRMAN_NEW_BUCKETS_PER_ADDRESS
              /\ Fits(referred, rnd, known, out, count)
              /\ BookOf(referred, known) = BookOf(info, known)
  <2>1. \A j \in DOMAIN info : /\ referred[j].addr = info[j].addr /\ referred[j].port = info[j].port
                               /\ referred[j].nRandomPos = info[j].nRandomPos
                               /\ referred[j].fInTried = info[j].fInTried
                               /\ referred[j].nLastSuccess = info[j].nLastSuccess
    BY <1>11, <1>12 DEF InfoFields
  <2>2. TriedOf(referred, out) = TriedOf(info, out)
    BY <1>11, <1>12, <2>1 DEF TriedOf
  <2>3. \A j \in TriedOf(info, out) : j # id /\ referred[j].nRefCount = info[j].nRefCount
    BY <1>6, <1>11, <1>12 DEF TriedOf
  <2>4. \A j \in NewOf(info, out) : referred[j].nRefCount \in 1 .. ADDRMAN_NEW_BUCKETS_PER_ADDRESS
    <3> SUFFICES ASSUME NEW j \in NewOf(info, out)
                 PROVE  referred[j].nRefCount \in 1 .. ADDRMAN_NEW_BUCKETS_PER_ADDRESS
      OBVIOUS
    <3>1. CASE j = id
      BY <1>2, <1>7, <1>11, <1>12, <3>1
    <3>2. CASE j # id
      BY <1>2, <1>11, <1>12, <3>2 DEF NewOf
    <3> QED  BY <3>1, <3>2
  <2>5. Listed(referred, rnd) /\ Mapped(referred, known)
    BY <1>1, <1>11, <1>12, <2>1, IndexKept
  <2>6. Fits(referred, rnd, known, out, count)
    BY <1>1, <1>11, <1>12, <2>5 DEF Fits
  <2>7. BookOf(referred, known) = BookOf(info, known)
    BY <1>1, <1>11, <1>12, <2>1, SameBook
  <2> QED  BY <2>1, <2>2, <2>3, <2>4, <2>6, <2>7
<1>13. /\ DOMAIN filled = NewBuckets /\ filled[b] = vvNew[b] \cup {id}
       /\ \A c \in NewBuckets : c # b => filled[c] = vvNew[c]
  BY <1>3, <1>8 DEF filled
<1>14. CASE /\ id \notin vvNew[b] /\ ~Full(b)
            /\ mapInfo' = referred /\ vRandom' = rnd /\ mapAddr' = known /\ nNew' = count
            /\ vvNew' = filled
  <2>1. Sized(filled)
    <3>1. Cardinality(filled[b]) = Cardinality(vvNew[b]) + 1 /\ Cardinality(vvNew[b]) \in Nat
      BY <1>5, <1>8, <1>13, <1>14, FS_AddElement, FS_CardinalityType
    <3>2. Cardinality(vvNew[b]) # ADDRMAN_NEW_BUCKET_SIZE
      BY <1>14 DEF Full
    <3> QED  BY <1>4, <1>7, <1>8, <1>13, <3>1, <3>2 DEF Sized
  <2>2. NewSound(referred, out, filled)
    BY <1>11, <1>12, <1>14, <2>1 DEF NewSound, NewCounted, Sized
  <2>3. \A tried : TriedSound(info, out, tried) => TriedSound(referred, out, tried)
    <3> SUFFICES ASSUME NEW tried, TriedSound(info, out, tried)
                 PROVE  TriedSound(referred, out, tried)
      OBVIOUS
    <3>1. \A j \in TriedOf(info, out) : j \in DOMAIN info
      BY DEF TriedOf
    <3>2. SameTried(info, out, referred, out)
      BY <1>12, <1>14, <3>1 DEF SameTried
    <3> QED  BY <3>2, TriedKept
  <2>4. Fits(mapInfo', vRandom', mapAddr', out, nNew')
    BY <1>12, <1>14
  <2>5. BookOf(mapInfo', mapAddr') = BookOf(info, known)
    BY <1>12, <1>14
  <2>6. NewSound(mapInfo', out, vvNew')
    BY <1>14, <2>2
  <2>7. /\ DOMAIN mapInfo' = DOMAIN info /\ TriedOf(mapInfo', out) = TriedOf(info, out)
        /\ \A tried : TriedSound(info, out, tried) => TriedSound(mapInfo', out, tried)
    BY <1>11, <1>12, <1>14, <2>3
  <2> QED  BY <2>4, <2>5, <2>6, <2>7 DEF Settled
<1>15. CASE /\ id \notin vvNew[b] /\ Full(b)
            /\ \E j \in vvNew[b] : /\ DropReference(j, referred, rnd, known, count)
                                   /\ vvNew' = [vvNew EXCEPT ![b] = (@ \ {j}) \cup {id}]
  <2>1. PICK j \in vvNew[b] : /\ DropReference(j, referred, rnd, known, count)
                              /\ vvNew' = [vvNew EXCEPT ![b] = (@ \ {j}) \cup {id}]
    BY <1>15
  <2>2. j # id /\ j \in NewOf(info, out) /\ j \in DOMAIN info
    BY <1>3, <1>8, <1>15 DEF NewOf
  <2>3. j \in NewOf(referred, out) /\ referred[j].nRefCount >= 1 /\ j \in filled[b]
    BY <1>2, <1>7, <1>11, <1>13, <1>15, <2>2
  <2>4. /\ Lost(referred, j, mapInfo') /\ Fits(mapInfo', vRandom', mapAddr', out, nNew')
        /\ \/ BookOf(mapInfo', mapAddr') = BookOf(referred, known)
           \/ BookOf(mapInfo', mapAddr') = Without(BookOf(referred, known), referred[j].addr)
    BY <1>12, <1>15, <2>1, <2>3, DropReferenceSound
  <2> DEFINE S == DOMAIN mapInfo'
  <2>5. /\ S \in {DOMAIN referred, DOMAIN referred \ {j}}
        /\ j \in S => mapInfo'[j].nRefCount = referred[j].nRefCount - 1 /\ referred[j].nRefCount > 1
        /\ \A i \in S : /\ mapInfo'[i].fInTried = referred[i].fInTried
                        /\ mapInfo'[i].addr = referred[i].addr /\ mapInfo'[i].port = referred[i].port
                        /\ mapInfo'[i].nLastSuccess = referred[i].nLastSuccess
                        /\ i # j => mapInfo'[i].nRefCount = referred[i].nRefCount
    BY <2>4 DEF Lost
  <2>6. vvNew' = [filled EXCEPT ![b] = @ \ {j}]
    <3>1. (filled[b] \ {j}) = (vvNew[b] \ {j}) \cup {id}
      BY <1>13, <2>2
    <3> QED  BY <1>3, <1>8, <1>13, <2>1, <3>1
  <2>7. NewOf(mapInfo', out) = NewOf(referred, out) \cap S /\ NewCounted(mapInfo', out, vvNew')
    <3>1. NewCounted(referred, out, filled) /\ TakenOut(filled, b, j, vvNew')
      BY <1>11, <1>15, <2>6 DEF TakenOut
    <3> QED  BY <1>8, <2>3, <2>4, <3>1, Unrefers
  <2>8. Sized(vvNew')
    <3>1. vvNew'[b] = (vvNew[b] \ {j}) \cup {id} /\ \A c \in NewBuckets : c # b => vvNew'[c] = vvNew[c]
      BY <1>3, <1>8, <2>1
    <3>2. Cardinality(vvNew'[b]) = Cardinality(vvNew[b])
      <4>1. IsFiniteSet(vvNew[b] \ {j}) /\ Cardinality(vvNew[b] \ {j}) = Cardinality(vvNew[b]) - 1
        BY <1>5, <1>8, FS_RemoveElement
      <4>2. Cardinality((vvNew[b] \ {j}) \cup {id}) = Cardinality(vvNew[b] \ {j}) + 1
        BY <1>15, <4>1, FS_AddElement
      <4>3. Cardinality(vvNew[b]) \in Nat
        BY <1>5, <1>8, FS_CardinalityType
      <4> QED  BY <3>1, <4>1, <4>2, <4>3
    <3> QED  BY <1>4, <1>8, <3>1, <3>2 DEF Sized
  <2>9. NewSound(mapInfo', out, vvNew')
    <3>1. \A i \in NewOf(mapInfo', out) : mapInfo'[i].nRefCount \in 1 .. ADDRMAN_NEW_BUCKETS_PER_ADDRESS
      <4> SUFFICES ASSUME NEW i \in NewOf(mapInfo', out)
                   PROVE  mapInfo'[i].nRefCount \in 1 .. ADDRMAN_NEW_BUCKETS_PER_ADDRESS
        OBVIOUS
      <4>1. i \in S /\ referred[i].nRefCount \in 1 .. ADDRMAN_NEW_BUCKETS_PER_ADDRESS
        BY <1>11, <1>12, <1>15, <2>7
      <4> QED  BY <1>7, <2>5, <4>1
    <3> QED  BY <2>7, <2>8, <3>1 DEF NewSound, NewCounted, Sized
  <2>10. TriedOf(mapInfo', out) = TriedOf(info, out)
    <3>1. \A i \in TriedOf(referred, out) : i # j
      BY <1>11, <1>12, <1>15, <2>2 DEF TriedOf, NewOf
    <3>2. TriedOf(referred, out) \subseteq S
      BY <2>5, <3>1 DEF TriedOf
    <3>3. S \subseteq DOMAIN referred
      BY <2>5
    <3>4. TriedOf(mapInfo', out) = TriedOf(referred, out)
      BY <2>5, <3>2, <3>3 DEF TriedOf
    <3> QED  BY <1>12, <1>15, <3>4
  <2>11. \A tried : TriedSound(info, out, tried) => TriedSound(mapInfo', out, tried)
    <3> SUFFICES ASSUME NEW tried, TriedSound(info, out, tried)
                 PROVE  TriedSound(mapInfo', out, tried)
      OBVIOUS
    <3>1. \A i \in TriedOf(info, out) : i \in S /\ i \in DOMAIN info /\ i # j
      BY <2>2, <2>5, <2>10 DEF TriedOf, NewOf
    <3>2. \A i \in TriedOf(info, out) :
             /\ mapInfo'[i].addr = info[i].addr /\ mapInfo'[i].port = info[i].port
             /\ mapInfo'[i].nRefCount = info[i].nRefCount
             /\ info[i].nLastSuccess # 0 => mapInfo'[i].nLastSuccess # 0
      BY <1>12, <1>15, <2>5, <3>1
    <3>3. SameTried(info, out, mapInfo', out)
      BY <2>10, <3>2 DEF SameTried
    <3> QED  BY <3>3, TriedKept
  <2>12. \/ BookOf(mapInfo', mapAddr') = BookOf(info, known)
         \/ \E i \in NewOf(info, out) \ {id} :
               BookOf(mapInfo', mapAddr') = Without(BookOf(info, known), info[i].addr)
    BY <1>12, <1>15, <2>2, <2>4
  <2>13. DOMAIN mapInfo' \subseteq DOMAIN info
    BY <1>11, <1>15, <2>5
  <2>14. Fits(mapInfo', vRandom', mapAddr', out, nNew')
    BY <2>4
  <2> QED  BY <2>9, <2>10, <2>11, <2>12, <2>13, <2>14 DEF Settled
<1> QED  BY <1>9, <1>10, <1>14, <1>15

LEMMA SettledKeeps ==
    ASSUME AddrInv, pc = "free", NEW info, NEW known, NEW id, Settled(info, known, moving.id, id),
           TriedSound(info, moving.id, vvTried), TriedOf(info, moving.id) = TriedOf(mapInfo, moving.id),
           nIdCount' \in Nat, DOMAIN info \subseteq 0 .. (nIdCount' - 1),
           UNCHANGED <<nTried, vvTried, pc, moving, shuffled>>
    PROVE  AddrInv'
<1>1. /\ shuffled \in Nat /\ pc \in {"free", "evict", "getaddr"} /\ MovingSound
      /\ nTried = Cardinality(TriedOf(mapInfo, moving.id))
  BY DEF AddrInv
<1>2. /\ DOMAIN mapInfo' \subseteq DOMAIN info
      /\ Fits(mapInfo', vRandom', mapAddr', moving.id, nNew') /\ NewSound(mapInfo', moving.id, vvNew')
      /\ TriedOf(mapInfo', moving.id) = TriedOf(info, moving.id)
      /\ TriedSound(mapInfo', moving.id, vvTried)
  BY DEF Settled
<1>3. /\ Infos(mapInfo') /\ Listed(mapInfo', vRandom') /\ Mapped(mapInfo', mapAddr')
      /\ nNew' = Cardinality(NewOf(mapInfo', moving.id))
  BY <1>2 DEF Fits
<1>4. moving' = moving /\ pc' = pc /\ shuffled' = shuffled /\ vvTried' = vvTried /\ nTried' = nTried
  OBVIOUS
<1>5. MovingSound'
  BY <1>1, <1>4 DEF MovingSound, NotMoving, NoId
<1>6. nTried' = Cardinality(TriedOf(mapInfo', moving.id'))
  BY <1>1, <1>2, <1>4
<1>7. Ids' \subseteq 0 .. (nIdCount' - 1)
  BY <1>2 DEF Ids
<1> QED  BY <1>1, <1>2, <1>3, <1>4, <1>5, <1>6, <1>7 DEF AddrInv

\* The tables with the entry that Create makes.
Created(a, p, src, t, penalty) ==
    [j \in Ids \cup {nIdCount} |-> IF j = nIdCount THEN Entry(a, p, src, Positive(t - penalty), Len(vRandom) + 1)
                                                   ELSE mapInfo[j]]
KnownWith(a) == [x \in DOMAIN mapAddr \cup {a} |-> IF x = a THEN nIdCount ELSE mapAddr[x]]

LEMMA FreeFits ==
    ASSUME AddrInv, pc = "free"
    PROVE  /\ moving = NotMoving /\ moving.id = -1 /\ moving.id \notin Ids
           /\ Fits(mapInfo, vRandom, mapAddr, moving.id, nNew)
<1>1. /\ nIdCount \in Nat /\ Ids \subseteq 0 .. (nIdCount - 1) /\ MovingSound
      /\ Infos(mapInfo) /\ Listed(mapInfo, vRandom) /\ Mapped(mapInfo, mapAddr)
      /\ nNew = Cardinality(NewOf(mapInfo, moving.id))
  BY DEF AddrInv
<1>2. moving = NotMoving /\ moving.id = -1
  BY <1>1 DEF MovingSound, NotMoving, NoId
<1>3. IsFiniteSet(Ids) /\ -1 \notin Ids
  BY <1>1, IdsFinite
<1> QED  BY <1>1, <1>2, <1>3 DEF Fits, Ids

\* info: the tables with the new entry, before it is put into a bucket.
Creates(info, a) ==
    /\ Settled(info, KnownWith(a), moving.id, nIdCount) /\ TriedSound(info, moving.id, vvTried)
    /\ TriedOf(info, moving.id) = TriedOf(mapInfo, moving.id)
    /\ NewOf(info, moving.id) = NewOf(mapInfo, moving.id) \cup {nIdCount}
    /\ DOMAIN info = Ids \cup {nIdCount} /\ nIdCount \notin Ids
    /\ \A j \in Ids : info[j] = mapInfo[j]
    /\ info[nIdCount].addr = a /\ info[nIdCount].fInTried = FALSE

LEMMA AddNewSettles ==
    ASSUME AddrInv, NEW a \in Addrs, NEW p \in Ports, NEW src \in Sources, NEW t, NEW penalty, NEW nNow,
           AddNew(a, p, src, t, penalty, nNow)
    PROVE  \E info : Creates(info, a)
<1> DEFINE info == Created(a, p, src, t, penalty)
           known == KnownWith(a)
<1>1. /\ nIdCount \in Nat /\ Ids \subseteq 0 .. (nIdCount - 1)
      /\ Infos(mapInfo) /\ Listed(mapInfo, vRandom) /\ Mapped(mapInfo, mapAddr)
      /\ NewSound(mapInfo, moving.id, vvNew) /\ TriedSound(mapInfo, moving.id, vvTried)
      /\ nNew = Cardinality(NewOf(mapInfo, moving.id))
  BY DEF AddrInv
<1>2. /\ pc = "free" /\ a \notin DOMAIN mapAddr
      /\ PutInNew(nIdCount, src, nNow, info, Append(vRandom, nIdCount), known, nNew + 1)
  BY DEF AddNew, Found, Created, KnownWith
<1>3. /\ moving.id = -1 /\ moving.id \notin Ids /\ Fits(mapInfo, vRandom, mapAddr, moving.id, nNew)
  BY <1>2, FreeFits
<1>4. nIdCount \notin Ids /\ nIdCount # moving.id
  BY <1>1, <1>3
<1> DEFINE e == Entry(a, p, src, Positive(t - penalty), Len(vRandom) + 1)
<1>5. /\ DOMAIN info = Ids \cup {nIdCount} /\ \A j \in Ids : info[j] = mapInfo[j]
      /\ info[nIdCount] = e
  BY <1>4 DEF Created
<1>6. /\ IsInfo(e) /\ e.addr = a /\ ~e.fInTried /\ e.nRefCount = 0 /\ e.nRandomPos = Len(vRandom) + 1
      /\ e.fInTried = FALSE
  BY DEF Entry, IsInfo, InfoFields
<1> HIDE DEF e, info, known
<1>7. Infos(info)
  BY <1>1, <1>5, <1>6 DEF Infos, Ids
<1>8. Listed(info, Append(vRandom, nIdCount)) /\ Mapped(info, known)
  <2>1. info = With(mapInfo, nIdCount, e) /\ known = With(mapAddr, e.addr, nIdCount)
    BY <1>6 DEF With, info, known, Created, KnownWith, e, Ids
  <2>2. nIdCount \notin DOMAIN mapInfo /\ e.addr \notin DOMAIN mapAddr
    BY <1>2, <1>4, <1>6 DEF Ids
  <2> QED  BY <1>1, <1>6, <2>1, <2>2, AppendEntry
<1>9. /\ NewOf(info, moving.id) = NewOf(mapInfo, moving.id) \cup {nIdCount}
      /\ TriedOf(info, moving.id) = TriedOf(mapInfo, moving.id)
      /\ nIdCount \notin NewOf(mapInfo, moving.id)
  BY <1>4, <1>5, <1>6 DEF NewOf, TriedOf, Ids
<1>10. Fits(info, Append(vRandom, nIdCount), known, moving.id, nNew + 1)
  <2>1. IsFiniteSet(Ids) /\ IsFiniteSet(NewOf(mapInfo, moving.id))
    BY <1>3, FS_Subset DEF Fits, NewOf, Ids
  <2>2. IsFiniteSet(DOMAIN info)
    BY <1>5, <2>1, FS_AddElement
  <2>3. Cardinality(NewOf(info, moving.id)) = nNew + 1
    BY <1>1, <1>9, <2>1, FS_AddElement
  <2>4. moving.id \notin DOMAIN info
    BY <1>3, <1>4, <1>5
  <2> QED  BY <1>7, <1>8, <2>2, <2>3, <2>4 DEF Fits
<1>11. nIdCount \in NewOf(info, moving.id)
  BY <1>9
<1>12. /\ DOMAIN vvNew = NewBuckets
       /\ \A j \in NewOf(mapInfo, moving.id) : /\ mapInfo[j].nRefCount = Cardinality(Occ(vvNew, j))
                                               /\ mapInfo[j].nRefCount \in 1 .. ADDRMAN_NEW_BUCKETS_PER_ADDRESS
       /\ \A b \in NewBuckets : vvNew[b] \subseteq NewOf(mapInfo, moving.id)
       /\ Sized(vvNew)
  BY <1>1 DEF NewSound, Sized
<1>13. RefsBounded(info, moving.id, nIdCount)
  <2>1. \A j \in NewOf(mapInfo, moving.id) : j \in Ids
    BY DEF NewOf, Ids
  <2> QED  BY <1>5, <1>6, <1>9, <1>12, <2>1, AddrManAssumption DEF RefsBounded
<1>14. NewCounted(info, moving.id, vvNew)
  <2>1. Occ(vvNew, nIdCount) = {}
    BY <1>9, <1>12 DEF Occ
  <2>2. Cardinality(Occ(vvNew, nIdCount)) = 0
    BY <2>1, FS_EmptySet
  <2>3. \A j \in NewOf(mapInfo, moving.id) : j \in Ids
    BY DEF NewOf, Ids
  <2> QED  BY <1>5, <1>6, <1>9, <1>12, <2>2, <2>3 DEF NewCounted
<1>15. Settled(info, known, moving.id, nIdCount)
  BY <1>2, <1>10, <1>11, <1>12, <1>13, <1>14, PutInNewSettles
<1>16. TriedSound(info, moving.id, vvTried)
  <2>1. \A j \in TriedOf(mapInfo, moving.id) : info[j] = mapInfo[j]
    BY <1>5 DEF TriedOf, Ids
  <2>2. SameTried(mapInfo, moving.id, info, moving.id)
    BY <1>9, <2>1 DEF SameTried
  <2> QED  BY <1>1, <2>2, TriedKept
<1>17. Creates(info, a)
  BY <1>4, <1>5, <1>6, <1>9, <1>15, <1>16 DEF Creates, known
<1> QED  BY <1>17

LEMMA AddNewKeeps ==
    ASSUME AddrInv, NEW a \in Addrs, NEW p \in Ports, NEW src \in Sources, NEW t, NEW penalty, NEW nNow,
           AddNew(a, p, src, t, penalty, nNow)
    PROVE  AddrInv'
<1>1. PICK info : Creates(info, a)
  BY AddNewSettles
<1>2. nIdCount \in Nat /\ Ids \subseteq 0 .. (nIdCount - 1)
  BY DEF AddrInv
<1>3. pc = "free" /\ nIdCount' = nIdCount + 1 /\ UNCHANGED <<nTried, vvTried, pc, moving, shuffled>>
  BY DEF AddNew
<1>4. nIdCount' \in Nat /\ DOMAIN info \subseteq 0 .. (nIdCount' - 1)
  BY <1>1, <1>2, <1>3 DEF Creates
<1> QED  BY <1>1, <1>3, <1>4, SettledKeeps DEF Creates

\* info: the tables with the new nTime; the entry may then be put into one more bucket.
Updates(info, id) ==
    /\ DOMAIN info = Ids /\ \A j \in Ids : Alike(info[j], mapInfo[j])
    /\ \A j \in Ids : info[j].nRandomPos = mapInfo[j].nRandomPos
    /\ \/ mapInfo' = info /\ UNCHANGED <<mapAddr, vRandom, nNew, vvNew>>
       \/ Settled(info, mapAddr, moving.id, id)

LEMMA AddKnownSettles ==
    ASSUME AddrInv, NEW a, NEW src \in Sources, NEW t, NEW penalty, NEW nNow,
           AddKnown(a, src, t, penalty, nNow)
    PROVE  mapAddr[a] \in Ids /\ \E info : Updates(info, mapAddr[a])
<1> DEFINE id == mapAddr[a]
           updated == [mapInfo EXCEPT ![id].nTime = TimeAfter(mapInfo[id], t, penalty, nNow)]
<1>1. /\ pc = "free" /\ a \in DOMAIN mapAddr
      /\ \/ mapInfo' = updated /\ UNCHANGED <<mapAddr, vRandom, nNew, vvNew>>
         \/ MayRefer(updated[id], t) /\ PutInNew(id, src, nNow, updated, vRandom, mapAddr, nNew)
  BY DEF AddKnown, Found
<1>2. /\ Infos(mapInfo) /\ Listed(mapInfo, vRandom) /\ Mapped(mapInfo, mapAddr)
      /\ NewSound(mapInfo, moving.id, vvNew) /\ TriedSound(mapInfo, moving.id, vvTried)
  BY DEF AddrInv
<1>3. moving.id \notin Ids /\ Fits(mapInfo, vRandom, mapAddr, moving.id, nNew)
  BY <1>1, FreeFits
<1>4. id \in Ids /\ IsInfo(mapInfo[id])
  BY <1>1, <1>2 DEF Mapped, Ids, Infos
<1>5. DOMAIN updated = DOMAIN mapInfo /\ \A j \in DOMAIN mapInfo : Alike(updated[j], mapInfo[j])
  BY <1>2, <1>4 DEF Alike, Infos, IsInfo, InfoFields, Ids
<1>6. \A j \in DOMAIN mapInfo : updated[j].addr = mapInfo[j].addr /\ updated[j].nRandomPos = mapInfo[j].nRandomPos
  BY <1>2, <1>4 DEF Infos, IsInfo, InfoFields, Ids
<1> HIDE DEF id, updated
<1>7. Listed(updated, vRandom)
  BY <1>2, <1>5, <1>6, IndexKept
<1>8. /\ Infos(updated) /\ Mapped(updated, mapAddr)
      /\ NewOf(updated, moving.id) = NewOf(mapInfo, moving.id)
      /\ NewSound(updated, moving.id, vvNew)
  BY <1>2, <1>5, AlikeInfos
<1>9. ASSUME MayRefer(updated[id], t), PutInNew(id, src, nNow, updated, vRandom, mapAddr, nNew)
      PROVE  Settled(updated, mapAddr, moving.id, id)
  <2>1. ~updated[id].fInTried /\ updated[id].nRefCount # ADDRMAN_NEW_BUCKETS_PER_ADDRESS
    BY <1>9 DEF MayRefer
  <2>2. id \in NewOf(updated, moving.id)
    BY <1>3, <1>4, <1>5, <2>1 DEF NewOf, Ids
  <2>3. /\ \A j \in NewOf(updated, moving.id) : /\ updated[j].nRefCount = Cardinality(Occ(vvNew, j))
                                                /\ updated[j].nRefCount \in 1 .. ADDRMAN_NEW_BUCKETS_PER_ADDRESS
        /\ NewCounted(updated, moving.id, vvNew) /\ Sized(vvNew)
    BY <1>8 DEF NewSound, NewCounted, Sized
  <2>4. RefsBounded(updated, moving.id, id)
    BY <2>1, <2>2, <2>3, AddrManAssumption DEF RefsBounded
  <2>5. Fits(updated, vRandom, mapAddr, moving.id, nNew)
    BY <1>3, <1>5, <1>8, <1>7 DEF Fits
  <2> QED  BY <1>9, <2>2, <2>3, <2>4, <2>5, PutInNewSettles
<1>10. Updates(updated, id)
  BY <1>1, <1>5, <1>6, <1>9 DEF Updates, Ids, id, updated
<1> QED  BY <1>4, <1>10 DEF id

LEMMA AddKnownKeeps ==
    ASSUME AddrInv, NEW a, NEW src \in Sources, NEW t, NEW penalty, NEW nNow,
           AddKnown(a, src, t, penalty, nNow)
    PROVE  AddrInv'
<1>1. /\ pc = "free" /\ UNCHANGED <<nIdCount, nTried, vvTried, pc, moving, shuffled>>
      /\ moving = NotMoving
  <2>1. pc = "free" /\ UNCHANGED <<nIdCount, nTried, vvTried, pc, moving, shuffled>>
    BY DEF AddKnown
  <2> QED  BY <2>1, FreeFits
<1>2. /\ nIdCount \in Nat /\ Ids \subseteq 0 .. (nIdCount - 1)
      /\ Infos(mapInfo) /\ Listed(mapInfo, vRandom) /\ Mapped(mapInfo, mapAddr)
      /\ NewSound(mapInfo, moving.id, vvNew) /\ TriedSound(mapInfo, moving.id, vvTried)
      /\ nNew = Cardinality(NewOf(mapInfo, moving.id)) /\ nTried = Cardinality(TriedOf(mapInfo, moving.id))
      /\ shuffled \in Nat /\ pc \in {"free", "evict", "getaddr"} /\ MovingSound
  BY DEF AddrInv
<1>3. PICK info : Updates(info, mapAddr[a])
  BY AddKnownSettles
<1>4. /\ DOMAIN info = DOMAIN mapInfo /\ \A j \in DOMAIN mapInfo : Alike(info[j], mapInfo[j])
      /\ \A j \in DOMAIN mapInfo : info[j].addr = mapInfo[j].addr /\ info[j].nRandomPos = mapInfo[j].nRandomPos
      /\ \/ mapInfo' = info /\ UNCHANGED <<mapAddr, vRandom, nNew, vvNew>>
         \/ Settled(info, mapAddr, moving.id, mapAddr[a])
  BY <1>3 DEF Updates, Ids, Alike
<1>5. Listed(info, vRandom)
  BY <1>2, <1>4, IndexKept
<1>6. /\ Infos(info) /\ Mapped(info, mapAddr)
      /\ NewOf(info, moving.id) = NewOf(mapInfo, moving.id)
      /\ TriedOf(info, moving.id) = TriedOf(mapInfo, moving.id)
      /\ NewSound(info, moving.id, vvNew) /\ TriedSound(info, moving.id, vvTried)
  BY <1>2, <1>4, AlikeInfos
<1>7. CASE mapInfo' = info /\ UNCHANGED <<mapAddr, vRandom, nNew, vvNew>>
  <2>1. Ids' = Ids
    BY <1>4, <1>7 DEF Ids
  <2>2. MovingSound'
    BY <1>1 DEF MovingSound
  <2> QED  BY <1>1, <1>2, <1>5, <1>6, <1>7, <2>1, <2>2 DEF AddrInv
<1>8. CASE Settled(info, mapAddr, moving.id, mapAddr[a])
  <2>1. nIdCount' \in Nat /\ DOMAIN info \subseteq 0 .. (nIdCount' - 1)
    BY <1>1, <1>2, <1>4 DEF Ids
  <2> QED  BY <1>1, <1>6, <1>8, <2>1, SettledKeeps
<1> QED  BY <1>4, <1>7, <1>8

----------------------------------------------------------------------------
(* Attempt_, Connected_ and Good_ of an entry that is in the tried table.  *)

LEMMA AlikeKeeps ==
    ASSUME AddrInv, DOMAIN mapInfo' = DOMAIN mapInfo,
           \A id \in DOMAIN mapInfo : /\ Alike(mapInfo'[id], mapInfo[id])
                                      /\ mapInfo'[id].nRandomPos = mapInfo[id].nRandomPos,
           pc = "free",
           UNCHANGED <<nIdCount, mapAddr, vRandom, nTried, vvTried, nNew, vvNew, pc, moving, shuffled>>
    PROVE  AddrInv'
<1>1. /\ nIdCount \in Nat /\ Ids \subseteq 0 .. (nIdCount - 1)
      /\ Infos(mapInfo) /\ Listed(mapInfo, vRandom) /\ Mapped(mapInfo, mapAddr)
      /\ NewSound(mapInfo, moving.id, vvNew) /\ TriedSound(mapInfo, moving.id, vvTried)
      /\ nNew = Cardinality(NewOf(mapInfo, moving.id)) /\ nTried = Cardinality(TriedOf(mapInfo, moving.id))
      /\ shuffled \in Nat /\ pc \in {"free", "evict", "getaddr"} /\ MovingSound
  BY DEF AddrInv
<1>2. /\ nIdCount' = nIdCount /\ mapAddr' = mapAddr /\ vRandom' = vRandom /\ nTried' = nTried
      /\ vvTried' = vvTried /\ nNew' = nNew /\ vvNew' = vvNew /\ pc' = pc /\ moving' = moving
      /\ shuffled' = shuffled
  OBVIOUS
<1>3. /\ Infos(mapInfo') /\ Mapped(mapInfo', mapAddr)
      /\ NewOf(mapInfo', moving.id) = NewOf(mapInfo, moving.id)
      /\ TriedOf(mapInfo', moving.id) = TriedOf(mapInfo, moving.id)
      /\ NewSound(mapInfo', moving.id, vvNew) /\ TriedSound(mapInfo', moving.id, vvTried)
  BY <1>1, AlikeInfos
<1>4. Listed(mapInfo', vRandom)
  <2>1. \A id \in DOMAIN mapInfo : /\ mapInfo'[id].addr = mapInfo[id].addr
                                   /\ mapInfo'[id].nRandomPos = mapInfo[id].nRandomPos
    BY DEF Alike
  <2> QED  BY <1>1, <2>1, IndexKept
<1>5. Ids' = Ids
  BY DEF Ids
<1>6. MovingSound'
  BY <1>1, <1>2 DEF MovingSound, NotMoving, NoId
<1> QED  BY <1>1, <1>2, <1>3, <1>4, <1>5, <1>6 DEF AddrInv

LEMMA AttemptKeeps ==
    ASSUME AddrInv, NEW a, NEW p, NEW nTime \in Times,
           Attempt(a, p, nTime) \/ Connected(a, p, nTime) \/ GoodAgain(a, p, nTime)
    PROVE  AddrInv'
<1> DEFINE id == mapAddr[a]
<1>1. Infos(mapInfo) /\ Mapped(mapInfo, mapAddr)
  BY DEF AddrInv
<1>2. pc = "free" /\ a \in DOMAIN mapAddr
  BY DEF Attempt, Connected, GoodAgain, Same, Found
<1>3. id \in DOMAIN mapInfo /\ IsInfo(mapInfo[id])
  BY <1>1, <1>2 DEF Mapped, Infos
<1>4. UNCHANGED <<nIdCount, mapAddr, vRandom, nTried, vvTried, nNew, vvNew, pc, moving, shuffled>>
  BY DEF Attempt, Connected, GoodAgain
<1>5. nTime # 0
  BY AddrManAssumption
<1>6. \/ mapInfo' = [mapInfo EXCEPT ![id].nLastTry = nTime, ![id].nAttempts = @ + 1]
      \/ mapInfo' = [mapInfo EXCEPT ![id].nTime = nTime]
      \/ mapInfo' = Succeeded(id, nTime)
  BY DEF Attempt, Connected, GoodAgain
<1> HIDE DEF id
<1>7. /\ DOMAIN mapInfo' = DOMAIN mapInfo
      /\ \A j \in DOMAIN mapInfo : j # id => mapInfo'[j] = mapInfo[j]
  BY <1>6 DEF Succeeded
<1>8. Alike(mapInfo'[id], mapInfo[id]) /\ mapInfo'[id].nRandomPos = mapInfo[id].nRandomPos
  BY <1>3, <1>5, <1>6 DEF Succeeded, Alike, IsInfo, InfoFields
<1>9. \A j \in DOMAIN mapInfo : /\ Alike(mapInfo'[j], mapInfo[j])
                                /\ mapInfo'[j].nRandomPos = mapInfo[j].nRandomPos
  BY <1>1, <1>7, <1>8 DEF Infos, Alike
<1> QED  BY <1>2, <1>4, <1>7, <1>9, AlikeKeeps

----------------------------------------------------------------------------
(* Good_ of a new entry.                                                   *)

\* The entry leaves all the new buckets.
Left(buckets, id) == [c \in NewBuckets |-> IF c \in Occ(buckets, id) THEN buckets[c] \ {id} ELSE buckets[c]]

OneLess(info, out, id, next, out2) ==
    /\ NewOf(next, out2) = NewOf(info, out) \ {id}
    /\ \A j \in NewOf(info, out) : j # id => next[j] = info[j]

LEMMA LeavesNew ==
    ASSUME NEW info, NEW out, NEW buckets, NewSound(info, out, buckets), IsFiniteSet(DOMAIN info),
           NEW id \in NewOf(info, out), NEW next, NEW out2, OneLess(info, out, id, next, out2)
    PROVE  /\ NewSound(next, out2, Left(buckets, id))
           /\ Cardinality(NewOf(next, out2)) = Cardinality(NewOf(info, out)) - 1
           /\ \A c \in Occ(buckets, id) : Cardinality(Left(buckets, id)[c]) < ADDRMAN_NEW_BUCKET_SIZE
<1> DEFINE left == Left(buckets, id)
<1>0. /\ NewOf(next, out2) = NewOf(info, out) \ {id}
      /\ \A j \in NewOf(info, out) : j # id => next[j] = info[j]
  BY DEF OneLess
<1>1. /\ DOMAIN buckets = NewBuckets
      /\ \A j \in NewOf(info, out) : /\ info[j].nRefCount = Cardinality(Occ(buckets, j))
                                     /\ info[j].nRefCount \in 1 .. ADDRMAN_NEW_BUCKETS_PER_ADDRESS
      /\ \A b \in NewBuckets : buckets[b] \subseteq NewOf(info, out)
      /\ \A b \in NewBuckets : Cardinality(buckets[b]) <= ADDRMAN_NEW_BUCKET_SIZE
  BY DEF NewSound
<1>2. IsFiniteSet(NewOf(info, out)) /\ \A b \in NewBuckets : IsFiniteSet(buckets[b])
  <2>1. IsFiniteSet(NewOf(info, out))
    BY FS_Subset DEF NewOf
  <2> QED  BY <1>1, <2>1, FS_Subset
<1>3. DOMAIN left = NewBuckets /\ \A c \in NewBuckets : left[c] = buckets[c] \ {id}
  BY DEF Left, Occ
<1> HIDE DEF left
<1>4. \A j \in NewOf(info, out) : j # id => Occ(left, j) = Occ(buckets, j)
  BY <1>3 DEF Occ
<1>5. \A j \in NewOf(next, out2) : /\ next[j].nRefCount = Cardinality(Occ(left, j))
                                   /\ next[j].nRefCount \in 1 .. ADDRMAN_NEW_BUCKETS_PER_ADDRESS
  BY <1>0, <1>1, <1>4
<1>6. \A b \in NewBuckets : left[b] \subseteq NewOf(next, out2)
  BY <1>0, <1>1, <1>3
<1>7. \A b \in NewBuckets : Cardinality(left[b]) <= ADDRMAN_NEW_BUCKET_SIZE
  <2> SUFFICES ASSUME NEW b \in NewBuckets
               PROVE  Cardinality(left[b]) <= ADDRMAN_NEW_BUCKET_SIZE
    OBVIOUS
  <2>1. Cardinality(left[b]) <= Cardinality(buckets[b])
    BY <1>2, <1>3, FS_Subset
  <2>2. Cardinality(left[b]) \in Nat /\ Cardinality(buckets[b]) \in Nat
    BY <1>2, <1>3, FS_Subset, FS_CardinalityType
  <2> QED  BY <1>1, <2>1, <2>2, AddrManAssumption
<1>8. \A c \in Occ(buckets, id) : Cardinality(left[c]) < ADDRMAN_NEW_BUCKET_SIZE
  <2> SUFFICES ASSUME NEW c \in Occ(buckets, id)
               PROVE  Cardinality(left[c]) < ADDRMAN_NEW_BUCKET_SIZE
    OBVIOUS
  <2>1. c \in NewBuckets /\ id \in buckets[c]
    BY DEF Occ
  <2>2. Cardinality(left[c]) = Cardinality(buckets[c]) - 1 /\ Cardinality(buckets[c]) \in Nat
    <3>1. IsFiniteSet(buckets[c]) /\ left[c] = buckets[c] \ {id}
      BY <1>2, <1>3, <2>1
    <3>2. Cardinality(buckets[c] \ {id}) = Cardinality(buckets[c]) - 1
      BY <2>1, <3>1, FS_RemoveElement
    <3> QED  BY <3>1, <3>2, FS_CardinalityType
  <2> QED  BY <1>1, <2>1, <2>2, AddrManAssumption
<1>9. Cardinality(NewOf(next, out2)) = Cardinality(NewOf(info, out)) - 1
  BY <1>0, <1>2, FS_RemoveElement
<1> QED  BY <1>3, <1>5, <1>6, <1>7, <1>8, <1>9 DEF NewSound, left

LEMMA HomeOfInfo ==
    ASSUME NEW e, IsInfo(e)
    PROVE  TriedHome(e) \in TriedBuckets
BY AddrManAssumption DEF IsInfo, TriedHome

\* An entry that is in neither table is put at the end of its tried bucket.
LEMMA JoinsTried ==
    ASSUME NEW info, NEW out, NEW tried, TriedSound(info, out, tried), NEW next, NEW out2, NEW id,
           id \notin TriedOf(info, out), TriedOf(next, out2) = TriedOf(info, out) \cup {id},
           \A j \in TriedOf(info, out) : next[j] = info[j], Infos(info),
           next[id].nLastSuccess # 0, next[id].nRefCount = 0, TriedHome(next[id]) \in TriedBuckets,
           Len(tried[TriedHome(next[id])]) < ADDRMAN_TRIED_BUCKET_SIZE
    PROVE  TriedSound(next, out2, [tried EXCEPT ![TriedHome(next[id])] = Append(@, id)])
<1> DEFINE b == TriedHome(next[id])
           longer == Append(tried[b], id)
           filled == [tried EXCEPT ![b] = Append(@, id)]
<1>1. /\ \A j \in TriedOf(info, out) :
            /\ info[j].nLastSuccess # 0 /\ info[j].nRefCount = 0
            /\ \E k \in 1 .. Len(tried[TriedHome(info[j])]) : tried[TriedHome(info[j])][k] = j
      /\ DOMAIN tried = TriedBuckets
      /\ \A c \in TriedBuckets :
            /\ tried[c] \in Seq(TriedOf(info, out)) /\ Len(tried[c]) <= ADDRMAN_TRIED_BUCKET_SIZE
            /\ \A k, l \in 1 .. Len(tried[c]) : tried[c][k] = tried[c][l] => k = l
            /\ \A k \in 1 .. Len(tried[c]) : TriedHome(info[tried[c][k]]) = c
  BY DEF TriedSound
<1>2. \A c \in TriedBuckets : \A k \in 1 .. Len(tried[c]) : tried[c][k] \in TriedOf(info, out)
  BY <1>1, ElementOfSeq
<1>3. b \in TriedBuckets /\ Len(tried[b]) < ADDRMAN_TRIED_BUCKET_SIZE /\ Len(tried[b]) \in Nat
  BY <1>1, LenProperties
<1>4. /\ DOMAIN filled = TriedBuckets /\ filled[b] = longer
      /\ \A c \in TriedBuckets : c # b => filled[c] = tried[c]
  BY <1>1, <1>3
<1>5. \A c \in TriedBuckets : tried[c] \in Seq(TriedOf(next, out2))
  <2>1. TriedOf(info, out) \subseteq TriedOf(next, out2)
    OBVIOUS
  <2> QED  BY <1>1, <2>1
<1>6. /\ longer \in Seq(TriedOf(next, out2)) /\ Len(longer) = Len(tried[b]) + 1
      /\ \A k \in 1 .. Len(tried[b]) : longer[k] = tried[b][k]
      /\ longer[Len(tried[b]) + 1] = id
  BY <1>3, <1>5, AppendProperties
<1> HIDE DEF b, longer, filled
<1>7. \A c \in TriedBuckets : filled[c] \in Seq(TriedOf(next, out2)) /\ Len(filled[c]) <= ADDRMAN_TRIED_BUCKET_SIZE
  <2> SUFFICES ASSUME NEW c \in TriedBuckets
               PROVE  filled[c] \in Seq(TriedOf(next, out2)) /\ Len(filled[c]) <= ADDRMAN_TRIED_BUCKET_SIZE
    OBVIOUS
  <2>1. CASE c = b
    BY <1>3, <1>4, <1>6, <2>1, AddrManAssumption
  <2>2. CASE c # b
    BY <1>1, <1>4, <1>5, <2>2
  <2> QED  BY <2>1, <2>2
<1>8. \A c \in TriedBuckets : \A k \in 1 .. Len(filled[c]) : TriedHome(next[filled[c][k]]) = c
  <2> SUFFICES ASSUME NEW c \in TriedBuckets, NEW k \in 1 .. Len(filled[c])
               PROVE  TriedHome(next[filled[c][k]]) = c
    OBVIOUS
  <2>1. CASE c # b
    BY <1>1, <1>2, <1>4, <2>1
  <2>2. CASE c = b /\ k = Len(tried[b]) + 1
    BY <1>4, <1>6, <2>2 DEF b
  <2>3. CASE c = b /\ k \in 1 .. Len(tried[b])
    BY <1>1, <1>2, <1>4, <1>6, <2>3
  <2> QED  BY <1>3, <1>4, <1>6, <2>1, <2>2, <2>3
<1>9. \A c \in TriedBuckets : \A k, l \in 1 .. Len(filled[c]) : filled[c][k] = filled[c][l] => k = l
  <2> SUFFICES ASSUME NEW c \in TriedBuckets, NEW k \in 1 .. Len(filled[c]), NEW l \in 1 .. Len(filled[c]),
                      filled[c][k] = filled[c][l]
               PROVE  k = l
    OBVIOUS
  <2>1. CASE c # b
    BY <1>1, <1>4, <2>1
  <2>2. CASE c = b
    <3>1. \A i \in 1 .. Len(longer) : i \in 1 .. Len(tried[b]) \/ i = Len(tried[b]) + 1
      BY <1>3, <1>6
    <3>2. \A i \in 1 .. Len(tried[b]) : longer[i] # id
      BY <1>2, <1>3, <1>6
    <3>3. longer[k] = longer[l] /\ k \in 1 .. Len(longer) /\ l \in 1 .. Len(longer)
      BY <1>4, <2>2
    <3>4. CASE k \in 1 .. Len(tried[b]) /\ l \in 1 .. Len(tried[b])
      <4>1. tried[b][k] = tried[b][l]
        BY <1>6, <3>3, <3>4
      <4> QED  BY <1>1, <1>3, <3>4, <4>1
    <3>5. CASE k = Len(tried[b]) + 1 \/ l = Len(tried[b]) + 1
      BY <1>6, <3>1, <3>2, <3>3, <3>5
    <3> QED  BY <3>1, <3>3, <3>4, <3>5
  <2> QED  BY <2>1, <2>2
<1>10. \A j \in TriedOf(next, out2) :
          /\ next[j].nLastSuccess # 0 /\ next[j].nRefCount = 0
          /\ \E k \in 1 .. Len(filled[TriedHome(next[j])]) : filled[TriedHome(next[j])][k] = j
  <2> SUFFICES ASSUME NEW j \in TriedOf(next, out2)
               PROVE  /\ next[j].nLastSuccess # 0 /\ next[j].nRefCount = 0
                      /\ \E k \in 1 .. Len(filled[TriedHome(next[j])]) : filled[TriedHome(next[j])][k] = j
    OBVIOUS
  <2>1. CASE j = id
    <3>1. Len(tried[b]) + 1 \in 1 .. Len(filled[b]) /\ filled[b][Len(tried[b]) + 1] = j
      BY <1>3, <1>4, <1>6, <2>1
    <3> QED  BY <2>1, <3>1 DEF b
  <2>2. CASE j \in TriedOf(info, out)
    <3>1. next[j] = info[j] /\ next[j].nLastSuccess # 0 /\ next[j].nRefCount = 0
      BY <1>1, <2>2
    <3>2. PICK k \in 1 .. Len(tried[TriedHome(info[j])]) : tried[TriedHome(info[j])][k] = j
      BY <1>1, <2>2
    <3> DEFINE home == TriedHome(info[j])
    <3>3. k \in 1 .. Len(filled[home]) /\ filled[home][k] = j
      <4>1. CASE home = b
        BY <1>3, <1>4, <1>6, <3>2, <4>1
      <4>2. CASE home # b
        <5>1. home \in TriedBuckets
          BY <2>2, HomeOfInfo DEF TriedOf, Infos
        <5> QED  BY <1>4, <3>2, <4>2, <5>1
      <4> QED  BY <4>1, <4>2
    <3> QED  BY <3>1, <3>3
  <2> QED  BY <2>1, <2>2
<1>11. TriedSound(next, out2, filled)
  BY <1>4, <1>7, <1>8, <1>9, <1>10 DEF TriedSound
<1> QED  BY <1>11 DEF filled, b

LEMMA GoodKeeps ==
    ASSUME AddrInv, NEW a \in Addrs, NEW p \in Ports, NEW nTime \in Times, Good(a, p, nTime)
    PROVE  AddrInv'
<1> DEFINE id == mapAddr[a]
           b == TriedBucketOf[<<a, p>>]
           removed == [Succeeded(id, nTime) EXCEPT ![id].nRefCount = @ - Cardinality(Occurrences(id))]
<1>1. /\ nIdCount \in Nat /\ Ids \subseteq 0 .. (nIdCount - 1)
      /\ Infos(mapInfo) /\ Listed(mapInfo, vRandom) /\ Mapped(mapInfo, mapAddr)
      /\ NewSound(mapInfo, moving.id, vvNew) /\ TriedSound(mapInfo, moving.id, vvTried)
      /\ nNew = Cardinality(NewOf(mapInfo, moving.id)) /\ nTried = Cardinality(TriedOf(mapInfo, moving.id))
      /\ shuffled \in Nat /\ pc \in {"free", "evict", "getaddr"} /\ MovingSound
  BY DEF AddrInv
<1>2. /\ pc = "free" /\ a \in DOMAIN mapAddr /\ mapInfo[id].port = p /\ ~mapInfo[id].fInTried
      /\ Occurrences(id) # {} /\ nNew' = nNew - 1
      /\ vvNew' = [c \in NewBuckets |-> IF c \in Occurrences(id) THEN vvNew[c] \ {id} ELSE vvNew[c]]
      /\ UNCHANGED <<nIdCount, mapAddr, vRandom, shuffled>>
  BY DEF Good, Same, Found, RemovedFrom, NewAfterGood
<1>3. \/ /\ Len(vvTried[b]) < ADDRMAN_TRIED_BUCKET_SIZE
         /\ vvTried' = [vvTried EXCEPT ![b] = Append(@, id)]
         /\ nTried' = nTried + 1
         /\ mapInfo' = [removed EXCEPT ![id].fInTried = TRUE]
         /\ UNCHANGED <<pc, moving>>
      \/ /\ ~(Len(vvTried[b]) < ADDRMAN_TRIED_BUCKET_SIZE)
         /\ mapInfo' = removed
         /\ pc' = "evict"
         /\ \E origin \in Occurrences(id) :
                moving' = [NotMoving EXCEPT !.id = id, !.origin = origin, !.bucket = b, !.i = 1]
         /\ UNCHANGED <<nTried, vvTried>>
  BY DEF Good, RemovedFrom
<1>4. /\ moving = NotMoving /\ moving.id = -1 /\ moving.id \notin Ids
      /\ Fits(mapInfo, vRandom, mapAddr, moving.id, nNew)
  BY <1>2, FreeFits
<1>5. id \in Ids /\ id \in DOMAIN mapInfo /\ IsInfo(mapInfo[id]) /\ mapInfo[id].addr = a /\ IsFiniteSet(DOMAIN mapInfo)
  BY <1>1, <1>2, <1>4 DEF Mapped, Ids, Infos, Fits
<1>6. /\ id \in NewOf(mapInfo, moving.id) /\ id \notin TriedOf(mapInfo, moving.id) /\ id # moving.id
      /\ IsFiniteSet(TriedOf(mapInfo, moving.id))
  BY <1>2, <1>4, <1>5, FS_Subset DEF NewOf, TriedOf
<1>7. nTime # 0
  BY AddrManAssumption
<1>8. Occurrences(id) = Occ(vvNew, id)
  BY DEF Occurrences, Occ
<1>9. mapInfo[id].nRefCount = Cardinality(Occ(vvNew, id)) /\ Cardinality(Occ(vvNew, id)) \in Nat
  BY <1>1, <1>6, OccFinite DEF NewSound
<1>10. vvNew' = Left(vvNew, id)
  BY <1>2, <1>8 DEF Left
<1>11. /\ TriedBucketOf[<<a, p>>] = TriedHome(mapInfo[id]) /\ b \in TriedBuckets
  BY <1>2, <1>5, HomeOfInfo DEF TriedHome
<1>12. /\ DOMAIN removed = DOMAIN mapInfo
       /\ \A j \in DOMAIN mapInfo : j # id => removed[j] = mapInfo[j]
       /\ DOMAIN removed[id] = InfoFields
       /\ removed[id].nRefCount = 0 /\ removed[id].nLastSuccess = nTime
       /\ \A f \in {"addr", "port", "source", "fInTried", "nRandomPos"} : removed[id][f] = mapInfo[id][f]
  <2> DEFINE good == Succeeded(id, nTime)
  <2>1. /\ DOMAIN good = DOMAIN mapInfo /\ \A j \in DOMAIN mapInfo : j # id => good[j] = mapInfo[j]
        /\ DOMAIN good[id] = InfoFields /\ good[id].nLastSuccess = nTime
        /\ \A f \in {"addr", "port", "source", "fInTried", "nRandomPos", "nRefCount"} : good[id][f] = mapInfo[id][f]
    BY <1>5 DEF Succeeded, IsInfo, InfoFields
  <2>2. /\ DOMAIN removed = DOMAIN good /\ \A j \in DOMAIN good : j # id => removed[j] = good[j]
        /\ removed[id] = [good[id] EXCEPT !.nRefCount = @ - Cardinality(Occurrences(id))]
    BY <1>5, <2>1
  <2> HIDE DEF good, removed
  <2>3. /\ DOMAIN removed[id] = InfoFields
        /\ removed[id].nRefCount = mapInfo[id].nRefCount - Cardinality(Occurrences(id))
        /\ removed[id].nLastSuccess = nTime
        /\ \A f \in {"addr", "port", "source", "fInTried", "nRandomPos"} : removed[id][f] = mapInfo[id][f]
    BY <2>1, <2>2 DEF InfoFields
  <2> QED  BY <1>8, <1>9, <2>1, <2>2, <2>3
<1> HIDE DEF id, b, removed
<1>13. ASSUME NEW inTried \in BOOLEAN, DOMAIN mapInfo' = DOMAIN mapInfo,
              \A j \in DOMAIN mapInfo : j # id => mapInfo'[j] = mapInfo[j],
              DOMAIN mapInfo'[id] = InfoFields, mapInfo'[id].nRefCount = 0, mapInfo'[id].nLastSuccess = nTime,
              mapInfo'[id].fInTried = inTried,
              \A f \in {"addr", "port", "source", "nRandomPos"} : mapInfo'[id][f] = mapInfo[id][f]
       PROVE  /\ Infos(mapInfo') /\ Listed(mapInfo', vRandom') /\ Mapped(mapInfo', mapAddr')
              /\ Ids' = Ids /\ TriedHome(mapInfo'[id]) = b
  <2>1. IsInfo(mapInfo'[id])
    BY <1>5, <1>13 DEF IsInfo, InfoFields
  <2>2. Infos(mapInfo')
    BY <1>1, <1>13, <2>1 DEF Infos
  <2>3. \A j \in DOMAIN mapInfo : mapInfo'[j].addr = mapInfo[j].addr /\ mapInfo'[j].nRandomPos = mapInfo[j].nRandomPos
    BY <1>13
  <2>4. Listed(mapInfo', vRandom) /\ Mapped(mapInfo', mapAddr)
    BY <1>1, <1>13, <2>3, IndexKept
  <2>5. TriedHome(mapInfo'[id]) = b
    BY <1>11, <1>13 DEF TriedHome, b
  <2> QED  BY <1>2, <1>13, <2>2, <2>4, <2>5 DEF Ids
<1>14. \A j \in TriedOf(mapInfo, moving.id) : j # id /\ j \in DOMAIN mapInfo
  BY <1>6 DEF TriedOf
<1>15. CASE /\ Len(vvTried[b]) < ADDRMAN_TRIED_BUCKET_SIZE
            /\ vvTried' = [vvTried EXCEPT ![b] = Append(@, id)]
            /\ nTried' = nTried + 1
            /\ mapInfo' = [removed EXCEPT ![id].fInTried = TRUE]
            /\ UNCHANGED <<pc, moving>>
  <2>1. /\ DOMAIN mapInfo' = DOMAIN mapInfo /\ \A j \in DOMAIN mapInfo : j # id => mapInfo'[j] = mapInfo[j]
        /\ mapInfo'[id] = [removed[id] EXCEPT !.fInTried = TRUE]
    BY <1>5, <1>12, <1>15
  <2>2. /\ DOMAIN mapInfo'[id] = InfoFields /\ mapInfo'[id].nRefCount = 0 /\ mapInfo'[id].nLastSuccess = nTime
        /\ mapInfo'[id].fInTried = TRUE
        /\ \A f \in {"addr", "port", "source", "nRandomPos"} : mapInfo'[id][f] = mapInfo[id][f]
    BY <1>12, <2>1 DEF InfoFields
  <2>3. /\ Infos(mapInfo') /\ Listed(mapInfo', vRandom') /\ Mapped(mapInfo', mapAddr') /\ Ids' = Ids
        /\ TriedHome(mapInfo'[id]) = b
    BY <1>13, <2>1, <2>2
  <2>4. NewOf(mapInfo', moving.id) = NewOf(mapInfo, moving.id) \ {id}
    BY <2>1, <2>2 DEF NewOf
  <2>5. TriedOf(mapInfo', moving.id) = TriedOf(mapInfo, moving.id) \cup {id}
    BY <1>5, <1>6, <2>1, <2>2 DEF TriedOf
  <2>6. \A j \in NewOf(mapInfo, moving.id) : j # id => mapInfo'[j] = mapInfo[j]
    BY <2>1 DEF NewOf
  <2>7. /\ NewSound(mapInfo', moving.id, vvNew')
        /\ Cardinality(NewOf(mapInfo', moving.id)) = Cardinality(NewOf(mapInfo, moving.id)) - 1
    <3>1. /\ NewSound(mapInfo, moving.id, vvNew) /\ IsFiniteSet(DOMAIN mapInfo)
          /\ id \in NewOf(mapInfo, moving.id)
      BY <1>1, <1>5, <1>6
    <3>2. /\ NewSound(mapInfo', moving.id, Left(vvNew, id))
          /\ Cardinality(NewOf(mapInfo', moving.id)) = Cardinality(NewOf(mapInfo, moving.id)) - 1
      <4>1. OneLess(mapInfo, moving.id, id, mapInfo', moving.id)
        BY <2>4, <2>6 DEF OneLess
      <4> QED  BY <3>1, <4>1, LeavesNew
    <3> QED  BY <1>10, <3>2
  <2>8. \A j \in TriedOf(mapInfo, moving.id) : mapInfo'[j] = mapInfo[j]
    BY <1>14, <2>1
  <2>9. TriedSound(mapInfo', moving.id, vvTried')
    <3>1. mapInfo'[id].nLastSuccess # 0 /\ TriedHome(mapInfo'[id]) \in TriedBuckets
      BY <1>7, <1>11, <2>2, <2>3 DEF b
    <3>2. Len(vvTried[TriedHome(mapInfo'[id])]) < ADDRMAN_TRIED_BUCKET_SIZE /\ mapInfo'[id].nRefCount = 0
      BY <1>15, <2>2, <2>3
    <3>3. vvTried' = [vvTried EXCEPT ![TriedHome(mapInfo'[id])] = Append(@, id)]
      BY <1>15, <2>3
    <3>4. TriedSound(mapInfo', moving.id, [vvTried EXCEPT ![TriedHome(mapInfo'[id])] = Append(@, id)])
      BY <1>1, <1>6, <2>5, <2>8, <3>1, <3>2, JoinsTried
    <3> QED  BY <3>3, <3>4
  <2>10. nTried' = Cardinality(TriedOf(mapInfo', moving.id))
    BY <1>1, <1>6, <1>15, <2>5, FS_AddElement
  <2>11. MovingSound'
    BY <1>2, <1>4, <1>15 DEF MovingSound, NotMoving, NoId
  <2> QED  BY <1>1, <1>2, <1>15, <2>3, <2>7, <2>9, <2>10, <2>11 DEF AddrInv
<1>16. CASE /\ ~(Len(vvTried[b]) < ADDRMAN_TRIED_BUCKET_SIZE)
            /\ mapInfo' = removed
            /\ pc' = "evict"
            /\ \E origin \in Occurrences(id) :
                   moving' = [NotMoving EXCEPT !.id = id, !.origin = origin, !.bucket = b, !.i = 1]
            /\ UNCHANGED <<nTried, vvTried>>
  <2>1. /\ DOMAIN mapInfo' = DOMAIN mapInfo /\ \A j \in DOMAIN mapInfo : j # id => mapInfo'[j] = mapInfo[j]
        /\ DOMAIN mapInfo'[id] = InfoFields /\ mapInfo'[id].nRefCount = 0 /\ mapInfo'[id].nLastSuccess = nTime
        /\ mapInfo'[id].fInTried = FALSE
        /\ \A f \in {"addr", "port", "source", "nRandomPos"} : mapInfo'[id][f] = mapInfo[id][f]
    <3>1. mapInfo[id].fInTried = FALSE
      BY <1>2, <1>5 DEF IsInfo, id
    <3> QED  BY <1>12, <1>16, <3>1
  <2>2. /\ Infos(mapInfo') /\ Listed(mapInfo', vRandom') /\ Mapped(mapInfo', mapAddr') /\ Ids' = Ids
        /\ TriedHome(mapInfo'[id]) = b
    BY <1>13, <2>1
  <2>3. PICK origin \in Occurrences(id) :
            moving' = [NotMoving EXCEPT !.id = id, !.origin = origin, !.bucket = b, !.i = 1]
    BY <1>16
  <2>4. /\ DOMAIN moving' = DOMAIN NotMoving /\ moving'.id = id /\ moving'.origin = origin /\ moving'.bucket = b
        /\ moving'.i = 1 /\ moving'.nOldest = NoId
    BY <2>3 DEF NotMoving
  <2>5. NewOf(mapInfo', moving'.id) = NewOf(mapInfo, moving.id) \ {id}
    BY <1>4, <2>1, <2>4 DEF NewOf, Ids
  <2>6. TriedOf(mapInfo', moving'.id) = TriedOf(mapInfo, moving.id)
    BY <1>4, <1>6, <2>1, <2>4 DEF TriedOf, Ids
  <2>7. \A j \in NewOf(mapInfo, moving.id) : j # id => mapInfo'[j] = mapInfo[j]
    BY <2>1 DEF NewOf
  <2>8. /\ NewSound(mapInfo', moving'.id, vvNew')
        /\ Cardinality(NewOf(mapInfo', moving'.id)) = Cardinality(NewOf(mapInfo, moving.id)) - 1
        /\ \A c \in Occ(vvNew, id) : Cardinality(vvNew'[c]) < ADDRMAN_NEW_BUCKET_SIZE
    <3>1. /\ NewSound(mapInfo, moving.id, vvNew) /\ IsFiniteSet(DOMAIN mapInfo)
          /\ id \in NewOf(mapInfo, moving.id)
      BY <1>1, <1>5, <1>6
    <3>2. /\ NewSound(mapInfo', moving'.id, Left(vvNew, id))
          /\ Cardinality(NewOf(mapInfo', moving'.id)) = Cardinality(NewOf(mapInfo, moving.id)) - 1
          /\ \A c \in Occ(vvNew, id) : Cardinality(Left(vvNew, id)[c]) < ADDRMAN_NEW_BUCKET_SIZE
      <4>1. OneLess(mapInfo, moving.id, id, mapInfo', moving'.id)
        BY <2>5, <2>7 DEF OneLess
      <4> QED  BY <3>1, <4>1, LeavesNew
    <3> QED  BY <1>10, <3>2
  <2>9. TriedSound(mapInfo', moving'.id, vvTried)
    <3>1. \A j \in TriedOf(mapInfo, moving.id) :
             /\ mapInfo'[j].addr = mapInfo[j].addr /\ mapInfo'[j].port = mapInfo[j].port
             /\ mapInfo'[j].nRefCount = mapInfo[j].nRefCount
             /\ mapInfo[j].nLastSuccess # 0 => mapInfo'[j].nLastSuccess # 0
      BY <1>14, <2>1
    <3>2. TriedSound(mapInfo, moving.id, vvTried)
      BY <1>1
    <3>3. SameTried(mapInfo, moving.id, mapInfo', moving'.id)
      BY <2>6, <3>1 DEF SameTried
    <3> QED  BY <3>2, <3>3, TriedKept
  <2>10. Len(vvTried[b]) = ADDRMAN_TRIED_BUCKET_SIZE
    <3>1. Len(vvTried[b]) \in Nat /\ Len(vvTried[b]) <= ADDRMAN_TRIED_BUCKET_SIZE
      <4>1. b \in TriedBuckets
        BY <1>11
      <4>2. /\ vvTried[b] \in Seq(TriedOf(mapInfo, moving.id))
            /\ Len(vvTried[b]) <= ADDRMAN_TRIED_BUCKET_SIZE
        BY <1>1, <4>1 DEF TriedSound
      <4> QED  BY <4>2, LenProperties
    <3>2. ~(Len(vvTried[b]) < ADDRMAN_TRIED_BUCKET_SIZE)
      BY <1>16
    <3>3. ADDRMAN_TRIED_BUCKET_SIZE \in Nat
      BY AddrManAssumption
    <3> QED  BY <3>1, <3>2, <3>3
  <2>11. MovingSound'
    <3>1. moving'.id \in Ids' /\ ~mapInfo'[moving'.id].fInTried /\ mapInfo'[moving'.id].nRefCount = 0
          /\ mapInfo'[moving'.id].nLastSuccess # 0 /\ moving'.bucket = TriedHome(mapInfo'[moving'.id])
      BY <1>5, <1>7, <2>1, <2>2, <2>4
    <3>2. Len(vvTried'[moving'.bucket]) = ADDRMAN_TRIED_BUCKET_SIZE
      BY <1>16, <2>4, <2>10
    <3>3. moving'.origin \in NewBuckets /\ Cardinality(vvNew'[moving'.origin]) < ADDRMAN_NEW_BUCKET_SIZE
      BY <1>8, <2>3, <2>4, <2>8 DEF Occ
    <3>4. moving'.i \in Nat \ {0} /\ (moving'.i > 1 => moving'.nOldest # NoId) /\ moving'.nOldest = NoId
      BY <2>4
    <3> QED  BY <1>16, <2>4, <3>1, <3>2, <3>3, <3>4 DEF MovingSound
  <2>12. nTried' = Cardinality(TriedOf(mapInfo', moving'.id)) /\ nNew' = Cardinality(NewOf(mapInfo', moving'.id))
    BY <1>1, <1>2, <1>16, <2>6, <2>8
  <2> QED  BY <1>1, <1>2, <1>16, <2>2, <2>8, <2>9, <2>11, <2>12 DEF AddrInv
<1>17. \/ /\ Len(vvTried[b]) < ADDRMAN_TRIED_BUCKET_SIZE
          /\ vvTried' = [vvTried EXCEPT ![b] = Append(@, id)]
          /\ nTried' = nTried + 1
          /\ mapInfo' = [removed EXCEPT ![id].fInTried = TRUE]
          /\ UNCHANGED <<pc, moving>>
       \/ /\ ~(Len(vvTried[b]) < ADDRMAN_TRIED_BUCKET_SIZE)
          /\ mapInfo' = removed
          /\ pc' = "evict"
          /\ \E origin \in Occurrences(id) :
                 moving' = [NotMoving EXCEPT !.id = id, !.origin = origin, !.bucket = b, !.i = 1]
          /\ UNCHANGED <<nTried, vvTried>>
  BY <1>3 DEF id, b, removed
<1> QED  BY <1>15, <1>16, <1>17

----------------------------------------------------------------------------
(* SelectTried and the end of MakeTried.                                   *)

LEMMA SelectTriedKeeps ==
    ASSUME AddrInv, NEW nPos, SelectTried(nPos)
    PROVE  AddrInv'
<1> DEFINE b == moving.bucket
           i == moving.i
           n == ADDRMAN_TRIED_BUCKET_SIZE
           old == vvTried[b]
           T == TriedOf(mapInfo, moving.id)
<1>1. /\ nIdCount \in Nat /\ Ids \subseteq 0 .. (nIdCount - 1)
      /\ Infos(mapInfo) /\ Listed(mapInfo, vRandom) /\ Mapped(mapInfo, mapAddr)
      /\ NewSound(mapInfo, moving.id, vvNew) /\ TriedSound(mapInfo, moving.id, vvTried)
      /\ nNew = Cardinality(NewOf(mapInfo, moving.id)) /\ nTried = Cardinality(TriedOf(mapInfo, moving.id))
      /\ shuffled \in Nat /\ pc \in {"free", "evict", "getaddr"} /\ MovingSound
  BY DEF AddrInv
<1>2. /\ DOMAIN moving = DOMAIN NotMoving
      /\ moving.id \in Ids /\ ~mapInfo[moving.id].fInTried
      /\ mapInfo[moving.id].nRefCount = 0 /\ mapInfo[moving.id].nLastSuccess # 0
      /\ b = TriedHome(mapInfo[moving.id]) /\ Len(old) = n
      /\ moving.origin \in NewBuckets /\ Cardinality(vvNew[moving.origin]) < ADDRMAN_NEW_BUCKET_SIZE
      /\ i \in Nat \ {0} /\ (i > 1 => moving.nOldest # NoId)
      /\ moving.nOldest # NoId => moving.nOldestPos \in 1 .. n
  BY <1>1 DEF SelectTried, Inspecting, MovingSound
<1>3. /\ pc = "evict" /\ nPos \in i .. Len(old)
      /\ vvTried' = [vvTried EXCEPT ![b] = [@ EXCEPT ![nPos] = old[i], ![i] = old[nPos]]]
      /\ \E older \in BOOLEAN :
            moving' = [moving EXCEPT !.i = i + 1, !.nOldest = IF older THEN old[nPos] ELSE @,
                                     !.nOldestPos = IF older THEN nPos ELSE @]
      /\ moving.nOldest = NoId => moving'.nOldest = old[nPos]
      /\ UNCHANGED <<nIdCount, mapInfo, mapAddr, vRandom, nTried, nNew, vvNew, pc, shuffled>>
  <2> DEFINE older == \/ moving.nOldest = NoId
                      \/ mapInfo[old[nPos]].nLastSuccess < mapInfo[moving.nOldest].nLastSuccess
  <2>1. /\ pc = "evict" /\ nPos \in i .. Len(old)
        /\ vvTried' = [vvTried EXCEPT ![b] = [@ EXCEPT ![nPos] = old[i], ![i] = old[nPos]]]
        /\ moving' = [moving EXCEPT !.i = i + 1, !.nOldest = IF older THEN old[nPos] ELSE @,
                                    !.nOldestPos = IF older THEN nPos ELSE @]
        /\ UNCHANGED <<nIdCount, mapInfo, mapAddr, vRandom, nTried, nNew, vvNew, pc, shuffled>>
    BY DEF SelectTried, Inspecting
  <2>2. moving.nOldest = NoId => older
    OBVIOUS
  <2>3. older \in BOOLEAN
    OBVIOUS
  <2> HIDE DEF older
  <2>4. moving.nOldest = NoId => moving'.nOldest = old[nPos]
    BY <1>2, <2>1, <2>2 DEF NotMoving
  <2> QED  BY <2>1, <2>3, <2>4
<1>4. b \in TriedBuckets
  <2>1. IsInfo(mapInfo[moving.id])
    BY <1>1, <1>2 DEF Infos, Ids
  <2>2. TriedHome(mapInfo[moving.id]) \in TriedBuckets
    BY <2>1, HomeOfInfo
  <2> QED  BY <1>2, <2>2
<1>5. n \in Nat \ {0} /\ nPos \in 1 .. n /\ i \in 1 .. n
  <2>1. n \in Nat \ {0}
    BY AddrManAssumption
  <2>2. nPos \in i .. n /\ i \in Nat \ {0}
    BY <1>2, <1>3
  <2> QED  BY <2>1, <2>2
<1>6. /\ \A j \in T : /\ mapInfo[j].nLastSuccess # 0 /\ mapInfo[j].nRefCount = 0
                      /\ \E k \in 1 .. Len(vvTried[TriedHome(mapInfo[j])]) : vvTried[TriedHome(mapInfo[j])][k] = j
      /\ DOMAIN vvTried = TriedBuckets
      /\ \A c \in TriedBuckets :
            /\ vvTried[c] \in Seq(T) /\ Len(vvTried[c]) <= n
            /\ \A k, l \in 1 .. Len(vvTried[c]) : vvTried[c][k] = vvTried[c][l] => k = l
            /\ \A k \in 1 .. Len(vvTried[c]) : TriedHome(mapInfo[vvTried[c][k]]) = c
  BY <1>1 DEF TriedSound
<1>7. old \in Seq(T) /\ (\A k \in 1 .. n : old[k] \in T) /\ T \subseteq Ids
  <2>1. old \in Seq(T)
    BY <1>4, <1>6
  <2> QED  BY <1>2, <2>1, ElementOfSeq DEF TriedOf, Ids
<1> DEFINE at == [k \in 1 .. n |-> IF k = i THEN nPos ELSE IF k = nPos THEN i ELSE k]
           new == vvTried'[b]
<1>8. \A k \in 1 .. n : at[k] \in 1 .. n /\ at[at[k]] = k
  BY <1>5
<1> HIDE DEF at
<1>9. new = [old EXCEPT ![nPos] = old[i], ![i] = old[nPos]] /\ DOMAIN vvTried' = TriedBuckets
      /\ \A c \in TriedBuckets : c # b => vvTried'[c] = vvTried[c]
  BY <1>3, <1>4, <1>6
<1>10. old \in [1 .. n -> T]
  BY <1>2, <1>5, <1>7, LenProperties
<1> HIDE DEF old, new, T
<1>11. DOMAIN new = 1 .. n /\ (\A k \in 1 .. n : new[k] = old[at[k]]) /\ new \in [1 .. n -> T]
  BY <1>5, <1>9, <1>10 DEF at
<1>12. new \in Seq(T) /\ Len(new) = n
  BY <1>5, <1>11, SeqDef, LenProperties
<1> HIDE DEF n
<1>13. \A k, l \in 1 .. n : new[k] = new[l] => k = l
  <2>1. \A k, l \in 1 .. n : old[k] = old[l] => k = l
    BY <1>2, <1>4, <1>6 DEF old
  <2> QED  BY <1>8, <1>11, <2>1
<1>14. \A k \in 1 .. n : TriedHome(mapInfo[new[k]]) = b
  <2>1. \A k \in 1 .. n : TriedHome(mapInfo[old[k]]) = b
    BY <1>2, <1>4, <1>6 DEF old
  <2> QED  BY <1>8, <1>11, <2>1
<1>15. TriedSound(mapInfo, moving.id, vvTried')
  <2>1. \A j \in T : \E k \in 1 .. Len(vvTried'[TriedHome(mapInfo[j])]) : vvTried'[TriedHome(mapInfo[j])][k] = j
    <3> SUFFICES ASSUME NEW j \in T
                 PROVE  \E k \in 1 .. Len(vvTried'[TriedHome(mapInfo[j])]) : vvTried'[TriedHome(mapInfo[j])][k] = j
      OBVIOUS
    <3> DEFINE home == TriedHome(mapInfo[j])
    <3>1. PICK k \in 1 .. Len(vvTried[home]) : vvTried[home][k] = j
      BY <1>6
    <3>2. home \in TriedBuckets
      BY <1>1, <1>7, HomeOfInfo DEF Infos, Ids
    <3> HIDE DEF home
    <3>3. CASE home # b
      BY <1>9, <3>1, <3>2, <3>3 DEF home
    <3>4. CASE home = b
      <4>1. k \in 1 .. n /\ old[k] = j
        BY <1>2, <3>1, <3>4 DEF old
      <4>2. at[k] \in 1 .. n /\ new[at[k]] = j
        BY <1>8, <1>11, <4>1
      <4> QED  BY <1>12, <3>4, <4>2 DEF home, new
    <3> QED  BY <3>3, <3>4
  <2>2. \A c \in TriedBuckets : /\ vvTried'[c] \in Seq(T) /\ Len(vvTried'[c]) <= n
                                /\ \A k, l \in 1 .. Len(vvTried'[c]) : vvTried'[c][k] = vvTried'[c][l] => k = l
                                /\ \A k \in 1 .. Len(vvTried'[c]) : TriedHome(mapInfo[vvTried'[c][k]]) = c
    <3> SUFFICES ASSUME NEW c \in TriedBuckets
                 PROVE  /\ vvTried'[c] \in Seq(T) /\ Len(vvTried'[c]) <= n
                        /\ \A k, l \in 1 .. Len(vvTried'[c]) : vvTried'[c][k] = vvTried'[c][l] => k = l
                        /\ \A k \in 1 .. Len(vvTried'[c]) : TriedHome(mapInfo[vvTried'[c][k]]) = c
      OBVIOUS
    <3>1. CASE c # b
      BY <1>6, <1>9, <3>1
    <3>2. CASE c = b
      BY <1>5, <1>12, <1>13, <1>14, <3>2 DEF new
    <3> QED  BY <3>1, <3>2
  <2> QED  BY <1>6, <1>9, <2>1, <2>2 DEF TriedSound, T, n
<1>16. PICK older \in BOOLEAN :
            moving' = [moving EXCEPT !.i = i + 1, !.nOldest = IF older THEN old[nPos] ELSE @,
                                     !.nOldestPos = IF older THEN nPos ELSE @]
  BY <1>3 DEF old
<1>17. /\ DOMAIN moving' = DOMAIN NotMoving /\ moving'.id = moving.id /\ moving'.bucket = b
       /\ moving'.origin = moving.origin /\ moving'.i = i + 1
       /\ moving'.nOldest = IF older THEN old[nPos] ELSE moving.nOldest
       /\ moving'.nOldestPos = IF older THEN nPos ELSE moving.nOldestPos
  BY <1>2, <1>16 DEF NotMoving
<1>18. old[nPos] # NoId
  <2>1. old[nPos] \in Ids
    BY <1>5, <1>7 DEF old, T
  <2> QED  BY <1>1, <2>1 DEF NoId
<1>19. moving'.nOldest # NoId /\ moving'.nOldestPos \in 1 .. n
  <2>1. moving.nOldest = NoId => moving'.nOldest = old[nPos]
    BY <1>3, <1>2 DEF old
  <2>2. CASE older
    BY <1>5, <1>17, <1>18, <2>2
  <2>3. CASE ~older
    BY <1>2, <1>17, <1>18, <2>1, <2>3
  <2> QED  BY <2>2, <2>3
<1>20. MovingSound'
  <2>1. Len(vvTried'[moving'.bucket]) = n
    BY <1>12, <1>17 DEF new
  <2>2. mapInfo' = mapInfo /\ vvNew' = vvNew /\ pc' = "evict" /\ Ids' = Ids
    BY <1>3 DEF Ids
  <2>3. moving'.i \in Nat \ {0}
    BY <1>2, <1>17
  <2> QED  BY <1>2, <1>17, <1>19, <2>1, <2>2, <2>3 DEF MovingSound, n
<1>21. Ids' = Ids
  BY <1>3 DEF Ids
<1> QED  BY <1>1, <1>3, <1>15, <1>17, <1>20, <1>21 DEF AddrInv

LEMMA EvictsTried ==
    ASSUME AddrInv, Evict
    PROVE  /\ moving.nOldestPos \in 1 .. ADDRMAN_TRIED_BUCKET_SIZE /\ moving.bucket \in TriedBuckets
           /\ vvTried[moving.bucket][moving.nOldestPos] \in TriedOf(mapInfo, moving.id)
<1> DEFINE n == ADDRMAN_TRIED_BUCKET_SIZE
<1>1. Infos(mapInfo) /\ TriedSound(mapInfo, moving.id, vvTried) /\ MovingSound
  BY DEF AddrInv
<1>2. pc = "evict" /\ ~Inspecting
  BY DEF Evict
<1>3. /\ moving.id \in Ids /\ moving.bucket = TriedHome(mapInfo[moving.id]) /\ Len(vvTried[moving.bucket]) = n
      /\ moving.i \in Nat \ {0} /\ (moving.i > 1 => moving.nOldest # NoId)
      /\ moving.nOldest # NoId => moving.nOldestPos \in 1 .. n
  BY <1>1, <1>2 DEF MovingSound
<1>4. n \in Nat \ {0} /\ ADDRMAN_TRIED_ENTRIES_INSPECT_ON_EVICT \in Nat \ {0}
  BY AddrManAssumption
<1>5. moving.nOldestPos \in 1 .. n
  <2>1. ~(moving.i <= ADDRMAN_TRIED_ENTRIES_INSPECT_ON_EVICT) \/ ~(moving.i <= n)
    BY <1>2, <1>3 DEF Inspecting
  <2> QED  BY <1>3, <1>4, <2>1
<1>6. moving.bucket \in TriedBuckets
  <2>1. IsInfo(mapInfo[moving.id])
    BY <1>1, <1>3 DEF Infos, Ids
  <2> QED  BY <1>3, <2>1, HomeOfInfo
<1>7. vvTried[moving.bucket] \in Seq(TriedOf(mapInfo, moving.id))
  BY <1>1, <1>6 DEF TriedSound
<1> QED  BY <1>3, <1>5, <1>6, <1>7, ElementOfSeq

LEMMA EvictKeeps ==
    ASSUME AddrInv, Evict
    PROVE  AddrInv'
<1> DEFINE b == moving.bucket
           id == moving.id
           pos == moving.nOldestPos
           n == ADDRMAN_TRIED_BUCKET_SIZE
           full == vvTried[b]
           old == full[pos]
           T == TriedOf(mapInfo, moving.id)
           N == NewOf(mapInfo, moving.id)
           back == BucketAfterEvict(old)
<1>1. /\ nIdCount \in Nat /\ Ids \subseteq 0 .. (nIdCount - 1)
      /\ Infos(mapInfo) /\ Listed(mapInfo, vRandom) /\ Mapped(mapInfo, mapAddr)
      /\ NewSound(mapInfo, moving.id, vvNew) /\ TriedSound(mapInfo, moving.id, vvTried)
      /\ nNew = Cardinality(NewOf(mapInfo, moving.id)) /\ nTried = Cardinality(TriedOf(mapInfo, moving.id))
      /\ shuffled \in Nat /\ pc \in {"free", "evict", "getaddr"} /\ MovingSound
  BY DEF AddrInv
<1>2. /\ pc = "evict" /\ ~Inspecting
      /\ mapInfo' = [mapInfo EXCEPT ![old].fInTried = FALSE, ![old].nRefCount = 1, ![id].fInTried = TRUE]
      /\ vvNew' = [vvNew EXCEPT ![back] = @ \cup {old}]
      /\ nNew' = nNew + 1
      /\ vvTried' = [vvTried EXCEPT ![b] = [@ EXCEPT ![pos] = id]]
      /\ pc' = "free" /\ moving' = NotMoving
      /\ UNCHANGED <<nIdCount, mapAddr, vRandom, nTried, shuffled>>
  BY DEF Evict, InfoAfterEvict
<1>3. /\ id \in Ids /\ ~mapInfo[id].fInTried /\ mapInfo[id].nRefCount = 0 /\ mapInfo[id].nLastSuccess # 0
      /\ b = TriedHome(mapInfo[id]) /\ Len(full) = n
      /\ moving.origin \in NewBuckets /\ Cardinality(vvNew[moving.origin]) < ADDRMAN_NEW_BUCKET_SIZE
  BY <1>1, <1>2 DEF MovingSound
<1>4. n \in Nat \ {0} /\ ADDRMAN_NEW_BUCKET_SIZE \in Nat \ {0}
  BY AddrManAssumption
<1>5. pos \in 1 .. n
  BY EvictsTried
<1>6. b \in TriedBuckets /\ IsInfo(mapInfo[id])
  BY <1>1, <1>3, EvictsTried DEF Infos, Ids
<1>7. /\ \A j \in T : /\ mapInfo[j].nLastSuccess # 0 /\ mapInfo[j].nRefCount = 0
                      /\ \E k \in 1 .. Len(vvTried[TriedHome(mapInfo[j])]) : vvTried[TriedHome(mapInfo[j])][k] = j
      /\ DOMAIN vvTried = TriedBuckets
      /\ \A c \in TriedBuckets :
            /\ vvTried[c] \in Seq(T) /\ Len(vvTried[c]) <= n
            /\ \A k, l \in 1 .. Len(vvTried[c]) : vvTried[c][k] = vvTried[c][l] => k = l
            /\ \A k \in 1 .. Len(vvTried[c]) : TriedHome(mapInfo[vvTried[c][k]]) = c
  BY <1>1 DEF TriedSound
<1>8. /\ \A j \in N : /\ mapInfo[j].nRefCount = Cardinality(Occ(vvNew, j))
                      /\ mapInfo[j].nRefCount \in 1 .. ADDRMAN_NEW_BUCKETS_PER_ADDRESS
      /\ DOMAIN vvNew = NewBuckets
      /\ \A c \in NewBuckets : vvNew[c] \subseteq N
      /\ \A c \in NewBuckets : Cardinality(vvNew[c]) <= ADDRMAN_NEW_BUCKET_SIZE
  BY <1>1 DEF NewSound
<1>9. (\A c \in TriedBuckets : \A k \in 1 .. Len(vvTried[c]) : vvTried[c][k] \in T) /\ old \in T
  <2>1. \A c \in TriedBuckets : \A k \in 1 .. Len(vvTried[c]) : vvTried[c][k] \in T
    BY <1>7, ElementOfSeq
  <2> QED  BY <2>1, EvictsTried
<1>10. /\ old \in Ids /\ mapInfo[old].fInTried /\ old # id /\ IsInfo(mapInfo[old])
       /\ T \subseteq Ids /\ N \subseteq Ids /\ T \cap N = {} /\ id \notin T /\ id \notin N
       /\ IsFiniteSet(T) /\ IsFiniteSet(N)
  <2>1. T \subseteq Ids /\ N \subseteq Ids /\ T \cap N = {} /\ id \notin T /\ id \notin N
    BY DEF TriedOf, NewOf, Ids
  <2>2. old \in Ids /\ mapInfo[old].fInTried /\ old # id /\ IsInfo(mapInfo[old])
    BY <1>1, <1>9 DEF TriedOf, Infos, Ids
  <2>3. IsFiniteSet(Ids)
    BY <1>1, IdsFinite
  <2> QED  BY <2>1, <2>2, <2>3, FS_Subset
<1>11. back \in NewBuckets /\ Cardinality(vvNew[back]) < ADDRMAN_NEW_BUCKET_SIZE
  <2>1. OwnBucket(old) \in NewBuckets
    BY <1>10, AddrManAssumption DEF OwnBucket, IsInfo
  <2> QED  BY <1>3, <2>1 DEF BucketAfterEvict
<1> HIDE DEF b, pos, n, full, old, T, N, back
<1>12. /\ DOMAIN mapInfo' = DOMAIN mapInfo
       /\ \A j \in DOMAIN mapInfo : j # id /\ j # old => mapInfo'[j] = mapInfo[j]
       /\ DOMAIN mapInfo'[old] = InfoFields /\ mapInfo'[old].nRefCount = 1
       /\ mapInfo'[old].fInTried = FALSE /\ mapInfo'[old].fInTried \in BOOLEAN
       /\ \A f \in InfoFields \ {"fInTried", "nRefCount"} : mapInfo'[old][f] = mapInfo[old][f]
       /\ DOMAIN mapInfo'[id] = InfoFields /\ mapInfo'[id].fInTried = TRUE
       /\ \A f \in InfoFields \ {"fInTried"} : mapInfo'[id][f] = mapInfo[id][f]
  <2>1. /\ DOMAIN mapInfo' = DOMAIN mapInfo
        /\ \A j \in DOMAIN mapInfo : j # id /\ j # old => mapInfo'[j] = mapInfo[j]
        /\ mapInfo'[old] = [mapInfo[old] EXCEPT !.fInTried = FALSE, !.nRefCount = 1]
        /\ mapInfo'[id] = [mapInfo[id] EXCEPT !.fInTried = TRUE]
    BY <1>2, <1>3, <1>10 DEF Ids
  <2>2. DOMAIN mapInfo[old] = InfoFields /\ DOMAIN mapInfo[id] = InfoFields
    BY <1>6, <1>10 DEF IsInfo
  <2> QED  BY <2>1, <2>2 DEF InfoFields
<1>13. \A j \in DOMAIN mapInfo : /\ mapInfo'[j].addr = mapInfo[j].addr /\ mapInfo'[j].port = mapInfo[j].port
                                 /\ mapInfo'[j].nRandomPos = mapInfo[j].nRandomPos
                                 /\ mapInfo'[j].nLastSuccess = mapInfo[j].nLastSuccess
                                 /\ IsInfo(mapInfo'[j])
  <2>1. IsInfo(mapInfo'[old]) /\ IsInfo(mapInfo'[id])
    <3>1. IsInfo(mapInfo[old])
      BY <1>10
    <3>2. /\ DOMAIN mapInfo'[old] = InfoFields
          /\ mapInfo'[old].fInTried = FALSE /\ mapInfo'[old].nRefCount = 1
          /\ mapInfo'[old].addr = mapInfo[old].addr /\ mapInfo'[old].port = mapInfo[old].port
          /\ mapInfo'[old].source = mapInfo[old].source /\ mapInfo'[old].fInTried \in BOOLEAN
      BY <1>12 DEF InfoFields
    <3>3. IsInfo(mapInfo'[old])
      BY <3>1, <3>2 DEF IsInfo
    <3>4. IsInfo(mapInfo'[id])
      BY <1>6, <1>12 DEF IsInfo, InfoFields
    <3> QED  BY <3>3, <3>4
  <2>2. \A j \in DOMAIN mapInfo : IsInfo(mapInfo'[j])
    BY <1>1, <1>12, <2>1 DEF Infos
  <2> QED  BY <1>12, <2>2 DEF InfoFields
<1>14. /\ Infos(mapInfo') /\ Listed(mapInfo', vRandom') /\ Mapped(mapInfo', mapAddr') /\ Ids' = Ids
  <2>1. Infos(mapInfo')
    BY <1>12, <1>13 DEF Infos
  <2>2. Listed(mapInfo', vRandom) /\ Mapped(mapInfo', mapAddr)
    BY <1>1, <1>12, <1>13, IndexKept
  <2> QED  BY <1>2, <1>12, <2>1, <2>2 DEF Ids
<1>15. moving'.id = -1 /\ moving'.id \notin Ids
  <2>1. -1 \notin Ids
    BY <1>1, IdsFinite
  <2> QED  BY <1>2, <2>1 DEF NotMoving, NoId
<1>16. NewOf(mapInfo', moving'.id) = N \cup {old}
  <2>1. \A j \in DOMAIN mapInfo \ {id, old} : mapInfo'[j].fInTried = mapInfo[j].fInTried
    BY <1>12
  <2> QED  BY <1>3, <1>10, <1>12, <1>15, <2>1 DEF NewOf, N, Ids, id
<1>17. TriedOf(mapInfo', moving'.id) = (T \ {old}) \cup {id}
  <2>1. \A j \in DOMAIN mapInfo \ {id, old} : mapInfo'[j].fInTried = mapInfo[j].fInTried
    BY <1>12
  <2> QED  BY <1>3, <1>10, <1>12, <1>15, <2>1 DEF TriedOf, T, Ids, id
<1>18. nNew' = Cardinality(NewOf(mapInfo', moving'.id)) /\ nTried' = Cardinality(TriedOf(mapInfo', moving'.id))
  <2>1. Cardinality(N \cup {old}) = Cardinality(N) + 1
    BY <1>9, <1>10, FS_AddElement DEF T
  <2>2. IsFiniteSet(T \ {old}) /\ Cardinality(T \ {old}) = Cardinality(T) - 1
    BY <1>9, <1>10, FS_RemoveElement
  <2>3. Cardinality((T \ {old}) \cup {id}) = Cardinality(T \ {old}) + 1
    BY <1>10, <2>2, FS_AddElement
  <2>4. Cardinality(T) \in Nat
    BY <1>10, FS_CardinalityType
  <2>5. nNew = Cardinality(N) /\ nTried = Cardinality(T)
    BY <1>1 DEF N, T
  <2>6. nNew' = nNew + 1 /\ nTried' = nTried
    BY <1>2
  <2>7. Cardinality((T \ {old}) \cup {id}) = Cardinality(T)
    BY <2>2, <2>3, <2>4
  <2> QED  BY <1>16, <1>17, <2>1, <2>5, <2>6, <2>7
<1>19. NewSound(mapInfo', moving'.id, vvNew')
  <2>1. /\ DOMAIN vvNew' = NewBuckets /\ vvNew'[back] = vvNew[back] \cup {old}
        /\ \A c \in NewBuckets : c # back => vvNew'[c] = vvNew[c]
    BY <1>2, <1>8, <1>11
  <2>2. \A c \in NewBuckets : old \notin vvNew[c]
    BY <1>8, <1>9, <1>10
  <2>3. Occ(vvNew', old) = {back} /\ \A j \in N : Occ(vvNew', j) = Occ(vvNew, j)
    BY <1>9, <1>10, <1>11, <2>1, <2>2 DEF Occ
  <2>4. Cardinality(Occ(vvNew', old)) = 1
    BY <2>3, FS_Singleton
  <2>5. \A j \in N : j # id /\ j # old /\ mapInfo'[j] = mapInfo[j]
    BY <1>9, <1>10, <1>12 DEF Ids
  <2>6. \A j \in N \cup {old} : /\ mapInfo'[j].nRefCount = Cardinality(Occ(vvNew', j))
                                /\ mapInfo'[j].nRefCount \in 1 .. ADDRMAN_NEW_BUCKETS_PER_ADDRESS
    <3>1. \A j \in N : /\ mapInfo'[j].nRefCount = Cardinality(Occ(vvNew', j))
                       /\ mapInfo'[j].nRefCount \in 1 .. ADDRMAN_NEW_BUCKETS_PER_ADDRESS
      BY <1>8, <2>3, <2>5
    <3>2. mapInfo'[old].nRefCount = Cardinality(Occ(vvNew', old))
      BY <1>12, <2>4
    <3>3. mapInfo'[old].nRefCount \in 1 .. ADDRMAN_NEW_BUCKETS_PER_ADDRESS
      BY <1>12, AddrManAssumption
    <3> QED  BY <3>1, <3>2, <3>3
  <2>7. \A c \in NewBuckets : vvNew'[c] \subseteq N \cup {old}
    BY <1>8, <2>1
  <2>8. \A c \in NewBuckets : Cardinality(vvNew'[c]) <= ADDRMAN_NEW_BUCKET_SIZE
    <3>1. IsFiniteSet(vvNew[back])
      BY <1>8, <1>10, <1>11, FS_Subset
    <3>2. Cardinality(vvNew[back] \cup {old}) = Cardinality(vvNew[back]) + 1 /\ Cardinality(vvNew[back]) \in Nat
      BY <1>11, <2>2, <3>1, FS_AddElement, FS_CardinalityType
    <3>3. Cardinality(vvNew'[back]) <= ADDRMAN_NEW_BUCKET_SIZE
      BY <1>4, <1>11, <2>1, <3>2
    <3> QED  BY <1>8, <2>1, <3>3
  <2> QED  BY <1>16, <2>1, <2>6, <2>7, <2>8 DEF NewSound
<1> DEFINE new == vvTried'[b]
<1>20. /\ DOMAIN vvTried' = TriedBuckets /\ new = [full EXCEPT ![pos] = id]
       /\ \A c \in TriedBuckets : c # b => vvTried'[c] = vvTried[c]
  BY <1>2, <1>6, <1>7 DEF full
<1>21. full \in [1 .. n -> T]
  <2>1. full \in Seq(T)
    BY <1>6, <1>7 DEF full
  <2> QED  BY <1>3, <2>1, LenProperties
<1> HIDE DEF new
<1>22. \A k, l \in 1 .. n : full[k] = full[l] => k = l
  BY <1>3, <1>6, <1>7 DEF full
<1>23. /\ DOMAIN new = 1 .. n /\ new[pos] = id /\ \A k \in 1 .. n : k # pos => new[k] = full[k]
       /\ \A k \in 1 .. n : k # pos => full[k] \in T \ {old}
  BY <1>5, <1>20, <1>21, <1>22 DEF old
<1>24. new \in Seq((T \ {old}) \cup {id}) /\ Len(new) = n
  <2>1. new = [k \in 1 .. n |-> new[k]] /\ \A k \in 1 .. n : new[k] \in (T \ {old}) \cup {id}
    BY <1>20, <1>21, <1>23
  <2>2. new \in [1 .. n -> (T \ {old}) \cup {id}]
    BY <2>1
  <2> QED  BY <1>4, <2>2, SeqDef, LenProperties
<1>25. \A k, l \in 1 .. n : new[k] = new[l] => k = l
  BY <1>10, <1>22, <1>23
<1>26. TriedHome(mapInfo'[id]) = TriedHome(mapInfo[id]) /\ \A j \in T \ {old} : mapInfo'[j] = mapInfo[j] /\ j \in Ids
  BY <1>3, <1>10, <1>12, <1>13 DEF TriedHome, Ids
<1>27. \A k \in 1 .. n : TriedHome(mapInfo'[new[k]]) = b
  <2>1. \A k \in 1 .. n : TriedHome(mapInfo[full[k]]) = b
    BY <1>3, <1>6, <1>7 DEF full
  <2> QED  BY <1>3, <1>23, <1>26, <2>1
<1>28. \A c \in TriedBuckets : c # b => old \notin {vvTried[c][k] : k \in 1 .. Len(vvTried[c])}
  <2>1. TriedHome(mapInfo[old]) = b
    BY <1>3, <1>5, <1>6, <1>7 DEF old, full
  <2> QED  BY <1>7, <2>1
<1>29. TriedSound(mapInfo', moving'.id, vvTried')
  <2> DEFINE T2 == (T \ {old}) \cup {id}
  <2>1. \A c \in TriedBuckets : /\ vvTried'[c] \in Seq(T2) /\ Len(vvTried'[c]) <= n
                                /\ \A k, l \in 1 .. Len(vvTried'[c]) : vvTried'[c][k] = vvTried'[c][l] => k = l
                                /\ \A k \in 1 .. Len(vvTried'[c]) : TriedHome(mapInfo'[vvTried'[c][k]]) = c
    <3> SUFFICES ASSUME NEW c \in TriedBuckets
                 PROVE  /\ vvTried'[c] \in Seq(T2) /\ Len(vvTried'[c]) <= n
                        /\ \A k, l \in 1 .. Len(vvTried'[c]) : vvTried'[c][k] = vvTried'[c][l] => k = l
                        /\ \A k \in 1 .. Len(vvTried'[c]) : TriedHome(mapInfo'[vvTried'[c][k]]) = c
      OBVIOUS
    <3>1. CASE c = b
      BY <1>4, <1>24, <1>25, <1>27, <3>1 DEF new
    <3>2. CASE c # b
      <4>1. vvTried'[c] = vvTried[c] /\ vvTried[c] \in Seq(T) /\ Len(vvTried[c]) <= n
        BY <1>7, <1>20, <3>2
      <4>2. \A k \in 1 .. Len(vvTried[c]) : vvTried[c][k] \in T \ {old}
        BY <1>9, <1>28, <3>2
      <4>3. vvTried[c] \in [1 .. Len(vvTried[c]) -> T2] /\ Len(vvTried[c]) \in Nat
        BY <4>1, <4>2, LenProperties
      <4>4. vvTried[c] \in Seq(T2)
        BY <4>3, SeqDef
      <4> QED  BY <1>7, <1>26, <4>1, <4>2, <4>4
    <3> QED  BY <3>1, <3>2
  <2>2. \A j \in T2 : /\ mapInfo'[j].nLastSuccess # 0 /\ mapInfo'[j].nRefCount = 0
                      /\ \E k \in 1 .. Len(vvTried'[TriedHome(mapInfo'[j])]) : vvTried'[TriedHome(mapInfo'[j])][k] = j
    <3> SUFFICES ASSUME NEW j \in T2
                 PROVE  /\ mapInfo'[j].nLastSuccess # 0 /\ mapInfo'[j].nRefCount = 0
                        /\ \E k \in 1 .. Len(vvTried'[TriedHome(mapInfo'[j])]) :
                              vvTried'[TriedHome(mapInfo'[j])][k] = j
      OBVIOUS
    <3>1. CASE j = id
      <4>1. mapInfo'[id].nLastSuccess # 0 /\ mapInfo'[id].nRefCount = 0
        BY <1>3, <1>12 DEF InfoFields
      <4>2. pos \in 1 .. Len(vvTried'[b]) /\ vvTried'[b][pos] = id
        BY <1>5, <1>23, <1>24 DEF new
      <4> QED  BY <1>3, <1>26, <3>1, <4>1, <4>2
    <3>2. CASE j \in T \ {old}
      <4> DEFINE home == TriedHome(mapInfo[j])
      <4>1. mapInfo'[j] = mapInfo[j] /\ mapInfo[j].nLastSuccess # 0 /\ mapInfo[j].nRefCount = 0
        BY <1>7, <1>26, <3>2
      <4>2. PICK k \in 1 .. Len(vvTried[home]) : vvTried[home][k] = j
        BY <1>7, <3>2
      <4>3. home \in TriedBuckets
        BY <1>1, <1>26, <3>2, HomeOfInfo DEF Infos, Ids
      <4> HIDE DEF home
      <4>4. k \in 1 .. Len(vvTried'[home]) /\ vvTried'[home][k] = j
        <5>1. CASE home = b
          <6>1. k \in 1 .. n /\ full[k] = j /\ k # pos
            BY <1>3, <3>2, <4>2, <5>1 DEF full, old
          <6> QED  BY <1>23, <1>24, <5>1, <6>1 DEF new
        <5>2. CASE home # b
          BY <1>20, <4>2, <4>3, <5>2
        <5> QED  BY <5>1, <5>2
      <4> QED  BY <4>1, <4>4 DEF home
    <3> QED  BY <3>1, <3>2
  <2> QED  BY <1>17, <1>20, <2>1, <2>2 DEF TriedSound, n
<1>30. MovingSound'
  BY <1>2 DEF MovingSound
<1> QED  BY <1>1, <1>2, <1>14, <1>18, <1>19, <1>29, <1>30 DEF AddrInv

----------------------------------------------------------------------------
(* GetAddr_.                                                               *)

LEMMA ShuffleKeeps ==
    ASSUME AddrInv, NEW nRndPos, Shuffle(nRndPos)
    PROVE  AddrInv'
<1> DEFINE n == shuffled + 1
           r == nRndPos
           id1 == vRandom[n]
           id2 == vRandom[r]
<1>1. /\ nIdCount \in Nat /\ Ids \subseteq 0 .. (nIdCount - 1)
      /\ Infos(mapInfo) /\ Listed(mapInfo, vRandom) /\ Mapped(mapInfo, mapAddr)
      /\ NewSound(mapInfo, moving.id, vvNew) /\ TriedSound(mapInfo, moving.id, vvTried)
      /\ nNew = Cardinality(NewOf(mapInfo, moving.id)) /\ nTried = Cardinality(TriedOf(mapInfo, moving.id))
      /\ shuffled \in Nat /\ pc \in {"free", "evict", "getaddr"} /\ MovingSound
  BY DEF AddrInv
<1>2. /\ pc = "getaddr" /\ r \in n .. Len(vRandom)
      /\ vRandom' = [vRandom EXCEPT ![n] = id2, ![r] = id1]
      /\ mapInfo' = [mapInfo EXCEPT ![id1].nRandomPos = r, ![id2].nRandomPos = n]
      /\ shuffled' = n
      /\ UNCHANGED <<nIdCount, mapAddr, nTried, vvTried, nNew, vvNew, pc, moving>>
  BY DEF Shuffle
<1>3. /\ vRandom \in Seq(Ids)
      /\ \A j \in Ids : mapInfo[j].nRandomPos \in 1 .. Len(vRandom) /\ vRandom[mapInfo[j].nRandomPos] = j
      /\ \A k \in 1 .. Len(vRandom) : mapInfo[vRandom[k]].nRandomPos = k
  BY <1>1 DEF Listed, Ids
<1>4. /\ Len(vRandom) \in Nat /\ vRandom \in [1 .. Len(vRandom) -> Ids]
      /\ n \in 1 .. Len(vRandom) /\ r \in 1 .. Len(vRandom)
  BY <1>1, <1>2, <1>3, LenProperties
<1>5. id1 \in Ids /\ id2 \in Ids /\ IsInfo(mapInfo[id1]) /\ IsInfo(mapInfo[id2])
  BY <1>1, <1>4 DEF Infos, Ids
<1>6. id1 = id2 <=> n = r
  BY <1>3, <1>4
<1> HIDE DEF id1, id2, n, r
<1>7. /\ DOMAIN mapInfo' = DOMAIN mapInfo
      /\ \A j \in Ids : j # id1 /\ j # id2 => mapInfo'[j] = mapInfo[j]
      /\ mapInfo'[id2] = [mapInfo[id2] EXCEPT !.nRandomPos = n]
      /\ id1 # id2 => mapInfo'[id1] = [mapInfo[id1] EXCEPT !.nRandomPos = r]
  <2>1. CASE id1 # id2
    BY <1>2, <1>5, <2>1 DEF Ids
  <2>2. CASE id1 = id2
    <3>1. DOMAIN mapInfo[id2] = InfoFields
      BY <1>5 DEF IsInfo
    <3>2. /\ DOMAIN mapInfo' = DOMAIN mapInfo
          /\ \A j \in Ids : j # id1 /\ j # id2 => mapInfo'[j] = mapInfo[j]
          /\ mapInfo'[id2] = [[mapInfo[id2] EXCEPT !.nRandomPos = r] EXCEPT !.nRandomPos = n]
      BY <1>2, <1>5, <2>2 DEF Ids
    <3>3. [[mapInfo[id2] EXCEPT !.nRandomPos = r] EXCEPT !.nRandomPos = n] = [mapInfo[id2] EXCEPT !.nRandomPos = n]
      BY <3>1 DEF InfoFields
    <3> QED  BY <2>2, <3>2, <3>3
  <2> QED  BY <2>1, <2>2
<1>8. /\ \A j \in {id1, id2} : /\ DOMAIN mapInfo'[j] = InfoFields
                               /\ \A f \in InfoFields \ {"nRandomPos"} : mapInfo'[j][f] = mapInfo[j][f]
      /\ mapInfo'[id2].nRandomPos = n /\ mapInfo'[id1].nRandomPos = r
  <2>1. DOMAIN mapInfo[id1] = InfoFields /\ DOMAIN mapInfo[id2] = InfoFields
    BY <1>5 DEF IsInfo
  <2>2. /\ DOMAIN mapInfo'[id2] = InfoFields /\ mapInfo'[id2].nRandomPos = n
        /\ \A f \in InfoFields \ {"nRandomPos"} : mapInfo'[id2][f] = mapInfo[id2][f]
    BY <1>7, <2>1 DEF InfoFields
  <2>3. CASE id1 # id2
    <3>1. /\ DOMAIN mapInfo'[id1] = InfoFields /\ mapInfo'[id1].nRandomPos = r
          /\ \A f \in InfoFields \ {"nRandomPos"} : mapInfo'[id1][f] = mapInfo[id1][f]
      BY <1>7, <2>1, <2>3 DEF InfoFields
    <3> QED  BY <2>2, <3>1
  <2>4. CASE id1 = id2
    BY <1>6, <2>2, <2>4
  <2> QED  BY <2>3, <2>4
<1>9. \A j \in DOMAIN mapInfo : Alike(mapInfo'[j], mapInfo[j])
  <2> SUFFICES ASSUME NEW j \in DOMAIN mapInfo
               PROVE  Alike(mapInfo'[j], mapInfo[j])
    OBVIOUS
  <2>1. IsInfo(mapInfo[j])
    BY <1>1 DEF Infos
  <2>2. CASE j \notin {id1, id2}
    BY <1>7, <2>1, <2>2 DEF Alike, Ids
  <2>3. CASE j \in {id1, id2}
    <3>1. /\ DOMAIN mapInfo'[j] = InfoFields
          /\ mapInfo'[j].addr = mapInfo[j].addr /\ mapInfo'[j].port = mapInfo[j].port
          /\ mapInfo'[j].source = mapInfo[j].source /\ mapInfo'[j].nRefCount = mapInfo[j].nRefCount
          /\ mapInfo'[j].fInTried = mapInfo[j].fInTried /\ mapInfo'[j].nLastSuccess = mapInfo[j].nLastSuccess
      BY <1>8, <2>3 DEF InfoFields
    <3> QED  BY <2>1, <3>1 DEF Alike, IsInfo
  <2> QED  BY <2>2, <2>3
<1>10. /\ Infos(mapInfo') /\ Mapped(mapInfo', mapAddr)
       /\ NewOf(mapInfo', moving.id) = NewOf(mapInfo, moving.id)
       /\ TriedOf(mapInfo', moving.id) = TriedOf(mapInfo, moving.id)
       /\ NewSound(mapInfo', moving.id, vvNew) /\ TriedSound(mapInfo', moving.id, vvTried)
  BY <1>1, <1>7, <1>9, AlikeInfos
<1>11. /\ DOMAIN vRandom' = 1 .. Len(vRandom) /\ vRandom'[n] = id2 /\ vRandom'[r] = id1
       /\ \A k \in 1 .. Len(vRandom) : k # n /\ k # r => vRandom'[k] = vRandom[k]
       /\ vRandom' \in [1 .. Len(vRandom) -> Ids]
  BY <1>2, <1>4, <1>5, <1>6 DEF id1, id2
<1>12. vRandom' \in Seq(Ids) /\ Len(vRandom') = Len(vRandom)
  BY <1>4, <1>11, SeqDef, LenProperties
<1>13. \A k \in 1 .. Len(vRandom) : mapInfo'[vRandom'[k]].nRandomPos = k
  <2> SUFFICES ASSUME NEW k \in 1 .. Len(vRandom)
               PROVE  mapInfo'[vRandom'[k]].nRandomPos = k
    OBVIOUS
  <2>1. CASE k = n
    BY <1>8, <1>11, <2>1
  <2>2. CASE k = r
    BY <1>8, <1>11, <2>2
  <2>3. CASE k # n /\ k # r
    <3>1. vRandom'[k] = vRandom[k] /\ vRandom[k] \in Ids /\ vRandom[k] # id1 /\ vRandom[k] # id2
      BY <1>3, <1>4, <1>11, <2>3 DEF id1, id2
    <3> QED  BY <1>3, <1>7, <3>1
  <2> QED  BY <2>1, <2>2, <2>3
<1>14. \A j \in Ids : mapInfo'[j].nRandomPos \in 1 .. Len(vRandom) /\ vRandom'[mapInfo'[j].nRandomPos] = j
  <2> SUFFICES ASSUME NEW j \in Ids
               PROVE  mapInfo'[j].nRandomPos \in 1 .. Len(vRandom) /\ vRandom'[mapInfo'[j].nRandomPos] = j
    OBVIOUS
  <2>1. CASE j = id1
    BY <1>4, <1>8, <1>11, <2>1
  <2>2. CASE j = id2
    BY <1>4, <1>8, <1>11, <2>2
  <2>3. CASE j # id1 /\ j # id2
    <3>1. mapInfo'[j] = mapInfo[j] /\ mapInfo[j].nRandomPos # n /\ mapInfo[j].nRandomPos # r
      BY <1>3, <1>7, <2>3 DEF id1, id2
    <3> QED  BY <1>3, <1>11, <3>1
  <2> QED  BY <2>1, <2>2, <2>3
<1>15. Listed(mapInfo', vRandom') /\ Ids' = Ids
  BY <1>7, <1>12, <1>13, <1>14 DEF Listed, Ids
<1>16. MovingSound' /\ shuffled' \in Nat
  BY <1>1, <1>2, <1>4 DEF MovingSound, NotMoving, NoId
<1> QED  BY <1>1, <1>2, <1>10, <1>15, <1>16 DEF AddrInv

LEMMA GetAddrKeeps ==
    ASSUME AddrInv, GetAddr \/ GotAddr \/ UNCHANGED vars
    PROVE  AddrInv'
<1>1. /\ nIdCount \in Nat /\ Ids \subseteq 0 .. (nIdCount - 1)
      /\ Infos(mapInfo) /\ Listed(mapInfo, vRandom) /\ Mapped(mapInfo, mapAddr)
      /\ NewSound(mapInfo, moving.id, vvNew) /\ TriedSound(mapInfo, moving.id, vvTried)
      /\ nNew = Cardinality(NewOf(mapInfo, moving.id)) /\ nTried = Cardinality(TriedOf(mapInfo, moving.id))
      /\ shuffled \in Nat /\ pc \in {"free", "evict", "getaddr"} /\ MovingSound
  BY DEF AddrInv
<1>2. /\ nIdCount' = nIdCount /\ mapInfo' = mapInfo /\ mapAddr' = mapAddr /\ vRandom' = vRandom
      /\ nTried' = nTried /\ vvTried' = vvTried /\ nNew' = nNew /\ vvNew' = vvNew /\ moving' = moving
      /\ \/ pc # "evict" /\ pc' \in {"free", "getaddr"} /\ shuffled' = 0
         \/ pc' = pc /\ shuffled' = shuffled
  BY DEF GetAddr, GotAddr, vars, tables
<1>3. Ids' = Ids
  BY <1>2 DEF Ids
<1>4. MovingSound'
  BY <1>1, <1>2, <1>3 DEF MovingSound, NotMoving, NoId
<1> QED  BY <1>1, <1>2, <1>3, <1>4 DEF AddrInv

----------------------------------------------------------------------------
(* The invariant.                                                          *)

LEMMA AddrInit == Init => AddrInv
<1> SUFFICES ASSUME Init
             PROVE  AddrInv
  OBVIOUS
<1>1. /\ nIdCount = 0 /\ nTried = 0 /\ nNew = 0 /\ mapInfo = << >> /\ mapAddr = << >> /\ vRandom = << >>
      /\ vvTried = [b \in TriedBuckets |-> << >>] /\ vvNew = [b \in NewBuckets |-> {}]
      /\ pc = "free" /\ moving = NotMoving /\ shuffled = 0
  BY DEF Init
<1>2. DOMAIN mapInfo = {} /\ Ids = {} /\ DOMAIN mapAddr = {}
  BY <1>1 DEF Ids
<1>3. \A S : << >> \in Seq(S) /\ Len(<< >>) = 0
  BY EmptySeq
<1>4. Infos(mapInfo) /\ Mapped(mapInfo, mapAddr)
  BY <1>2 DEF Infos, Mapped
<1>5. Listed(mapInfo, vRandom)
  BY <1>1, <1>2, <1>3 DEF Listed
<1>6. NewOf(mapInfo, moving.id) = {} /\ TriedOf(mapInfo, moving.id) = {} /\ Cardinality({}) = 0
  BY <1>2, FS_EmptySet DEF NewOf, TriedOf
<1>7. NewSound(mapInfo, moving.id, vvNew)
  BY <1>1, <1>6, AddrManAssumption DEF NewSound
<1>8. TriedSound(mapInfo, moving.id, vvTried)
  <2>1. \A b \in TriedBuckets : vvTried[b] = << >>
    BY <1>1
  <2>2. \A b \in TriedBuckets : /\ vvTried[b] \in Seq(TriedOf(mapInfo, moving.id)) /\ Len(vvTried[b]) = 0
    BY <1>3, <2>1
  <2> QED  BY <1>1, <1>6, <2>2, AddrManAssumption DEF TriedSound
<1>9. MovingSound
  BY <1>1 DEF MovingSound
<1> QED  BY <1>1, <1>2, <1>4, <1>5, <1>6, <1>7, <1>8, <1>9 DEF AddrInv

LEMMA AddrNext == AddrInv /\ [Next]_vars => AddrInv'
<1> SUFFICES ASSUME AddrInv, [Next]_vars
             PROVE  AddrInv'
  OBVIOUS
<1>1. ASSUME NEW a \in Addrs, NEW p \in Ports, NEW src \in Sources, NEW t \in Times \cup {0},
             NEW penalty \in Penalties, NEW nNow \in Times, AddNew(a, p, src, t, penalty, nNow)
      PROVE  AddrInv'
  BY <1>1, AddNewKeeps
<1>2. ASSUME NEW a \in Addrs, NEW src \in Sources, NEW t \in Times \cup {0},
             NEW penalty \in Penalties, NEW nNow \in Times, AddKnown(a, src, t, penalty, nNow)
      PROVE  AddrInv'
  BY <1>2, AddKnownKeeps
<1>3. ASSUME NEW a \in Addrs, NEW p \in Ports, NEW nTime \in Times,
             Attempt(a, p, nTime) \/ Connected(a, p, nTime) \/ GoodAgain(a, p, nTime)
      PROVE  AddrInv'
  BY <1>3, AttemptKeeps
<1>4. ASSUME NEW a \in Addrs, NEW p \in Ports, NEW nTime \in Times, Good(a, p, nTime)
      PROVE  AddrInv'
  BY <1>4, GoodKeeps
<1>5. ASSUME NEW nPos, SelectTried(nPos)
      PROVE  AddrInv'
  BY <1>5, SelectTriedKeeps
<1>6. ASSUME NEW nRndPos, Shuffle(nRndPos)
      PROVE  AddrInv'
  BY <1>6, ShuffleKeeps
<1> QED  BY <1>1, <1>2, <1>3, <1>4, <1>5, <1>6, EvictKeeps, GetAddrKeeps DEF Next

LEMMA AddrInvariant == Spec => []AddrInv
BY AddrInit, AddrNext, PTL DEF Spec

----------------------------------------------------------------------------
(* What the invariant says of the tables.                                  *)

LEMMA AddrInvExact == AddrInv => TablesExact
<1> SUFFICES ASSUME AddrInv
             PROVE  TablesExact
  OBVIOUS
<1> DEFINE N == NewOf(mapInfo, moving.id)
           T == TriedOf(mapInfo, moving.id)
<1>1. /\ nIdCount \in Nat /\ Ids \subseteq 0 .. (nIdCount - 1)
      /\ Infos(mapInfo) /\ Listed(mapInfo, vRandom) /\ Mapped(mapInfo, mapAddr)
      /\ NewSound(mapInfo, moving.id, vvNew) /\ TriedSound(mapInfo, moving.id, vvTried)
      /\ nNew = Cardinality(N) /\ nTried = Cardinality(T) /\ MovingSound
  BY DEF AddrInv
<1>2. IsFiniteSet(Ids) /\ IsFiniteSet(N) /\ IsFiniteSet(T)
  <2>1. IsFiniteSet(Ids)
    BY <1>1, IdsFinite
  <2> QED  BY <2>1, FS_Subset DEF NewOf, TriedOf, Ids
<1>3. Tried = T /\ NewIds = N
  BY DEF Tried, NewIds, Placed, TriedOf, NewOf, Ids
<1>4. /\ vRandom \in Seq(Ids)
      /\ \A id \in Ids : mapInfo[id].nRandomPos \in 1 .. Len(vRandom) /\ vRandom[mapInfo[id].nRandomPos] = id
      /\ \A k \in 1 .. Len(vRandom) : mapInfo[vRandom[k]].nRandomPos = k
  BY <1>1 DEF Listed, Ids
<1>5. vRandom \in [1 .. Len(vRandom) -> Ids] /\ Len(vRandom) \in Nat
  BY <1>4, LenProperties
<1>6. Len(vRandom) = Cardinality(Ids)
  <2>1. vRandom \in Surjection(1 .. Len(vRandom), Ids)
    BY <1>4, <1>5 DEF Surjection
  <2>2. vRandom \in Injection(1 .. Len(vRandom), Ids)
    <3>1. \A k, l \in 1 .. Len(vRandom) : vRandom[k] = vRandom[l] => k = l
      BY <1>4
    <3>2. IsInjective(vRandom)
      BY <1>5, <3>1 DEF IsInjective
    <3>3. vRandom \in [1 .. Len(vRandom) -> Ids]
      BY <1>5
    <3> QED  BY <3>2, <3>3 DEF Injection
  <2>3. \A m \in Nat : IsFiniteSet(1 .. m) /\ Cardinality(1 .. m) = m
    BY FS_Interval
  <2> QED  BY <1>5, <2>1, <2>2, <2>3, FS_Surjection
<1>7. IndexExact
  BY <1>1, <1>4, <1>6 DEF IndexExact, Mapped, Ids
<1>8. /\ \A j \in T : /\ mapInfo[j].nLastSuccess # 0 /\ mapInfo[j].nRefCount = 0
                      /\ \E k \in 1 .. Len(vvTried[TriedHome(mapInfo[j])]) : vvTried[TriedHome(mapInfo[j])][k] = j
      /\ \A c \in TriedBuckets :
            /\ vvTried[c] \in Seq(T) /\ Len(vvTried[c]) <= ADDRMAN_TRIED_BUCKET_SIZE
            /\ \A k, l \in 1 .. Len(vvTried[c]) : vvTried[c][k] = vvTried[c][l] => k = l
            /\ \A k \in 1 .. Len(vvTried[c]) : TriedHome(mapInfo[vvTried[c][k]]) = c
  BY <1>1 DEF TriedSound
<1>9. \A c \in TriedBuckets : \A k \in 1 .. Len(vvTried[c]) : vvTried[c][k] \in T
  BY <1>8, ElementOfSeq
<1>10. /\ \A j \in N : /\ mapInfo[j].nRefCount = Cardinality(Occ(vvNew, j))
                       /\ mapInfo[j].nRefCount \in 1 .. ADDRMAN_NEW_BUCKETS_PER_ADDRESS
       /\ \A c \in NewBuckets : vvNew[c] \subseteq N
       /\ \A c \in NewBuckets : Cardinality(vvNew[c]) <= ADDRMAN_NEW_BUCKET_SIZE
  BY <1>1 DEF NewSound
<1>11. T \cap N = {} /\ T \subseteq Ids /\ N \subseteq Ids /\ (moving.id \notin Ids => N \cup T = Ids)
  BY DEF NewOf, TriedOf, Ids
<1>12. TriedExact
  <2>1. \A id \in T : Occurrences(id) = {}
    BY <1>10, <1>11 DEF Occurrences
  <2> HIDE DEF T
  <2> QED  BY <1>1, <1>3, <1>8, <1>9, <2>1 DEF TriedExact, TriedHome
<1>13. NewExact
  <2>1. \A id \in N : Occurrences(id) = Occ(vvNew, id)
    BY DEF Occurrences, Occ
  <2> HIDE DEF N
  <2> QED  BY <1>1, <1>3, <1>10, <2>1 DEF NewExact
<1>14. BucketsBounded
  BY <1>8, <1>10 DEF BucketsBounded
<1>15. nTried > 0 => \E b \in TriedBuckets : vvTried[b] # << >>
  <2> SUFFICES ASSUME nTried > 0
               PROVE  \E b \in TriedBuckets : vvTried[b] # << >>
    OBVIOUS
  <2>1. T # {}
    BY <1>1, FS_EmptySet
  <2>2. PICK j \in T : TRUE
    BY <2>1
  <2>3. TriedHome(mapInfo[j]) \in TriedBuckets
    BY <1>1, <1>11, HomeOfInfo DEF Infos, Ids
  <2>4. \E k \in 1 .. Len(vvTried[TriedHome(mapInfo[j])]) : TRUE
    BY <1>8
  <2>5. vvTried[TriedHome(mapInfo[j])] # << >>
    BY <2>4, EmptySeq
  <2> QED  BY <2>3, <2>5
<1>16. N # {} => \E b \in NewBuckets : vvNew[b] # {}
  <2> SUFFICES ASSUME NEW j \in N
               PROVE  \E b \in NewBuckets : vvNew[b] # {}
    OBVIOUS
  <2>1. Cardinality(Occ(vvNew, j)) # 0
    BY <1>10, AddrManAssumption
  <2>2. Occ(vvNew, j) # {}
    BY <2>1, FS_EmptySet
  <2> QED  BY <2>2 DEF Occ
<1>17. ASSUME pc = "free", vRandom # << >>, nTried <= 0
       PROVE  N # {}
  <2>1. Ids # {}
    <3>1. Len(vRandom) # 0
      BY <1>4, <1>17, EmptySeq
    <3> QED  BY <1>6, <3>1, FS_EmptySet
  <2>2. T = {}
    BY <1>1, <1>2, <1>17, FS_EmptySet, FS_CardinalityType
  <2>3. moving.id \notin Ids
    BY <1>17, FreeFits
  <2> QED  BY <1>11, <2>1, <2>2, <2>3
<1>18. nNew > 0 => N # {}
  BY <1>1, FS_EmptySet
<1>19. nTried \in Nat
  BY <1>1, <1>2, FS_CardinalityType
<1>20. SelectEnds
  <2> SUFFICES ASSUME NEW nUnkBias \in {10, 50, 90}, pc = "free", vRandom # << >>
               PROVE  /\ DrawsTried(nUnkBias) => \E b \in TriedBuckets : vvTried[b] # << >>
                      /\ DrawsNew(nUnkBias) => \E b \in NewBuckets : vvNew[b] # {}
    BY DEF SelectEnds, SelectFinds
  <2>1. DrawsTried(nUnkBias) => nTried > 0
    BY DEF DrawsTried
  <2>2. DrawsNew(nUnkBias) => nTried <= 0 \/ nNew > 0
    BY <1>19 DEF DrawsNew, DrawsTried
  <2> QED  BY <1>15, <1>16, <1>17, <1>18, <2>1, <2>2
<1> QED  BY <1>7, <1>12, <1>13, <1>14, <1>20 DEF TablesExact, Consistent

\* Check_ finds nothing, in any state: the two tables and the two indexes agree, the counts are
\* right, no bucket overflows, and Select_ always has an entry to find, for any number of
\* addresses, any buckets, any hash and any sizes (the invariant of CAddrMan, addrman.h).
THEOREM TablesStayExact == Spec => []TablesExact
BY AddrInvariant, AddrInvExact, PTL

----------------------------------------------------------------------------
(* The manager implements the address book.                                *)

LEMMA BookIs ==
    /\ book = BookOf(mapInfo, mapAddr) /\ DOMAIN book = DOMAIN mapAddr
    /\ \A a \in DOMAIN mapAddr : book[a] = IF mapInfo[mapAddr[a]].fInTried THEN "tried" ELSE "new"
BY DEF book, BookOf

\* Nothing about where an entry is changes.
LEMMA BookStays ==
    ASSUME Mapped(mapInfo, mapAddr), mapAddr' = mapAddr, DOMAIN mapInfo' = DOMAIN mapInfo,
           \A id \in DOMAIN mapInfo : mapInfo'[id].fInTried = mapInfo[id].fInTried
    PROVE  book' = book
<1>1. \A a \in DOMAIN mapAddr : mapAddr[a] \in DOMAIN mapInfo
  BY DEF Mapped
<1> QED  BY <1>1 DEF book

LEMMA AddNewLearns ==
    ASSUME AddrInv, NEW a \in Addrs, NEW p \in Ports, NEW src \in Sources, NEW t, NEW penalty, NEW nNow,
           AddNew(a, p, src, t, penalty, nNow)
    PROVE  Book!Next
<1>1. PICK info : Creates(info, a)
  BY AddNewSettles
<1>2. a \notin DOMAIN mapAddr /\ Mapped(mapInfo, mapAddr)
  BY DEF AddNew, Found, AddrInv
<1>3. \A j \in Ids : mapInfo[j].addr \in DOMAIN mapAddr /\ mapAddr[mapInfo[j].addr] = j
  BY <1>2 DEF Mapped, Ids
<1>4. /\ DOMAIN info = Ids \cup {nIdCount} /\ nIdCount \notin Ids /\ \A j \in Ids : info[j] = mapInfo[j]
      /\ info[nIdCount].addr = a /\ ~info[nIdCount].fInTried
      /\ NewOf(info, moving.id) = NewOf(mapInfo, moving.id) \cup {nIdCount}
  BY <1>1 DEF Creates
<1>5. BookOf(info, KnownWith(a)) = [x \in DOMAIN book \cup {a} |-> IF x = a THEN "new" ELSE book[x]]
  <2>1. \A x \in DOMAIN mapAddr : mapAddr[x] \in Ids
    BY <1>2 DEF Mapped, Ids
  <2> QED  BY <1>2, <1>4, <2>1 DEF BookOf, KnownWith, book
<1>6. \/ book' = BookOf(info, KnownWith(a))
      \/ \E j \in NewOf(mapInfo, moving.id) : book' = Without(BookOf(info, KnownWith(a)), mapInfo[j].addr)
  <2>1. book' = BookOf(mapInfo', mapAddr')
    BY DEF book, BookOf
  <2>2. NewOf(mapInfo, moving.id) \subseteq Ids
    BY DEF NewOf, Ids
  <2> QED  BY <1>1, <1>4, <2>1, <2>2 DEF Creates, Settled
<1>7. \E dropped \in SUBSET Book!NewOnes : Book!Learn(a, dropped)
  <2>1. CASE book' = BookOf(info, KnownWith(a))
    <3>1. Book!AtMostOne({})
      BY DEF Book!AtMostOne
    <3>2. book' = [x \in (DOMAIN book \ {}) \cup {a} |-> IF x = a THEN "new" ELSE book[x]]
      BY <1>5, <2>1
    <3>3. Book!Learn(a, {})
      BY <1>2, <3>1, <3>2, BookIs DEF Book!Learn
    <3> QED  BY <3>3
  <2>2. CASE \E j \in NewOf(mapInfo, moving.id) : book' = Without(BookOf(info, KnownWith(a)), mapInfo[j].addr)
    <3>1. PICK j \in NewOf(mapInfo, moving.id) : book' = Without(BookOf(info, KnownWith(a)), mapInfo[j].addr)
      BY <2>2
    <3> DEFINE gone == mapInfo[j].addr
    <3>2. j \in Ids /\ ~mapInfo[j].fInTried
      BY DEF NewOf, Ids
    <3>3. gone \in DOMAIN book /\ book[gone] = "new" /\ gone # a
      <4>1. gone \in DOMAIN mapAddr /\ mapAddr[gone] = j
        BY <1>3, <3>2
      <4> QED  BY <1>2, <3>2, <4>1, BookIs
    <3>4. Book!AtMostOne({gone})
      BY DEF Book!AtMostOne
    <3> HIDE DEF gone
    <3>5. book' = [x \in (DOMAIN book \ {gone}) \cup {a} |-> IF x = a THEN "new" ELSE book[x]]
      BY <1>5, <3>1, <3>3 DEF Without, gone
    <3>6. {gone} \subseteq Book!NewOnes
      BY <3>3 DEF Book!NewOnes
    <3>7. Book!Learn(a, {gone})
      BY <1>2, <3>4, <3>5, <3>6, BookIs DEF Book!Learn
    <3> QED  BY <3>6, <3>7
  <2> QED  BY <1>6, <2>1, <2>2
<1> QED  BY <1>7 DEF Book!Next

LEMMA AddKnownForgets ==
    ASSUME AddrInv, NEW a, NEW src \in Sources, NEW t, NEW penalty, NEW nNow,
           AddKnown(a, src, t, penalty, nNow)
    PROVE  Book!Next \/ book' = book
<1>1. PICK info : Updates(info, mapAddr[a])
  BY AddKnownSettles
<1>2. Infos(mapInfo) /\ Mapped(mapInfo, mapAddr)
  BY DEF AddrInv
<1>3. /\ DOMAIN info = Ids
      /\ \A j \in Ids : info[j].addr = mapInfo[j].addr /\ info[j].fInTried = mapInfo[j].fInTried
      /\ \/ mapInfo' = info /\ mapAddr' = mapAddr
         \/ Settled(info, mapAddr, moving.id, mapAddr[a])
  BY <1>1 DEF Updates, Alike
<1>4. BookOf(info, mapAddr) = book
  BY <1>2, <1>3, SameBook, BookIs DEF Ids
<1>5. book' = book \/ \E j \in NewOf(info, moving.id) : book' = Without(book, info[j].addr)
  <2>1. book' = BookOf(mapInfo', mapAddr')
    BY DEF book, BookOf
  <2> QED  BY <1>3, <1>4, <2>1 DEF Settled
<1>6. ASSUME NEW j \in NewOf(info, moving.id), book' = Without(book, info[j].addr)
      PROVE  Book!Next
  <2> DEFINE gone == info[j].addr
  <2>1. j \in Ids /\ ~mapInfo[j].fInTried /\ gone = mapInfo[j].addr
    BY <1>3 DEF NewOf
  <2>2. gone \in DOMAIN mapAddr /\ mapAddr[gone] = j /\ gone \in Addrs
    BY <1>2, <2>1 DEF Mapped, Infos, IsInfo, Ids
  <2>3. gone \in Book!NewOnes
    BY <2>1, <2>2, BookIs DEF Book!NewOnes
  <2>4. Book!Forget(gone)
    BY <1>6, <2>3 DEF Book!Forget, Without
  <2> QED  BY <2>2, <2>4 DEF Book!Next
<1> QED  BY <1>5, <1>6

\* The new entry id becomes tried, at the cost of the tried ones of D.
Promoting(id, D) ==
    /\ mapAddr' = mapAddr /\ DOMAIN mapInfo' = DOMAIN mapInfo
    /\ ~mapInfo[id].fInTried /\ mapInfo'[id].fInTried
    /\ \A j \in D : j \in DOMAIN mapInfo /\ mapInfo[j].fInTried /\ ~mapInfo'[j].fInTried
    /\ \A j \in DOMAIN mapInfo : j = id \/ j \in D \/ mapInfo'[j].fInTried = mapInfo[j].fInTried
    /\ \A i, j \in D : i = j

LEMMA Promotes ==
    ASSUME Infos(mapInfo), Mapped(mapInfo, mapAddr), NEW id \in DOMAIN mapInfo, NEW D, Promoting(id, D)
    PROVE  Book!Next
<1> DEFINE a == mapInfo[id].addr
           demoted == {mapInfo[j].addr : j \in D}
<1>0. /\ mapAddr' = mapAddr /\ DOMAIN mapInfo' = DOMAIN mapInfo
      /\ ~mapInfo[id].fInTried /\ mapInfo'[id].fInTried
      /\ \A j \in D : j \in DOMAIN mapInfo /\ mapInfo[j].fInTried /\ ~mapInfo'[j].fInTried
      /\ \A j \in DOMAIN mapInfo : j = id \/ j \in D \/ mapInfo'[j].fInTried = mapInfo[j].fInTried
      /\ \A i, j \in D : i = j
  BY DEF Promoting
<1>1. /\ \A x \in DOMAIN mapAddr : mapAddr[x] \in DOMAIN mapInfo /\ mapInfo[mapAddr[x]].addr = x
      /\ \A j \in DOMAIN mapInfo : mapInfo[j].addr \in DOMAIN mapAddr /\ mapAddr[mapInfo[j].addr] = j
  BY DEF Mapped
<1>2. a \in Addrs /\ a \in DOMAIN mapAddr /\ mapAddr[a] = id
  BY <1>1 DEF Infos, IsInfo
<1>3. \A x \in DOMAIN mapAddr : (x = a <=> mapAddr[x] = id) /\ (x \in demoted <=> mapAddr[x] \in D)
  BY <1>0, <1>1, <1>2
<1>4. a \in Book!NewOnes
  BY <1>0, <1>2, BookIs DEF Book!NewOnes
<1>5. demoted \subseteq Book!TriedOnes
  BY <1>0, <1>1, BookIs DEF Book!TriedOnes
<1> HIDE DEF a, demoted
<1>6. book' = [x \in DOMAIN book |-> IF x = a THEN "tried" ELSE IF x \in demoted THEN "new" ELSE book[x]]
  <2>1. book' = [x \in DOMAIN mapAddr |-> IF mapInfo'[mapAddr[x]].fInTried THEN "tried" ELSE "new"]
    BY <1>0 DEF book
  <2>2. \A x \in DOMAIN mapAddr :
            (IF mapInfo'[mapAddr[x]].fInTried THEN "tried" ELSE "new")
          = (IF x = a THEN "tried" ELSE IF x \in demoted THEN "new" ELSE book[x])
    BY <1>0, <1>1, <1>3, BookIs
  <2> QED  BY <2>1, <2>2, BookIs
<1>7. Book!AtMostOne(demoted)
  BY <1>0 DEF Book!AtMostOne, demoted
<1>8. Book!Promote(a, demoted)
  BY <1>4, <1>5, <1>6, <1>7 DEF Book!Promote
<1> QED  BY <1>2, <1>5, <1>8 DEF Book!Next

LEMMA GoodPromotes ==
    ASSUME AddrInv, NEW a \in Addrs, NEW p \in Ports, NEW nTime \in Times, Good(a, p, nTime)
    PROVE  Book!Next \/ book' = book
<1> DEFINE id == mapAddr[a]
           good == Succeeded(id, nTime)
           removed == [good EXCEPT ![id].nRefCount = @ - Cardinality(RemovedFrom(id))]
<1>1. Infos(mapInfo) /\ Mapped(mapInfo, mapAddr)
  BY DEF AddrInv
<1>2. /\ a \in DOMAIN mapAddr /\ ~mapInfo[id].fInTried /\ mapAddr' = mapAddr
      /\ mapInfo' = [removed EXCEPT ![id].fInTried = TRUE] \/ mapInfo' = removed
  BY DEF Good, Same, Found
<1>3. id \in DOMAIN mapInfo /\ DOMAIN mapInfo[id] = InfoFields
  BY <1>1, <1>2 DEF Mapped, Infos, IsInfo
<1> HIDE DEF id
<1>4. /\ DOMAIN good = DOMAIN mapInfo /\ \A j \in DOMAIN mapInfo : j # id => good[j] = mapInfo[j]
      /\ DOMAIN good[id] = InfoFields /\ good[id].fInTried = mapInfo[id].fInTried
  BY <1>3 DEF Succeeded, InfoFields
<1> HIDE DEF good
<1>5. /\ DOMAIN removed = DOMAIN mapInfo /\ \A j \in DOMAIN mapInfo : j # id => removed[j] = mapInfo[j]
      /\ DOMAIN removed[id] = InfoFields /\ removed[id].fInTried = mapInfo[id].fInTried
  BY <1>3, <1>4 DEF InfoFields
<1> HIDE DEF removed
<1>6. CASE mapInfo' = removed
  <2>1. \A j \in DOMAIN mapInfo : mapInfo'[j].fInTried = mapInfo[j].fInTried
    BY <1>5, <1>6
  <2> QED  BY <1>1, <1>2, <1>5, <1>6, <2>1, BookStays
<1>7. CASE mapInfo' = [removed EXCEPT ![id].fInTried = TRUE]
  <2>1. /\ DOMAIN mapInfo' = DOMAIN mapInfo /\ mapInfo'[id].fInTried
        /\ \A j \in DOMAIN mapInfo : j = id \/ mapInfo'[j].fInTried = mapInfo[j].fInTried
    BY <1>3, <1>5, <1>7 DEF InfoFields
  <2>2. ~mapInfo[id].fInTried
    BY <1>2 DEF id
  <2>3. Promoting(id, {})
    BY <1>2, <2>1, <2>2 DEF Promoting
  <2> QED  BY <1>1, <1>3, <2>3, Promotes
<1> QED  BY <1>2, <1>6, <1>7 DEF removed, good, id

LEMMA EvictPromotes ==
    ASSUME AddrInv, Evict
    PROVE  Book!Next
<1> DEFINE old == vvTried[moving.bucket][moving.nOldestPos]
           id == moving.id
<1>1. Infos(mapInfo) /\ Mapped(mapInfo, mapAddr) /\ MovingSound
  BY DEF AddrInv
<1>2. /\ mapInfo' = [mapInfo EXCEPT ![old].fInTried = FALSE, ![old].nRefCount = 1, ![id].fInTried = TRUE]
      /\ mapAddr' = mapAddr /\ pc = "evict"
  BY DEF Evict, InfoAfterEvict
<1>3. id \in DOMAIN mapInfo /\ ~mapInfo[id].fInTried
  BY <1>1, <1>2 DEF MovingSound, Ids
<1>4. old \in DOMAIN mapInfo /\ mapInfo[old].fInTried /\ old # id
  BY EvictsTried DEF TriedOf
<1>5. DOMAIN mapInfo[old] = InfoFields /\ DOMAIN mapInfo[id] = InfoFields
  BY <1>1, <1>3, <1>4 DEF Infos, IsInfo
<1> HIDE DEF old, id
<1>6. /\ DOMAIN mapInfo' = DOMAIN mapInfo /\ mapInfo'[id].fInTried /\ ~mapInfo'[old].fInTried
      /\ \A j \in DOMAIN mapInfo : j = id \/ j = old \/ mapInfo'[j].fInTried = mapInfo[j].fInTried
  BY <1>2, <1>3, <1>4, <1>5 DEF InfoFields
<1>7. Promoting(id, {old})
  BY <1>2, <1>3, <1>4, <1>6 DEF Promoting
<1> QED  BY <1>1, <1>3, <1>7, Promotes

LEMMA OthersKeepBook ==
    ASSUME AddrInv,
           \/ \E a, p, nTime : Attempt(a, p, nTime) \/ Connected(a, p, nTime) \/ GoodAgain(a, p, nTime)
           \/ \E nPos : SelectTried(nPos)
           \/ GetAddr \/ GotAddr \/ UNCHANGED vars
           \/ \E nRndPos : Shuffle(nRndPos)
    PROVE  book' = book
<1>1. Infos(mapInfo) /\ Mapped(mapInfo, mapAddr) /\ Listed(mapInfo, vRandom)
  BY DEF AddrInv
<1>2. CASE (\E nPos : SelectTried(nPos)) \/ GetAddr \/ GotAddr \/ UNCHANGED vars
  <2>1. mapInfo' = mapInfo /\ mapAddr' = mapAddr
    BY <1>2 DEF SelectTried, GetAddr, GotAddr, vars, tables
  <2> QED  BY <2>1 DEF book
<1>3. ASSUME NEW a, NEW p, NEW nTime, Attempt(a, p, nTime) \/ Connected(a, p, nTime) \/ GoodAgain(a, p, nTime)
      PROVE  book' = book
  <2> DEFINE id == mapAddr[a]
  <2>1. /\ \/ mapInfo' = [mapInfo EXCEPT ![id].nLastTry = nTime, ![id].nAttempts = @ + 1]
           \/ mapInfo' = [mapInfo EXCEPT ![id].nTime = nTime]
           \/ mapInfo' = Succeeded(id, nTime)
        /\ mapAddr' = mapAddr /\ a \in DOMAIN mapAddr
    BY <1>3 DEF Attempt, Connected, GoodAgain, Same, Found
  <2>2. id \in DOMAIN mapInfo /\ DOMAIN mapInfo[id] = InfoFields
    BY <1>1, <2>1 DEF Mapped, Infos, IsInfo
  <2> HIDE DEF id
  <2>3. /\ DOMAIN mapInfo' = DOMAIN mapInfo
        /\ \A j \in DOMAIN mapInfo : j # id => mapInfo'[j] = mapInfo[j]
        /\ mapInfo'[id].fInTried = mapInfo[id].fInTried
    BY <2>1, <2>2 DEF Succeeded, InfoFields
  <2> QED  BY <1>1, <2>1, <2>3, BookStays
<1>4. ASSUME NEW nRndPos, Shuffle(nRndPos)
      PROVE  book' = book
  <2> DEFINE n == shuffled + 1
             id1 == vRandom[n]
             id2 == vRandom[nRndPos]
  <2>1. /\ mapInfo' = [mapInfo EXCEPT ![id1].nRandomPos = nRndPos, ![id2].nRandomPos = n]
        /\ mapAddr' = mapAddr
    BY <1>4 DEF Shuffle
  <2> HIDE DEF n, id1, id2
  <2>2. \A j \in DOMAIN mapInfo : DOMAIN mapInfo[j] = InfoFields
    BY <1>1 DEF Infos, IsInfo
  <2>3. /\ DOMAIN mapInfo' = DOMAIN mapInfo
        /\ \A j \in DOMAIN mapInfo : mapInfo'[j].fInTried = mapInfo[j].fInTried
    BY <2>1, <2>2 DEF InfoFields
  <2> QED  BY <1>1, <2>1, <2>3, BookStays
<1> QED  BY <1>2, <1>3, <1>4

LEMMA BookStep == AddrInv /\ [Next]_vars => [Book!Next]_book
<1> SUFFICES ASSUME AddrInv, [Next]_vars
             PROVE  Book!Next \/ book' = book
  OBVIOUS
<1>1. ASSUME NEW a \in Addrs, NEW src \in Sources, NEW t \in Times \cup {0}, NEW penalty \in Penalties,
             NEW nNow \in Times,
             (\E p \in Ports : AddNew(a, p, src, t, penalty, nNow)) \/ AddKnown(a, src, t, penalty, nNow)
      PROVE  Book!Next \/ book' = book
  BY <1>1, AddNewLearns, AddKnownForgets
<1>2. ASSUME NEW a \in Addrs, NEW p \in Ports, NEW nTime \in Times, Good(a, p, nTime)
      PROVE  Book!Next \/ book' = book
  BY <1>2, GoodPromotes
<1> QED  BY <1>1, <1>2, EvictPromotes, OthersKeepBook DEF Next

\* Addresses become known as new, become tried when a connection succeeds, and a tried one is never
\* dropped, only sent back; every operation, whatever it does to buckets and indexes, is at most one
\* step of the address book.
THEOREM ManagerImplementsBook == Spec => ImplementsBook
<1>1. Init => Book!Init
  BY DEF Init, Book!Init, book
<1>2. Spec => Book!Init /\ [][Book!Next]_book
  BY <1>1, AddrInvariant, BookStep, PTL DEF Spec
<1> QED  BY <1>2 DEF ImplementsBook, Book!Spec

----------------------------------------------------------------------------
(* The order of a map.                                                     *)

\* The members of a set, each once, from the least on.
Ascends(s, S) == /\ s \in Seq(S) /\ Len(s) = Cardinality(S)
                 /\ \A k, l \in 1..Len(s) : k < l => s[k] < s[l]
                 /\ \A x \in S : \E k \in 1..Len(s) : s[k] = x

Under(S, m) == {x \in S : x < m}
Rising(s, T) == /\ s \in [1..Cardinality(T) -> T]
                /\ \A k, l \in 1..Cardinality(T) : k < l => s[k] < s[l]

LEMMA InOrderFact ==
    ASSUME NEW n \in Nat, NEW S \in SUBSET (0..(n - 1))
    PROVE  Ascends(InOrder(S), S)
<1> DEFINE G == {m \in 0..n : \E s : Rising(s, Under(S, m))}
<1>a. \A x \in S : x \in Int /\ 0 <= x /\ x < n
  OBVIOUS
<1>b. IsFiniteSet(S) /\ \A m : IsFiniteSet(Under(S, m)) /\ Cardinality(Under(S, m)) \in Nat
  <2>1. IsFiniteSet(S)
    BY IdsFinite
  <2>2. ASSUME NEW m PROVE IsFiniteSet(Under(S, m)) /\ Cardinality(Under(S, m)) \in Nat
    <3>1. Under(S, m) \in SUBSET S
      BY DEF Under
    <3>2. IsFiniteSet(Under(S, m))
      BY <2>1, <3>1, FS_Subset
    <3> QED  BY <3>2, FS_CardinalityType
  <2> QED  BY <2>1, <2>2
<1>1. 0 \in G
  <2>1. Under(S, 0) = {}
    <3>1. ASSUME NEW x, x \in Under(S, 0) PROVE FALSE
      <4>1. x \in S /\ x < 0
        BY <3>1 DEF Under
      <4>2. x \in Int /\ 0 <= x
        BY <1>a, <4>1
      <4> QED  BY <4>1, <4>2
    <3> QED  BY <3>1
  <2>2. Cardinality({}) = 0
    BY FS_EmptySet
  <2> DEFINE e == [k \in 1..0 |-> 0]
  <2>3. 1..0 = {}
    OBVIOUS
  <2>4. e \in [1..0 -> {}] /\ \A k, l \in 1..0 : k < l => e[k] < e[l]
    BY <2>3
  <2> HIDE DEF e
  <2>5. Rising(e, {})
    BY <2>2, <2>4 DEF Rising
  <2>6. 0 \in 0..n
    OBVIOUS
  <2> QED  BY <2>1, <2>5, <2>6
<1>2. ASSUME NEW m \in 1..n, m - 1 \in G PROVE m \in G
  <2>0. m - 1 \in 0..n /\ m \in 0..n /\ m \in Nat /\ m - 1 \in Nat
    OBVIOUS
  <2> DEFINE T == Under(S, m - 1)
             c == Cardinality(T)
             U == Under(S, m)
  <2>1. PICK s : Rising(s, T)
    BY <1>2
  <2>2. IsFiniteSet(T) /\ c \in Nat
    BY <1>b
  <2>3. /\ \A x : x \in T <=> x \in S /\ x < m - 1
        /\ \A x : x \in U <=> x \in S /\ x < m
    BY DEF Under
  <2> HIDE DEF T, U
  <2>6. ASSUME NEW x \in S PROVE x \in Int /\ (x < m <=> x < m - 1 \/ x = m - 1)
    <3>1. x \in Int
      BY <1>a
    <3> QED  BY <2>0, <3>1
  <2>4. CASE m - 1 \notin S
    <3>1. \A x : x \in U <=> x \in T
      BY <2>3, <2>6, <2>4
    <3>2. U = T
      BY <3>1
    <3> QED  BY <2>0, <2>1, <3>2 DEF U
  <2>5. CASE m - 1 \in S
    <3> DEFINE r == [k \in 1..(c + 1) |-> IF k = c + 1 THEN m - 1 ELSE s[k]]
    <3>1. U = T \cup {m - 1} /\ m - 1 \notin T /\ \A x \in T : x \in Int /\ x < m - 1
      <4>1. \A x : x \in U <=> x \in T \/ x = m - 1
        BY <2>3, <2>5, <2>6
      <4>2. ~ (m - 1 < m - 1)
        BY <2>0
      <4>3. m - 1 \notin T /\ \A x \in T : x \in Int /\ x < m - 1
        BY <2>3, <2>6, <4>2
      <4>4. U = T \cup {m - 1}
        BY <4>1
      <4> QED  BY <4>3, <4>4
    <3>2. Cardinality(U) = c + 1
      BY <2>2, <3>1, FS_AddElement
    <3>3. s \in [1..c -> T] /\ \A k, l \in 1..c : k < l => s[k] < s[l]
      BY <2>1 DEF Rising
    <3> HIDE DEF c
    <3>4. r \in [1..(c + 1) -> U]
      BY <2>2, <3>1, <3>3
    <3>5. ASSUME NEW k \in 1..(c + 1), NEW l \in 1..(c + 1), k < l PROVE r[k] < r[l]
      <4>1. k \in 1..c /\ k # c + 1 /\ r[k] = s[k] /\ s[k] \in T
        BY <2>2, <3>3, <3>5
      <4>2. CASE l = c + 1
        BY <3>1, <4>1, <4>2
      <4>3. CASE l # c + 1
        <5>1. l \in 1..c /\ r[l] = s[l]
          BY <2>2, <4>3
        <5> QED  BY <3>3, <3>5, <4>1, <5>1
      <4> QED  BY <4>2, <4>3
    <3>6. Rising(r, U)
      BY <3>2, <3>4, <3>5 DEF Rising
    <3> QED  BY <2>0, <3>6 DEF U
  <2> QED  BY <2>4, <2>5
<1> HIDE DEF G
<1>3. n \in G
  <2>1. \A m \in 0..n : m \in G
    BY <1>1, <1>2, UpTo
  <2>2. n \in 0..n
    OBVIOUS
  <2> QED  BY <2>1, <2>2
<1>4. Under(S, n) = S
  BY <1>a DEF Under
<1> DEFINE c == Cardinality(S)
           s == InOrder(S)
<1>5. IsFiniteSet(S) /\ c \in Nat
  BY <1>b, FS_CardinalityType
<1>6. PICK q : Rising(q, S)
  BY <1>3, <1>4 DEF G
<1>7. s \in [1..c -> S] /\ \A k, l \in 1..c : k < l => s[k] < s[l]
  BY <1>6 DEF InOrder, Rising
<1> HIDE DEF s, c
<1>8. s \in Seq(S) /\ Len(s) = c
  BY <1>5, <1>7
<1>9. s \in Surjection(1..c, S)
  <2>1. s \in Injection(1..c, S)
    <3>1. ASSUME NEW k \in 1..c, NEW l \in 1..c, s[k] = s[l] PROVE k = l
      <4>1. s[k] \in Int /\ s[l] \in Int
        BY <1>7, <1>a
      <4>2. k < l \/ l < k \/ k = l
        BY <1>5
      <4> QED  BY <1>7, <3>1, <4>1, <4>2
    <3>2. IsInjective(s)
      BY <1>7, <3>1 DEF IsInjective
    <3> QED  BY <1>7, <3>2 DEF Injection
  <2>2. Cardinality(1..c) = Cardinality(S)
    BY <1>5, FS_Interval DEF c
  <2> QED  BY <1>5, <2>1, <2>2, FS_Injection
<1>10. \A x \in S : \E k \in 1..c : s[k] = x
  BY <1>9 DEF Surjection
<1> QED  BY <1>7, <1>8, <1>10 DEF Ascends, c, s

\* The place of a member is the number of lesser ones.
LEMMA IndexInFact ==
    ASSUME NEW S \in SUBSET Int, NEW s, Ascends(s, S), NEW p \in 1..Len(s)
    PROVE  IndexIn(s, s[p]) = p - 1
<1> DEFINE n == Len(s)
           x == s[p]
<1>1. n \in Nat /\ s \in [1..n -> S] /\ \A k, l \in 1..n : k < l => s[k] < s[l]
  BY LenProperties DEF Ascends
<1>2. {k \in 1..n : s[k] < x} = 1..(p - 1)
  <2>1. ASSUME NEW k \in 1..n PROVE s[k] < x <=> k < p
    <3>1. k < p \/ k = p \/ p < k
      BY <1>1
    <3>2. s[k] \in Int /\ s[p] \in Int
      BY <1>1
    <3> QED  BY <1>1, <3>1, <3>2
  <2>2. \A k : k \in 1..(p - 1) <=> k \in 1..n /\ k < p
    BY <1>1
  <2> HIDE DEF x, n
  <2> QED  BY <2>1, <2>2
<1>3. Cardinality(1..(p - 1)) = p - 1
  BY <1>1, FS_Interval
<1> QED  BY <1>2, <1>3 DEF IndexIn

LEMMA FirstIdsFact ==
    ASSUME NEW n \in Nat, NEW S \in SUBSET (0..(n - 1))
    PROVE  FirstIds(S, Cardinality(S)) = InOrder(S)
<1> DEFINE s == InOrder(S)
<1>1. s \in Seq(S) /\ Len(s) = Cardinality(S)
  BY InOrderFact DEF Ascends
<1>2. Len(s) \in Nat
  BY <1>1
<1>3. FirstIds(S, Cardinality(S)) = SubSeq(s, 1, Len(s))
  BY <1>1, <1>2 DEF FirstIds
<1> HIDE DEF s
<1> QED  BY <1>1, <1>3, SubSeqFull DEF s

\* Of 1..n, the k-th is k.
LEMMA InOrderUpTo ==
    ASSUME NEW n \in Nat
    PROVE  LET s == InOrder(1..n) IN Len(s) = n /\ \A k \in 1..n : s[k] = k
<1> DEFINE s == InOrder(1..n)
           T == 1..n
           Wrong == {k \in 1..n : s[k] # k}
<1>1. T \in SUBSET (0..((n + 1) - 1)) /\ n + 1 \in Nat /\ Cardinality(T) = n
  BY FS_Interval
<1> HIDE DEF T
<1>2. Ascends(InOrder(T), T)
  BY <1>1, InOrderFact
<1>3. /\ s \in [1..n -> 1..n] /\ Len(s) = n /\ \A k, l \in 1..n : k < l => s[k] < s[l]
      /\ \A x \in 1..n : \E k \in 1..n : s[k] = x
  <2>1. Ascends(s, 1..n) /\ Cardinality(1..n) = n
    BY <1>1, <1>2 DEF T
  <2> HIDE DEF s
  <2> QED  BY <2>1, LenProperties DEF Ascends
<1> HIDE DEF s
<1>4. ASSUME Wrong # {} PROVE FALSE
  <2>1. PICK k \in Wrong : \A j \in Wrong : k <= j
    <3>1. Wrong \in SUBSET Nat
      OBVIOUS
    <3> QED  BY <1>4, <3>1, LeastNumber
  <2>2. k \in 1..n /\ s[k] # k /\ s[k] \in 1..n
    BY <1>3, <2>1
  <2>3. \A j \in 1..n : j < k => s[j] = j
    BY <2>1, <2>2
  <2>4. s[k] > k
    <3>1. s[k] \in 1..n
      BY <2>2
    <3>2. CASE s[k] < k
      <4>1. s[s[k]] = s[k]
        BY <2>2, <2>3, <3>2
      <4>2. s[s[k]] < s[k]
        BY <1>3, <2>2, <3>2
      <4> QED  BY <2>2, <4>1, <4>2
    <3> QED  BY <2>2, <3>2
  <2>5. PICK j \in 1..n : s[j] = k
    BY <1>3, <2>2
  <2>6. CASE j < k
    BY <2>3, <2>5, <2>6
  <2>7. CASE j = k
    BY <2>2, <2>5, <2>7
  <2>8. CASE j > k
    <3>1. s[k] < s[j]
      BY <1>3, <2>2, <2>8
    <3> QED  BY <2>2, <2>4, <2>5, <3>1
  <2> QED  BY <2>2, <2>6, <2>7, <2>8
<1> QED  BY <1>3, <1>4 DEF s

----------------------------------------------------------------------------
(* The file.                                                               *)

\* The entry that a file has for an id it is read with.
StoredIn(file, id) == IF id < Len(file.new) THEN file.new[id + 1] ELSE file.tried[id - Len(file.new) + 1]
IdsOf(file) == 0..(Len(file.new) + Len(file.tried) - 1)

IsStored(s) ==
    /\ s = [addr |-> s.addr, port |-> s.port, source |-> s.source, nTime |-> s.nTime,
            nLastSuccess |-> s.nLastSuccess, nAttempts |-> s.nAttempts]
    /\ s.addr \in Addrs /\ s.port \in Ports /\ s.source \in Sources

\* A file that a manager with these numbers of buckets wrote.
OwnFile(file) ==
    /\ file.nUBuckets = Cardinality(NewBuckets)
    /\ Len(file.new) \in Nat /\ Len(file.tried) \in Nat
    /\ \A id \in IdsOf(file) : IsStored(StoredIn(file, id))
    /\ \A id, jd \in IdsOf(file) : StoredIn(file, id).addr = StoredIn(file, jd).addr => id = jd
    /\ \A k \in 1..Len(file.tried) : file.tried[k].nLastSuccess # 0
    /\ file.buckets = [b \in NewBuckets |-> file.buckets[b]]
    /\ \A b \in NewBuckets : /\ file.buckets[b] \subseteq 0..(Len(file.new) - 1)
                             /\ Cardinality(file.buckets[b]) <= ADDRMAN_NEW_BUCKET_SIZE
    /\ \A id \in 0..(Len(file.new) - 1) :
          Cardinality(Occ(file.buckets, id)) \in 1..ADDRMAN_NEW_BUCKETS_PER_ADDRESS
    /\ \A b \in TriedBuckets :
          Cardinality({k \in 1..Len(file.tried) : TriedBucket(file.tried[k]) = b}) <= ADDRMAN_TRIED_BUCKET_SIZE

\* What a file says of each address, by the ids of its entries.
Says(content, file) ==
    /\ DOMAIN content = {StoredIn(file, id).addr : id \in IdsOf(file)}
    /\ \A id \in IdsOf(file) :
          content[StoredIn(file, id).addr] =
             [stored |-> StoredIn(file, id), fInTried |-> id >= Len(file.new), buckets |-> Occ(file.buckets, id)]

\* Two contents that say the same are the same.
LEMMA SaysOne ==
    ASSUME NEW file, NEW f, NEW g, Says(f, file), Says(g, file),
           f = [a \in DOMAIN f |-> f[a]], g = [a \in DOMAIN g |-> g[a]]
    PROVE  f = g
<1>1. DOMAIN f = DOMAIN g
  BY DEF Says
<1>2. ASSUME NEW a \in DOMAIN f PROVE f[a] = g[a]
  <2>1. PICK id \in IdsOf(file) : a = StoredIn(file, id).addr
    BY DEF Says
  <2> QED  BY <2>1 DEF Says
<1> QED  BY <1>1, <1>2

LEMMA FileSays ==
    ASSUME NEW file, OwnFile(file)
    PROVE  Says(FileContent(file), file)
<1> DEFINE n == Len(file.new)
           m == Len(file.tried)
           D == {file.new[k].addr : k \in 1..n} \cup {file.tried[k].addr : k \in 1..m}
           E == {StoredIn(file, id).addr : id \in IdsOf(file)}
           asNew(a) == {k \in 1..n : file.new[k].addr = a}
           Said(a) == IF asNew(a) # {}
                      THEN [stored |-> file.new[CHOOSE k \in asNew(a) : TRUE], fInTried |-> FALSE,
                            buckets |-> {b \in NewBuckets : \E k \in asNew(a) : k - 1 \in file.buckets[b]}]
                      ELSE [stored |-> file.tried[CHOOSE k \in 1..m : file.tried[k].addr = a],
                            fInTried |-> TRUE, buckets |-> {}]
<1>1. FileContent(file) = [a \in D |-> Said(a)]
  BY DEF FileContent
<1>2. /\ n \in Nat /\ m \in Nat
      /\ \A id, jd \in IdsOf(file) : StoredIn(file, id).addr = StoredIn(file, jd).addr => id = jd
      /\ \A b \in NewBuckets : file.buckets[b] \subseteq 0..(n - 1)
  BY DEF OwnFile
<1>a. /\ IdsOf(file) = 0..(n + m - 1)
      /\ \A id : id < n => StoredIn(file, id) = file.new[id + 1]
      /\ \A id : ~ (id < n) => StoredIn(file, id) = file.tried[id - n + 1]
  BY DEF IdsOf, StoredIn
<1>3. ASSUME NEW k \in 1..n
      PROVE  k - 1 \in IdsOf(file) /\ k - 1 < n /\ StoredIn(file, k - 1) = file.new[k]
  <2> HIDE DEF n, m
  <2>1. k - 1 \in 0..(n + m - 1) /\ k - 1 < n /\ (k - 1) + 1 = k
    BY <1>2
  <2>2. StoredIn(file, k - 1) = file.new[(k - 1) + 1]
    BY <1>a, <2>1
  <2> QED  BY <1>a, <2>1, <2>2
<1>4. ASSUME NEW k \in 1..m
      PROVE  n + k - 1 \in IdsOf(file) /\ ~ (n + k - 1 < n) /\ StoredIn(file, n + k - 1) = file.tried[k]
  <2> HIDE DEF n, m
  <2>1. n + k - 1 \in 0..(n + m - 1) /\ ~ (n + k - 1 < n) /\ (n + k - 1) - n + 1 = k
    BY <1>2
  <2>2. StoredIn(file, n + k - 1) = file.tried[(n + k - 1) - n + 1]
    BY <1>a, <2>1
  <2> QED  BY <1>a, <2>1, <2>2
<1>5. ASSUME NEW id \in IdsOf(file)
      PROVE  \/ id < n /\ id + 1 \in 1..n /\ (id + 1) - 1 = id /\ StoredIn(file, id) = file.new[id + 1]
             \/ /\ ~ (id < n) /\ id - n + 1 \in 1..m /\ n + (id - n + 1) - 1 = id
                /\ StoredIn(file, id) = file.tried[id - n + 1]
  <2> HIDE DEF n, m
  <2>1. id \in 0..(n + m - 1)
    BY <1>a
  <2>2. CASE id < n
    <3>1. id + 1 \in 1..n /\ (id + 1) - 1 = id
      BY <1>2, <2>1, <2>2
    <3> QED  BY <1>a, <2>2, <3>1
  <2>3. CASE ~ (id < n)
    <3>1. id - n + 1 \in 1..m /\ n + (id - n + 1) - 1 = id
      BY <1>2, <2>1, <2>3
    <3> QED  BY <1>a, <2>3, <3>1
  <2> QED  BY <2>2, <2>3
<1>6. D = E
  <2>1. \A a \in D : a \in E
    BY <1>3, <1>4
  <2>2. \A a \in E : a \in D
    BY <1>5
  <2> QED  BY <2>1, <2>2
<1> HIDE DEF n, m
<1>7. ASSUME NEW id \in IdsOf(file)
      PROVE  Said(StoredIn(file, id).addr) =
               [stored |-> StoredIn(file, id), fInTried |-> id >= n, buckets |-> Occ(file.buckets, id)]
  <2> DEFINE a == StoredIn(file, id).addr
  <2>0. id \in Int /\ n \in Int
    BY <1>2 DEF IdsOf, n, m
  <2>1. CASE id < n
    <3>1. id + 1 \in 1..n /\ (id + 1) - 1 = id /\ StoredIn(file, id) = file.new[id + 1]
      BY <1>5, <2>1
    <3>2. asNew(a) = {id + 1}
      <4>1. id + 1 \in asNew(a)
        BY <3>1
      <4>2. ASSUME NEW k \in asNew(a) PROVE k = id + 1
        <5>1. k \in 1..n /\ StoredIn(file, k - 1).addr = StoredIn(file, id).addr /\ k - 1 \in IdsOf(file)
          BY <1>3
        <5>2. k - 1 = id
          BY <1>2, <5>1
        <5> QED  BY <1>2, <5>1, <5>2
      <4> HIDE DEF asNew
      <4> QED  BY <4>1, <4>2
    <3> HIDE DEF asNew, a
    <3>3. (CHOOSE k \in asNew(a) : TRUE) = id + 1
      BY <3>2
    <3>4. {b \in NewBuckets : \E k \in asNew(a) : k - 1 \in file.buckets[b]} = Occ(file.buckets, id)
      BY <3>1, <3>2 DEF Occ
    <3>5. asNew(a) # {} /\ (id >= n) = FALSE
      BY <2>0, <2>1, <3>2
    <3> QED  BY <3>1, <3>3, <3>4, <3>5 DEF a
  <2>2. CASE ~ (id < n)
    <3>1. id - n + 1 \in 1..m /\ n + (id - n + 1) - 1 = id /\ StoredIn(file, id) = file.tried[id - n + 1]
      BY <1>5, <2>2
    <3>2. asNew(a) = {}
      <4>1. ASSUME NEW k \in asNew(a) PROVE FALSE
        <5>1. k \in 1..n /\ StoredIn(file, k - 1).addr = StoredIn(file, id).addr /\ k - 1 \in IdsOf(file) /\ k - 1 < n
          BY <1>3
        <5>2. k - 1 = id
          BY <1>2, <5>1
        <5> QED  BY <2>2, <5>1, <5>2
      <4> HIDE DEF asNew
      <4> QED  BY <4>1
    <3>3. \A k \in 1..m : file.tried[k].addr = a <=> k = id - n + 1
      <4>1. ASSUME NEW k \in 1..m, file.tried[k].addr = a PROVE k = id - n + 1
        <5>1. n + k - 1 \in IdsOf(file) /\ StoredIn(file, n + k - 1).addr = StoredIn(file, id).addr
          BY <1>4, <4>1
        <5>2. n + k - 1 = id
          BY <1>2, <5>1
        <5> QED  BY <1>2, <5>2
      <4> QED  BY <3>1, <4>1
    <3> HIDE DEF asNew, a
    <3>4. (CHOOSE k \in 1..m : file.tried[k].addr = a) = id - n + 1
      BY <3>1, <3>3
    <3>5. Occ(file.buckets, id) = {}
      <4>1. ASSUME NEW b \in NewBuckets, id \in file.buckets[b] PROVE FALSE
        <5>1. id \in 0..(n - 1)
          BY <1>2, <4>1
        <5> QED  BY <2>0, <2>2, <5>1
      <4> QED  BY <4>1 DEF Occ
    <3>6. (id >= n) = TRUE
      BY <2>0, <2>2
    <3> QED  BY <3>1, <3>2, <3>4, <3>5, <3>6 DEF a
  <2> QED  BY <2>1, <2>2
<1> HIDE DEF Said
<1>8. DOMAIN FileContent(file) = E /\ \A a \in E : FileContent(file)[a] = Said(a)
  <2> HIDE DEF D, E
  <2> QED  BY <1>1, <1>6
<1>9. ASSUME NEW id \in IdsOf(file)
      PROVE  FileContent(file)[StoredIn(file, id).addr] =
               [stored |-> StoredIn(file, id), fInTried |-> id >= n, buckets |-> Occ(file.buckets, id)]
  <2>1. StoredIn(file, id).addr \in E
    OBVIOUS
  <2> HIDE DEF E
  <2> QED  BY <1>7, <1>8, <2>1
<1> QED  BY <1>8, <1>9 DEF Says, n

----------------------------------------------------------------------------
(* What Write makes.                                                       *)

\* The file of the entries sn of the new table and the entries st of the tried table.
FileOf(sn, st) ==
    [nUBuckets |-> Cardinality(NewBuckets),
     new |-> [k \in 1..Len(sn) |-> Stored(mapInfo[sn[k]])],
     tried |-> [k \in 1..Len(st) |-> Stored(mapInfo[st[k]])],
     buckets |-> [b \in NewBuckets |-> {IndexIn(sn, id) : id \in vvNew[b]}]]
Dumped(file, sn, st) ==
    /\ file = FileOf(sn, st)
    /\ Ascends(sn, NewOf(mapInfo, -1)) /\ Ascends(st, TriedOf(mapInfo, -1))

LEMMA WrittenDumped ==
    ASSUME AddrInv, pc = "free"
    PROVE  \E sn, st : Dumped(Written, sn, st)
<1> DEFINE S == NewOf(mapInfo, -1)
           T == TriedOf(mapInfo, -1)
           sn == InOrder(S)
           st == InOrder(T)
<1>1. /\ nIdCount \in Nat /\ Ids \subseteq 0..(nIdCount - 1)
      /\ NewSound(mapInfo, -1, vvNew) /\ TriedSound(mapInfo, -1, vvTried)
      /\ nNew = Cardinality(S) /\ nTried = Cardinality(T) /\ -1 \notin Ids
  BY FreeFits DEF AddrInv
<1>2. S \in SUBSET (0..(nIdCount - 1)) /\ T \in SUBSET (0..(nIdCount - 1))
  BY <1>1 DEF NewOf, TriedOf, Ids
<1>3. {id \in Ids : mapInfo[id].fInTried} = T
  BY <1>1 DEF TriedOf, Ids
<1>4. {id \in Ids : mapInfo[id].nRefCount # 0} = S
  <2>1. \A id \in S : mapInfo[id].nRefCount # 0
    BY <1>1, AddrManAssumption DEF NewSound
  <2>2. \A id \in T : mapInfo[id].nRefCount = 0
    BY <1>1 DEF TriedSound
  <2>3. \A id : id \in Ids <=> id \in S \/ id \in T
    BY <1>1 DEF NewOf, TriedOf, Ids
  <2> HIDE DEF S, T
  <2> QED  BY <2>1, <2>2, <2>3
<1> HIDE DEF S, T
<1>5. FirstIds(S, nNew) = sn /\ FirstIds(T, nTried) = st
  BY <1>1, <1>2, FirstIdsFact
<1>6. Ascends(sn, S) /\ Ascends(st, T)
  BY <1>1, <1>2, InOrderFact
<1>7. Written = FileOf(sn, st)
  <2> HIDE DEF sn, st
  <2> QED  BY <1>3, <1>4, <1>5 DEF Written, FileOf
<1> HIDE DEF sn, st
<1> QED  BY <1>6, <1>7 DEF Dumped, S, T

\* The entry at[id] of the tables is the one that the file has at id.
EntryAt(at, file) ==
    /\ Len(file.new) \in Nat /\ Len(file.tried) \in Nat
    /\ \A id \in IdsOf(file) :
          /\ at[id] \in Ids /\ StoredIn(file, id) = Stored(mapInfo[at[id]])
          /\ mapInfo[at[id]].fInTried = (id >= Len(file.new))
          /\ Occ(file.buckets, id) = Occ(vvNew, at[id])
    /\ \A id, jd \in IdsOf(file) : at[id] = at[jd] => id = jd
    /\ \A x \in Ids : \E id \in IdsOf(file) : at[id] = x

LEMMA DumpedIds ==
    ASSUME AddrInv, pc = "free", NEW file, NEW sn, NEW st, Dumped(file, sn, st)
    PROVE  \E at : EntryAt(at, file)
<1> DEFINE S == NewOf(mapInfo, -1)
           T == TriedOf(mapInfo, -1)
           n == Len(sn)
           m == Len(st)
           at == [id \in 0..(n + m - 1) |-> IF id < n THEN sn[id + 1] ELSE st[id - n + 1]]
<1>1. /\ nIdCount \in Nat /\ Ids \subseteq 0..(nIdCount - 1) /\ Infos(mapInfo)
      /\ NewSound(mapInfo, -1, vvNew) /\ -1 \notin Ids
  BY FreeFits DEF AddrInv
<1>2. /\ \A x : x \in S <=> x \in Ids /\ ~ mapInfo[x].fInTried
      /\ \A x : x \in T <=> x \in Ids /\ mapInfo[x].fInTried
      /\ \A x \in Ids : x \in Int
      /\ \A b \in NewBuckets : vvNew[b] \subseteq S
      /\ \A x \in Ids : mapInfo[x].fInTried \in BOOLEAN
  BY <1>1 DEF NewOf, TriedOf, Ids, NewSound, Infos, IsInfo
<1>3. Ascends(sn, S) /\ Ascends(st, T) /\ file = FileOf(sn, st)
  BY DEF Dumped
<1> HIDE DEF S, T
<1>4. /\ n \in Nat /\ m \in Nat
      /\ \A k \in 1..n : sn[k] \in S /\ sn[k] \in Int
      /\ \A k \in 1..m : st[k] \in T /\ st[k] \in Int
      /\ \A k, l \in 1..n : k < l => sn[k] < sn[l]
      /\ \A k, l \in 1..m : k < l => st[k] < st[l]
      /\ \A x \in S : \E k \in 1..n : sn[k] = x
      /\ \A x \in T : \E k \in 1..m : st[k] = x
  BY <1>2, <1>3, LenProperties, ElementOfSeq DEF Ascends
<1>5. /\ \A k, l \in 1..n : sn[k] = sn[l] => k = l
      /\ \A k, l \in 1..m : st[k] = st[l] => k = l
  <2> HIDE DEF n, m
  <2>1. ASSUME NEW k \in 1..n, NEW l \in 1..n, sn[k] = sn[l] PROVE k = l
    <3>1. k < l \/ l < k \/ k = l
      BY <1>4
    <3>2. ~ (sn[k] < sn[l]) /\ ~ (sn[l] < sn[k])
      BY <1>4, <2>1
    <3> QED  BY <1>4, <3>1, <3>2
  <2>2. ASSUME NEW k \in 1..m, NEW l \in 1..m, st[k] = st[l] PROVE k = l
    <3>1. k < l \/ l < k \/ k = l
      BY <1>4
    <3>2. ~ (st[k] < st[l]) /\ ~ (st[l] < st[k])
      BY <1>4, <2>2
    <3> QED  BY <1>4, <3>1, <3>2
  <2> QED  BY <2>1, <2>2
<1>6. /\ file.new = [k \in 1..n |-> Stored(mapInfo[sn[k]])] /\ file.tried = [k \in 1..m |-> Stored(mapInfo[st[k]])]
      /\ file.buckets = [b \in NewBuckets |-> {IndexIn(sn, id) : id \in vvNew[b]}]
  BY <1>3 DEF FileOf
<1> HIDE DEF n, m
<1>7. Len(file.new) = n /\ Len(file.tried) = m
  BY <1>4, <1>6
<1>8. IdsOf(file) = 0..(n + m - 1)
  BY <1>7 DEF IdsOf
\* Either an entry of the new table or one of the tried table.
<1>9. ASSUME NEW id \in 0..(n + m - 1)
      PROVE  \/ id < n /\ id + 1 \in 1..n /\ at[id] = sn[id + 1] /\ (id >= n) = FALSE
             \/ ~ (id < n) /\ id - n + 1 \in 1..m /\ at[id] = st[id - n + 1] /\ (id >= n) = TRUE
  <2>1. CASE id < n
    <3>1. id + 1 \in 1..n /\ (id >= n) = FALSE
      BY <1>4, <2>1
    <3> QED  BY <2>1, <3>1
  <2>2. CASE ~ (id < n)
    <3>1. id - n + 1 \in 1..m /\ (id >= n) = TRUE
      BY <1>4, <2>2
    <3> QED  BY <2>2, <3>1
  <2> QED  BY <2>1, <2>2
<1> HIDE DEF at
<1>10. ASSUME NEW k \in 1..n PROVE k - 1 \in 0..(n + m - 1) /\ at[k - 1] = sn[k]
  <2>1. k - 1 \in 0..(n + m - 1) /\ k - 1 < n /\ (k - 1) + 1 = k
    BY <1>4
  <2>2. at[k - 1] = sn[(k - 1) + 1]
    BY <1>9, <2>1
  <2> QED  BY <2>1, <2>2
<1>11. ASSUME NEW k \in 1..m PROVE n + k - 1 \in 0..(n + m - 1) /\ at[n + k - 1] = st[k]
  <2>1. n + k - 1 \in 0..(n + m - 1) /\ ~ (n + k - 1 < n) /\ (n + k - 1) - n + 1 = k
    BY <1>4
  <2>2. at[n + k - 1] = st[(n + k - 1) - n + 1]
    BY <1>9, <2>1
  <2> QED  BY <2>1, <2>2
<1>12. ASSUME NEW id \in 0..(n + m - 1)
       PROVE  /\ at[id] \in Ids /\ StoredIn(file, id) = Stored(mapInfo[at[id]])
              /\ mapInfo[at[id]].fInTried = (id >= n)
  <2>1. CASE id < n
    <3>1. id + 1 \in 1..n /\ at[id] = sn[id + 1] /\ (id >= n) = FALSE
      BY <1>9, <2>1
    <3>2. sn[id + 1] \in Ids /\ mapInfo[sn[id + 1]].fInTried = FALSE
      BY <1>2, <1>4, <3>1
    <3>3. StoredIn(file, id) = file.new[id + 1]
      BY <1>7, <2>1 DEF StoredIn
    <3>4. file.new[id + 1] = Stored(mapInfo[sn[id + 1]])
      BY <1>6, <3>1
    <3> QED  BY <3>1, <3>2, <3>3, <3>4
  <2>2. CASE ~ (id < n)
    <3>1. id - n + 1 \in 1..m /\ at[id] = st[id - n + 1] /\ (id >= n) = TRUE
      BY <1>9, <2>2
    <3>2. st[id - n + 1] \in Ids /\ mapInfo[st[id - n + 1]].fInTried = TRUE
      BY <1>2, <1>4, <3>1
    <3>3. StoredIn(file, id) = file.tried[id - n + 1]
      BY <1>7, <2>2 DEF StoredIn
    <3>4. file.tried[id - n + 1] = Stored(mapInfo[st[id - n + 1]])
      BY <1>6, <3>1
    <3> QED  BY <3>1, <3>2, <3>3, <3>4
  <2> QED  BY <2>1, <2>2
<1>13. ASSUME NEW id \in 0..(n + m - 1), NEW jd \in 0..(n + m - 1), at[id] = at[jd] PROVE id = jd
  <2>1. (id >= n) = (jd >= n)
    BY <1>12, <1>13
  <2>2. CASE id < n
    <3>1. ~ (jd >= n) /\ jd < n
      BY <1>4, <2>1, <2>2
    <3>2. id + 1 \in 1..n /\ jd + 1 \in 1..n /\ sn[id + 1] = sn[jd + 1]
      BY <1>9, <1>13, <2>2, <3>1
    <3>3. id + 1 = jd + 1
      BY <1>5, <3>2
    <3> QED  BY <3>3
  <2>3. CASE ~ (id < n)
    <3>1. ~ (jd < n)
      BY <1>4, <2>1, <2>3
    <3>2. id - n + 1 \in 1..m /\ jd - n + 1 \in 1..m /\ st[id - n + 1] = st[jd - n + 1]
      BY <1>9, <1>13, <2>3, <3>1
    <3>3. id - n + 1 = jd - n + 1
      BY <1>5, <3>2
    <3> QED  BY <1>4, <3>3
  <2> QED  BY <2>2, <2>3
<1>14. ASSUME NEW x \in Ids PROVE \E id \in 0..(n + m - 1) : at[id] = x
  <2>1. CASE x \in S
    <3>1. PICK k \in 1..n : sn[k] = x
      BY <1>4, <2>1
    <3> QED  BY <1>10, <3>1
  <2>2. CASE x \in T
    <3>1. PICK k \in 1..m : st[k] = x
      BY <1>4, <2>2
    <3> QED  BY <1>11, <3>1
  <2> QED  BY <1>2, <2>1, <2>2
<1>15. ASSUME NEW id \in 0..(n + m - 1) PROVE Occ(file.buckets, id) = Occ(vvNew, at[id])
  <2>0. ASSUME NEW k \in 1..n PROVE IndexIn(sn, sn[k]) = k - 1
    <3>1. S \in SUBSET Int
      BY <1>2
    <3> QED  BY <1>3, <2>0, <3>1, IndexInFact DEF n
  <2>1. ASSUME NEW b \in NewBuckets PROVE id \in file.buckets[b] <=> at[id] \in vvNew[b]
    <3>1. file.buckets[b] = {IndexIn(sn, x) : x \in vvNew[b]}
      BY <1>6
    <3>2. ASSUME id \in file.buckets[b] PROVE at[id] \in vvNew[b]
      <4>1. PICK x \in vvNew[b] : id = IndexIn(sn, x)
        BY <3>1, <3>2
      <4>2. PICK k \in 1..n : sn[k] = x
        BY <1>2, <1>4
      <4>3. id = k - 1
        BY <2>0, <4>1, <4>2
      <4> QED  BY <1>10, <4>2, <4>3
    <3>3. ASSUME at[id] \in vvNew[b] PROVE id \in file.buckets[b]
      <4>1. at[id] \in S
        BY <1>2, <3>3
      <4>2. PICK k \in 1..n : sn[k] = at[id]
        BY <1>4, <4>1
      <4>3. id = k - 1
        BY <1>10, <1>13, <4>2
      <4>4. id = IndexIn(sn, at[id])
        BY <2>0, <4>2, <4>3
      <4> QED  BY <3>1, <3>3, <4>4
    <3> QED  BY <3>2, <3>3
  <2> QED  BY <2>1 DEF Occ
<1>16. EntryAt(at, file)
  BY <1>4, <1>7, <1>8, <1>12, <1>13, <1>14, <1>15 DEF EntryAt
<1> QED  BY <1>16

\* A file that Write makes says what the tables hold.
LEMMA WrittenSays ==
    ASSUME AddrInv, NEW file, NEW at, EntryAt(at, file)
    PROVE  Says(Content, file)
<1>1. Mapped(mapInfo, mapAddr)
  BY DEF AddrInv
<1>2. DOMAIN mapAddr = {mapInfo[x].addr : x \in Ids} /\ \A x \in Ids : mapAddr[mapInfo[x].addr] = x
  BY <1>1 DEF Mapped, Ids
<1>3. \A x : Stored(mapInfo[x]).addr = mapInfo[x].addr
  BY DEF Stored
<1>4. ASSUME NEW id \in IdsOf(file)
      PROVE  /\ at[id] \in Ids /\ StoredIn(file, id) = Stored(mapInfo[at[id]])
             /\ StoredIn(file, id).addr = mapInfo[at[id]].addr
             /\ mapInfo[at[id]].fInTried = (id >= Len(file.new))
             /\ Occ(file.buckets, id) = Occ(vvNew, at[id])
  BY <1>3 DEF EntryAt
<1>5. \A x \in Ids : \E id \in IdsOf(file) : at[id] = x
  BY DEF EntryAt
<1> DEFINE E == {StoredIn(file, id).addr : id \in IdsOf(file)}
<1>6. DOMAIN mapAddr = E
  <2>1. \A a \in DOMAIN mapAddr : a \in E
    <3> SUFFICES ASSUME NEW x \in Ids PROVE mapInfo[x].addr \in E
      BY <1>2
    <3>1. PICK id \in IdsOf(file) : at[id] = x
      BY <1>5
    <3> QED  BY <1>4, <3>1
  <2>2. \A a \in E : a \in DOMAIN mapAddr
    BY <1>2, <1>4
  <2> QED  BY <2>1, <2>2
<1>7. \A a \in DOMAIN mapAddr :
        Content[a] = [stored |-> Stored(mapInfo[mapAddr[a]]), fInTried |-> mapInfo[mapAddr[a]].fInTried,
                      buckets |-> Occurrences(mapAddr[a])]
  BY DEF Content
<1>8. DOMAIN Content = DOMAIN mapAddr
  BY DEF Content
<1>9. \A x : Occurrences(x) = Occ(vvNew, x)
  BY DEF Occurrences, Occ
<1>10. ASSUME NEW id \in IdsOf(file)
       PROVE  Content[StoredIn(file, id).addr] =
                [stored |-> StoredIn(file, id), fInTried |-> id >= Len(file.new), buckets |-> Occ(file.buckets, id)]
  <2>1. mapInfo[at[id]].addr \in DOMAIN mapAddr /\ mapAddr[mapInfo[at[id]].addr] = at[id]
    BY <1>2, <1>4
  <2>2. Content[mapInfo[at[id]].addr] =
          [stored |-> Stored(mapInfo[at[id]]), fInTried |-> mapInfo[at[id]].fInTried, buckets |-> Occurrences(at[id])]
    BY <1>7, <2>1
  <2> QED  BY <1>4, <1>9, <2>2
<1> QED  BY <1>6, <1>8, <1>10 DEF Says

\* A set whose members are told apart by members of another is no larger.
LEMMA NoMore ==
    ASSUME NEW S, NEW T, IsFiniteSet(T), NEW g \in [S -> T], \A x, y \in S : g[x] = g[y] => x = y
    PROVE  IsFiniteSet(S) /\ Cardinality(S) <= Cardinality(T)
<1>1. IsInjective(g)
  BY DEF IsInjective
<1>2. g \in Injection(S, T)
  BY <1>1 DEF Injection
<1> QED  BY <1>2, FS_Injection

LEMMA DumpedOwn ==
    ASSUME AddrInv, pc = "free", NEW file, NEW sn, NEW st, Dumped(file, sn, st),
           NEW at, EntryAt(at, file)
    PROVE  OwnFile(file)
<1> DEFINE S == NewOf(mapInfo, -1)
           T == TriedOf(mapInfo, -1)
           n == Len(sn)
           m == Len(st)
<1>1. /\ nIdCount \in Nat /\ Ids \subseteq 0..(nIdCount - 1) /\ Infos(mapInfo) /\ -1 \notin Ids
      /\ NewSound(mapInfo, -1, vvNew) /\ TriedSound(mapInfo, -1, vvTried)
  BY FreeFits DEF AddrInv
<1>2. /\ \A x : x \in S <=> x \in Ids /\ ~ mapInfo[x].fInTried
      /\ \A x : x \in T <=> x \in Ids /\ mapInfo[x].fInTried
      /\ \A x \in Ids : x \in Int
  BY <1>1 DEF NewOf, TriedOf, Ids
<1>3. Ascends(sn, S) /\ Ascends(st, T) /\ file = FileOf(sn, st)
  BY DEF Dumped
<1>4. /\ \A x \in Ids : IsInfo(mapInfo[x])
      /\ \A x, y \in Ids : mapInfo[x].addr = mapInfo[y].addr => x = y
  <2>1. Mapped(mapInfo, mapAddr)
    BY DEF AddrInv
  <2> QED  BY <1>1, <2>1 DEF Infos, Mapped, Ids
<1>5. /\ \A x \in S : Cardinality(Occ(vvNew, x)) \in 1..ADDRMAN_NEW_BUCKETS_PER_ADDRESS
      /\ \A b \in NewBuckets : vvNew[b] \subseteq S /\ Cardinality(vvNew[b]) <= ADDRMAN_NEW_BUCKET_SIZE
  BY <1>1 DEF NewSound
<1>6. \A x \in T : /\ mapInfo[x].nLastSuccess # 0
                   /\ \E k \in 1..Len(vvTried[TriedHome(mapInfo[x])]) : vvTried[TriedHome(mapInfo[x])][k] = x
  BY <1>1 DEF TriedSound
<1>7. \A b \in TriedBuckets : vvTried[b] \in Seq(T) /\ Len(vvTried[b]) <= ADDRMAN_TRIED_BUCKET_SIZE
  BY <1>1 DEF TriedSound
<1>8. /\ file.nUBuckets = Cardinality(NewBuckets)
      /\ file.new = [k \in 1..n |-> Stored(mapInfo[sn[k]])] /\ file.tried = [k \in 1..m |-> Stored(mapInfo[st[k]])]
      /\ file.buckets = [b \in NewBuckets |-> {IndexIn(sn, id) : id \in vvNew[b]}]
  BY <1>3 DEF FileOf
<1> HIDE DEF S, T
<1>9. /\ n \in Nat /\ m \in Nat /\ \A k \in 1..n : sn[k] \in S
      /\ \A k \in 1..m : st[k] \in T
      /\ \A k, l \in 1..m : k < l => st[k] < st[l]
      /\ \A x \in S : \E k \in 1..n : sn[k] = x
  BY <1>3, LenProperties, ElementOfSeq DEF Ascends
<1>10. ASSUME NEW k \in 1..n PROVE IndexIn(sn, sn[k]) = k - 1
  <2>1. S \in SUBSET Int
    BY <1>2
  <2> QED  BY <1>3, <1>10, <2>1, IndexInFact DEF n
<1> HIDE DEF n, m
<1>11. Len(file.new) = n /\ Len(file.tried) = m
  BY <1>8, <1>9
<1>12. ASSUME NEW id \in IdsOf(file)
       PROVE  /\ at[id] \in Ids /\ StoredIn(file, id) = Stored(mapInfo[at[id]])
              /\ StoredIn(file, id).addr = mapInfo[at[id]].addr
              /\ mapInfo[at[id]].fInTried = (id >= n) /\ Occ(file.buckets, id) = Occ(vvNew, at[id])
  BY <1>11 DEF EntryAt, Stored
<1>13. ASSUME NEW id \in IdsOf(file) PROVE IsStored(StoredIn(file, id))
  <2>1. IsInfo(mapInfo[at[id]])
    BY <1>4, <1>12
  <2> QED  BY <1>12, <2>1 DEF IsStored, Stored, IsInfo
<1>14. ASSUME NEW id \in IdsOf(file), NEW jd \in IdsOf(file), StoredIn(file, id).addr = StoredIn(file, jd).addr
       PROVE  id = jd
  <2>1. at[id] = at[jd]
    BY <1>4, <1>12, <1>14
  <2> QED  BY <2>1 DEF EntryAt
<1>15. ASSUME NEW k \in 1..m PROVE file.tried[k].nLastSuccess # 0
  <2>1. file.tried[k] = Stored(mapInfo[st[k]])
    BY <1>8
  <2> QED  BY <1>6, <1>9, <2>1 DEF Stored
<1>16. file.buckets = [b \in NewBuckets |-> file.buckets[b]]
  BY <1>8
<1>17. ASSUME NEW b \in NewBuckets
       PROVE  file.buckets[b] \subseteq 0..(n - 1) /\ Cardinality(file.buckets[b]) <= ADDRMAN_NEW_BUCKET_SIZE
  <2> DEFINE B == file.buckets[b]
  <2>1. B = {IndexIn(sn, id) : id \in vvNew[b]}
    BY <1>8
  <2> HIDE DEF B
  <2>2. ASSUME NEW i \in B PROVE i \in 0..(n - 1) /\ i + 1 \in 1..n /\ sn[i + 1] \in vvNew[b]
    <3>1. PICK x \in vvNew[b] : i = IndexIn(sn, x)
      BY <2>1
    <3>2. PICK k \in 1..n : sn[k] = x
      BY <1>5, <1>9
    <3>3. i = k - 1
      BY <1>10, <3>1, <3>2
    <3>4. i + 1 = k /\ i \in 0..(n - 1)
      BY <1>9, <3>3
    <3> QED  BY <3>2, <3>4
  <2> DEFINE g == [i \in B |-> sn[i + 1]]
  <2>3. ASSUME NEW i \in B, NEW j \in B, g[i] = g[j] PROVE i = j
    <3>1. sn[i + 1] = sn[j + 1]
      BY <2>3
    <3>2. IndexIn(sn, sn[i + 1]) = (i + 1) - 1 /\ IndexIn(sn, sn[j + 1]) = (j + 1) - 1
      BY <1>10, <2>2
    <3>3. (i + 1) - 1 = (j + 1) - 1
      BY <3>1, <3>2
    <3>4. i \in 0..(n - 1) /\ j \in 0..(n - 1)
      BY <2>2
    <3> QED  BY <1>9, <3>3, <3>4
  <2>4. g \in [B -> vvNew[b]]
    BY <2>2
  <2>5. IsFiniteSet(vvNew[b])
    <3>1. S \in SUBSET (0..(nIdCount - 1))
      BY <1>1, <1>2
    <3>2. IsFiniteSet(S)
      BY <1>1, <3>1, IdsFinite
    <3> QED  BY <1>5, <3>2, FS_Subset
  <2> HIDE DEF g
  <2>6. IsFiniteSet(B) /\ Cardinality(B) <= Cardinality(vvNew[b])
    BY <2>3, <2>4, <2>5, NoMore
  <2>7. Cardinality(B) \in Nat /\ Cardinality(vvNew[b]) \in Nat
    BY <2>5, <2>6, FS_CardinalityType
  <2>8. Cardinality(B) <= ADDRMAN_NEW_BUCKET_SIZE
    BY <1>5, <2>6, <2>7, AddrManAssumption
  <2> QED  BY <2>2, <2>8 DEF B
<1>18. ASSUME NEW id \in 0..(n - 1)
       PROVE  Cardinality(Occ(file.buckets, id)) \in 1..ADDRMAN_NEW_BUCKETS_PER_ADDRESS
  <2>1. id \in IdsOf(file) /\ (id >= n) = FALSE
    BY <1>9, <1>11 DEF IdsOf
  <2>2. at[id] \in S
    BY <1>2, <1>12, <2>1
  <2> QED  BY <1>5, <1>12, <2>1, <2>2
<1>19. ASSUME NEW b \in TriedBuckets
       PROVE  Cardinality({k \in 1..m : TriedBucket(file.tried[k]) = b}) <= ADDRMAN_TRIED_BUCKET_SIZE
  <2> DEFINE K == {k \in 1..m : TriedBucket(file.tried[k]) = b}
             len == Len(vvTried[b])
             g == [k \in K |-> CHOOSE l \in 1..len : vvTried[b][l] = st[k]]
  <2>1. \A k \in 1..m : TriedBucket(file.tried[k]) = TriedHome(mapInfo[st[k]])
    BY <1>8 DEF TriedBucket, TriedHome, Stored
  <2>2. ASSUME NEW k \in K PROVE k \in 1..m /\ \E l \in 1..len : vvTried[b][l] = st[k]
    BY <1>6, <1>9, <2>1
  <2> HIDE DEF K
  <2>3. ASSUME NEW k \in K PROVE g[k] \in 1..len /\ vvTried[b][g[k]] = st[k]
    <3> HIDE DEF len
    <3> QED  BY <2>2
  <2>4. g \in [K -> 1..len]
    BY <2>3
  <2> HIDE DEF g
  <2>5. ASSUME NEW k \in K, NEW l \in K, g[k] = g[l] PROVE k = l
    <3>1. st[k] = st[l] /\ k \in 1..m /\ l \in 1..m
      BY <2>2, <2>3, <2>5
    <3>2. k < l \/ l < k \/ k = l
      BY <1>9, <3>1
    <3>3. st[k] \in Int /\ st[l] \in Int
      BY <1>2, <1>9, <3>1
    <3> QED  BY <1>9, <3>1, <3>2, <3>3
  <2>6. len \in Nat /\ len <= ADDRMAN_TRIED_BUCKET_SIZE
    BY <1>7, LenProperties
  <2> HIDE DEF len
  <2>7. IsFiniteSet(1..len) /\ Cardinality(1..len) = len
    BY <2>6, FS_Interval
  <2>8. IsFiniteSet(K) /\ Cardinality(K) <= len
    BY <2>4, <2>5, <2>7, NoMore
  <2>9. Cardinality(K) \in Nat
    BY <2>8, FS_CardinalityType
  <2>10. Cardinality(K) <= ADDRMAN_TRIED_BUCKET_SIZE
    BY <2>6, <2>8, <2>9, AddrManAssumption
  <2> QED  BY <2>10 DEF K
<1> QED  BY <1>8, <1>9, <1>11, <1>13, <1>14, <1>15, <1>16, <1>17, <1>18, <1>19 DEF OwnFile

\* What a dump makes: a file of this version that holds what the tables hold.
LEMMA WrittenOwn ==
    ASSUME AddrInv, pc = "free"
    PROVE  OwnFile(Written) /\ FileContent(Written) = Content
<1>1. PICK sn, st : Dumped(Written, sn, st)
  BY WrittenDumped
<1>2. PICK at : EntryAt(at, Written)
  BY <1>1, DumpedIds
<1>3. OwnFile(Written)
  BY <1>1, <1>2, DumpedOwn
<1>4. Says(FileContent(Written), Written) /\ Says(Content, Written)
  BY <1>2, <1>3, FileSays, WrittenSays
<1>5. Content = [a \in DOMAIN Content |-> Content[a]]
  BY DEF Content
<1>6. FileContent(Written) = [a \in DOMAIN FileContent(Written) |-> FileContent(Written)[a]]
  BY DEF FileContent
<1> QED  BY <1>3, <1>4, <1>5, <1>6, SaysOne

----------------------------------------------------------------------------
(* What Read makes of such a file.                                         *)

LEMMA FileTried ==
    ASSUME NEW file, OwnFile(file), NEW k \in 1..Len(file.tried)
    PROVE  /\ Len(file.new) + k - 1 \in IdsOf(file)
           /\ StoredIn(file, Len(file.new) + k - 1) = file.tried[k]
           /\ IsStored(file.tried[k]) /\ TriedBucket(file.tried[k]) \in TriedBuckets
<1> DEFINE n == Len(file.new)
           m == Len(file.tried)
           s == file.tried[k]
<1>1. n \in Nat /\ m \in Nat
  BY DEF OwnFile
<1>2. IdsOf(file) = 0..(n + m - 1)
  BY DEF IdsOf
<1>3. \A id : ~ (id < n) => StoredIn(file, id) = file.tried[id - n + 1]
  BY DEF StoredIn
<1> HIDE DEF n, m
<1>4. n + k - 1 \in 0..(n + m - 1) /\ ~ (n + k - 1 < n) /\ (n + k - 1) - n + 1 = k
  BY <1>1 DEF m
<1>5. n + k - 1 \in IdsOf(file) /\ StoredIn(file, n + k - 1) = s
  BY <1>2, <1>3, <1>4
<1>6. IsStored(s)
  BY <1>5 DEF OwnFile
<1>7. s.addr \in Addrs /\ s.port \in Ports
  BY <1>6 DEF IsStored
<1>8. TriedBucket(s) \in TriedBuckets
  BY <1>7, AddrManAssumption DEF TriedBucket
<1> QED  BY <1>5, <1>6, <1>8 DEF n

\* No bucket of the tried table is too small for its entries.
LEMMA KeptAll ==
    ASSUME NEW file, OwnFile(file)
    PROVE  Kept(file) = 1..Len(file.tried)
<1> DEFINE m == Len(file.tried)
<1>1. m \in Nat
  BY DEF OwnFile
<1> HIDE DEF m
<1>2. ASSUME NEW k \in 1..m
      PROVE  Cardinality({j \in 1..(k - 1) : TriedBucket(file.tried[j]) = TriedBucket(file.tried[k])})
               < ADDRMAN_TRIED_BUCKET_SIZE
  <2> DEFINE b == TriedBucket(file.tried[k])
             K == {j \in 1..m : TriedBucket(file.tried[j]) = b}
             J == {j \in 1..(k - 1) : TriedBucket(file.tried[j]) = b}
  <2>1. b \in TriedBuckets
    BY FileTried DEF m
  <2>2. Cardinality(K) <= ADDRMAN_TRIED_BUCKET_SIZE
    BY <2>1 DEF OwnFile, m
  <2>3. IsFiniteSet(K)
    <3>1. IsFiniteSet(1..m)
      BY <1>1, FS_Interval
    <3> QED  BY <3>1, FS_Subset
  <2>4. k \in K
    OBVIOUS
  <2>5. J \in SUBSET (K \ {k})
    <3>1. ASSUME NEW j \in J PROVE j \in K /\ j # k
      BY <1>1
    <3> HIDE DEF J, K
    <3> QED  BY <3>1
  <2> HIDE DEF J, K
  <2>6. IsFiniteSet(K \ {k}) /\ Cardinality(K \ {k}) = Cardinality(K) - 1
    BY <2>3, <2>4, FS_RemoveElement
  <2>7. IsFiniteSet(J) /\ Cardinality(J) <= Cardinality(K \ {k})
    BY <2>5, <2>6, FS_Subset
  <2>8. Cardinality(J) \in Nat /\ Cardinality(K) \in Nat
    BY <2>3, <2>7, FS_CardinalityType
  <2>9. Cardinality(J) < ADDRMAN_TRIED_BUCKET_SIZE
    BY <2>2, <2>6, <2>7, <2>8, AddrManAssumption
  <2> QED  BY <2>9 DEF J
<1> QED  BY <1>2 DEF Kept, m

\* No entry is in more new buckets than it may be.
LEMMA BucketsAll ==
    ASSUME NEW file, OwnFile(file)
    PROVE  NewBucketsRead(file) = file.buckets
<1> DEFINE Before(b, i) == {c \in NewBuckets : c < b /\ i \in file.buckets[c]}
<1>1. /\ file.nUBuckets = Cardinality(NewBuckets) /\ file.buckets = [b \in NewBuckets |-> file.buckets[b]]
      /\ \A b \in NewBuckets : file.buckets[b] \subseteq 0..(Len(file.new) - 1)
      /\ \A id \in 0..(Len(file.new) - 1) :
            Cardinality(Occ(file.buckets, id)) \in 1..ADDRMAN_NEW_BUCKETS_PER_ADDRESS
  BY DEF OwnFile
<1>2. ASSUME NEW b \in NewBuckets, NEW i \in file.buckets[b]
      PROVE  Cardinality(Before(b, i)) < ADDRMAN_NEW_BUCKETS_PER_ADDRESS
  <2> DEFINE C == Occ(file.buckets, i)
             B == Before(b, i)
  <2>1. IsFiniteSet(C) /\ Cardinality(C) \in Nat
    BY OccFinite
  <2>2. b \in C /\ Cardinality(C) <= ADDRMAN_NEW_BUCKETS_PER_ADDRESS
    <3>1. i \in 0..(Len(file.new) - 1)
      BY <1>1
    <3>2. Cardinality(C) \in 1..ADDRMAN_NEW_BUCKETS_PER_ADDRESS
      BY <1>1, <3>1
    <3>3. b \in C
      BY DEF Occ
    <3> HIDE DEF C
    <3> QED  BY <3>2, <3>3, AddrManAssumption
  <2>3. B \in SUBSET (C \ {b})
    <3>1. ASSUME NEW c \in B PROVE c \in C /\ c # b
      BY BucketsNumbered DEF Occ
    <3> HIDE DEF B, C
    <3> QED  BY <3>1
  <2> HIDE DEF B, C
  <2>4. IsFiniteSet(C \ {b}) /\ Cardinality(C \ {b}) = Cardinality(C) - 1
    BY <2>1, <2>2, FS_RemoveElement
  <2>5. IsFiniteSet(B) /\ Cardinality(B) <= Cardinality(C \ {b})
    BY <2>3, <2>4, FS_Subset
  <2>6. Cardinality(B) \in Nat
    BY <2>5, FS_CardinalityType
  <2>7. Cardinality(B) < ADDRMAN_NEW_BUCKETS_PER_ADDRESS
    BY <2>1, <2>2, <2>4, <2>5, <2>6, AddrManAssumption
  <2> QED  BY <2>7 DEF B
<1>3. ASSUME NEW b \in NewBuckets
      PROVE  {i \in file.buckets[b] : Cardinality(Before(b, i)) < ADDRMAN_NEW_BUCKETS_PER_ADDRESS} = file.buckets[b]
  <2> HIDE DEF Before
  <2> QED  BY <1>2
<1>4. NewBucketsRead(file) =
        [b \in NewBuckets |-> {i \in file.buckets[b] : Cardinality(Before(b, i)) < ADDRMAN_NEW_BUCKETS_PER_ADDRESS}]
  BY <1>1 DEF NewBucketsRead
<1> HIDE DEF Before
<1> QED  BY <1>1, <1>3, <1>4

\* The entry that the file becomes.
AsRead(file, id) ==
    [addr |-> StoredIn(file, id).addr, port |-> StoredIn(file, id).port, source |-> StoredIn(file, id).source,
     nTime |-> StoredIn(file, id).nTime, nLastTry |-> 0, nLastSuccess |-> StoredIn(file, id).nLastSuccess,
     nAttempts |-> StoredIn(file, id).nAttempts,
     nRefCount |-> IF id < Len(file.new) THEN Cardinality(Occ(file.buckets, id)) ELSE 0,
     fInTried |-> id >= Len(file.new), nRandomPos |-> id + 1]
IdsInTried(file, b) == {id \in Len(file.new)..(Len(file.new) + Len(file.tried) - 1) : TriedBucket(StoredIn(file, id)) = b}

\* The tables that Read makes of the file.
TablesOf(file, nIds, nNews, nTrieds, info, known, rnd, tried, buckets) ==
    /\ nIds = Len(file.new) + Len(file.tried) /\ nNews = Len(file.new) /\ nTrieds = Len(file.tried)
    /\ info = [id \in IdsOf(file) |-> AsRead(file, id)]
    /\ known = [a \in {StoredIn(file, id).addr : id \in IdsOf(file)} |->
                  CHOOSE id \in IdsOf(file) : StoredIn(file, id).addr = a]
    /\ rnd = [k \in 1..(Len(file.new) + Len(file.tried)) |-> k - 1]
    /\ tried = [b \in TriedBuckets |-> InOrder(IdsInTried(file, b))]
    /\ buckets = file.buckets

LEMMA ReadTables ==
    ASSUME NEW file, OwnFile(file), Read(file)
    PROVE  TablesOf(file, nIdCount', nNew', nTried', mapInfo', mapAddr', vRandom', vvTried', vvNew')
<1> DEFINE kept == InOrder(Kept(file))
           news == Len(file.new)
           count == news + Len(kept)
           buckets == NewBucketsRead(file)
           stored(id) == IF id < news THEN file.new[id + 1] ELSE file.tried[kept[id - news + 1]]
           refs(id) == Cardinality({b \in NewBuckets : id \in buckets[b]})
           m == Len(file.tried)
<1>1. /\ nIdCount' = count /\ nNew' = news /\ nTried' = Len(kept)
      /\ mapInfo' = [id \in 0..(count - 1) |->
                       [Loaded(stored(id), id) EXCEPT !.nRefCount = IF id < news THEN refs(id) ELSE 0,
                                                      !.fInTried = id >= news]]
      /\ mapAddr' = [a \in {stored(id).addr : id \in 0..(count - 1)} |->
                       CHOOSE id \in 0..(count - 1) : stored(id).addr = a]
      /\ vRandom' = [k \in 1..count |-> k - 1]
      /\ vvTried' = [b \in TriedBuckets |->
                       InOrder({id \in news..(count - 1) : TriedBucket(stored(id)) = b})]
      /\ vvNew' = buckets
  BY DEF Read
<1>2. news \in Nat /\ m \in Nat
  BY DEF OwnFile
<1>3. Len(kept) = m /\ \A k \in 1..m : kept[k] = k
  BY <1>2, KeptAll, InOrderUpTo
<1>4. buckets = file.buckets
  BY BucketsAll
<1>5. 0..(count - 1) = IdsOf(file)
  BY <1>3 DEF IdsOf
<1> HIDE DEF kept, buckets
<1>6. ASSUME NEW id \in IdsOf(file) PROVE stored(id) = StoredIn(file, id)
  <2>1. CASE id < news
    BY <2>1 DEF StoredIn
  <2>2. CASE ~ (id < news)
    <3>1. id \in 0..(news + m - 1)
      BY DEF IdsOf
    <3> HIDE DEF news, m
    <3>2. id - news + 1 \in 1..m
      BY <1>2, <2>2, <3>1
    <3>3. kept[id - news + 1] = id - news + 1
      BY <1>3, <3>2
    <3> QED  BY <2>2, <3>3 DEF StoredIn, news
  <2> QED  BY <2>1, <2>2
<1> HIDE DEF stored
<1>7. mapInfo' = [id \in IdsOf(file) |-> AsRead(file, id)]
  <2>1. ASSUME NEW id \in IdsOf(file)
        PROVE  [Loaded(stored(id), id) EXCEPT !.nRefCount = IF id < news THEN refs(id) ELSE 0,
                                              !.fInTried = id >= news] = AsRead(file, id)
    <3>1. stored(id) = StoredIn(file, id)
      BY <1>6
    <3>2. refs(id) = Cardinality(Occ(file.buckets, id))
      BY <1>4 DEF Occ
    <3> DEFINE r == IF id < news THEN refs(id) ELSE 0
               t == id >= news
               s == StoredIn(file, id)
    <3>3. AsRead(file, id) =
            [addr |-> s.addr, port |-> s.port, source |-> s.source, nTime |-> s.nTime, nLastTry |-> 0,
             nLastSuccess |-> s.nLastSuccess, nAttempts |-> s.nAttempts,
             nRefCount |-> r, fInTried |-> t, nRandomPos |-> id + 1]
      <4> HIDE DEF refs
      <4> QED  BY <3>2 DEF AsRead
    <3> HIDE DEF r, t, s
    <3>4. [Loaded(s, id) EXCEPT !.nRefCount = r, !.fInTried = t] =
            [addr |-> s.addr, port |-> s.port, source |-> s.source, nTime |-> s.nTime, nLastTry |-> 0,
             nLastSuccess |-> s.nLastSuccess, nAttempts |-> s.nAttempts,
             nRefCount |-> r, fInTried |-> t, nRandomPos |-> id + 1]
      <4> DEFINE e == Loaded(s, id)
      <4>1. e = [x \in InfoFields |-> e[x]]
        BY DEF Loaded, InfoFields
      <4>2. /\ e.addr = s.addr /\ e.port = s.port /\ e.source = s.source /\ e.nTime = s.nTime /\ e.nLastTry = 0
            /\ e.nLastSuccess = s.nLastSuccess /\ e.nAttempts = s.nAttempts /\ e.nRandomPos = id + 1
        BY DEF Loaded
      <4> HIDE DEF e
      <4> DEFINE g == [e EXCEPT !.nRefCount = r]
                 f == [g EXCEPT !.fInTried = t]
                 h == [addr |-> s.addr, port |-> s.port, source |-> s.source, nTime |-> s.nTime, nLastTry |-> 0,
                       nLastSuccess |-> s.nLastSuccess, nAttempts |-> s.nAttempts,
                       nRefCount |-> r, fInTried |-> t, nRandomPos |-> id + 1]
      <4>3. g = [x \in InfoFields |-> g[x]] /\ \A x \in InfoFields : g[x] = IF x = "nRefCount" THEN r ELSE e[x]
        BY <4>1 DEF InfoFields
      <4> HIDE DEF g
      <4>4. f = [x \in InfoFields |-> f[x]] /\ \A x \in InfoFields : f[x] = IF x = "fInTried" THEN t ELSE g[x]
        BY <4>3 DEF InfoFields
      <4>5. h = [x \in InfoFields |-> h[x]] /\ \A x \in InfoFields : h[x] = f[x]
        BY <4>2, <4>3, <4>4 DEF InfoFields
      <4> HIDE DEF f, h
      <4>6. f = h
        BY <4>4, <4>5
      <4> QED  BY <4>6 DEF e, f, g, h
    <3>5. [Loaded(s, id) EXCEPT !.nRefCount = r, !.fInTried = t] = AsRead(file, id)
      BY <3>3, <3>4
    <3> HIDE DEF refs
    <3> QED  BY <3>1, <3>5 DEF r, t, s
  <2> HIDE DEF count, refs
  <2> QED  BY <1>1, <1>5, <2>1
<1>8. mapAddr' = [a \in {StoredIn(file, id).addr : id \in IdsOf(file)} |->
                    CHOOSE id \in IdsOf(file) : StoredIn(file, id).addr = a]
  <2> DEFINE R == 0..(count - 1)
  <2>1. R = IdsOf(file)
    BY <1>5
  <2>2. mapAddr' = [a \in {stored(id).addr : id \in R} |-> CHOOSE id \in R : stored(id).addr = a]
    BY <1>1
  <2> HIDE DEF R
  <2>3. {stored(id).addr : id \in R} = {StoredIn(file, id).addr : id \in IdsOf(file)}
    BY <1>6, <2>1
  <2>4. ASSUME NEW a
        PROVE  (CHOOSE id \in R : stored(id).addr = a) = (CHOOSE id \in IdsOf(file) : StoredIn(file, id).addr = a)
    <3>1. \A id : (id \in R /\ stored(id).addr = a) <=> (id \in IdsOf(file) /\ StoredIn(file, id).addr = a)
      BY <1>6, <2>1
    <3> QED  BY <3>1
  <2> QED  BY <2>2, <2>3, <2>4
<1>9. vvTried' = [b \in TriedBuckets |-> InOrder(IdsInTried(file, b))]
  <2>1. ASSUME NEW b PROVE {id \in news..(count - 1) : TriedBucket(stored(id)) = b} = IdsInTried(file, b)
    <3>1. count = news + m
      BY <1>3
    <3>2. IdsOf(file) = 0..(news + m - 1) /\ IdsInTried(file, b) = {id \in news..(news + m - 1) : TriedBucket(StoredIn(file, id)) = b}
      BY DEF IdsOf, IdsInTried
    <3> HIDE DEF count, news, m
    <3>3. \A id \in news..(news + m - 1) : id \in 0..(news + m - 1)
      BY <1>2
    <3>4. \A id \in news..(news + m - 1) : stored(id) = StoredIn(file, id)
      BY <1>6, <3>2, <3>3
    <3>5. {id \in news..(news + m - 1) : TriedBucket(stored(id)) = b}
            = {id \in news..(news + m - 1) : TriedBucket(StoredIn(file, id)) = b}
      BY <3>4
    <3>6. news..(count - 1) = news..(news + m - 1)
      BY <1>2, <3>1
    <3>7. {id \in news..(count - 1) : TriedBucket(stored(id)) = b} = {id \in news..(news + m - 1) : TriedBucket(stored(id)) = b}
      BY <3>6
    <3> QED  BY <3>2, <3>5, <3>7
  <2> HIDE DEF count, news
  <2> QED  BY <1>1, <2>1
<1> QED  BY <1>1, <1>3, <1>4, <1>7, <1>8, <1>9 DEF TablesOf

\* The bucket of the tried table that the entries of b are read into.
LEMMA TriedRead ==
    ASSUME NEW file, OwnFile(file), NEW b \in TriedBuckets
    PROVE  /\ Ascends(InOrder(IdsInTried(file, b)), IdsInTried(file, b))
           /\ Cardinality(IdsInTried(file, b)) <= ADDRMAN_TRIED_BUCKET_SIZE
<1> DEFINE n == Len(file.new)
           m == Len(file.tried)
           I == IdsInTried(file, b)
           K == {k \in 1..m : TriedBucket(file.tried[k]) = b}
<1>1. n \in Nat /\ m \in Nat /\ Cardinality(K) <= ADDRMAN_TRIED_BUCKET_SIZE
  BY DEF OwnFile
<1>2. I = {id \in n..(n + m - 1) : TriedBucket(StoredIn(file, id)) = b}
  BY DEF IdsInTried
<1>3. \A k \in 1..m : StoredIn(file, n + k - 1) = file.tried[k]
  BY FileTried
<1> HIDE DEF n, m, I
<1>4. I \in SUBSET (0..((n + m) - 1)) /\ n + m \in Nat
  BY <1>1, <1>2
<1>5. Ascends(InOrder(I), I)
  BY <1>4, InOrderFact
<1> DEFINE g == [id \in I |-> id - n + 1]
<1>6. ASSUME NEW id \in I PROVE id - n + 1 \in K /\ id \in Int
  <2>1. id \in n..(n + m - 1) /\ TriedBucket(StoredIn(file, id)) = b
    BY <1>2
  <2>2. id - n + 1 \in 1..m /\ n + (id - n + 1) - 1 = id /\ id \in Int
    BY <1>1, <2>1
  <2>3. StoredIn(file, n + (id - n + 1) - 1) = file.tried[id - n + 1]
    BY <1>3, <2>2
  <2> QED  BY <2>1, <2>2, <2>3
<1>7. g \in [I -> K]
  BY <1>6
<1>8. \A x, y \in I : g[x] = g[y] => x = y
  <2> SUFFICES ASSUME NEW x \in I, NEW y \in I, g[x] = g[y] PROVE x = y
    OBVIOUS
  <2>1. x - n + 1 = y - n + 1 /\ x \in Int /\ y \in Int
    BY <1>6
  <2> QED  BY <1>1, <2>1
<1>9. IsFiniteSet(K)
  <2>1. IsFiniteSet(1..m)
    BY <1>1, FS_Interval
  <2> QED  BY <2>1, FS_Subset
<1> HIDE DEF g, K
<1>10. IsFiniteSet(I) /\ Cardinality(I) <= Cardinality(K)
  BY <1>7, <1>8, <1>9, NoMore
<1>11. Cardinality(I) \in Nat /\ Cardinality(K) \in Nat
  BY <1>9, <1>10, FS_CardinalityType
<1>12. Cardinality(I) <= ADDRMAN_TRIED_BUCKET_SIZE
  BY <1>1, <1>10, <1>11, AddrManAssumption
<1> QED  BY <1>5, <1>12 DEF I

\* The parts of the invariant, of the tables that are read.
Sound(nIds, nNews, nTrieds, info, known, rnd, tried, buckets) ==
    /\ nIds \in Nat /\ DOMAIN info = 0..(nIds - 1)
    /\ Infos(info) /\ Listed(info, rnd) /\ Mapped(info, known)
    /\ NewSound(info, -1, buckets) /\ TriedSound(info, -1, tried)
    /\ nNews = Cardinality(NewOf(info, -1)) /\ nTrieds = Cardinality(TriedOf(info, -1))

LEMMA TablesSound ==
    ASSUME NEW file, OwnFile(file), NEW nIds, NEW nNews, NEW nTrieds, NEW info, NEW known, NEW rnd, NEW tried,
           NEW buckets, TablesOf(file, nIds, nNews, nTrieds, info, known, rnd, tried, buckets)
    PROVE  Sound(nIds, nNews, nTrieds, info, known, rnd, tried, buckets)
<1> DEFINE n == Len(file.new)
           m == Len(file.tried)
           I == IdsOf(file)
<1>1. n \in Nat /\ m \in Nat
  BY DEF OwnFile
<1>2. /\ nIds = n + m /\ nNews = n /\ nTrieds = m
      /\ info = [id \in I |-> AsRead(file, id)]
      /\ known = [a \in {StoredIn(file, id).addr : id \in I} |-> CHOOSE id \in I : StoredIn(file, id).addr = a]
      /\ rnd = [k \in 1..(n + m) |-> k - 1]
      /\ tried = [b \in TriedBuckets |-> InOrder(IdsInTried(file, b))]
      /\ buckets = file.buckets
  BY DEF TablesOf
<1>3. I = 0..(n + m - 1)
  BY DEF IdsOf
<1>4. \A id : /\ AsRead(file, id).nRefCount = IF id < n THEN Cardinality(Occ(file.buckets, id)) ELSE 0
              /\ AsRead(file, id).fInTried = (id >= n) /\ AsRead(file, id).nRandomPos = id + 1
              /\ AsRead(file, id).addr = StoredIn(file, id).addr /\ AsRead(file, id).port = StoredIn(file, id).port
              /\ AsRead(file, id).source = StoredIn(file, id).source
              /\ AsRead(file, id).nLastSuccess = StoredIn(file, id).nLastSuccess
              /\ DOMAIN AsRead(file, id) = InfoFields
  BY DEF AsRead, InfoFields
<1>5. \A id \in I : IsStored(StoredIn(file, id))
  BY DEF OwnFile
<1>6. \A id, jd \in I : StoredIn(file, id).addr = StoredIn(file, jd).addr => id = jd
  BY DEF OwnFile
<1>7. /\ file.buckets = [b \in NewBuckets |-> file.buckets[b]]
      /\ \A b \in NewBuckets : /\ file.buckets[b] \subseteq 0..(n - 1)
                               /\ Cardinality(file.buckets[b]) <= ADDRMAN_NEW_BUCKET_SIZE
      /\ \A id \in 0..(n - 1) : Cardinality(Occ(file.buckets, id)) \in 1..ADDRMAN_NEW_BUCKETS_PER_ADDRESS
  BY DEF OwnFile
<1>8. \A k \in 1..m : /\ StoredIn(file, n + k - 1) = file.tried[k] /\ TriedBucket(file.tried[k]) \in TriedBuckets
                      /\ file.tried[k].nLastSuccess # 0
  BY FileTried DEF OwnFile
<1>9. ASSUME NEW b \in TriedBuckets
      PROVE  /\ Ascends(tried[b], IdsInTried(file, b)) /\ Cardinality(IdsInTried(file, b)) <= ADDRMAN_TRIED_BUCKET_SIZE
             /\ IdsInTried(file, b) = {id \in n..(n + m - 1) : TriedBucket(StoredIn(file, id)) = b}
  BY <1>2, TriedRead DEF IdsInTried
<1> HIDE DEF n, m, I
<1>10. DOMAIN info = I /\ \A id \in I : info[id] = AsRead(file, id)
  BY <1>2
<1>11. n + m \in Nat /\ nIds \in Nat /\ DOMAIN info = 0..(nIds - 1)
  BY <1>1, <1>2, <1>3, <1>10
<1>12. Infos(info)
  <2> SUFFICES ASSUME NEW id \in I PROVE IsInfo(info[id])
    BY <1>10 DEF Infos
  <2>1. IsStored(StoredIn(file, id)) /\ info[id] = AsRead(file, id)
    BY <1>5, <1>10
  <2>2. AsRead(file, id).nRefCount \in Nat
    BY <1>4, OccFinite
  <2>3. AsRead(file, id).fInTried \in BOOLEAN
    <3>1. AsRead(file, id).fInTried = (id >= n)
      BY <1>4
    <3>2. (id >= n) \in BOOLEAN
      OBVIOUS
    <3> QED  BY <3>1, <3>2
  <2> QED  BY <1>4, <2>1, <2>2, <2>3 DEF IsInfo, IsStored
<1>13. Listed(info, rnd)
  <2>1. \A k \in 1..(n + m) : rnd[k] = k - 1 /\ k - 1 \in I /\ (k - 1) + 1 = k
    BY <1>1, <1>2, <1>3
  <2>2. rnd \in Seq(I) /\ Len(rnd) = n + m
    <3>1. rnd \in [1..(n + m) -> I]
      BY <1>2, <2>1
    <3> QED  BY <1>11, <3>1
  <2>3. \A id \in I : id + 1 \in 1..(n + m) /\ (id + 1) - 1 = id
    BY <1>1, <1>3
  <2>4. \A id \in I : info[id].nRandomPos = id + 1
    BY <1>4, <1>10
  <2>5. ASSUME NEW id \in I PROVE info[id].nRandomPos \in 1..(n + m) /\ rnd[info[id].nRandomPos] = id
    <3>1. rnd[id + 1] = (id + 1) - 1
      BY <2>1, <2>3
    <3> QED  BY <2>3, <2>4, <3>1
  <2>6. ASSUME NEW k \in 1..(n + m) PROVE info[rnd[k]].nRandomPos = k
    <3>1. info[k - 1].nRandomPos = (k - 1) + 1
      BY <2>1, <2>4
    <3> QED  BY <2>1, <3>1
  <2> QED  BY <1>10, <2>2, <2>5, <2>6 DEF Listed
<1>14. Mapped(info, known)
  <2>1. \A id \in I : info[id].addr = StoredIn(file, id).addr
    BY <1>4, <1>10
  <2>2. {StoredIn(file, id).addr : id \in I} = {info[id].addr : id \in I}
    BY <2>1
  <2>3. ASSUME NEW id \in I PROVE known[StoredIn(file, id).addr] = id
    <3>1. known[StoredIn(file, id).addr] = CHOOSE jd \in I : StoredIn(file, jd).addr = StoredIn(file, id).addr
      BY <1>2
    <3>2. \A jd \in I : StoredIn(file, jd).addr = StoredIn(file, id).addr => jd = id
      BY <1>6
    <3> QED  BY <3>1, <3>2
  <2>4. DOMAIN known = {StoredIn(file, id).addr : id \in I}
    BY <1>2
  <2> QED  BY <1>10, <2>1, <2>2, <2>3, <2>4 DEF Mapped
<1>15. NewOf(info, -1) = 0..(n - 1) /\ TriedOf(info, -1) = n..(n + m - 1)
  <2>1. \A id \in I : info[id].fInTried = (id >= n)
    BY <1>4, <1>10
  <2>2. \A id : id \in 0..(n - 1) <=> id \in I /\ id # -1 /\ ~ (id >= n)
    BY <1>1, <1>3
  <2>3. \A id : id \in n..(n + m - 1) <=> id \in I /\ id # -1 /\ id >= n
    BY <1>1, <1>3
  <2>4. \A id : id \in NewOf(info, -1) <=> id \in I /\ id # -1 /\ ~ info[id].fInTried
    BY <1>10 DEF NewOf
  <2>5. \A id : id \in TriedOf(info, -1) <=> id \in I /\ id # -1 /\ info[id].fInTried
    BY <1>10 DEF TriedOf
  <2>6. \A id : id \in NewOf(info, -1) <=> id \in 0..(n - 1)
    BY <2>1, <2>2, <2>4
  <2>7. \A id : id \in TriedOf(info, -1) <=> id \in n..(n + m - 1)
    BY <2>1, <2>3, <2>5
  <2> QED  BY <2>6, <2>7
<1>16. nNews = Cardinality(NewOf(info, -1)) /\ nTrieds = Cardinality(TriedOf(info, -1))
  <2>1. Cardinality(0..(n - 1)) = n /\ Cardinality(n..(n + m - 1)) = m
    <3>1. Cardinality(0..(n - 1)) = IF 0 > n - 1 THEN 0 ELSE (n - 1) - 0 + 1
      BY <1>1, FS_Interval
    <3>2. Cardinality(n..(n + m - 1)) = IF n > n + m - 1 THEN 0 ELSE (n + m - 1) - n + 1
      BY <1>1, FS_Interval
    <3> QED  BY <1>1, <3>1, <3>2
  <2> QED  BY <1>2, <1>15, <2>1
<1>17. NewSound(info, -1, buckets)
  <2>1. ASSUME NEW id \in 0..(n - 1)
        PROVE  /\ info[id].nRefCount = Cardinality(Occ(buckets, id))
               /\ info[id].nRefCount \in 1..ADDRMAN_NEW_BUCKETS_PER_ADDRESS
    <3>1. id \in I /\ id < n
      BY <1>1, <1>3
    <3>2. info[id].nRefCount = Cardinality(Occ(file.buckets, id))
      BY <1>4, <1>10, <3>1
    <3> QED  BY <1>2, <1>7, <3>2
  <2>2. DOMAIN buckets = NewBuckets
    BY <1>2, <1>7
  <2> QED  BY <1>2, <1>7, <1>15, <2>1, <2>2 DEF NewSound
<1>18. TriedSound(info, -1, tried)
  <2>1. ASSUME NEW id \in n..(n + m - 1)
        PROVE  /\ id \in I /\ info[id] = AsRead(file, id)
               /\ TriedHome(info[id]) = TriedBucket(StoredIn(file, id)) /\ TriedBucket(StoredIn(file, id)) \in TriedBuckets
               /\ info[id].nLastSuccess # 0 /\ info[id].nRefCount = 0
    <3>1. id \in I /\ ~ (id < n) /\ id - n + 1 \in 1..m /\ n + (id - n + 1) - 1 = id
      BY <1>1, <1>3
    <3>2. StoredIn(file, n + (id - n + 1) - 1) = file.tried[id - n + 1]
      BY <1>8, <3>1
    <3>3. StoredIn(file, id) = file.tried[id - n + 1]
      BY <3>1, <3>2
    <3>4. TriedBucket(StoredIn(file, id)) \in TriedBuckets /\ StoredIn(file, id).nLastSuccess # 0
      BY <1>8, <3>1, <3>3
    <3>5. info[id] = AsRead(file, id)
      BY <1>10, <3>1
    <3>6. TriedHome(AsRead(file, id)) = TriedBucket(StoredIn(file, id))
      BY <1>4 DEF TriedHome, TriedBucket
    <3>7. AsRead(file, id).nRefCount = 0 /\ AsRead(file, id).nLastSuccess # 0
      BY <1>4, <3>1, <3>4
    <3> QED  BY <3>1, <3>4, <3>5, <3>6, <3>7
  <2>2. ASSUME NEW b \in TriedBuckets
        PROVE  /\ tried[b] \in Seq(n..(n + m - 1)) /\ Len(tried[b]) <= ADDRMAN_TRIED_BUCKET_SIZE
               /\ \A k, l \in 1..Len(tried[b]) : tried[b][k] = tried[b][l] => k = l
               /\ \A k \in 1..Len(tried[b]) : TriedHome(info[tried[b][k]]) = b
               /\ \A x \in IdsInTried(file, b) : \E k \in 1..Len(tried[b]) : tried[b][k] = x
    <3> DEFINE s == tried[b]
               J == IdsInTried(file, b)
    <3>1. /\ s \in Seq(J) /\ Len(s) = Cardinality(J) /\ \A k, l \in 1..Len(s) : k < l => s[k] < s[l]
          /\ \A x \in J : \E k \in 1..Len(s) : s[k] = x
      BY <1>9 DEF Ascends
    <3>2. J = {id \in n..(n + m - 1) : TriedBucket(StoredIn(file, id)) = b} /\ Cardinality(J) <= ADDRMAN_TRIED_BUCKET_SIZE
      BY <1>9
    <3> HIDE DEF s, J
    <3>3. \A x \in J : x \in n..(n + m - 1) /\ TriedBucket(StoredIn(file, x)) = b /\ x \in Int
      BY <1>1, <3>2
    <3>4. Len(s) \in Nat /\ \A k \in 1..Len(s) : s[k] \in J
      BY <3>1, LenProperties, ElementOfSeq
    <3>5. s \in Seq(n..(n + m - 1))
      <4>1. s \in [1..Len(s) -> J]
        BY <3>1, LenProperties
      <4>2. s \in [1..Len(s) -> n..(n + m - 1)]
        BY <3>3, <4>1
      <4> DEFINE len == Len(s)
                 R == n..(n + m - 1)
      <4>3. len \in Nat /\ s \in [1..len -> R]
        BY <3>4, <4>2
      <4> HIDE DEF len, R
      <4>4. s \in Seq(R)
        BY <4>3, SeqDef
      <4> QED  BY <4>4 DEF R
    <3>6. ASSUME NEW k \in 1..Len(s), NEW l \in 1..Len(s), s[k] = s[l] PROVE k = l
      <4>1. k < l \/ l < k \/ k = l
        BY <3>4
      <4>2. s[k] \in Int /\ s[l] \in Int
        BY <3>3, <3>4
      <4> QED  BY <3>1, <3>6, <4>1, <4>2
    <3>7. ASSUME NEW k \in 1..Len(s) PROVE TriedHome(info[s[k]]) = b
      <4>1. s[k] \in n..(n + m - 1) /\ TriedBucket(StoredIn(file, s[k])) = b
        BY <3>3, <3>4
      <4> QED  BY <2>1, <4>1
    <3> QED  BY <3>1, <3>2, <3>5, <3>6, <3>7 DEF s, J
  <2>3. ASSUME NEW id \in n..(n + m - 1)
        PROVE  \E k \in 1..Len(tried[TriedHome(info[id])]) : tried[TriedHome(info[id])][k] = id
    <3> DEFINE b == TriedHome(info[id])
    <3>1. b \in TriedBuckets /\ TriedBucket(StoredIn(file, id)) = b
      BY <2>1
    <3> HIDE DEF b
    <3>2. id \in IdsInTried(file, b)
      BY <1>9, <3>1
    <3>3. \E k \in 1..Len(tried[b]) : tried[b][k] = id
      BY <2>2, <3>1, <3>2
    <3> QED  BY <3>3 DEF b
  <2>4. DOMAIN tried = TriedBuckets
    BY <1>2
  <2> QED  BY <1>15, <2>1, <2>2, <2>3, <2>4 DEF TriedSound
<1> QED  BY <1>11, <1>12, <1>13, <1>14, <1>16, <1>17, <1>18 DEF Sound

\* What tables hold, by address.
ContentOf(info, known, buckets) ==
    [a \in DOMAIN known |->
        [stored |-> Stored(info[known[a]]), fInTried |-> info[known[a]].fInTried, buckets |-> Occ(buckets, known[a])]]

LEMMA TablesSay ==
    ASSUME NEW file, OwnFile(file), NEW nIds, NEW nNews, NEW nTrieds, NEW info, NEW known, NEW rnd, NEW tried,
           NEW buckets, TablesOf(file, nIds, nNews, nTrieds, info, known, rnd, tried, buckets)
    PROVE  ContentOf(info, known, buckets) = FileContent(file)
<1> DEFINE C == ContentOf(info, known, buckets)
           I == IdsOf(file)
<1>1. Mapped(info, known)
  BY TablesSound DEF Sound
<1>2. info = [id \in I |-> AsRead(file, id)] /\ buckets = file.buckets
  BY DEF TablesOf
<1> HIDE DEF I
<1>3. DOMAIN info = I /\ \A id \in I : info[id] = AsRead(file, id)
  BY <1>2
<1>4. \A id \in I : Stored(AsRead(file, id)) = StoredIn(file, id)
  <2> SUFFICES ASSUME NEW id \in I PROVE Stored(AsRead(file, id)) = StoredIn(file, id)
    OBVIOUS
  <2> DEFINE s == StoredIn(file, id)
  <2>1. s = [addr |-> s.addr, port |-> s.port, source |-> s.source, nTime |-> s.nTime,
             nLastSuccess |-> s.nLastSuccess, nAttempts |-> s.nAttempts]
    BY DEF OwnFile, IsStored, I
  <2>2. Stored(AsRead(file, id)) = [addr |-> s.addr, port |-> s.port, source |-> s.source, nTime |-> s.nTime,
                                    nLastSuccess |-> s.nLastSuccess, nAttempts |-> s.nAttempts]
    BY DEF Stored, AsRead
  <2> QED  BY <2>1, <2>2
<1>5. \A id \in I : info[id].addr = StoredIn(file, id).addr /\ info[id].fInTried = (id >= Len(file.new))
  BY <1>3 DEF AsRead
<1>6. DOMAIN known = {StoredIn(file, id).addr : id \in I} /\ \A id \in I : known[StoredIn(file, id).addr] = id
  BY <1>1, <1>3, <1>5 DEF Mapped
<1>7. DOMAIN C = DOMAIN known /\ C = [a \in DOMAIN C |-> C[a]]
  BY DEF ContentOf
<1>8. ASSUME NEW id \in I
      PROVE  C[StoredIn(file, id).addr] =
               [stored |-> StoredIn(file, id), fInTried |-> id >= Len(file.new), buckets |-> Occ(file.buckets, id)]
  <2> DEFINE a == StoredIn(file, id).addr
  <2>1. a \in DOMAIN known /\ known[a] = id
    BY <1>6
  <2> HIDE DEF a
  <2>2. C[a] = [stored |-> Stored(info[known[a]]), fInTried |-> info[known[a]].fInTried, buckets |-> Occ(buckets, known[a])]
    BY <2>1 DEF ContentOf
  <2>3. C[a] = [stored |-> Stored(info[id]), fInTried |-> info[id].fInTried, buckets |-> Occ(buckets, id)]
    BY <2>1, <2>2
  <2>4. Stored(info[id]) = StoredIn(file, id)
    BY <1>3, <1>4
  <2> HIDE DEF C
  <2> QED  BY <1>2, <1>5, <2>3, <2>4 DEF a
<1> HIDE DEF C
<1>9. Says(C, file)
  BY <1>6, <1>7, <1>8 DEF Says, I
<1>10. Says(FileContent(file), file) /\ FileContent(file) = [a \in DOMAIN FileContent(file) |-> FileContent(file)[a]]
  BY FileSays DEF FileContent
<1>11. C = FileContent(file)
  BY <1>7, <1>9, <1>10, SaysOne
<1> QED  BY <1>11 DEF C

----------------------------------------------------------------------------
(* The invariant, with the files.                                          *)

IsOwn(file) == file = NoFile \/ OwnFile(file)
FileInv == AddrInv /\ IsOwn(peersDat) /\ IsOwn(tmpfn)

\* A restart that reads a file finds sound tables, and what the file says.
LEMMA ReadSound ==
    ASSUME NEW file, OwnFile(file), Read(file), pc' = "free", moving' = NotMoving, shuffled' = 0
    PROVE  AddrInv' /\ Content' = FileContent(file)
<1>1. TablesOf(file, nIdCount', nNew', nTried', mapInfo', mapAddr', vRandom', vvTried', vvNew')
  BY ReadTables
<1>2. Sound(nIdCount', nNew', nTried', mapInfo', mapAddr', vRandom', vvTried', vvNew')
  BY <1>1, TablesSound
<1>3. moving'.id = -1
  BY DEF NotMoving, NoId
<1>4. AddrInv'
  BY <1>2, <1>3 DEF Sound, AddrInv, MovingSound, Ids
<1>5. ContentOf(mapInfo', mapAddr', vvNew') = FileContent(file)
  BY <1>1, TablesSay
<1>6. Content' = ContentOf(mapInfo', mapAddr', vvNew')
  BY DEF Content, ContentOf, Occurrences, Occ
<1> QED  BY <1>4, <1>5, <1>6

\* A restart without a file finds empty tables.
LEMMA EmptySound ==
    ASSUME nIdCount' = 0, nTried' = 0, nNew' = 0, mapInfo' = << >>, mapAddr' = << >>, vRandom' = << >>,
           vvTried' = [b \in TriedBuckets |-> << >>], vvNew' = [b \in NewBuckets |-> {}],
           pc' = "free", moving' = NotMoving, shuffled' = 0
    PROVE  AddrInv'
<1>1. Init'
  BY DEF Init
<1>2. (Init => AddrInv)'
  BY AddrInit, PTL
<1> QED  BY <1>1, <1>2

LEMMA FileInit ==
    ASSUME \A file \in OldFiles : IsOwn(file)
    PROVE  InitFile => FileInv
BY AddrInit DEF InitFile, FileInv, IsOwn

LEMMA FileNext ==
    ASSUME FileInv, [NextFile]_<<vars, fileVars>>
    PROVE  FileInv'
<1>1. AddrInv /\ IsOwn(peersDat) /\ IsOwn(tmpfn)
  BY DEF FileInv
<1>2. CASE Next /\ UNCHANGED fileVars
  <2>1. AddrInv'
    BY <1>1, <1>2, AddrNext
  <2> QED  BY <1>1, <1>2, <2>1 DEF FileInv, fileVars
<1>3. CASE UNCHANGED <<vars, fileVars>>
  <2>1. AddrInv'
    BY <1>1, <1>3, AddrNext
  <2> QED  BY <1>1, <1>3, <2>1 DEF FileInv, fileVars
<1>4. CASE Dump
  <2>1. AddrInv' /\ peersDat' = peersDat /\ tmpfn' = Written /\ pc = "free"
    BY <1>1, <1>4, AddrNext DEF Dump
  <2>2. OwnFile(Written)
    BY <1>1, <2>1, WrittenOwn
  <2> QED  BY <1>1, <2>1, <2>2 DEF FileInv, IsOwn
<1>5. CASE Rename
  <2>1. AddrInv' /\ peersDat' = tmpfn /\ tmpfn' = NoFile
    BY <1>1, <1>5, AddrNext DEF Rename
  <2> QED  BY <1>1, <2>1 DEF FileInv, IsOwn
<1>6. CASE WriteFails
  <2>1. AddrInv' /\ peersDat' = peersDat /\ tmpfn' = NoFile
    BY <1>1, <1>6, AddrNext DEF WriteFails
  <2> QED  BY <1>1, <2>1 DEF FileInv, IsOwn
<1>7. CASE StartAgain
  <2>1. /\ peersDat' = peersDat /\ tmpfn' = NoFile /\ pc' = "free" /\ moving' = NotMoving /\ shuffled' = 0
        /\ IF peersDat # NoFile THEN Read(peersDat)
           ELSE /\ nIdCount' = 0 /\ nTried' = 0 /\ nNew' = 0
                /\ mapInfo' = << >> /\ mapAddr' = << >> /\ vRandom' = << >>
                /\ vvTried' = [b \in TriedBuckets |-> << >>] /\ vvNew' = [b \in NewBuckets |-> {}]
    BY <1>7 DEF StartAgain
  <2>2. CASE peersDat = NoFile
    <3>1. AddrInv'
      BY <2>1, <2>2, EmptySound
    <3> QED  BY <1>1, <2>1, <3>1 DEF FileInv, IsOwn
  <2>3. CASE peersDat # NoFile
    <3>1. PICK file : file = peersDat
      OBVIOUS
    <3>2. OwnFile(file) /\ Read(file)
      BY <1>1, <2>1, <2>3, <3>1 DEF IsOwn
    <3>3. AddrInv'
      BY <2>1, <3>2, ReadSound
    <3> QED  BY <1>1, <2>1, <3>3 DEF FileInv, IsOwn
  <2> QED  BY <2>2, <2>3
<1> QED  BY <1>2, <1>3, <1>4, <1>5, <1>6, <1>7 DEF NextFile

\* A dump holds every entry, with its statistics and its buckets, a restart finds in the tables
\* what the file says, and Check_ finds nothing, before and after (CAddrMan's serialisation of
\* addrman.h, CAddrDB of db.cpp), for any addresses, buckets, hashes and sizes, when the node
\* starts for the first time with no file or with one that it could have written.
THEOREM FilesStayExact ==
    ASSUME \A file \in OldFiles : IsOwn(file)
    PROVE  SpecFile => FileExact
<1>1. InitFile => FileInv
  BY FileInit
<1>2. FileInv /\ [NextFile]_<<vars, fileVars>> => FileInv'
  BY FileNext
<1>3. FileInv => DumpComplete /\ Consistent
  BY WrittenOwn, AddrInvExact DEF FileInv, DumpComplete, TablesExact
<1>4. FileInv /\ [NextFile]_<<vars, fileVars>>
        => [StartAgain /\ peersDat # NoFile => Content' = FileContent(peersDat)]_<<vars, fileVars>>
  <2> SUFFICES ASSUME FileInv, StartAgain, peersDat # NoFile
               PROVE  Content' = FileContent(peersDat)
    OBVIOUS
  <2>1. PICK file : file = peersDat
    OBVIOUS
  <2>2. OwnFile(file) /\ Read(file) /\ pc' = "free" /\ moving' = NotMoving /\ shuffled' = 0
    BY <2>1 DEF FileInv, IsOwn, StartAgain
  <2>3. Content' = FileContent(file)
    BY <2>2, ReadSound
  <2> QED  BY <2>1, <2>3
<1>5. SpecFile => [](DumpComplete /\ Consistent)
  BY <1>1, <1>2, <1>3, PTL DEF SpecFile
<1>6. SpecFile => [][StartAgain /\ peersDat # NoFile => Content' = FileContent(peersDat)]_<<vars, fileVars>>
  BY <1>1, <1>2, <1>4, PTL DEF SpecFile
<1> QED  BY <1>5, <1>6, PTL DEF FileExact, RestartExact
=============================================================================
