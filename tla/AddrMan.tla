------------------------------- MODULE AddrMan -------------------------------
(***************************************************************************)
(* CAddrMan (src/addrman.h, src/addrman.cpp): the table of known peer      *)
(* addresses, with its "new" and "tried" buckets and the indexes kept over *)
(* them.  Every operation runs under the lock cs; one that loops over      *)
(* random positions (SelectTried, GetAddr_) takes one step per iteration   *)
(* and keeps the lock (pc).                                                *)
(*                                                                         *)
(* An address is a CNetAddr and a port.  The hashes that choose a bucket   *)
(* are constant functions (nKey does not change), times are small numbers  *)
(* and the clock may show any of them.  Positions count from 1.            *)
(***************************************************************************)
EXTENDS Integers, FiniteSets, Sequences

CONSTANTS Addrs, Ports,   \* CNetAddr values that are routable, and ports
          Sources,        \* CNetAddr of the peers that tell us about addresses
          TriedBuckets, NewBuckets,
          TriedBucketOf,  \* GetTriedBucket: a function of address and port
          NewBucketOf,    \* GetNewBucket: a function of address and source
          ADDRMAN_TRIED_BUCKET_SIZE, ADDRMAN_NEW_BUCKET_SIZE,
          ADDRMAN_NEW_BUCKETS_PER_ADDRESS, ADDRMAN_TRIED_ENTRIES_INSPECT_ON_EVICT,
          ADDRMAN_RETRIES, ADDRMAN_MAX_FAILURES,
          ADDRMAN_GETADDR_MAX_PCT, ADDRMAN_GETADDR_MAX,
          Minute,         \* of IsTerrible: "tried the last minute"
          Delorean,       \* ten minutes: how far nTime may be in the future
          Horizon,        \* ADDRMAN_HORIZON_DAYS
          MinFail,        \* ADDRMAN_MIN_FAIL_DAYS
          Day, Hour,      \* of Add_: how often nTime is updated
          Connectivity,   \* of Connected_: twenty minutes
          Times,          \* what the clock and the peers may say
          Penalties,      \* nTimePenalty
          MaxIds, MaxAttempts \* bounds of nIdCount and nAttempts

ASSUME AddrManAssumption ==
    /\ IsFiniteSet(TriedBuckets) /\ IsFiniteSet(NewBuckets)
    /\ TriedBucketOf \in [Addrs \X Ports -> TriedBuckets]
    /\ NewBucketOf \in [Addrs \X Sources -> NewBuckets]
    /\ ADDRMAN_TRIED_BUCKET_SIZE \in Nat \ {0} /\ ADDRMAN_NEW_BUCKET_SIZE \in Nat \ {0}
    /\ ADDRMAN_NEW_BUCKETS_PER_ADDRESS \in Nat \ {0}
    /\ ADDRMAN_TRIED_ENTRIES_INSPECT_ON_EVICT \in Nat \ {0}
    /\ ADDRMAN_RETRIES \in Nat /\ ADDRMAN_MAX_FAILURES \in Nat
    /\ ADDRMAN_GETADDR_MAX_PCT \in 0..100 /\ ADDRMAN_GETADDR_MAX \in Nat
    /\ {Minute, Delorean, Horizon, MinFail, Day, Hour, Connectivity} \subseteq Nat
    /\ Times \subseteq Nat \ {0} /\ Penalties \subseteq Nat
    /\ MaxIds \in Nat /\ MaxAttempts \in Nat

VARIABLES nIdCount, mapInfo, mapAddr, vRandom, nTried, vvTried, nNew, vvNew,
          pc,       \* "free", or the loop that holds the lock
          moving,   \* MakeTried's and SelectTried's locals
          shuffled  \* GetAddr_: how many elements have been shuffled

tables == <<nIdCount, mapInfo, mapAddr, vRandom, nTried, vvTried, nNew, vvNew>>
vars == <<tables, pc, moving, shuffled>>

Ids == DOMAIN mapInfo
NoId == -1
NotMoving == [id |-> NoId, origin |-> NoId, bucket |-> NoId, i |-> 0, nOldest |-> NoId, nOldestPos |-> 0]

\* CAddrMan::CAddrMan().
Init ==
    /\ nIdCount = 0 /\ nTried = 0 /\ nNew = 0
    /\ mapInfo = << >> /\ mapAddr = << >> /\ vRandom = << >>
    /\ vvTried = [b \in TriedBuckets |-> << >>]
    /\ vvNew = [b \in NewBuckets |-> {}]
    /\ pc = "free" /\ moving = NotMoving /\ shuffled = 0

\* CAddrInfo::IsTerrible(nNow).
IsTerrible(info, nNow) ==
    /\ ~(info.nLastTry # 0 /\ info.nLastTry >= nNow - Minute)
    /\ \/ info.nTime > nNow + Delorean
       \/ info.nTime = 0 \/ nNow - info.nTime > Horizon
       \/ info.nLastSuccess = 0 /\ info.nAttempts >= ADDRMAN_RETRIES
       \/ nNow - info.nLastSuccess > MinFail /\ info.nAttempts >= ADDRMAN_MAX_FAILURES

Positive(n) == IF n > 0 THEN n ELSE 0
Without(f, x) == [y \in DOMAIN f \ {x} |-> f[y]]

\* Find, and the test that the port is the same.
Found(a) == a \in DOMAIN mapAddr
Same(a, p) == Found(a) /\ mapInfo[mapAddr[a]].port = p

Entry(a, p, src, t, pos) ==
    [addr |-> a, port |-> p, source |-> src, nTime |-> t, nLastTry |-> 0, nLastSuccess |-> 0,
     nAttempts |-> 0, nRefCount |-> 0, fInTried |-> FALSE, nRandomPos |-> pos]
----------------------------------------------------------------------------
(* Add_, Create and ShrinkNew.                                             *)

(* An operator used for checking that a property can fail is preceded by   *)
(* its mutated form.                                                       *)

InfoStalePos(info, rnd, id) == Without(info, id)

\* SwapRandom(position of id, last position); vRandom.pop_back(); mapInfo.erase(id).
InfoWithout(info, rnd, id) ==
    [j \in DOMAIN info \ {id} |-> IF j = rnd[Len(rnd)]
                                  THEN [info[j] EXCEPT !.nRandomPos = info[id].nRandomPos]
                                  ELSE info[j]]

RandomWithout(info, rnd, id) ==
    [k \in 1..(Len(rnd) - 1) |-> IF k = info[id].nRandomPos THEN rnd[Len(rnd)] ELSE rnd[k]]

\* One reference of the entry id to a new bucket goes away, and the entry
\* with the last one.
DropReference(id, info, rnd, known, count) ==
    IF info[id].nRefCount = 1
    THEN /\ mapInfo' = InfoWithout(info, rnd, id)
         /\ vRandom' = RandomWithout(info, rnd, id)
         /\ mapAddr' = Without(known, info[id].addr)
         /\ nNew' = count - 1
    ELSE /\ mapInfo' = [info EXCEPT ![id].nRefCount = @ - 1]
         /\ vRandom' = rnd /\ mapAddr' = known /\ nNew' = count

\* ShrinkNew's choice: the first entry that is terrible or, if none is, the
\* oldest of four random ones, which may all be the same one.
Removable(id, b, info, nNow) ==
    LET terrible == {j \in vvNew[b] : IsTerrible(info[j], nNow)}
    IN  IF terrible = {} THEN id \in vvNew[b]
        ELSE id \in terrible /\ \A j \in terrible : id <= j

Full(b) == Cardinality(vvNew[b]) = ADDRMAN_NEW_BUCKET_SIZE

\* The end of Add_: the entry id of info goes into the bucket that the source chooses.
PutInNew(id, src, nNow, info, rnd, known, count) ==
    LET b == NewBucketOf[<<info[id].addr, src>>]
        referred == [info EXCEPT ![id].nRefCount = @ + 1]
    IN \/ /\ id \in vvNew[b]
          /\ mapInfo' = info /\ vRandom' = rnd /\ mapAddr' = known /\ nNew' = count
          /\ UNCHANGED vvNew
       \/ /\ id \notin vvNew[b] /\ ~Full(b)
          /\ mapInfo' = referred /\ vRandom' = rnd /\ mapAddr' = known /\ nNew' = count
          /\ vvNew' = [vvNew EXCEPT ![b] = @ \cup {id}]
       \/ /\ id \notin vvNew[b] /\ Full(b)
          /\ \E j \in vvNew[b] : /\ Removable(j, b, referred, nNow)
                                 /\ DropReference(j, referred, rnd, known, count)
                                 /\ vvNew' = [vvNew EXCEPT ![b] = (@ \ {j}) \cup {id}]

\* An address that is not known: Create.
AddNew(a, p, src, t, penalty, nNow) ==
    /\ pc = "free" /\ ~Found(a) /\ nIdCount < MaxIds
    /\ nIdCount' = nIdCount + 1
    /\ LET created == Entry(a, p, src, Positive(t - penalty), Len(vRandom) + 1)
       IN  PutInNew(nIdCount, src, nNow,
                    [j \in Ids \cup {nIdCount} |-> IF j = nIdCount THEN created ELSE mapInfo[j]],
                    Append(vRandom, nIdCount),
                    [x \in DOMAIN mapAddr \cup {a} |-> IF x = a THEN nIdCount ELSE mapAddr[x]],
                    nNew + 1)
    /\ UNCHANGED <<nTried, vvTried, pc, moving, shuffled>>

\* "periodically update nTime"
TimeAfter(info, t, penalty, nNow) ==
    LET interval == IF nNow - t < Day THEN Hour ELSE Day
    IN  IF t # 0 /\ (info.nTime = 0 \/ info.nTime < t - interval - penalty)
        THEN Positive(t - penalty) ELSE info.nTime

\* There is new information, the entry is not tried, and it may be in one more
\* bucket.
MayRefer(info, t) ==
    /\ t # 0 /\ (info.nTime = 0 \/ t > info.nTime)
    /\ ~info.fInTried /\ info.nRefCount # ADDRMAN_NEW_BUCKETS_PER_ADDRESS

\* A known address: there may be nothing new about it, or the dice say no.
AddKnown(a, src, t, penalty, nNow) ==
    /\ pc = "free" /\ Found(a)
    /\ LET id == mapAddr[a]
           updated == [mapInfo EXCEPT ![id].nTime = TimeAfter(mapInfo[id], t, penalty, nNow)]
       IN \/ mapInfo' = updated /\ UNCHANGED <<mapAddr, vRandom, nNew, vvNew>>
          \/ /\ MayRefer(updated[id], t)
             /\ PutInNew(id, src, nNow, updated, vRandom, mapAddr, nNew)
    /\ UNCHANGED <<nIdCount, nTried, vvTried, pc, moving, shuffled>>

\* Attempt_ and Connected_.
Attempt(a, p, nTime) ==
    /\ pc = "free" /\ Same(a, p) /\ mapInfo[mapAddr[a]].nAttempts < MaxAttempts
    /\ mapInfo' = [mapInfo EXCEPT ![mapAddr[a]].nLastTry = nTime,
                                  ![mapAddr[a]].nAttempts = @ + 1]
    /\ UNCHANGED <<nIdCount, mapAddr, vRandom, nTried, vvTried, nNew, vvNew, pc, moving, shuffled>>

Connected(a, p, nTime) ==
    /\ pc = "free" /\ Same(a, p) /\ nTime - mapInfo[mapAddr[a]].nTime > Connectivity
    /\ mapInfo' = [mapInfo EXCEPT ![mapAddr[a]].nTime = nTime]
    /\ UNCHANGED <<nIdCount, mapAddr, vRandom, nTried, vvTried, nNew, vvNew, pc, moving, shuffled>>
----------------------------------------------------------------------------
(* Good_, MakeTried and SelectTried.                                       *)

Occurrences(id) == {b \in NewBuckets : id \in vvNew[b]}

Succeeded(id, nTime) ==
    [mapInfo EXCEPT ![id].nLastSuccess = nTime, ![id].nLastTry = nTime,
                    ![id].nTime = nTime, ![id].nAttempts = 0]

\* The entry is in the tried table already (or in no bucket at all).
GoodAgain(a, p, nTime) ==
    /\ pc = "free" /\ Same(a, p)
    /\ mapInfo[mapAddr[a]].fInTried \/ Occurrences(mapAddr[a]) = {}
    /\ mapInfo' = Succeeded(mapAddr[a], nTime)
    /\ UNCHANGED <<nIdCount, mapAddr, vRandom, nTried, vvTried, nNew, vvNew, pc, moving, shuffled>>

NewAfterGood == nNew - 1

\* "remove the entry from all new buckets", and a mutated form: from the first.
FirstOccurrence(id) == {CHOOSE b \in Occurrences(id) : \A c \in Occurrences(id) : b <= c}
RemovedFrom(id) == Occurrences(id)

\* The entry is removed from the new buckets, then "check whether there is
\* place to just add it"; if not, SelectTried begins.
Good(a, p, nTime) ==
    LET id == mapAddr[a]
        b == TriedBucketOf[<<a, p>>]
        removed == [Succeeded(id, nTime) EXCEPT ![id].nRefCount = @ - Cardinality(RemovedFrom(id))]
    IN /\ pc = "free" /\ Same(a, p) /\ ~mapInfo[id].fInTried /\ Occurrences(id) # {}
       /\ vvNew' = [c \in NewBuckets |-> IF c \in RemovedFrom(id) THEN vvNew[c] \ {id} ELSE vvNew[c]]
       /\ nNew' = NewAfterGood
       /\ IF Len(vvTried[b]) < ADDRMAN_TRIED_BUCKET_SIZE
          THEN /\ vvTried' = [vvTried EXCEPT ![b] = Append(@, id)]
               /\ nTried' = nTried + 1
               /\ mapInfo' = [removed EXCEPT ![id].fInTried = TRUE]
               /\ UNCHANGED <<pc, moving>>
          ELSE /\ mapInfo' = removed
               /\ pc' = "evict"
               /\ \E origin \in Occurrences(id) :
                      moving' = [NotMoving EXCEPT !.id = id, !.origin = origin, !.bucket = b, !.i = 1]
               /\ UNCHANGED <<nTried, vvTried>>
       /\ UNCHANGED <<nIdCount, mapAddr, vRandom, shuffled>>

Inspecting == /\ pc = "evict" /\ moving.i <= ADDRMAN_TRIED_ENTRIES_INSPECT_ON_EVICT
              /\ moving.i <= Len(vvTried[moving.bucket])

\* One iteration of SelectTried, with the random position nPos.
SelectTried(nPos) ==
    /\ Inspecting
    /\ LET b == moving.bucket
           i == moving.i
           nTemp == vvTried[b][nPos]
           older == \/ moving.nOldest = NoId
                    \/ mapInfo[nTemp].nLastSuccess < mapInfo[moving.nOldest].nLastSuccess
       IN /\ nPos \in i..Len(vvTried[b])
          /\ vvTried' = [vvTried EXCEPT ![b] = [@ EXCEPT ![nPos] = vvTried[b][i], ![i] = nTemp]]
          /\ moving' = [moving EXCEPT !.i = i + 1,
                                      !.nOldest = IF older THEN nTemp ELSE @,
                                      !.nOldestPos = IF older THEN nPos ELSE @]
    /\ UNCHANGED <<nIdCount, mapInfo, mapAddr, vRandom, nTried, nNew, vvNew, pc, shuffled>>

\* The evicted entry goes back to its own new bucket or, if that is full, to
\* the one the other entry came from.
OwnBucket(old) == NewBucketOf[<<mapInfo[old].addr, mapInfo[old].source>>]

BucketAfterEvict(old) ==
    IF Cardinality(vvNew[OwnBucket(old)]) < ADDRMAN_NEW_BUCKET_SIZE THEN OwnBucket(old) ELSE moving.origin

InfoAfterEvict(old) ==
    [mapInfo EXCEPT ![old].fInTried = FALSE, ![old].nRefCount = 1, ![moving.id].fInTried = TRUE]

\* The end of MakeTried: the new entry takes the evicted one's place.
Evict ==
    LET old == vvTried[moving.bucket][moving.nOldestPos]
    IN /\ pc = "evict" /\ ~Inspecting
       /\ mapInfo' = InfoAfterEvict(old)
       /\ vvNew' = [vvNew EXCEPT ![BucketAfterEvict(old)] = @ \cup {old}]
       /\ nNew' = nNew + 1
       /\ vvTried' = [vvTried EXCEPT ![moving.bucket] = [@ EXCEPT ![moving.nOldestPos] = moving.id]]
       /\ pc' = "free" /\ moving' = NotMoving
       /\ UNCHANGED <<nIdCount, mapAddr, vRandom, nTried, shuffled>>
----------------------------------------------------------------------------
(* GetAddr_.                                                               *)

nNodes == LET n == (ADDRMAN_GETADDR_MAX_PCT * Len(vRandom)) \div 100
          IN  IF n > ADDRMAN_GETADDR_MAX THEN ADDRMAN_GETADDR_MAX ELSE n

GetAddr ==
    /\ pc = "free" /\ nNodes > 0
    /\ pc' = "getaddr" /\ shuffled' = 0
    /\ UNCHANGED <<tables, moving>>

\* SwapRandom(n, nRndPos).
Shuffle(nRndPos) ==
    LET n == shuffled + 1
        id1 == vRandom[n]
        id2 == vRandom[nRndPos]
    IN /\ pc = "getaddr" /\ shuffled < nNodes
       /\ nRndPos \in n..Len(vRandom)
       /\ vRandom' = [vRandom EXCEPT ![n] = id2, ![nRndPos] = id1]
       /\ mapInfo' = [mapInfo EXCEPT ![id1].nRandomPos = nRndPos, ![id2].nRandomPos = n]
       /\ shuffled' = n
       /\ UNCHANGED <<nIdCount, mapAddr, nTried, vvTried, nNew, vvNew, pc, moving>>

GotAddr ==
    /\ pc = "getaddr" /\ shuffled = nNodes
    /\ pc' = "free" /\ shuffled' = 0
    /\ UNCHANGED <<tables, moving>>
----------------------------------------------------------------------------
Next ==
    \/ \E a \in Addrs, src \in Sources, t \in Times \cup {0}, penalty \in Penalties, nNow \in Times :
          \/ \E p \in Ports : AddNew(a, p, src, t, penalty, nNow)
          \/ AddKnown(a, src, t, penalty, nNow)
    \/ \E a \in Addrs, p \in Ports, nTime \in Times :
          Attempt(a, p, nTime) \/ Connected(a, p, nTime) \/ GoodAgain(a, p, nTime) \/ Good(a, p, nTime)
    \/ \E nPos \in 1..ADDRMAN_TRIED_BUCKET_SIZE : SelectTried(nPos)
    \/ Evict
    \/ GetAddr \/ GotAddr
    \/ \E nRndPos \in 1..Len(vRandom) : Shuffle(nRndPos)

Spec == Init /\ [][Next]_vars
----------------------------------------------------------------------------
(* Properties.  Check_ of addrman.cpp states most of them as error codes.  *)

Info == [addr : Addrs, port : Ports, source : Sources, nTime : Nat, nLastTry : Nat,
         nLastSuccess : Nat, nAttempts : Nat, nRefCount : Nat, fInTried : BOOLEAN, nRandomPos : Nat]

\* Every variable keeps the type of its declaration.
TypeOK ==
    /\ nIdCount \in Nat /\ nTried \in Nat /\ nNew \in Nat /\ shuffled \in Nat
    /\ Ids \subseteq 0..(nIdCount - 1) /\ mapInfo \in [Ids -> Info]
    /\ DOMAIN mapAddr \subseteq Addrs /\ mapAddr \in [DOMAIN mapAddr -> Ids]
    /\ vRandom \in Seq(Ids)
    /\ vvTried \in [TriedBuckets -> Seq(Ids)]
    /\ vvNew \in [NewBuckets -> SUBSET Ids]
    /\ pc \in {"free", "evict", "getaddr"}

\* The entry MakeTried is moving is in neither table.
Placed == Ids \ {moving.id}
Tried == {id \in Placed : mapInfo[id].fInTried}
NewIds == {id \in Placed : ~mapInfo[id].fInTried}

\* mapAddr and vRandom list every entry exactly once, and an entry knows its
\* position (codes -5, -7 and -14).
IndexExact ==
    /\ DOMAIN mapAddr = {mapInfo[id].addr : id \in Ids}
    /\ \A id \in Ids : mapAddr[mapInfo[id].addr] = id
    /\ Len(vRandom) = Cardinality(Ids)
    /\ \A id \in Ids : mapInfo[id].nRandomPos \in 1..Len(vRandom) /\ vRandom[mapInfo[id].nRandomPos] = id

\* A tried entry has succeeded, is in no new bucket, and is exactly once in the
\* tried table, in the bucket of its address (codes -1, -2, -9, -11, -13).
TriedExact ==
    /\ pc # "evict" => nTried = Cardinality(Tried)
    /\ \A id \in Tried : /\ mapInfo[id].nLastSuccess # 0 /\ mapInfo[id].nRefCount = 0
                         /\ Occurrences(id) = {}
                         /\ \E k \in 1..Len(vvTried[TriedBucketOf[<<mapInfo[id].addr, mapInfo[id].port>>]]) :
                               vvTried[TriedBucketOf[<<mapInfo[id].addr, mapInfo[id].port>>]][k] = id
    /\ \A b \in TriedBuckets : \A k, l \in 1..Len(vvTried[b]) :
          /\ vvTried[b][k] \in Tried
          /\ vvTried[b][k] = vvTried[b][l] => k = l
          /\ TriedBucketOf[<<mapInfo[vvTried[b][k]].addr, mapInfo[vvTried[b][k]].port>>] = b

\* The reference count of a new entry is the number of new buckets it is in, at
\* least one and at most four (codes -3, -4, -10, -12, -15).
NewExact ==
    /\ nNew = Cardinality(NewIds)
    /\ \A id \in NewIds : /\ mapInfo[id].nRefCount = Cardinality(Occurrences(id))
                          /\ mapInfo[id].nRefCount \in 1..ADDRMAN_NEW_BUCKETS_PER_ADDRESS
    /\ \A b \in NewBuckets : vvNew[b] \subseteq NewIds

\* Check_ returns 0.
Consistent == IndexExact /\ TriedExact /\ NewExact

\* "maximum allowed number of entries in buckets", also when MakeTried puts the
\* evicted entry into nOrigin: "there is certainly place there".
BucketsBounded ==
    /\ \A b \in TriedBuckets : Len(vvTried[b]) <= ADDRMAN_TRIED_BUCKET_SIZE
    /\ \A b \in NewBuckets : Cardinality(vvNew[b]) <= ADDRMAN_NEW_BUCKET_SIZE

\* The abstract address book: where each known address is.
book == [a \in DOMAIN mapAddr |-> IF mapInfo[mapAddr[a]].fInTried THEN "tried" ELSE "new"]
Book == INSTANCE AddrBook

\* "They are never deleted while in the "tried" table, only possibly evicted back
\* to the "new" table" (addrman.h:215), and one operation drops or evicts at most
\* one address: the manager implements the address book.
ImplementsBook == Book!Spec

\* Select_ draws from the tried table when nCorTried > 0 and the draw is low, and
\* from the new table otherwise; it loops until it hits an entry of that table.
DrawsTried(nUnkBias) == nTried > 0 /\ nUnkBias < 100
DrawsNew(nUnkBias) == ~DrawsTried(nUnkBias) \/ (nNew > 0 /\ nUnkBias > 0)

SelectFinds(nUnkBias) ==
    pc = "free" /\ vRandom # << >> =>
        /\ DrawsTried(nUnkBias) => \E b \in TriedBuckets : vvTried[b] # << >>
        /\ DrawsNew(nUnkBias) => \E b \in NewBuckets : vvNew[b] # {}

\* Select_ never draws from an empty table, where it would loop for ever with the
\* lock held, for the biases that ThreadOpenConnections passes (10 to 90).
SelectEnds == \A nUnkBias \in {10, 50, 90} : SelectFinds(nUnkBias)

\* The tables stay exact through every deletion, eviction and shuffle: Check_ finds
\* nothing, no bucket overflows, and Select_ always has something to find.
TablesExact == Consistent /\ BucketsBounded /\ SelectEnds

\* Select_ ends for every bias of the documented range "(min=0, max=100)" (addrman.h:232).
SelectEndsInRange == \A nUnkBias \in {0, 50, 100} : SelectFinds(nUnkBias)

\* "find the least recently tried among them" (addrman.cpp:131), when all the
\* entries of the bucket are inspected: the evicted one is the oldest.
Members(b) == {vvTried[b][k] : k \in 1..Len(vvTried[b])}
EvictsOldest ==
    [][\A b \in TriedBuckets : \A id \in Members(b) \ Members(b)' : \A j \in Members(b) :
          mapInfo[id].nLastSuccess <= mapInfo[j].nLastSuccess]_vars
----------------------------------------------------------------------------
\* Bucket functions for small instances: one tried bucket for all, and a new bucket that
\* depends on the source alone, one of them having a bucket of its own.
OneTriedBucket == [ap \in Addrs \X Ports |-> 0]
BucketOfSource ==
    LET first == CHOOSE a \in Sources : TRUE
    IN  [as \in Addrs \X Sources |-> IF as[2] = first THEN 0 ELSE 1]
=============================================================================
