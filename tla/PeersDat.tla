------------------------------ MODULE PeersDat ------------------------------
(***************************************************************************)
(* The address manager with its file: the thread that dumps the tables to  *)
(* peers.dat (DumpAddresses, CAddrDB::Write), the serialisation of         *)
(* addrman.h, and a crash followed by a restart that reads the file back   *)
(* (CAddrDB::Read).  nKey is part of the file, so the bucket functions     *)
(* survive a restart.                                                      *)
(***************************************************************************)
EXTENDS AddrMan

CONSTANTS NoFile,    \* peers.dat is missing, or the temporary file is
          OldFiles   \* what peers.dat may hold at the first start

\* The buckets are the indexes of vvNew, which is read in their order.
ASSUME BucketsNumbered == NewBuckets \subseteq Nat

VARIABLES peersDat,  \* the contents of peers.dat
          tmpfn      \* the temporary file of a dump in progress

fileVars == <<peersDat, tmpfn>>
----------------------------------------------------------------------------
(* Serialisation: the entries in the order of their ids, and for each new  *)
(* bucket the indexes of its entries.                                      *)

Stored(info) == [addr |-> info.addr, port |-> info.port, source |-> info.source,
                 nTime |-> info.nTime, nLastSuccess |-> info.nLastSuccess,
                 nAttempts |-> info.nAttempts]

\* A std::map visits its entries in the order of their ids.
InOrder(S) ==
    CHOOSE seq \in [1..Cardinality(S) -> S] :
        \A k, l \in 1..Cardinality(S) : k < l => seq[k] < seq[l]

\* "this means nNew was wrong": no more entries than the counter says.
FirstIds(S, count) ==
    LET inOrder == InOrder(S) IN SubSeq(inOrder, 1, IF Len(inOrder) < count THEN Len(inOrder) ELSE count)

IdItself(seq, id) == id
IndexIn(seq, id) == Cardinality({k \in 1..Len(seq) : seq[k] < id})

Written ==
    LET new == FirstIds({id \in Ids : mapInfo[id].nRefCount # 0}, nNew)
        tried == FirstIds({id \in Ids : mapInfo[id].fInTried}, nTried)
    IN [nUBuckets |-> Cardinality(NewBuckets),
        new |-> [k \in 1..Len(new) |-> Stored(mapInfo[new[k]])],
        tried |-> [k \in 1..Len(tried) |-> Stored(mapInfo[tried[k]])],
        buckets |-> [b \in NewBuckets |-> {IndexIn(new, id) : id \in vvNew[b]}]]

(* As in AddrMan, a mutated form precedes the operator it is a form of.    *)

Loaded(stored, id) ==
    [addr |-> stored.addr, port |-> stored.port, source |-> stored.source, nTime |-> stored.nTime,
     nLastTry |-> 0, nLastSuccess |-> stored.nLastSuccess, nAttempts |-> stored.nAttempts,
     nRefCount |-> 0, fInTried |-> FALSE, nRandomPos |-> id + 1]

\* The tried entries that find room in their bucket; the others are lost.
TriedBucket(stored) == TriedBucketOf[<<stored.addr, stored.port>>]
Kept(file) == {k \in 1..Len(file.tried) :
                 Cardinality({j \in 1..(k - 1) : TriedBucket(file.tried[j]) = TriedBucket(file.tried[k])})
                   < ADDRMAN_TRIED_BUCKET_SIZE}

\* vvNew is used if the number of buckets did not change, and rebuilt otherwise.
NewBucketsRead(file) ==
    IF file.nUBuckets = Cardinality(NewBuckets)
    THEN [b \in NewBuckets |->
            {n \in file.buckets[b] : Cardinality({c \in NewBuckets : c < b /\ n \in file.buckets[c]})
                                       < ADDRMAN_NEW_BUCKETS_PER_ADDRESS}]
    ELSE [b \in NewBuckets |-> {n \in 0..(Len(file.new) - 1) :
                                  NewBucketOf[<<file.new[n + 1].addr, file.new[n + 1].source>>] = b}]

Read(file) ==
    LET kept == InOrder(Kept(file))
        news == Len(file.new)
        count == news + Len(kept)
        buckets == NewBucketsRead(file)
        stored(id) == IF id < news THEN file.new[id + 1] ELSE file.tried[kept[id - news + 1]]
        refs(id) == Cardinality({b \in NewBuckets : id \in buckets[b]})
    IN /\ nIdCount' = count /\ nNew' = news /\ nTried' = Len(kept)
       /\ mapInfo' = [id \in 0..(count - 1) |->
                        [Loaded(stored(id), id) EXCEPT !.nRefCount = IF id < news THEN refs(id) ELSE 0,
                                                       !.fInTried = id >= news]]
       /\ mapAddr' = [a \in {stored(id).addr : id \in 0..(count - 1)} |->
                        CHOOSE id \in 0..(count - 1) : stored(id).addr = a]
       /\ vRandom' = [k \in 1..count |-> k - 1]
       /\ vvTried' = [b \in TriedBuckets |->
                        InOrder({id \in news..(count - 1) : TriedBucket(stored(id)) = b})]
       /\ vvNew' = buckets
----------------------------------------------------------------------------
InitFile ==
    /\ Init
    /\ peersDat \in OldFiles /\ tmpfn = NoFile

\* CAddrDB::Write: serialise under the lock, into a temporary file ...
Dump ==
    /\ pc = "free" /\ tmpfn = NoFile
    /\ tmpfn' = Written
    /\ UNCHANGED <<vars, peersDat>>

\* ... that replaces peers.dat, or is given up after an I/O error.
Rename ==
    /\ tmpfn # NoFile
    /\ peersDat' = tmpfn /\ tmpfn' = NoFile
    /\ UNCHANGED vars

WriteFails ==
    /\ tmpfn # NoFile
    /\ tmpfn' = NoFile
    /\ UNCHANGED <<vars, peersDat>>

\* The process ends at any point and starts again.
StartAgain ==
    /\ tmpfn' = NoFile /\ UNCHANGED peersDat
    /\ pc' = "free" /\ moving' = NotMoving /\ shuffled' = 0
    /\ IF peersDat # NoFile THEN Read(peersDat)
       ELSE /\ nIdCount' = 0 /\ nTried' = 0 /\ nNew' = 0
            /\ mapInfo' = << >> /\ mapAddr' = << >> /\ vRandom' = << >>
            /\ vvTried' = [b \in TriedBuckets |-> << >>] /\ vvNew' = [b \in NewBuckets |-> {}]

NextFile == \/ Next /\ UNCHANGED fileVars
            \/ Dump \/ Rename \/ WriteFails \/ StartAgain

SpecFile == InitFile /\ [][NextFile]_<<vars, fileVars>>
----------------------------------------------------------------------------
(* Properties.                                                             *)

\* What a dump must keep: the statistics and the tables, by address.
Content ==
    [a \in DOMAIN mapAddr |->
        [stored |-> Stored(mapInfo[mapAddr[a]]), fInTried |-> mapInfo[mapAddr[a]].fInTried,
         buckets |-> Occurrences(mapAddr[a])]]
FileContent(file) ==
    [a \in {file.new[k].addr : k \in 1..Len(file.new)} \cup {file.tried[k].addr : k \in 1..Len(file.tried)} |->
        LET asNew == {k \in 1..Len(file.new) : file.new[k].addr = a}
        IN  IF asNew # {}
            THEN [stored |-> file.new[CHOOSE k \in asNew : TRUE], fInTried |-> FALSE,
                  buckets |-> {b \in NewBuckets : \E k \in asNew : k - 1 \in file.buckets[b]}]
            ELSE [stored |-> file.tried[CHOOSE k \in 1..Len(file.tried) : file.tried[k].addr = a],
                  fInTried |-> TRUE, buckets |-> {}]]

\* A dump holds every entry, with its statistics and its buckets, whatever ids
\* eviction and deletion have left in the tables.
DumpComplete == pc = "free" => FileContent(Written) = Content

\* Reading a file of this version back loses nothing: the tables after a restart
\* have the content of the file.
RestartExact ==
    [][StartAgain /\ peersDat # NoFile => Content' = FileContent(peersDat)]_<<vars, fileVars>>

\* A dump and the next start together lose nothing, and what was read is as
\* consistent as what was written.
FileExact == RestartExact /\ [](DumpComplete /\ Consistent)

\* "maximum allowed number of entries in buckets for new addresses"
\* (addrman.h:131), also for a file of another version: "supports changes to the
\* ADDRMAN_ parameters without breaking the on-disk structure" (addrman.h:268).
NewBucketsBounded == \A b \in NewBuckets : Cardinality(vvNew[b]) <= ADDRMAN_NEW_BUCKET_SIZE
=============================================================================
