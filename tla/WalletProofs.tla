----------------------------- MODULE WalletProofs -----------------------------
(***************************************************************************)
(* Proofs about the wallet: what DbEnv keeps of wallet.dat and of the      *)
(* handles on it, what WalletKeys keeps of the keys, and what WalletTxs    *)
(* keeps of the transactions, for any threads, reservations and crashes;   *)
(* what CoinSelect pays with any coins, and the groups that it makes.      *)
(***************************************************************************)
EXTENDS DbEnv, WalletKeys, WalletTxs, CoinSelect, FiniteSetTheorems, SequenceTheorems, NumberFacts, TLAPS

----------------------------------------------------------------------------
(* The Berkeley DB environment.                                            *)

\* The threads the use count stands for.
Using == {u \in Users : cdb[u].pc # "none"}

Handles == [pc : {"none", "open", "closing"}, pdb : {"null", "live", "dangling"}, txn : BOOLEAN,
            pend : SUBSET Int, bumped : Nat]

DbTypes ==
    /\ mapFileUseCount \in Int /\ cdb \in [Users -> Handles] /\ phase \in {"none", "copied", "removed"}
    /\ nWalletDBUpdated \in Nat /\ nLastFlushed \in Nat /\ nAtStart \in Nat
    /\ committed \subseteq Int

\* A CDB object is closed, open on a live handle, or between the two halves of CDB::Close.
HandleStates ==
    \A u \in Users : \/ cdb[u] = NoCDB \/ cdb[u] = [NoCDB EXCEPT !.pc = "closing"]
                     \/ cdb[u].pc = "open" /\ cdb[u].pdb = "live"

\* The use count is the number of threads it stands for, and Rewrite runs while there is none.
UseCounted ==
    /\ IsFiniteSet(Using) /\ (phase # "none" => Using = {})
    /\ mapFileUseCount <= 0 => Using = {}
    /\ mapFileUseCount > 0 => Cardinality(Using) = mapFileUseCount

\* What a thread is about to write is ahead of what was flushed.
AheadOfFlush ==
    /\ nLastFlushed <= nWalletDBUpdated
    /\ \A u \in Users :
          /\ cdb[u].bumped # 0 => nLastFlushed < cdb[u].bumped /\ cdb[u].bumped <= nWalletDBUpdated
          /\ \A r \in cdb[u].pend : r = PoolRecord \/ (nLastFlushed < r /\ r <= nWalletDBUpdated)

\* Where a committed record is: the ones of this run are not only in a backup of Recover, and
\* while Rewrite replaces the file they are in its copy.
Kept(r) ==
    /\ r <= nWalletDBUpdated /\ r \in dat \cup log \cup rewrite \cup bak
    /\ r > nAtStart => r \in dat \cup log \cup rewrite
    /\ r > nAtStart /\ r <= nLastFlushed => r \in dat \cup rewrite
    /\ phase # "none" => r \in rewrite \cup bak /\ (r > nAtStart => r \in rewrite)
AllKept == \A r \in committed : Kept(r)

DbInv == DbTypes /\ HandleStates /\ UseCounted /\ AheadOfFlush /\ AllKept

\* A thread with an open handle is counted.
LEMMA LiveIsUsing ==
    ASSUME DbInv, NEW u \in Users, cdb[u].pdb = "live"
    PROVE  cdb[u].pc = "open" /\ u \in Using /\ mapFileUseCount > 0 /\ phase = "none"
<1>1. HandleStates /\ UseCounted /\ mapFileUseCount \in Int
  BY DEF DbInv, DbTypes
<1>2. cdb[u].pc = "open"
  BY <1>1 DEF HandleStates, NoCDB
<1>3. u \in Using
  BY <1>2 DEF Using
<1> QED  BY <1>1, <1>2, <1>3 DEF UseCounted

\* A step of a thread between opening and closing changes none of the counting.
LEMMA CountStays ==
    ASSUME DbInv, UNCHANGED <<mapFileUseCount, phase>>, \A u \in Users : cdb'[u].pc = cdb[u].pc
    PROVE  UseCounted'
<1>1. Using' = Using
  BY DEF Using
<1> QED  BY <1>1 DEF DbInv, UseCounted

\* Closing the handle of a file that no thread uses closes it under nobody.
LEMMA DetachClosesNone ==
    ASSUME DbInv, Detach, mapFileUseCount <= 0
    PROVE  /\ Using = {} /\ (\A u \in Users : cdb[u] = NoCDB) /\ cdb' = cdb
           /\ dat' = dat \cup log /\ log' = {}
<1>1. HandleStates /\ UseCounted /\ cdb \in [Users -> Handles]
  BY DEF DbInv, DbTypes
<1>2. Using = {}
  BY <1>1 DEF UseCounted
<1>3. \A u \in Users : cdb[u] = NoCDB
  BY <1>1, <1>2 DEF HandleStates, Using, NoCDB
<1>4. \A u \in Users : [cdb[u] EXCEPT !.pdb = IF @ = "live" /\ mapDb THEN "dangling" ELSE @] = cdb[u]
  BY <1>3 DEF NoCDB
<1>5. cdb' = cdb
  BY <1>1, <1>4 DEF Detach, Closed
<1> QED  BY <1>2, <1>3, <1>5 DEF Detach

\* What such a step does: the file has its log, and nothing else changed for the threads.
Detached ==
    /\ cdb' = cdb /\ dat' = dat \cup log /\ log' = {} /\ mapFileUseCount' \in Int /\ mapFileUseCount' <= 0
    /\ UNCHANGED <<nWalletDBUpdated, nAtStart>>

LEMMA DetachedKeeps ==
    ASSUME DbInv, Detached, Using = {}, \A u \in Users : cdb[u] = NoCDB,
           UNCHANGED <<phase, rewrite, bak, committed>>,
           nLastFlushed' \in {nLastFlushed, nWalletDBUpdated}
    PROVE  DbInv'
<1>1. DbTypes /\ HandleStates /\ UseCounted /\ AheadOfFlush /\ AllKept
  BY DEF DbInv
<1>2. DbTypes' /\ HandleStates'
  BY <1>1 DEF DbTypes, HandleStates, Detached
<1>3. UseCounted'
  <2>1. Using' = {}
    BY DEF Using, Detached
  <2> QED  BY <1>1, <2>1, FS_EmptySet DEF UseCounted, Detached
<1>4. AheadOfFlush'
  BY <1>1 DEF AheadOfFlush, DbTypes, Detached, NoCDB
<1>5. AllKept'
  BY <1>1 DEF AllKept, Kept, Detached, DbTypes
<1> QED  BY <1>2, <1>3, <1>4, <1>5 DEF DbInv

----------------------------------------------------------------------------
(* Its actions preserve the invariant.                                     *)

LEMMA OpenCDBKeeps ==
    ASSUME DbInv, NEW u \in Users, OpenCDB(u)
    PROVE  DbInv'
<1>1. DbTypes /\ HandleStates /\ UseCounted /\ AheadOfFlush /\ AllKept
  BY DEF DbInv
<1>2. /\ phase = "none" /\ cdb[u].pc = "none"
      /\ UNCHANGED <<dat, log, rewrite, bak, phase, nWalletDBUpdated, nLastFlushed, nAtStart, committed>>
  BY DEF OpenCDB, cs_db, flushVars
<1>3. AllKept'
  BY <1>1, <1>2 DEF AllKept, Kept
<1>4. CASE /\ mapFileUseCount' = (IF mapFileUseCount < 0 THEN 1 ELSE mapFileUseCount + 1)
           /\ cdb' = [cdb EXCEPT ![u] = [NoCDB EXCEPT !.pc = "open", !.pdb = "live"]]
  <2>1. [NoCDB EXCEPT !.pc = "open", !.pdb = "live"] \in Handles
    BY DEF NoCDB, Handles
  <2>2. DbTypes'
    BY <1>1, <1>2, <1>4, <2>1 DEF DbTypes
  <2>3. /\ cdb'[u].pc = "open" /\ cdb'[u].pdb = "live" /\ cdb'[u].bumped = 0 /\ cdb'[u].pend = {}
        /\ \A v \in Users \ {u} : cdb'[v] = cdb[v]
    BY <1>1, <1>4 DEF DbTypes, NoCDB
  <2>4. HandleStates' /\ AheadOfFlush'
    BY <1>1, <1>2, <2>3 DEF HandleStates, AheadOfFlush
  <2>5. Using' = Using \cup {u} /\ u \notin Using
    BY <1>2, <2>3 DEF Using, NoCDB
  <2>6. IsFiniteSet(Using') /\ Cardinality(Using') = Cardinality(Using) + 1
    BY <1>1, <2>5, FS_AddElement DEF UseCounted
  <2>7. UseCounted'
    <3>1. CASE mapFileUseCount <= 0
      <4>1. Using = {} /\ Cardinality(Using) = 0
        BY <1>1, <3>1, FS_EmptySet DEF UseCounted
      <4> QED  BY <1>1, <1>2, <1>4, <2>6, <3>1, <4>1 DEF UseCounted, DbTypes
    <3>2. CASE mapFileUseCount > 0
      BY <1>1, <1>2, <1>4, <2>6, <3>2 DEF UseCounted, DbTypes
    <3> QED  BY <1>1, <3>1, <3>2 DEF DbTypes
  <2> QED  BY <1>3, <2>2, <2>4, <2>7 DEF DbInv
<1>5. CASE mapFileUseCount' = (IF mapFileUseCount < 0 THEN 0 ELSE mapFileUseCount) /\ cdb' = cdb
  <2>1. DbTypes' /\ HandleStates' /\ AheadOfFlush'
    BY <1>1, <1>2, <1>5 DEF DbTypes, HandleStates, AheadOfFlush
  <2>2. UseCounted'
    BY <1>1, <1>2, <1>5 DEF UseCounted, Using, DbTypes
  <2> QED  BY <1>3, <2>1, <2>2 DEF DbInv
<1> QED  BY <1>4, <1>5 DEF OpenCDB

LEMMA TxnBeginKeeps ==
    ASSUME DbInv, NEW u \in Users, TxnBegin(u)
    PROVE  DbInv'
<1>1. DbTypes /\ HandleStates /\ AheadOfFlush /\ AllKept
  BY DEF DbInv
<1>2. /\ cdb[u].pdb = "live" /\ cdb' = [cdb EXCEPT ![u].txn = TRUE]
      /\ UNCHANGED <<mapFileUseCount, dat, log, rewrite, bak, phase, nWalletDBUpdated, nLastFlushed,
                     nAtStart, committed>>
  BY DEF TxnBegin, files, flushVars
<1>3. cdb[u] \in Handles /\ cdb[u].pc = "open"
  BY <1>1, <1>2, LiveIsUsing DEF DbTypes
<1>4. /\ cdb' \in [Users -> Handles] /\ (\A v \in Users \ {u} : cdb'[v] = cdb[v])
      /\ cdb'[u].pc = "open" /\ cdb'[u].pdb = "live" /\ cdb'[u].bumped = cdb[u].bumped
      /\ cdb'[u].pend = cdb[u].pend
  BY <1>1, <1>2, <1>3 DEF DbTypes, Handles
<1>5. DbTypes' /\ HandleStates' /\ AheadOfFlush' /\ AllKept'
  BY <1>1, <1>2, <1>4 DEF DbTypes, HandleStates, AheadOfFlush, AllKept, Kept
<1>6. UseCounted'
  BY <1>2, <1>3, <1>4, CountStays
<1> QED  BY <1>5, <1>6 DEF DbInv

LEMMA BumpKeeps ==
    ASSUME DbInv, NEW u \in Users, Bump(u)
    PROVE  DbInv'
<1>1. DbTypes /\ HandleStates /\ AheadOfFlush /\ AllKept
  BY DEF DbInv
<1>2. /\ cdb[u].pdb = "live" /\ cdb' = [cdb EXCEPT ![u].bumped = nWalletDBUpdated + 1]
      /\ nWalletDBUpdated' = nWalletDBUpdated + 1
      /\ UNCHANGED <<mapFileUseCount, dat, log, rewrite, bak, phase, nLastFlushed, nAtStart, committed>>
  BY DEF Bump, files, flushVars
<1>3. cdb[u] \in Handles /\ cdb[u].pc = "open"
  BY <1>1, <1>2, LiveIsUsing DEF DbTypes
<1>4. /\ cdb' \in [Users -> Handles] /\ (\A v \in Users \ {u} : cdb'[v] = cdb[v])
      /\ cdb'[u].pc = "open" /\ cdb'[u].pdb = "live" /\ cdb'[u].bumped = nWalletDBUpdated + 1
      /\ cdb'[u].pend = cdb[u].pend
  BY <1>1, <1>2, <1>3 DEF DbTypes, Handles
<1>5. DbTypes' /\ HandleStates'
  BY <1>1, <1>2, <1>4 DEF DbTypes, HandleStates
<1>6. AheadOfFlush'
  BY <1>1, <1>2, <1>4, <1>5 DEF AheadOfFlush, DbTypes, Handles
<1>7. AllKept'
  BY <1>1, <1>2 DEF AllKept, Kept, DbTypes
<1>8. UseCounted'
  BY <1>2, <1>3, <1>4, CountStays
<1> QED  BY <1>5, <1>6, <1>7, <1>8 DEF DbInv

\* A write is ahead of what was flushed, or not counted.
LEMMA PutKeeps ==
    ASSUME DbInv, NEW u \in Users, Put(u)
    PROVE  DbInv'
<1>1. DbTypes /\ HandleStates /\ AheadOfFlush /\ AllKept
  BY DEF DbInv
<1>2. PICK r \in {PoolRecord, cdb[u].bumped} \ {0} :
        /\ cdb[u].pdb = "live"
        /\ IF cdb[u].txn
           THEN /\ cdb' = [cdb EXCEPT ![u].pend = @ \cup {r}, ![u].bumped = IF r = @ THEN 0 ELSE @]
                /\ UNCHANGED <<log, committed>>
           ELSE /\ cdb' = [cdb EXCEPT ![u].bumped = IF r = @ THEN 0 ELSE @]
                /\ log' = log \cup {r} /\ committed' = committed \cup {r}
        /\ UNCHANGED <<fDbEnvInit, mapFileUseCount, mapDb, exists, dat, rewrite, bak, phase,
                       nWalletDBUpdated, flushVars, restarts>>
  BY DEF Put
<1>3. cdb[u] \in Handles /\ cdb[u].pc = "open" /\ phase = "none"
  BY <1>1, <1>2, LiveIsUsing DEF DbTypes
<1>4. r \in Int /\ (r = PoolRecord \/ (nLastFlushed < r /\ r <= nWalletDBUpdated))
  BY <1>1, <1>2, <1>3 DEF AheadOfFlush, Handles, PoolRecord
<1>5. UNCHANGED <<mapFileUseCount, dat, rewrite, bak, phase, nWalletDBUpdated, nLastFlushed, nAtStart>>
  BY <1>2 DEF flushVars
<1>6. /\ cdb' \in [Users -> Handles] /\ (\A v \in Users \ {u} : cdb'[v] = cdb[v])
      /\ cdb'[u].pc = "open" /\ cdb'[u].pdb = "live" /\ cdb'[u].bumped \in {0, cdb[u].bumped}
      /\ cdb'[u].pend \subseteq cdb[u].pend \cup {r}
  <2>1. CASE cdb[u].txn
    <3> DEFINE new == [cdb[u] EXCEPT !.pend = @ \cup {r}, !.bumped = IF r = @ THEN 0 ELSE @]
    <3>1. /\ new \in Handles /\ new.pc = "open" /\ new.pdb = "live" /\ new.bumped \in {0, cdb[u].bumped}
          /\ new.pend \subseteq cdb[u].pend \cup {r}
      BY <1>2, <1>3, <1>4 DEF Handles
    <3>2. cdb' = [cdb EXCEPT ![u] = new]
      BY <1>2, <2>1
    <3> HIDE DEF new
    <3> QED  BY <1>1, <3>1, <3>2 DEF DbTypes
  <2>2. CASE ~cdb[u].txn
    <3> DEFINE new == [cdb[u] EXCEPT !.bumped = IF r = @ THEN 0 ELSE @]
    <3>1. /\ new \in Handles /\ new.pc = "open" /\ new.pdb = "live" /\ new.bumped \in {0, cdb[u].bumped}
          /\ new.pend = cdb[u].pend
      BY <1>2, <1>3, <1>4 DEF Handles
    <3>2. cdb' = [cdb EXCEPT ![u] = new]
      BY <1>2, <2>2
    <3> HIDE DEF new
    <3> QED  BY <1>1, <3>1, <3>2 DEF DbTypes
  <2> QED  BY <2>1, <2>2
<1>7. \/ log' = log /\ committed' = committed
      \/ log' = log \cup {r} /\ committed' = committed \cup {r}
  BY <1>2
<1>8. DbTypes' /\ HandleStates'
  BY <1>1, <1>4, <1>5, <1>6, <1>7 DEF DbTypes, HandleStates
<1>9. AheadOfFlush'
  BY <1>1, <1>4, <1>5, <1>6 DEF AheadOfFlush
<1>10. AllKept'
  <2> SUFFICES ASSUME NEW c \in committed' PROVE Kept(c)'
    BY DEF AllKept
  <2>1. CASE c \in committed
    BY <1>1, <1>3, <1>5, <1>7, <2>1 DEF AllKept, Kept
  <2>2. CASE c = r /\ log' = log \cup {r}
    BY <1>1, <1>3, <1>4, <1>5, <2>2 DEF Kept, DbTypes, PoolRecord
  <2> QED  BY <1>7, <2>1, <2>2
<1>11. UseCounted'
  BY <1>3, <1>5, <1>6, CountStays
<1> QED  BY <1>8, <1>9, <1>10, <1>11 DEF DbInv

LEMMA TxnEndKeeps ==
    ASSUME DbInv, NEW u \in Users, TxnEnd(u)
    PROVE  DbInv'
<1>1. DbTypes /\ HandleStates /\ AheadOfFlush /\ AllKept
  BY DEF DbInv
<1>2. /\ cdb[u].pdb = "live" /\ cdb' = [cdb EXCEPT ![u].txn = FALSE, ![u].pend = {}]
      /\ \/ log' = log \cup cdb[u].pend /\ committed' = committed \cup cdb[u].pend
         \/ log' = log /\ committed' = committed
      /\ UNCHANGED <<mapFileUseCount, dat, rewrite, bak, phase, nWalletDBUpdated, nLastFlushed, nAtStart>>
  BY DEF TxnEnd, flushVars
<1>3. cdb[u] \in Handles /\ cdb[u].pc = "open" /\ phase = "none"
  BY <1>1, <1>2, LiveIsUsing DEF DbTypes
<1>4. /\ cdb' \in [Users -> Handles] /\ (\A v \in Users \ {u} : cdb'[v] = cdb[v])
      /\ cdb'[u].pc = "open" /\ cdb'[u].pdb = "live" /\ cdb'[u].bumped = cdb[u].bumped
      /\ cdb'[u].pend = {}
  <2> DEFINE new == [cdb[u] EXCEPT !.txn = FALSE, !.pend = {}]
  <2>1. /\ new \in Handles /\ new.pc = "open" /\ new.pdb = "live" /\ new.bumped = cdb[u].bumped
        /\ new.pend = {}
    BY <1>2, <1>3 DEF Handles
  <2>2. cdb' = [cdb EXCEPT ![u] = new]
    BY <1>2
  <2> HIDE DEF new
  <2> QED  BY <1>1, <2>1, <2>2 DEF DbTypes
<1>5. \A r \in cdb[u].pend : r \in Int /\ (r = PoolRecord \/ (nLastFlushed < r /\ r <= nWalletDBUpdated))
  BY <1>1, <1>3 DEF AheadOfFlush, Handles
<1>6. DbTypes' /\ HandleStates' /\ AheadOfFlush'
  BY <1>1, <1>2, <1>4, <1>5 DEF DbTypes, HandleStates, AheadOfFlush
<1>7. AllKept'
  BY <1>1, <1>2, <1>3, <1>5 DEF AllKept, Kept, DbTypes, PoolRecord
<1>8. UseCounted'
  BY <1>2, <1>3, <1>4, CountStays
<1> QED  BY <1>6, <1>7, <1>8 DEF DbInv

\* CDB::Close in its two halves.
LEMMA CloseKeeps ==
    ASSUME DbInv, NEW u \in Users, CloseCDB(u)
    PROVE  DbInv'
<1>1. DbTypes /\ HandleStates /\ AheadOfFlush /\ AllKept
  BY DEF DbInv
<1>2. /\ cdb[u].pdb = "live" /\ cdb' = [cdb EXCEPT ![u] = [NoCDB EXCEPT !.pc = "closing"]]
      /\ UNCHANGED <<mapFileUseCount, dat, log, rewrite, bak, phase, nWalletDBUpdated, nLastFlushed,
                     nAtStart, committed>>
  BY DEF CloseCDB, files, flushVars
<1>3. u \in Using
  BY <1>2, LiveIsUsing
<1>4. /\ [NoCDB EXCEPT !.pc = "closing"] \in Handles
      /\ cdb'[u] = [NoCDB EXCEPT !.pc = "closing"] /\ \A v \in Users \ {u} : cdb'[v] = cdb[v]
  BY <1>1, <1>2 DEF DbTypes, NoCDB, Handles
<1>5. cdb'[u].pc = "closing" /\ cdb'[u].bumped = 0 /\ cdb'[u].pend = {}
  BY <1>4 DEF NoCDB
<1>6. DbTypes' /\ HandleStates'
  BY <1>1, <1>2, <1>4 DEF DbTypes, HandleStates
<1>7. AheadOfFlush' /\ AllKept'
  BY <1>1, <1>2, <1>4, <1>5 DEF AheadOfFlush, AllKept, Kept
<1>8. UseCounted'
  <2>1. Using' = Using
    BY <1>3, <1>4, <1>5 DEF Using
  <2> QED  BY <1>2, <2>1 DEF UseCounted, DbInv
<1> QED  BY <1>6, <1>7, <1>8 DEF DbInv

LEMMA LowerUseCountKeeps ==
    ASSUME DbInv, NEW u \in Users, LowerUseCount(u)
    PROVE  DbInv'
<1>1. DbTypes /\ HandleStates /\ UseCounted /\ AheadOfFlush /\ AllKept
  BY DEF DbInv
<1>2. /\ phase = "none" /\ cdb[u].pc = "closing" /\ mapFileUseCount' = mapFileUseCount - 1
      /\ cdb' = [cdb EXCEPT ![u] = NoCDB]
      /\ UNCHANGED <<dat, log, rewrite, bak, phase, nWalletDBUpdated, nLastFlushed, nAtStart, committed>>
  BY DEF LowerUseCount, cs_db, files, flushVars
<1>3. u \in Using /\ mapFileUseCount > 0
  BY <1>1, <1>2 DEF Using, UseCounted, DbTypes
<1>4. /\ NoCDB \in Handles /\ cdb'[u] = NoCDB /\ \A v \in Users \ {u} : cdb'[v] = cdb[v]
  BY <1>1, <1>2 DEF DbTypes, NoCDB, Handles
<1>5. cdb'[u].pc = "none" /\ cdb'[u].bumped = 0 /\ cdb'[u].pend = {}
  BY <1>4 DEF NoCDB
<1>6. DbTypes' /\ HandleStates'
  BY <1>1, <1>2, <1>4 DEF DbTypes, HandleStates
<1>7. AheadOfFlush' /\ AllKept'
  BY <1>1, <1>2, <1>4, <1>5 DEF AheadOfFlush, AllKept, Kept
<1>8. UseCounted'
  <2>1. Using' = Using \ {u}
    BY <1>4, <1>5 DEF Using
  <2>2. IsFiniteSet(Using') /\ Cardinality(Using') = Cardinality(Using) - 1
    BY <1>1, <1>3, <2>1, FS_RemoveElement DEF UseCounted
  <2>3. Cardinality(Using) = mapFileUseCount
    BY <1>1, <1>3 DEF UseCounted
  <2>4. mapFileUseCount' <= 0 => Using' = {}
    BY <1>1, <1>2, <1>3, <2>2, <2>3, FS_EmptySet DEF DbTypes
  <2> QED  BY <1>1, <1>2, <2>2, <2>3, <2>4 DEF UseCounted, DbTypes
<1> QED  BY <1>6, <1>7, <1>8 DEF DbInv

\* The steps that close the file's handle: the flushes, a backup, Rewrite.
LEMMA DetachKeeps ==
    ASSUME DbInv, EnvFlush \/ Backup \/ FlushWallet
    PROVE  DbInv'
<1>1. /\ mapFileUseCount <= 0 /\ Detach /\ mapFileUseCount' = -1
      /\ UNCHANGED <<rewrite, bak, phase, nWalletDBUpdated, nAtStart, committed>>
      /\ nLastFlushed' \in {nLastFlushed, nWalletDBUpdated}
  BY DEF EnvFlush, Backup, FlushWallet, IdleFile, flushVars
<1>2. /\ Using = {} /\ (\A u \in Users : cdb[u] = NoCDB) /\ cdb' = cdb
      /\ dat' = dat \cup log /\ log' = {}
  BY <1>1, DetachClosesNone
<1>3. Detached
  BY <1>1, <1>2 DEF Detached
<1> QED  BY <1>1, <1>2, <1>3, DetachedKeeps

\* The copy of Rewrite has what the file and its log have, but for what it is told to skip.
LEMMA RewriteKeeps ==
    ASSUME DbInv, NEW skip \in {{}, {PoolRecord}}, Rewrite(skip)
    PROVE  DbInv'
<1>1. DbTypes /\ HandleStates /\ UseCounted /\ AheadOfFlush /\ AllKept
  BY DEF DbInv
<1>2. /\ mapFileUseCount <= 0 /\ Detach /\ mapFileUseCount' = 0
      /\ rewrite' = rewrite \cup (dat' \ skip) /\ phase' = "copied"
      /\ committed' = committed \ (skip \ rewrite)
      /\ UNCHANGED <<bak, nWalletDBUpdated, nLastFlushed, nAtStart>>
  BY DEF Rewrite, IdleFile, flushVars
<1>3. Using = {} /\ cdb' = cdb /\ dat' = dat \cup log /\ log' = {}
  BY <1>2, DetachClosesNone
<1>4. DbTypes' /\ HandleStates' /\ AheadOfFlush'
  BY <1>1, <1>2, <1>3 DEF DbTypes, HandleStates, AheadOfFlush
<1>5. UseCounted'
  <2>1. Using' = {}
    BY <1>3 DEF Using
  <2> QED  BY <1>2, <2>1, FS_EmptySet DEF UseCounted
<1>6. AllKept'
  <2> SUFFICES ASSUME NEW r \in committed' PROVE Kept(r)'
    BY DEF AllKept
  <2>1. r \in committed /\ Kept(r) /\ (r \in skip => r \in rewrite)
    BY <1>1, <1>2 DEF AllKept
  <2>2. r \in dat \cup log \cup rewrite => r \in rewrite' /\ r \in dat' \cup rewrite'
    BY <1>2, <1>3, <2>1
  <2> QED  BY <1>2, <2>1, <2>2 DEF Kept
<1> QED  BY <1>4, <1>5, <1>6 DEF DbInv

LEMMA RewriteEndsKeeps ==
    ASSUME DbInv, RewriteRemove \/ RewriteRename
    PROVE  DbInv'
<1>1. DbTypes /\ HandleStates /\ UseCounted /\ AheadOfFlush /\ AllKept
  BY DEF DbInv
<1>2. /\ phase # "none" /\ phase' \in {"none", "removed"}
      /\ UNCHANGED <<mapFileUseCount, cdb, log, bak, nWalletDBUpdated, nLastFlushed, nAtStart, committed>>
      /\ \/ rewrite' = rewrite                                         \* RewriteRemove, or no rename
         \/ dat' = rewrite /\ phase' = "none"
  BY DEF RewriteRemove, RewriteRename, flushVars
<1>3. DbTypes' /\ HandleStates' /\ AheadOfFlush'
  BY <1>1, <1>2 DEF DbTypes, HandleStates, AheadOfFlush
<1>4. UseCounted'
  BY <1>1, <1>2 DEF UseCounted, Using
<1>5. AllKept'
  BY <1>1, <1>2 DEF AllKept, Kept
<1> QED  BY <1>3, <1>4, <1>5 DEF DbInv

LEMMA RestartKeeps ==
    ASSUME DbInv, Restart
    PROVE  DbInv'
<1>1. DbTypes /\ AllKept
  BY DEF DbInv
<1>2. /\ mapFileUseCount' = -1 /\ phase' = "none" /\ cdb' = [u \in Users |-> NoCDB]
      /\ nLastFlushed' = nWalletDBUpdated /\ nAtStart' = nWalletDBUpdated
      /\ UNCHANGED <<rewrite, nWalletDBUpdated, committed>>
      /\ (dat' = dat /\ log' = log /\ bak' = bak) \/ bak' = bak \cup dat \cup log
  BY DEF Restart, Recover
<1>3. NoCDB \in Handles /\ NoCDB.pc = "none" /\ NoCDB.bumped = 0 /\ NoCDB.pend = {}
  BY DEF NoCDB, Handles
<1>4. DbTypes' /\ HandleStates'
  BY <1>1, <1>2, <1>3 DEF DbTypes, HandleStates
<1>5. UseCounted'
  <2>1. Using' = {}
    BY <1>2, <1>3 DEF Using
  <2> QED  BY <1>2, <2>1, FS_EmptySet DEF UseCounted
<1>6. AheadOfFlush'
  BY <1>1, <1>2, <1>3 DEF AheadOfFlush, DbTypes
<1>7. AllKept'
  <2> SUFFICES ASSUME NEW r \in committed' PROVE Kept(r)'
    BY DEF AllKept
  <2>1. r \in Int /\ Kept(r)
    BY <1>1, <1>2 DEF AllKept, DbTypes
  <2> QED  BY <1>1, <1>2, <2>1 DEF Kept, DbTypes
<1> QED  BY <1>4, <1>5, <1>6, <1>7 DEF DbInv

LEMMA DbInitHolds == DbInit => DbInv
<1> SUFFICES ASSUME DbInit PROVE DbInv
  OBVIOUS
<1>1. NoCDB \in Handles /\ NoCDB.pc = "none" /\ NoCDB.bumped = 0 /\ NoCDB.pend = {}
  BY DEF NoCDB, Handles
<1>2. DbTypes /\ HandleStates /\ AheadOfFlush /\ AllKept
  BY <1>1 DEF DbInit, DbTypes, HandleStates, AheadOfFlush, AllKept
<1>3. UseCounted
  <2>1. Using = {}
    BY <1>1 DEF DbInit, Using
  <2> QED  BY <2>1, FS_EmptySet DEF DbInit, UseCounted
<1> QED  BY <1>2, <1>3 DEF DbInv

LEMMA DbNextHolds == DbInv /\ [DbNext]_dbVars => DbInv'
<1> SUFFICES ASSUME DbInv, [DbNext]_dbVars PROVE DbInv'
  OBVIOUS
<1>1. ASSUME NEW u \in Users,
             OpenCDB(u) \/ TxnBegin(u) \/ Bump(u) \/ Put(u) \/ TxnEnd(u) \/ CloseCDB(u) \/ LowerUseCount(u)
      PROVE  DbInv'
  BY <1>1, OpenCDBKeeps, TxnBeginKeeps, BumpKeeps, PutKeeps, TxnEndKeeps, CloseKeeps, LowerUseCountKeeps
<1>2. ASSUME NEW skip \in {{}, {PoolRecord}}, Rewrite(skip) PROVE DbInv'
  BY <1>2, RewriteKeeps
<1>3. ASSUME FlushLook \/ UNCHANGED dbVars PROVE DbInv'
  <2>1. UNCHANGED <<mapFileUseCount, cdb, dat, log, rewrite, bak, phase, nWalletDBUpdated, nLastFlushed,
                    nAtStart, committed>>
    BY <1>3 DEF FlushLook, dbVars, files, flushVars
  <2> QED  BY <2>1 DEF DbInv, DbTypes, HandleStates, UseCounted, Using, AheadOfFlush, AllKept, Kept
<1> QED  BY <1>1, <1>2, <1>3, DetachKeeps, RewriteEndsKeeps, RestartKeeps DEF DbNext

LEMMA DbHolds == DbSpec => []DbInv
<1> QED  BY DbInitHolds, DbNextHolds, PTL DEF DbSpec

\* The flush thread, a backup, Rewrite and the flush at shutdown close the handle of the
\* wallet's file under no thread that uses it.
THEOREM HandlesStayAlive == DbSpec => []HandlesAlive
<1>1. DbInv => HandlesAlive
  BY DEF DbInv, HandleStates, HandlesAlive, NoCDB
<1> QED  BY <1>1, DbHolds, PTL

\* Whatever is killed half way, a committed record is in the file, in the log or in a copy, and
\* what the flush thread took for flushed is not in the log alone.
THEOREM WalletStaysDurable == DbSpec => []WalletDurable
<1>1. DbInv => WalletDurable
  BY DEF DbInv, AllKept, Kept, WalletDurable, NothingLost, FlushedMeansInFile
<1> QED  BY <1>1, DbHolds, PTL

----------------------------------------------------------------------------
(* The keys.                                                               *)

\* The keys that wallet.dat has, plain or encrypted, and the ones that were given away.
OnDisk == disk.key \cup disk.ckey
Given == {used[i] : i \in DOMAIN used}

IsDisk(d) == DOMAIN d = {"key", "ckey", "mkey", "pool", "dflt", "old"} /\ d.dflt \in Nat
Bounded(S) == S \subseteq Nat /\ \E n \in Nat : \A i \in S : i <= n
Reservations == [nIndex : Nat \cup {NoIndex}, vchPubKey : Nat]

KeysTypes ==
    /\ status \in {"down", "up"} /\ fUseCrypto \in BOOLEAN /\ stale \in BOOLEAN
    /\ IsDisk(disk) /\ Bounded(DOMAIN disk.pool) /\ Bounded(setKeyPool)
    /\ nKey \in Nat /\ OnDisk \subseteq 1..nKey
    /\ used \in Seq(Nat) /\ reserve \in [Holders -> Reservations] /\ vchDefaultKey \in Nat
    /\ job.step \in {"none", "fill", "write", "keys", "commit", "erase"}
    /\ job.step \in {"fill", "write"} =>
         /\ DOMAIN job = {"step", "op", "holder", "made"} /\ job.made \in Nat
         /\ job.op = "reserve" => job.holder \in Holders /\ reserve[job.holder].nIndex = NoIndex
    /\ job.step \in {"keys", "commit"} => DOMAIN job = {"step", "pass"}

\* What is in wallet.dat at any time: it loads, and it has every key that matters.
DiskSound ==
    /\ disk.key = {} \/ disk.ckey = {}
    /\ disk.ckey # {} <=> disk.mkey # None
    /\ disk.dflt # None => disk.dflt \in OnDisk
    /\ \A i \in DOMAIN disk.pool : disk.pool[i] \in OnDisk
    /\ Given \subseteq OnDisk
    /\ \A h \in Holders : /\ reserve[h].nIndex # NoIndex => status = "up"
                          /\ reserve[h].vchPubKey # None => reserve[h].vchPubKey \in OnDisk

\* What memory knows of it.  A wallet without keys is the one of a first run, which fills the
\* pool before it does anything else.
MemorySound ==
    status = "up" =>
        /\ mapKeys = OnDisk
        /\ IF job.step = "commit" THEN fUseCrypto ELSE fUseCrypto <=> disk.ckey # {}
        /\ mapKeys = {} => setKeyPool = {} /\ job.step = "fill" /\ job.op = "default"
        /\ job.step = "write" => nKey \in mapKeys
        /\ vchDefaultKey # None => vchDefaultKey \in mapKeys

\* The transaction of EncryptWallet: it adds the master key, then exchanges the keys.
TxnSound ==
    status = "up" /\ job.step \in {"keys", "commit"} =>
        /\ IsDisk(txn[1]) /\ txn[1].mkey # None /\ (txn[1].dflt # None => txn[1].dflt \in mapKeys)
        /\ job.step = "commit" => txn[1].ckey = mapKeys /\ txn[1].key = {}

\* A key has one pool record or was given away, every index of the set has its record, a reserved
\* index has one too and is not in the set, and the key that was just generated is in neither.
KeysApart ==
    /\ \A i, j \in DOMAIN used : i # j => used[i] # used[j]
    /\ \A i \in DOMAIN disk.pool : disk.pool[i] \notin Given
    /\ \A i, j \in DOMAIN disk.pool : i # j => disk.pool[i] # disk.pool[j]
    /\ status = "up" /\ job.step = "write" =>
         nKey \notin Given /\ \A i \in DOMAIN disk.pool : disk.pool[i] # nKey
    /\ status = "up" /\ job.step # "erase" => setKeyPool \subseteq DOMAIN disk.pool
    /\ \A h \in Holders : reserve[h].nIndex # NoIndex =>
         /\ reserve[h].nIndex \in DOMAIN disk.pool /\ reserve[h].nIndex \notin setKeyPool
         /\ reserve[h].vchPubKey = disk.pool[reserve[h].nIndex]
         /\ \A g \in Holders \ {h} : reserve[g].nIndex # reserve[h].nIndex

KeysInv == KeysTypes /\ DiskSound /\ MemorySound /\ TxnSound /\ (stale \/ KeysApart)

----------------------------------------------------------------------------
(* Sets of indices.                                                        *)

LEMMA MinIsIn ==
    ASSUME NEW S \in SUBSET Nat, S # {}
    PROVE  SetMin(S) \in S
<1>1. \E x \in S : \A y \in S : x <= y
  BY LeastNumber
<1> QED  BY <1>1 DEF SetMin

LEMMA MaxIsIn ==
    ASSUME NEW S, Bounded(S), S # {}
    PROVE  SetMax(S) \in S
<1> DEFINE Above == {n \in Nat : \A i \in S : i <= n}
<1>1. S \subseteq Nat /\ Above # {} /\ Above \in SUBSET Nat
  BY DEF Bounded
<1>2. PICK n \in Above : \A m \in Above : n <= m
  BY <1>1, LeastNumber
<1>3. n \in S
  <2>1. ASSUME n \notin S PROVE FALSE
    <3>1. n # 0
      <4>1. PICK i \in S : TRUE
        OBVIOUS
      <4> QED  BY <1>1, <1>2, <2>1, <4>1
    <3>2. n - 1 \in Nat /\ \A i \in S : i <= n - 1
      BY <1>1, <1>2, <2>1, <3>1
    <3>3. n - 1 \in Above
      BY <3>2
    <3> QED  BY <1>2, <3>3
  <2> QED  BY <2>1
<1>4. \E x \in S : \A y \in S : x >= y
  BY <1>1, <1>2, <1>3
<1> QED  BY <1>4 DEF SetMax

LEMMA BoundedAfter ==
    ASSUME NEW S, NEW T, NEW k \in Nat, Bounded(S), T \subseteq S \cup {k}
    PROVE  Bounded(T)
<1>1. S \subseteq Nat
  BY DEF Bounded
<1>2. PICK n \in Nat : \A i \in S : i <= n
  BY DEF Bounded
<1>3. n + k \in Nat /\ \A i \in T : i \in Nat /\ i <= n + k
  BY <1>1, <1>2
<1> QED  BY <1>3 DEF Bounded

LEMMA NextIndexType ==
    ASSUME KeysTypes, job.step = "write"
    PROVE  NextIndex \in Nat
<1>1. job.made \in Nat /\ Bounded(setKeyPool) /\ setKeyPool \subseteq Nat
  BY DEF KeysTypes, Bounded
<1>2. setKeyPool # {} => SetMax(setKeyPool) \in Nat
  BY <1>1, MaxIsIn
<1> QED  BY <1>1, <1>2 DEF NextIndex

LEMMA KeysInvGives ==
    ASSUME KeysInv
    PROVE  KeysTypes /\ DiskSound /\ MemorySound /\ TxnSound /\ (stale \/ KeysApart)
  BY DEF KeysInv

----------------------------------------------------------------------------
(* The actions of WalletKeys preserve the invariant.                       *)

\* A change that none of the invariant's parts looks at.
LEMMA OtherKeeps ==
    ASSUME KeysInv,
           UNCHANGED <<status, mapKeys, fUseCrypto, setKeyPool, vchDefaultKey, disk, txn, job, reserve,
                       nKey, used, stale>>
    PROVE  KeysInv'
<1>1. KeysTypes /\ DiskSound /\ MemorySound /\ TxnSound /\ (stale \/ KeysApart)
  BY KeysInvGives
<1>2. KeysTypes'
  BY <1>1 DEF KeysTypes, OnDisk
<1>3. DiskSound' /\ TxnSound'
  BY <1>1 DEF DiskSound, TxnSound, OnDisk, Given
<1>4. MemorySound'
  BY <1>1 DEF MemorySound, OnDisk
<1>5. KeysApart => KeysApart'
  BY DEF KeysApart, Given
<1> QED  BY <1>1, <1>2, <1>3, <1>4, <1>5 DEF KeysInv

LEMMA StartTakeKeeps ==
    ASSUME KeysInv, NEW op, NEW h, StartTake(op, h),
           op = "reserve" => h \in Holders /\ reserve[h].nIndex = NoIndex
    PROVE  KeysInv'
<1>1. KeysTypes /\ DiskSound /\ MemorySound /\ TxnSound /\ (stale \/ KeysApart)
  BY KeysInvGives
<1>2. /\ status = "up" /\ job.step = "none"
      /\ job' = [step |-> "fill", op |-> op, holder |-> h, made |-> 0]
      /\ UNCHANGED <<status, mapKeys, fUseCrypto, setKeyPool, vchDefaultKey, disk, txn, reserve, nKey,
                     used, stale>>
  BY DEF StartTake, Idle, TakeJob, walletMem
<1>3. KeysTypes'
  BY <1>1, <1>2 DEF KeysTypes, OnDisk
<1>4. DiskSound' /\ TxnSound'
  BY <1>1, <1>2 DEF DiskSound, TxnSound, OnDisk, Given
<1>5. MemorySound'
  BY <1>1, <1>2 DEF MemorySound, OnDisk
<1>6. KeysApart => KeysApart'
  BY <1>2 DEF KeysApart, Given
<1> QED  BY <1>1, <1>2, <1>3, <1>4, <1>5, <1>6 DEF KeysInv

LEMMA CrashKeeps ==
    ASSUME KeysInv, Crash
    PROVE  KeysInv'
<1>1. KeysTypes /\ DiskSound /\ MemorySound /\ TxnSound /\ (stale \/ KeysApart)
  BY KeysInvGives
<1>2. /\ status' = "down" /\ job' = [step |-> "none"] /\ reserve' = [h \in Holders |-> NoReserve]
      /\ UNCHANGED <<mapKeys, fUseCrypto, setKeyPool, vchDefaultKey, disk, nKey, used, stale>>
  BY DEF Crash, NoJob, walletMem
<1>3. /\ NoReserve \in Reservations
      /\ \A h \in Holders : reserve'[h].nIndex = NoIndex /\ reserve'[h].vchPubKey = None
  BY <1>2 DEF NoReserve, NoIndex, None, Reservations
<1>4. KeysTypes'
  BY <1>1, <1>2, <1>3 DEF KeysTypes, OnDisk
<1>5. DiskSound' /\ MemorySound' /\ TxnSound'
  BY <1>1, <1>2, <1>3 DEF DiskSound, MemorySound, TxnSound, OnDisk, Given
<1>6. KeysApart => KeysApart'
  BY <1>2, <1>3 DEF KeysApart, Given
<1> QED  BY <1>1, <1>2, <1>4, <1>5, <1>6 DEF KeysInv

LEMMA LoadWalletKeeps ==
    ASSUME KeysInv, LoadWallet
    PROVE  KeysInv'
<1>1. KeysTypes /\ DiskSound /\ MemorySound /\ TxnSound /\ (stale \/ KeysApart)
  BY KeysInvGives
<1>2. status = "down" /\ UNCHANGED <<txn, reserve, nKey, used, stale>>
  BY DEF LoadWallet
<1>3. \A h \in Holders : reserve[h].nIndex = NoIndex
  BY <1>1, <1>2 DEF DiskSound
<1>4. ASSUME RewritePool, job' = NoJob PROVE KeysInv'
  <2>1. /\ disk' = [disk EXCEPT !.pool = <<>>, !.old = FALSE] /\ job' = [step |-> "none"]
        /\ UNCHANGED <<status, mapKeys, fUseCrypto, setKeyPool, vchDefaultKey>>
    BY <1>4 DEF RewritePool, NoJob, walletMem
  <2>2. /\ IsDisk(disk') /\ disk'.key = disk.key /\ disk'.ckey = disk.ckey /\ disk'.mkey = disk.mkey
        /\ disk'.dflt = disk.dflt /\ DOMAIN disk'.pool = {}
    BY <1>1, <2>1 DEF KeysTypes, IsDisk
  <2>3. Bounded({})
    BY DEF Bounded
  <2>4. KeysTypes'
    BY <1>1, <1>2, <2>1, <2>2, <2>3 DEF KeysTypes, OnDisk
  <2>5. DiskSound' /\ MemorySound' /\ TxnSound'
    BY <1>1, <1>2, <1>3, <2>1, <2>2 DEF DiskSound, MemorySound, TxnSound, OnDisk, Given
  <2>6. KeysApart => KeysApart'
    BY <1>2, <1>3, <2>1, <2>2 DEF KeysApart, Given
  <2> QED  BY <1>1, <1>2, <2>4, <2>5, <2>6 DEF KeysInv
<1>5. ASSUME status' = "up", ReadKeyValue, job' = FirstRun, disk' = disk PROVE KeysInv'
  <2>1. /\ mapKeys' = OnDisk /\ fUseCrypto' = (disk.ckey # {}) /\ setKeyPool' = DOMAIN disk.pool
        /\ vchDefaultKey' = disk.dflt
    BY <1>5 DEF ReadKeyValue, OnDisk
  <2>2. \/ job' = [step |-> "none"] /\ disk.dflt # None
        \/ job' = [step |-> "fill", op |-> "default", holder |-> None, made |-> 0]
    BY <1>5 DEF FirstRun, NoJob, TakeJob
  <2>3. disk.dflt \in Nat
    BY <1>1 DEF KeysTypes, IsDisk
  <2>4. KeysTypes'
    BY <1>1, <1>2, <1>5, <2>1, <2>2, <2>3 DEF KeysTypes, OnDisk
  <2>5. DiskSound' /\ TxnSound'
    BY <1>1, <1>2, <1>3, <1>5, <2>2 DEF DiskSound, TxnSound, OnDisk, Given
  <2>6. MemorySound'
    <3>1. OnDisk = {} => DOMAIN disk.pool = {} /\ disk.dflt = None
      BY <1>1 DEF DiskSound
    <3>2. /\ OnDisk' = OnDisk /\ mapKeys' = OnDisk /\ (fUseCrypto' <=> disk'.ckey # {})
          /\ vchDefaultKey' # None => vchDefaultKey' \in mapKeys'
      BY <1>1, <1>5, <2>1 DEF OnDisk, DiskSound
    <3>3. job'.step \in {"none", "fill"} /\ (disk.dflt = None => job'.step = "fill" /\ job'.op = "default")
      BY <2>2
    <3>4. mapKeys' = {} => setKeyPool' = {} /\ job'.step = "fill" /\ job'.op = "default"
      BY <2>1, <3>1, <3>3
    <3> QED  BY <3>2, <3>3, <3>4 DEF MemorySound
  <2>7. KeysApart => KeysApart'
    BY <1>2, <1>3, <1>5, <2>1, <2>2 DEF KeysApart, Given
  <2> QED  BY <1>1, <1>2, <2>4, <2>5, <2>6, <2>7 DEF KeysInv
<1>6. ~(disk.key # {} /\ disk.ckey # {})
  BY <1>1 DEF DiskSound
<1> QED  BY <1>4, <1>5, <1>6 DEF LoadWallet

\* The new key is in memory and on disk before its pool record is written.
LEMMA FillGenerateKeeps ==
    ASSUME KeysInv, FillGenerate
    PROVE  KeysInv'
<1>1. KeysTypes /\ DiskSound /\ MemorySound /\ TxnSound /\ (stale \/ KeysApart)
  BY KeysInvGives
<1>2. /\ status = "up" /\ job.step = "fill" /\ job' = [job EXCEPT !.step = "write"]
      /\ nKey' = nKey + 1 /\ mapKeys' = mapKeys \cup {nKey + 1}
      /\ disk' = IF fUseCrypto THEN [disk EXCEPT !.ckey = @ \cup {nKey + 1}]
                               ELSE [disk EXCEPT !.key = @ \cup {nKey + 1}]
      /\ UNCHANGED <<status, fUseCrypto, setKeyPool, vchDefaultKey, txn, reserve, used, stale>>
  BY DEF FillGenerate, GenerateNewKey
<1>3. mapKeys = OnDisk /\ (fUseCrypto <=> disk.ckey # {})
  BY <1>1, <1>2 DEF MemorySound
<1>4. /\ IsDisk(disk') /\ disk'.mkey = disk.mkey /\ disk'.pool = disk.pool /\ disk'.dflt = disk.dflt
      /\ fUseCrypto => disk'.ckey = disk.ckey \cup {nKey + 1} /\ disk'.key = disk.key
      /\ ~fUseCrypto => disk'.key = disk.key \cup {nKey + 1} /\ disk'.ckey = disk.ckey
  BY <1>1, <1>2 DEF KeysTypes, IsDisk
<1>5. OnDisk' = OnDisk \cup {nKey + 1}
  BY <1>4 DEF OnDisk
<1>6. /\ DOMAIN job' = DOMAIN job /\ job'.step = "write" /\ job'.op = job.op
      /\ job'.holder = job.holder /\ job'.made = job.made
  BY <1>1, <1>2 DEF KeysTypes
<1>7. KeysTypes'
  BY <1>1, <1>2, <1>4, <1>5, <1>6 DEF KeysTypes
<1>8. DiskSound'
  BY <1>1, <1>2, <1>3, <1>4, <1>5 DEF DiskSound, Given
<1>9. MemorySound' /\ TxnSound'
  BY <1>1, <1>2, <1>3, <1>4, <1>5, <1>6 DEF MemorySound, TxnSound
<1>10. KeysApart => KeysApart'
  <2>1. \A k \in OnDisk : k # nKey + 1
    BY <1>1 DEF KeysTypes
  <2>2. nKey' \notin Given /\ \A i \in DOMAIN disk.pool : disk.pool[i] # nKey'
    BY <1>1, <1>2, <2>1 DEF DiskSound
  <2> QED  BY <1>2, <1>4, <1>6, <2>2 DEF KeysApart, Given
<1> QED  BY <1>1, <1>2, <1>7, <1>8, <1>9, <1>10 DEF KeysInv

\* Its record goes to an index that is not reserved, or stale says so.
LEMMA FillWriteKeeps ==
    ASSUME KeysInv, FillWrite
    PROVE  KeysInv'
<1>1. KeysTypes /\ DiskSound /\ MemorySound /\ TxnSound /\ (stale \/ KeysApart)
  BY KeysInvGives
<1> DEFINE n == NextIndex
<1>2. /\ status = "up" /\ job.step = "write" /\ job' = [job EXCEPT !.step = "fill", !.made = @ + 1]
      /\ disk' = [disk EXCEPT !.pool = [j \in DOMAIN @ \cup {n} |-> IF j = n THEN nKey ELSE @[j]]]
      /\ setKeyPool' = setKeyPool \cup {n}
      /\ stale' = (stale \/ \E h \in Holders : reserve[h].nIndex = n)
      /\ UNCHANGED <<status, mapKeys, fUseCrypto, vchDefaultKey, txn, reserve, nKey, used>>
  BY DEF FillWrite, WritePool
<1>3. n \in Nat
  BY <1>1, <1>2, NextIndexType
<1> HIDE DEF n
<1>4. mapKeys = OnDisk /\ (fUseCrypto <=> disk.ckey # {}) /\ nKey \in OnDisk
  BY <1>1, <1>2 DEF MemorySound
<1>5. /\ IsDisk(disk') /\ disk'.mkey = disk.mkey /\ disk'.dflt = disk.dflt
      /\ disk'.key = disk.key /\ disk'.ckey = disk.ckey
      /\ DOMAIN disk'.pool = DOMAIN disk.pool \cup {n} /\ disk'.pool[n] = nKey
      /\ \A j \in DOMAIN disk.pool \ {n} : disk'.pool[j] = disk.pool[j]
  BY <1>1, <1>2 DEF KeysTypes, IsDisk
<1>6. OnDisk' = OnDisk
  BY <1>5 DEF OnDisk
<1>7. /\ DOMAIN job' = DOMAIN job /\ job'.step = "fill" /\ job'.op = job.op
      /\ job'.holder = job.holder /\ job'.made \in Nat
  BY <1>1, <1>2 DEF KeysTypes
<1>8. Bounded(setKeyPool') /\ Bounded(DOMAIN disk'.pool)
  BY <1>1, <1>2, <1>3, <1>5, BoundedAfter DEF KeysTypes
<1>9. stale' \in BOOLEAN
  BY <1>2
<1>10. KeysTypes'
  BY <1>1, <1>2, <1>5, <1>6, <1>7, <1>8, <1>9 DEF KeysTypes
<1>11. DiskSound'
  BY <1>1, <1>2, <1>4, <1>5, <1>6 DEF DiskSound, Given
<1>12. MemorySound' /\ TxnSound'
  BY <1>1, <1>2, <1>4, <1>5, <1>6, <1>7 DEF MemorySound, TxnSound
<1>13. ASSUME ~stale' PROVE KeysApart'
  <2>1. KeysApart /\ \A h \in Holders : reserve[h].nIndex # n
    BY <1>1, <1>2, <1>13
  <2>2. nKey \notin Given /\ \A i \in DOMAIN disk.pool : disk.pool[i] # nKey
    BY <1>2, <2>1 DEF KeysApart
  <2>3. /\ \A i \in DOMAIN disk'.pool : disk'.pool[i] \notin Given'
        /\ \A i, j \in DOMAIN disk'.pool : i # j => disk'.pool[i] # disk'.pool[j]
    BY <1>2, <1>5, <2>1, <2>2 DEF KeysApart, Given
  <2>4. \A h \in Holders : reserve'[h].nIndex # NoIndex =>
         /\ reserve'[h].nIndex \in DOMAIN disk'.pool /\ reserve'[h].nIndex \notin setKeyPool'
         /\ reserve'[h].vchPubKey = disk'.pool[reserve'[h].nIndex]
         /\ \A g \in Holders \ {h} : reserve'[g].nIndex # reserve'[h].nIndex
    BY <1>2, <1>5, <2>1 DEF KeysApart
  <2>5. \A i, j \in DOMAIN used' : i # j => used'[i] # used'[j]
    BY <1>2, <2>1 DEF KeysApart
  <2>6. job'.step # "write" /\ setKeyPool' \subseteq DOMAIN disk'.pool
    BY <1>2, <1>5, <1>7, <2>1 DEF KeysApart
  <2> QED  BY <2>3, <2>4, <2>5, <2>6 DEF KeysApart
<1> QED  BY <1>10, <1>11, <1>12, <1>13 DEF KeysInv

\* A pool record is erased as its key is given away.
GivenAway(i) ==
    /\ used' = Append(used, disk.pool[i])
    /\ IsDisk(disk') /\ disk'.key = disk.key /\ disk'.ckey = disk.ckey /\ disk'.mkey = disk.mkey
    /\ disk'.pool = [j \in DOMAIN disk.pool \ {i} |-> disk.pool[j]]

LEMMA GivingKeeps ==
    ASSUME KeysTypes, DiskSound, NEW i \in DOMAIN disk.pool, GivenAway(i)
    PROVE  /\ used' \in Seq(Nat) /\ Given' = Given \cup {disk.pool[i]} /\ Given' \subseteq OnDisk
           /\ Bounded(DOMAIN disk'.pool) /\ OnDisk' = OnDisk
           /\ \A j \in DOMAIN disk'.pool : j \in DOMAIN disk.pool \ {i} /\ disk'.pool[j] = disk.pool[j]
           /\ DOMAIN disk'.pool = DOMAIN disk.pool \ {i}
           /\ KeysApart =>
                /\ \A j, k \in DOMAIN used' : j # k => used'[j] # used'[k]
                /\ \A j \in DOMAIN disk'.pool : disk'.pool[j] \notin Given'
                /\ \A j, k \in DOMAIN disk'.pool : j # k => disk'.pool[j] # disk'.pool[k]
<1>1. disk.pool[i] \in OnDisk /\ disk.pool[i] \in Nat /\ Given \subseteq OnDisk
  <2>1. disk.pool[i] \in OnDisk /\ Given \subseteq OnDisk
    BY DEF DiskSound
  <2>2. OnDisk \subseteq 1..nKey /\ nKey \in Nat
    BY DEF KeysTypes
  <2>3. disk.pool[i] \in 1..nKey
    BY <2>1, <2>2
  <2> QED  BY <2>1, <2>2, <2>3
<1>2. used \in Seq(Nat) /\ used' = Append(used, disk.pool[i])
  BY DEF KeysTypes, GivenAway
<1>3. /\ used' \in Seq(Nat) /\ DOMAIN used = 1..Len(used) /\ DOMAIN used' = 1..(Len(used) + 1)
      /\ (\A j \in 1..Len(used) : used'[j] = used[j]) /\ used'[Len(used) + 1] = disk.pool[i]
      /\ Len(used) \in Nat
  BY <1>1, <1>2
<1>4. Given' = Given \cup {disk.pool[i]}
  BY <1>3 DEF Given
<1>5. /\ \A j \in DOMAIN disk'.pool : j \in DOMAIN disk.pool \ {i} /\ disk'.pool[j] = disk.pool[j]
      /\ DOMAIN disk'.pool = DOMAIN disk.pool \ {i} /\ OnDisk' = OnDisk
  BY DEF GivenAway, OnDisk
<1>6. Bounded(DOMAIN disk'.pool)
  BY <1>5, BoundedAfter DEF KeysTypes, Bounded
<1>7. ASSUME KeysApart
      PROVE  \A j, k \in DOMAIN used' : j # k => used'[j] # used'[k]
  <2>1. disk.pool[i] \notin Given /\ \A j, k \in DOMAIN used : j # k => used[j] # used[k]
    BY <1>7 DEF KeysApart
  <2> QED  BY <1>3, <2>1 DEF Given
<1>8. ASSUME KeysApart
      PROVE  /\ \A j \in DOMAIN disk'.pool : disk'.pool[j] \notin Given'
             /\ \A j, k \in DOMAIN disk'.pool : j # k => disk'.pool[j] # disk'.pool[k]
  BY <1>4, <1>5, <1>8 DEF KeysApart
<1> QED  BY <1>1, <1>3, <1>4, <1>5, <1>6, <1>7, <1>8

\* The oldest key of the pool is reserved, or given away.
LEMMA TakeKeeps ==
    ASSUME KeysInv, Take
    PROVE  KeysInv'
<1>1. KeysTypes /\ DiskSound /\ MemorySound /\ TxnSound /\ (stale \/ KeysApart)
  BY KeysInvGives
<1> DEFINE i == SetMin(setKeyPool)
<1>2. /\ status = "up" /\ job.step = "fill" /\ FillDone /\ job' = [step |-> "none"]
      /\ UNCHANGED <<status, mapKeys, fUseCrypto, txn, nKey, stale>>
  BY DEF Take, NoJob
<1>3. mapKeys = OnDisk /\ (fUseCrypto <=> disk.ckey # {})
  BY <1>1, <1>2 DEF MemorySound
<1>4. job.op = "reserve" => job.holder \in Holders /\ reserve[job.holder].nIndex = NoIndex
  BY <1>1, <1>2 DEF KeysTypes
\* A first run has keys by now.
<1>5. mapKeys # {}
  <2>1. ASSUME mapKeys = {} PROVE FALSE
    <3>1. setKeyPool = {} /\ ~fUseCrypto /\ job.op = "default"
      BY <1>1, <1>2, <1>3, <2>1 DEF MemorySound, OnDisk
    <3>2. Cardinality({}) >= KeyPoolSize + 1
      BY <1>2, <3>1 DEF FillDone, IsLocked
    <3> QED  BY <3>2, FS_EmptySet, WalletKeysAssumption
  <2> QED  BY <2>1
\* Nothing is taken.
<1>6. ASSUME setKeyPool' \subseteq setKeyPool, UNCHANGED <<disk, used, vchDefaultKey>>,
             reserve' \in [Holders -> Reservations],
             \A h \in Holders :
                \/ reserve'[h] = reserve[h]
                \/ reserve'[h].vchPubKey = vchDefaultKey /\ reserve'[h].nIndex = NoIndex
                \/ /\ reserve'[h].vchPubKey = reserve[h].vchPubKey
                   /\ reserve'[h].nIndex = NoIndex \/ stale
      PROVE  KeysInv'
  <2>1. Bounded(setKeyPool')
    BY <1>1, <1>6 DEF KeysTypes, Bounded
  <2>2. KeysTypes'
    BY <1>1, <1>2, <1>6, <2>1 DEF KeysTypes, OnDisk
  <2>3. TxnSound' /\ (vchDefaultKey # None => vchDefaultKey \in OnDisk)
    BY <1>1, <1>2, <1>3 DEF TxnSound, MemorySound
  <2>4. DiskSound'
    BY <1>1, <1>2, <1>6, <2>3 DEF DiskSound, OnDisk, Given
  <2>5. MemorySound'
    BY <1>1, <1>2, <1>3, <1>5, <1>6 DEF MemorySound, OnDisk
  <2>6. KeysApart /\ ~stale => KeysApart'
    BY <1>2, <1>6 DEF KeysApart, Given
  <2> QED  BY <1>1, <1>2, <2>2, <2>3, <2>4, <2>5, <2>6 DEF KeysInv
<1>7. CASE setKeyPool = {}
  <2>1. /\ UNCHANGED <<setKeyPool, disk, used, vchDefaultKey>>
        /\ reserve' = IF job.op = "reserve"
                      THEN [reserve EXCEPT ![job.holder].vchPubKey = vchDefaultKey] ELSE reserve
    BY <1>7 DEF Take
  <2>2. reserve \in [Holders -> Reservations] /\ vchDefaultKey \in Nat
    BY <1>1 DEF KeysTypes
  <2>3. CASE job.op = "reserve"
    <3> DEFINE new == [reserve[job.holder] EXCEPT !.vchPubKey = vchDefaultKey]
    <3>1. /\ job.holder \in Holders /\ new \in Reservations
          /\ new.nIndex = NoIndex /\ new.vchPubKey = vchDefaultKey
      BY <1>4, <2>2, <2>3 DEF Reservations
    <3>2. reserve' = [reserve EXCEPT ![job.holder] = new]
      BY <2>1, <2>3
    <3> HIDE DEF new
    <3>3. /\ reserve' \in [Holders -> Reservations]
          /\ \A h \in Holders :
               \/ reserve'[h] = reserve[h]
               \/ reserve'[h].vchPubKey = vchDefaultKey /\ reserve'[h].nIndex = NoIndex
      BY <2>2, <3>1, <3>2
    <3> QED  BY <1>6, <2>1, <3>3
  <2>4. CASE job.op # "reserve"
    BY <1>6, <2>1, <2>2, <2>4
  <2> QED  BY <2>3, <2>4
<1>8. CASE setKeyPool # {}
  <2>1. setKeyPool' = setKeyPool \ {i}
    BY <1>8 DEF Take
  <2>2. i \in setKeyPool /\ i \in Nat
    BY <1>1, <1>8, MinIsIn DEF KeysTypes, Bounded
  <2>3. Bounded(setKeyPool')
    BY <1>1, <2>1 DEF KeysTypes, Bounded
  <2>4. reserve \in [Holders -> Reservations] /\ IsDisk(disk)
    BY <1>1 DEF KeysTypes
  <2>5. CASE ~Readable(i)
    <3>1. /\ UNCHANGED <<disk, used, vchDefaultKey>>
          /\ \/ UNCHANGED reserve
             \/ job.op = "reserve" /\ reserve' = [reserve EXCEPT ![job.holder].nIndex = i]
      BY <1>8, <2>5 DEF Take
    <3>2. stale
      <4>1. KeysApart => i \in DOMAIN disk.pool
        BY <1>2, <2>2 DEF KeysApart
      <4>2. i \in DOMAIN disk.pool => disk.pool[i] \in mapKeys
        BY <1>1, <1>3 DEF DiskSound
      <4> QED  BY <1>1, <2>5, <4>1, <4>2 DEF Readable
    <3> HIDE DEF i
    <3>3. CASE UNCHANGED reserve
      BY <1>6, <2>1, <2>4, <3>1, <3>3
    <3>4. CASE job.op = "reserve" /\ reserve' = [reserve EXCEPT ![job.holder].nIndex = i]
      <4> DEFINE new == [reserve[job.holder] EXCEPT !.nIndex = i]
      <4>1. /\ job.holder \in Holders /\ new \in Reservations
            /\ new.vchPubKey = reserve[job.holder].vchPubKey
        BY <1>4, <2>2, <2>4, <3>4 DEF Reservations
      <4>2. reserve' = [reserve EXCEPT ![job.holder] = new]
        BY <3>4
      <4> HIDE DEF new
      <4>3. /\ reserve' \in [Holders -> Reservations]
            /\ \A h \in Holders : reserve'[h] = reserve[h] \/ reserve'[h].vchPubKey = reserve[h].vchPubKey
        BY <2>4, <4>1, <4>2
      <4> QED  BY <1>6, <2>1, <3>1, <3>2, <4>3
    <3> QED  BY <3>1, <3>3, <3>4
  <2>6. CASE Readable(i) /\ job.op = "reserve"
    <3> DEFINE h == job.holder
    <3>1. /\ reserve' = [reserve EXCEPT ![h] = [nIndex |-> i, vchPubKey |-> disk.pool[i]]]
          /\ UNCHANGED <<disk, used, vchDefaultKey>>
      BY <1>8, <2>6 DEF Take
    <3>2. i \in DOMAIN disk.pool /\ disk.pool[i] \in OnDisk /\ disk.pool[i] \in Nat /\ h \in Holders
      <4>1. i \in DOMAIN disk.pool /\ disk.pool[i] \in OnDisk
        BY <1>3, <2>6 DEF Readable
      <4>2. OnDisk \subseteq 1..nKey /\ nKey \in Nat
        BY <1>1 DEF KeysTypes
      <4>3. disk.pool[i] \in 1..nKey
        BY <4>1, <4>2
      <4> QED  BY <1>4, <2>6, <4>1, <4>2, <4>3
    <3> HIDE DEF i, h
    <3>3. /\ [nIndex |-> i, vchPubKey |-> disk.pool[i]] \in Reservations
          /\ reserve' \in [Holders -> Reservations]
          /\ reserve'[h].nIndex = i /\ reserve'[h].vchPubKey = disk.pool[i]
          /\ \A g \in Holders \ {h} : reserve'[g] = reserve[g]
      BY <2>2, <2>4, <3>1, <3>2 DEF Reservations
    <3>4. KeysTypes'
      BY <1>1, <1>2, <2>3, <3>1, <3>3 DEF KeysTypes, OnDisk
    <3>5. DiskSound' /\ TxnSound'
      BY <1>1, <1>2, <3>1, <3>2, <3>3 DEF DiskSound, TxnSound, OnDisk, Given
    <3>6. MemorySound'
      BY <1>1, <1>2, <1>3, <1>5, <3>1 DEF MemorySound, OnDisk
    <3>7. ASSUME KeysApart PROVE KeysApart'
      <4>1. \A g \in Holders \ {h} : reserve[g].nIndex # NoIndex => reserve[g].nIndex # i
        BY <2>2, <3>7 DEF KeysApart
      <4> QED  BY <1>2, <2>1, <3>1, <3>2, <3>3, <3>7, <4>1 DEF KeysApart, Given, NoIndex
    <3> QED  BY <1>1, <1>2, <3>4, <3>5, <3>6, <3>7 DEF KeysInv
  <2>7. CASE Readable(i) /\ job.op # "reserve"
    <3>1. /\ used' = Append(used, disk.pool[i])
          /\ disk' = [disk EXCEPT !.pool = [j \in DOMAIN @ \ {i} |-> @[j]],
                                  !.dflt = IF job.op = "default" THEN disk.pool[i] ELSE @]
          /\ vchDefaultKey' = (IF job.op = "default" THEN disk.pool[i] ELSE vchDefaultKey)
          /\ UNCHANGED reserve
      BY <1>8, <2>7 DEF Take
    <3>2. i \in DOMAIN disk.pool /\ disk.pool[i] \in OnDisk /\ disk.pool[i] \in Nat
      <4>1. i \in DOMAIN disk.pool /\ disk.pool[i] \in OnDisk
        BY <1>3, <2>7 DEF Readable
      <4>2. OnDisk \subseteq 1..nKey /\ nKey \in Nat
        BY <1>1 DEF KeysTypes
      <4>3. disk.pool[i] \in 1..nKey
        BY <4>1, <4>2
      <4> QED  BY <4>1, <4>2, <4>3
    <3> HIDE DEF i
    <3>3. /\ GivenAway(i) /\ disk'.dflt \in {disk.dflt, disk.pool[i]}
          /\ vchDefaultKey' \in {vchDefaultKey, disk.pool[i]}
      BY <2>4, <3>1, <3>2 DEF GivenAway, IsDisk
    <3>4. /\ used' \in Seq(Nat) /\ Given' = Given \cup {disk.pool[i]} /\ Given' \subseteq OnDisk
          /\ Bounded(DOMAIN disk'.pool) /\ OnDisk' = OnDisk
          /\ \A j \in DOMAIN disk'.pool : j \in DOMAIN disk.pool \ {i} /\ disk'.pool[j] = disk.pool[j]
          /\ DOMAIN disk'.pool = DOMAIN disk.pool \ {i}
      BY <1>1, <3>2, <3>3, GivingKeeps
    <3>5. IsDisk(disk') /\ disk'.key = disk.key /\ disk'.ckey = disk.ckey /\ disk'.mkey = disk.mkey
      BY <3>3 DEF GivenAway
    <3>6. KeysTypes'
      BY <1>1, <1>2, <2>3, <3>1, <3>2, <3>3, <3>4, <3>5 DEF KeysTypes
    <3>7. DiskSound' /\ TxnSound'
      BY <1>1, <1>2, <3>1, <3>2, <3>3, <3>4, <3>5 DEF DiskSound, TxnSound
    <3>8. MemorySound'
      BY <1>1, <1>2, <1>3, <1>5, <3>2, <3>3, <3>4, <3>5 DEF MemorySound
    <3>9. ASSUME KeysApart PROVE KeysApart'
      <4>1. /\ \A j, k \in DOMAIN used' : j # k => used'[j] # used'[k]
            /\ \A j \in DOMAIN disk'.pool : disk'.pool[j] \notin Given'
            /\ \A j, k \in DOMAIN disk'.pool : j # k => disk'.pool[j] # disk'.pool[k]
        BY <1>1, <3>2, <3>3, <3>9, GivingKeeps
      <4>2. \A h \in Holders : reserve[h].nIndex # NoIndex => reserve[h].nIndex # i
        BY <2>2, <3>9 DEF KeysApart
      <4>3. \A h \in Holders : reserve'[h].nIndex # NoIndex =>
              /\ reserve'[h].nIndex \in DOMAIN disk'.pool /\ reserve'[h].nIndex \notin setKeyPool'
              /\ reserve'[h].vchPubKey = disk'.pool[reserve'[h].nIndex]
              /\ \A g \in Holders \ {h} : reserve'[g].nIndex # reserve'[h].nIndex
        BY <2>1, <3>1, <3>4, <3>9, <4>2 DEF KeysApart
      <4>4. job'.step # "write" /\ setKeyPool' \subseteq DOMAIN disk'.pool
        BY <1>2, <2>1, <3>4, <3>9 DEF KeysApart
      <4> QED  BY <4>1, <4>3, <4>4 DEF KeysApart
    <3> QED  BY <1>1, <1>2, <3>6, <3>7, <3>8, <3>9 DEF KeysInv
  <2> QED  BY <2>5, <2>6, <2>7
<1> QED  BY <1>7, <1>8

\* KeepKey gives the reserved key away, whatever operation holds cs_wallet meanwhile.
LEMMA KeepKeyKeeps ==
    ASSUME KeysInv, NEW h \in Holders, KeepKey(h)
    PROVE  KeysInv'
<1>1. KeysTypes /\ DiskSound /\ MemorySound /\ TxnSound /\ (stale \/ KeysApart)
  BY KeysInvGives
<1>2. /\ status = "up" /\ reserve[h].vchPubKey # None /\ reserve' = [reserve EXCEPT ![h] = NoReserve]
      /\ UNCHANGED <<status, mapKeys, fUseCrypto, setKeyPool, vchDefaultKey, txn, job, nKey, stale>>
  BY DEF KeepKey, walletMem
<1>3. /\ NoReserve \in Reservations /\ reserve' \in [Holders -> Reservations]
      /\ reserve'[h].nIndex = NoIndex /\ reserve'[h].vchPubKey = None
      /\ \A g \in Holders \ {h} : reserve'[g] = reserve[g]
  BY <1>1, <1>2 DEF KeysTypes, NoReserve, NoIndex, None, Reservations
<1>4. \A g \in Holders : reserve[g].nIndex = NoIndex => reserve'[g].nIndex = NoIndex
  BY <1>3
<1>5. CASE reserve[h].nIndex = NoIndex
  <2>1. UNCHANGED <<disk, used>>
    BY <1>5 DEF KeepKey
  <2>2. KeysTypes'
    BY <1>1, <1>2, <1>3, <1>4, <2>1 DEF KeysTypes, OnDisk
  <2>3. DiskSound' /\ TxnSound'
    BY <1>1, <1>2, <1>3, <2>1 DEF DiskSound, TxnSound, OnDisk, Given
  <2>4. MemorySound'
    BY <1>1, <1>2, <2>1 DEF MemorySound, OnDisk
  <2>5. KeysApart => KeysApart'
    BY <1>2, <1>3, <2>1 DEF KeysApart, Given
  <2> QED  BY <1>1, <1>2, <2>2, <2>3, <2>4, <2>5 DEF KeysInv
<1>6. CASE reserve[h].nIndex # NoIndex
  <2> DEFINE i == reserve[h].nIndex
             k == reserve[h].vchPubKey
  <2>1. /\ used' = Append(used, k)
        /\ disk' = [disk EXCEPT !.pool = [j \in DOMAIN @ \ {i} |-> @[j]]]
    BY <1>6 DEF KeepKey, ErasePool
  <2>2. k \in OnDisk /\ k \in Nat
    BY <1>1, <1>2, <1>6 DEF DiskSound, KeysTypes, Reservations
  <2> HIDE DEF i, k
  <2>3. /\ IsDisk(disk') /\ disk'.key = disk.key /\ disk'.ckey = disk.ckey /\ disk'.mkey = disk.mkey
        /\ disk'.dflt = disk.dflt
        /\ disk'.pool = [j \in DOMAIN disk.pool \ {i} |-> disk.pool[j]]
    BY <1>1, <2>1 DEF KeysTypes, IsDisk
  <2>4. /\ \A j \in DOMAIN disk'.pool : j \in DOMAIN disk.pool \ {i} /\ disk'.pool[j] = disk.pool[j]
        /\ DOMAIN disk'.pool = DOMAIN disk.pool \ {i} /\ OnDisk' = OnDisk
    BY <2>3 DEF OnDisk
  <2>5. Bounded(DOMAIN disk'.pool)
    BY <1>1, <2>4 DEF KeysTypes, Bounded
  <2>6. used' \in Seq(Nat) /\ Given' = Given \cup {k}
    <3>1. used \in Seq(Nat)
      BY <1>1 DEF KeysTypes
    <3>2. /\ used' \in Seq(Nat) /\ DOMAIN used = 1..Len(used) /\ DOMAIN used' = 1..(Len(used) + 1)
          /\ (\A j \in 1..Len(used) : used'[j] = used[j]) /\ used'[Len(used) + 1] = k
          /\ Len(used) \in Nat
      BY <2>1, <2>2, <3>1
    <3> QED  BY <3>2 DEF Given
  <2>7. KeysTypes'
    BY <1>1, <1>2, <1>3, <1>4, <2>3, <2>4, <2>5, <2>6 DEF KeysTypes
  <2>8. DiskSound' /\ TxnSound'
    BY <1>1, <1>2, <1>3, <2>2, <2>3, <2>4, <2>6 DEF DiskSound, TxnSound
  <2>9. MemorySound'
    BY <1>1, <1>2, <2>3, <2>4 DEF MemorySound
  <2>10. ASSUME KeysApart PROVE KeysApart'
    <3>1. i \in DOMAIN disk.pool /\ k = disk.pool[i]
          /\ \A g \in Holders \ {h} : reserve[g].nIndex # i
      BY <1>6, <2>10 DEF KeysApart, i, k
    <3>2. GivenAway(i)
      BY <2>1, <2>3, <3>1 DEF GivenAway
    <3>3. /\ \A j, l \in DOMAIN used' : j # l => used'[j] # used'[l]
          /\ \A j \in DOMAIN disk'.pool : disk'.pool[j] \notin Given'
          /\ \A j, l \in DOMAIN disk'.pool : j # l => disk'.pool[j] # disk'.pool[l]
      BY <1>1, <2>10, <3>1, <3>2, GivingKeeps
    <3>4. \A g \in Holders : reserve'[g].nIndex # NoIndex =>
            /\ reserve'[g].nIndex \in DOMAIN disk'.pool /\ reserve'[g].nIndex \notin setKeyPool'
            /\ reserve'[g].vchPubKey = disk'.pool[reserve'[g].nIndex]
            /\ \A f \in Holders \ {g} : reserve'[f].nIndex # reserve'[g].nIndex
      BY <1>2, <1>3, <2>4, <2>10, <3>1 DEF KeysApart
    <3>5. status' = "up" /\ job'.step = "write" =>
            nKey' \notin Given' /\ \A j \in DOMAIN disk'.pool : disk'.pool[j] # nKey'
      BY <1>2, <2>4, <2>6, <2>10, <3>1 DEF KeysApart
    <3>6. i \notin setKeyPool
      BY <1>6, <2>10 DEF KeysApart, i
    <3>7. status' = "up" /\ job'.step # "erase" => setKeyPool' \subseteq DOMAIN disk'.pool
      BY <1>2, <2>4, <2>10, <3>6 DEF KeysApart
    <3> QED  BY <3>3, <3>4, <3>5, <3>7 DEF KeysApart
  <2> QED  BY <1>1, <1>2, <2>7, <2>8, <2>9, <2>10 DEF KeysInv
<1> QED  BY <1>5, <1>6

LEMMA ReturnKeyKeeps ==
    ASSUME KeysInv, NEW h \in Holders, ReturnKey(h)
    PROVE  KeysInv'
<1>1. KeysTypes /\ DiskSound /\ MemorySound /\ TxnSound /\ (stale \/ KeysApart)
  BY KeysInvGives
<1>2. /\ status = "up" /\ job.step = "none" /\ reserve' = [reserve EXCEPT ![h] = NoReserve]
      /\ setKeyPool' = (IF reserve[h].nIndex # NoIndex THEN setKeyPool \cup {reserve[h].nIndex} ELSE setKeyPool)
      /\ UNCHANGED <<status, mapKeys, fUseCrypto, vchDefaultKey, disk, txn, job, nKey, used, stale>>
  BY DEF ReturnKey, Idle
<1>3. /\ NoReserve \in Reservations /\ reserve' \in [Holders -> Reservations]
      /\ reserve'[h].nIndex = NoIndex /\ reserve'[h].vchPubKey = None
      /\ \A g \in Holders \ {h} : reserve'[g] = reserve[g]
  BY <1>1, <1>2 DEF KeysTypes, NoReserve, NoIndex, None, Reservations
<1>4. mapKeys # {}
  BY <1>1, <1>2 DEF MemorySound
<1>5. Bounded(setKeyPool')
  <2>1. Bounded(setKeyPool) /\ reserve[h] \in Reservations
    BY <1>1 DEF KeysTypes
  <2>2. reserve[h].nIndex # NoIndex => reserve[h].nIndex \in Nat
    BY <2>1 DEF Reservations
  <2> QED  BY <1>2, <2>1, <2>2, BoundedAfter
<1>6. KeysTypes'
  BY <1>1, <1>2, <1>3, <1>5 DEF KeysTypes, OnDisk
<1>7. DiskSound' /\ TxnSound'
  BY <1>1, <1>2, <1>3 DEF DiskSound, TxnSound, OnDisk, Given
<1>8. MemorySound'
  BY <1>1, <1>2, <1>4 DEF MemorySound, OnDisk
<1>9. ASSUME KeysApart PROVE KeysApart'
  <2>1. \A g \in Holders \ {h} : reserve[g].nIndex # NoIndex => reserve[g].nIndex # reserve[h].nIndex
    BY <1>9 DEF KeysApart
  <2> QED  BY <1>2, <1>3, <1>9, <2>1 DEF KeysApart, Given
<1> QED  BY <1>1, <1>2, <1>6, <1>7, <1>8, <1>9 DEF KeysInv

LEMMA PassphraseKeeps ==
    ASSUME KeysInv, NEW old \in Passphrases, NEW new \in Passphrases, ChangeWalletPassphrase(old, new)
    PROVE  KeysInv'
<1>1. KeysTypes /\ DiskSound /\ MemorySound /\ TxnSound /\ (stale \/ KeysApart)
  BY KeysInvGives
<1>2. /\ status = "up" /\ job.step = "none" /\ fUseCrypto
      /\ disk' = disk \/ disk' = [disk EXCEPT !.mkey = new]
      /\ UNCHANGED <<status, mapKeys, fUseCrypto, setKeyPool, vchDefaultKey, txn, job, reserve, nKey,
                     used, stale>>
  BY DEF ChangeWalletPassphrase, Idle
<1>3. mapKeys = OnDisk /\ disk.ckey # {} /\ new # None
  BY <1>1, <1>2, WalletKeysAssumption DEF MemorySound, None
<1>4. /\ IsDisk(disk') /\ disk'.key = disk.key /\ disk'.ckey = disk.ckey /\ disk'.mkey \in {disk.mkey, new}
      /\ disk'.dflt = disk.dflt /\ disk'.pool = disk.pool /\ OnDisk' = OnDisk
  BY <1>1, <1>2 DEF KeysTypes, IsDisk, OnDisk
<1>5. KeysTypes'
  BY <1>1, <1>2, <1>4 DEF KeysTypes
<1>6. DiskSound' /\ TxnSound'
  BY <1>1, <1>2, <1>3, <1>4 DEF DiskSound, TxnSound, Given
<1>7. MemorySound'
  BY <1>1, <1>2, <1>4 DEF MemorySound
<1>8. KeysApart => KeysApart'
  BY <1>2, <1>4 DEF KeysApart, Given
<1> QED  BY <1>1, <1>2, <1>5, <1>6, <1>7, <1>8 DEF KeysInv

LEMMA EncryptBeginKeeps ==
    ASSUME KeysInv, NEW p \in Passphrases, EncryptBegin(p)
    PROVE  KeysInv'
<1>1. KeysTypes /\ DiskSound /\ MemorySound /\ TxnSound /\ (stale \/ KeysApart)
  BY KeysInvGives
<1>2. /\ status = "up" /\ job.step = "none" /\ ~fUseCrypto
      /\ \/ job' = [step |-> "keys", pass |-> p] /\ txn' = <<[disk EXCEPT !.mkey = p]>>
         \/ UNCHANGED <<job, txn>>
      /\ UNCHANGED <<status, mapKeys, fUseCrypto, setKeyPool, vchDefaultKey, disk, reserve, nKey,
                     used, stale>>
  BY DEF EncryptBegin, Idle
<1>3. CASE UNCHANGED <<job, txn>>
  BY <1>2, <1>3, OtherKeeps
<1>4. CASE job' = [step |-> "keys", pass |-> p] /\ txn' = <<[disk EXCEPT !.mkey = p]>>
  <2>1. txn'[1] = [disk EXCEPT !.mkey = p]
    BY <1>4
  <2>2. IsDisk(txn'[1]) /\ txn'[1].mkey = p /\ txn'[1].dflt = disk.dflt /\ p # None
    BY <1>1, <2>1, WalletKeysAssumption DEF KeysTypes, IsDisk, None
  <2>3. KeysTypes'
    BY <1>1, <1>2, <1>4 DEF KeysTypes, OnDisk
  <2>4. DiskSound'
    BY <1>1, <1>2 DEF DiskSound, OnDisk, Given
  <2>5. MemorySound'
    BY <1>1, <1>2, <1>4 DEF MemorySound, OnDisk
  <2>6. TxnSound'
    BY <1>1, <1>2, <1>4, <2>2 DEF TxnSound, DiskSound, MemorySound
  <2>7. KeysApart => KeysApart'
    BY <1>2, <1>4 DEF KeysApart, Given
  <2> QED  BY <1>1, <1>2, <2>3, <2>4, <2>5, <2>6, <2>7 DEF KeysInv
<1> QED  BY <1>2, <1>3, <1>4

LEMMA EncryptKeysKeeps ==
    ASSUME KeysInv, EncryptKeys
    PROVE  KeysInv'
<1>1. KeysTypes /\ DiskSound /\ MemorySound /\ TxnSound /\ (stale \/ KeysApart)
  BY KeysInvGives
<1>2. /\ status = "up" /\ job.step = "keys" /\ job' = [job EXCEPT !.step = "commit"] /\ fUseCrypto' = TRUE
      /\ txn' = <<[txn[1] EXCEPT !.ckey = mapKeys, !.key = {}]>>
      /\ UNCHANGED <<status, mapKeys, setKeyPool, vchDefaultKey, disk, reserve, nKey, used, stale>>
  BY DEF EncryptKeys
<1>3. IsDisk(txn[1]) /\ txn[1].mkey # None /\ (txn[1].dflt # None => txn[1].dflt \in mapKeys)
  BY <1>1, <1>2 DEF TxnSound
<1>4. txn'[1] = [txn[1] EXCEPT !.ckey = mapKeys, !.key = {}]
  BY <1>2
<1>5. /\ IsDisk(txn'[1]) /\ txn'[1].mkey = txn[1].mkey /\ txn'[1].dflt = txn[1].dflt
      /\ txn'[1].ckey = mapKeys /\ txn'[1].key = {}
  BY <1>3, <1>4 DEF IsDisk
<1>6. DOMAIN job' = DOMAIN job /\ job'.step = "commit"
  BY <1>1, <1>2 DEF KeysTypes
<1>7. fUseCrypto' /\ fUseCrypto' \in BOOLEAN
  BY <1>2
<1>8. KeysTypes'
  BY <1>1, <1>2, <1>6, <1>7 DEF KeysTypes, OnDisk
<1>9. DiskSound'
  BY <1>1, <1>2 DEF DiskSound, OnDisk, Given
<1>10. MemorySound'
  BY <1>1, <1>2, <1>6, <1>7 DEF MemorySound, OnDisk
<1>11. TxnSound'
  BY <1>2, <1>3, <1>5 DEF TxnSound
<1>12. KeysApart => KeysApart'
  BY <1>2, <1>6 DEF KeysApart, Given
<1> QED  BY <1>1, <1>2, <1>8, <1>9, <1>10, <1>11, <1>12 DEF KeysInv

\* The commit exchanges the plain keys for encrypted ones at once.
LEMMA EncryptCommitKeeps ==
    ASSUME KeysInv, EncryptCommit
    PROVE  KeysInv'
<1>1. KeysTypes /\ DiskSound /\ MemorySound /\ TxnSound /\ (stale \/ KeysApart)
  BY KeysInvGives
<1>2. /\ status = "up" /\ job.step = "commit" /\ job' = [step |-> "erase"]
      /\ disk' = [txn[1] EXCEPT !.pool = disk.pool]
      /\ UNCHANGED <<status, mapKeys, fUseCrypto, setKeyPool, vchDefaultKey, reserve, nKey, used, stale>>
  BY DEF EncryptCommit
<1>3. /\ IsDisk(txn[1]) /\ txn[1].mkey # None /\ (txn[1].dflt # None => txn[1].dflt \in mapKeys)
      /\ txn[1].ckey = mapKeys /\ txn[1].key = {}
  BY <1>1, <1>2 DEF TxnSound
<1>4. mapKeys = OnDisk /\ mapKeys # {} /\ fUseCrypto
  BY <1>1, <1>2 DEF MemorySound
<1>5. /\ IsDisk(disk') /\ disk'.mkey = txn[1].mkey /\ disk'.dflt = txn[1].dflt
      /\ disk'.ckey = mapKeys /\ disk'.key = {} /\ disk'.pool = disk.pool
  BY <1>2, <1>3 DEF IsDisk
<1>6. OnDisk' = OnDisk
  BY <1>4, <1>5 DEF OnDisk
<1>7. KeysTypes'
  BY <1>1, <1>2, <1>5, <1>6 DEF KeysTypes
<1>8. DiskSound'
  BY <1>1, <1>2, <1>3, <1>4, <1>5, <1>6 DEF DiskSound, Given
<1>9. MemorySound' /\ TxnSound'
  BY <1>1, <1>2, <1>4, <1>5, <1>6 DEF MemorySound, TxnSound
<1>10. KeysApart => KeysApart'
  BY <1>2, <1>5 DEF KeysApart, Given
<1> QED  BY <1>1, <1>2, <1>7, <1>8, <1>9, <1>10 DEF KeysInv

LEMMA NewPoolEraseKeeps ==
    ASSUME KeysInv, NewPoolErase
    PROVE  KeysInv'
<1>1. KeysTypes /\ DiskSound /\ MemorySound /\ TxnSound /\ (stale \/ KeysApart)
  BY KeysInvGives
<1>2. /\ status = "up" /\ job.step = "erase"
      /\ UNCHANGED <<status, mapKeys, fUseCrypto, vchDefaultKey, txn, reserve, nKey, used, stale>>
  BY DEF NewPoolErase
<1>3. mapKeys = OnDisk /\ (fUseCrypto <=> disk.ckey # {}) /\ mapKeys # {}
  BY <1>1, <1>2 DEF MemorySound
<1>4. ASSUME setKeyPool' = {}, job' = TakeJob("new", None), disk' = disk PROVE KeysInv'
  <2>1. job' = [step |-> "fill", op |-> "new", holder |-> None, made |-> 0]
    BY <1>4 DEF TakeJob
  <2>2. Bounded({})
    BY DEF Bounded
  <2>3. KeysTypes'
    BY <1>1, <1>2, <1>4, <2>1, <2>2 DEF KeysTypes, OnDisk
  <2>4. DiskSound' /\ TxnSound'
    BY <1>1, <1>2, <1>4, <2>1 DEF DiskSound, TxnSound, OnDisk, Given
  <2>5. MemorySound'
    BY <1>1, <1>2, <1>3, <1>4, <2>1 DEF MemorySound, OnDisk
  <2>6. KeysApart => KeysApart'
    BY <1>2, <1>4, <2>1 DEF KeysApart, Given
  <2> QED  BY <1>1, <1>2, <2>3, <2>4, <2>5, <2>6 DEF KeysInv
<1>5. ASSUME NEW i \in setKeyPool, ErasePool(i), UNCHANGED <<setKeyPool, job>> PROVE KeysInv'
  <2>1. disk' = [disk EXCEPT !.pool = [j \in DOMAIN @ \ {i} |-> @[j]]]
    BY <1>5 DEF ErasePool
  <2>2. /\ IsDisk(disk') /\ disk'.key = disk.key /\ disk'.ckey = disk.ckey /\ disk'.mkey = disk.mkey
        /\ disk'.dflt = disk.dflt
        /\ DOMAIN disk'.pool = DOMAIN disk.pool \ {i}
        /\ \A j \in DOMAIN disk'.pool : disk'.pool[j] = disk.pool[j]
    BY <1>1, <2>1 DEF KeysTypes, IsDisk
  <2>3. OnDisk' = OnDisk /\ Bounded(DOMAIN disk'.pool)
    BY <1>1, <2>2 DEF OnDisk, KeysTypes, Bounded
  <2>4. KeysTypes'
    BY <1>1, <1>2, <1>5, <2>2, <2>3 DEF KeysTypes
  <2>5. DiskSound' /\ TxnSound'
    BY <1>1, <1>2, <1>5, <2>2, <2>3 DEF DiskSound, TxnSound, Given
  <2>6. MemorySound'
    BY <1>1, <1>2, <1>3, <1>5, <2>2, <2>3 DEF MemorySound
  <2>7. ASSUME KeysApart PROVE KeysApart'
    <3>1. \A h \in Holders : reserve[h].nIndex # NoIndex => reserve[h].nIndex # i
      BY <1>5, <2>7 DEF KeysApart
    <3> QED  BY <1>2, <1>5, <2>2, <2>7, <3>1 DEF KeysApart, Given
  <2> QED  BY <1>1, <1>2, <2>4, <2>5, <2>6, <2>7 DEF KeysInv
<1> QED  BY <1>4, <1>5 DEF NewPoolErase

LEMMA EncryptDoneKeeps ==
    ASSUME KeysInv, EncryptDone
    PROVE  KeysInv'
<1>1. KeysTypes /\ DiskSound /\ MemorySound /\ TxnSound /\ (stale \/ KeysApart)
  BY KeysInvGives
<1>2. /\ status = "up" /\ job.step = "fill" /\ job.op = "new" /\ job' = [step |-> "none"]
      /\ UNCHANGED <<status, mapKeys, fUseCrypto, setKeyPool, vchDefaultKey, disk, txn, reserve, nKey,
                     used, stale>>
  BY DEF EncryptDone, NoJob
<1>3. KeysTypes'
  BY <1>1, <1>2 DEF KeysTypes, OnDisk
<1>4. DiskSound' /\ TxnSound'
  BY <1>1, <1>2 DEF DiskSound, TxnSound, OnDisk, Given
<1>5. MemorySound'
  BY <1>1, <1>2 DEF MemorySound, OnDisk
<1>6. KeysApart => KeysApart'
  BY <1>2 DEF KeysApart, Given
<1> QED  BY <1>1, <1>2, <1>3, <1>4, <1>5, <1>6 DEF KeysInv
----------------------------------------------------------------------------

LEMMA WalletInitHolds == WalletInit => KeysInv
<1> SUFFICES ASSUME WalletInit PROVE KeysInv
  OBVIOUS
<1>1. /\ status = "down" /\ ~fUseCrypto /\ fUseCrypto \in BOOLEAN /\ setKeyPool = {} /\ vchDefaultKey = None
      /\ job = [step |-> "none"] /\ reserve = [h \in Holders |-> NoReserve] /\ used = <<>>
      /\ ~stale /\ stale \in BOOLEAN
  BY DEF WalletInit, NoJob
<1>2. /\ NoReserve \in Reservations
      /\ \A h \in Holders : reserve[h].nIndex = NoIndex /\ reserve[h].vchPubKey = None
  BY <1>1 DEF NoReserve, NoIndex, None, Reservations
<1>3. Given = {} /\ used \in Seq(Nat) /\ DOMAIN used = {}
  BY <1>1 DEF Given
<1>4. Bounded({}) /\ Bounded({1})
  BY DEF Bounded
<1>5. /\ IsDisk(disk) /\ disk.key = {} /\ disk.dflt = None /\ nKey \in Nat
      /\ \/ disk.ckey = {} /\ disk.mkey = None /\ DOMAIN disk.pool = {}
         \/ disk.ckey = {1} /\ disk.mkey # None /\ DOMAIN disk.pool = {1} /\ disk.pool[1] = 1 /\ nKey = 1
  <2> DEFINE Old(p) == [EmptyDisk EXCEPT !.ckey = {1}, !.mkey = p, !.pool = [i \in {1} |-> 1], !.old = TRUE]
  <2>1. \/ disk = EmptyDisk /\ nKey = 0
        \/ \E p \in Passphrases : disk = Old(p) /\ nKey = 1
    BY DEF WalletInit
  <2>2. ASSUME disk = EmptyDisk
        PROVE  /\ IsDisk(disk) /\ disk.key = {} /\ disk.dflt = None
               /\ disk.ckey = {} /\ disk.mkey = None /\ DOMAIN disk.pool = {}
    BY <2>2 DEF EmptyDisk, IsDisk, None
  <2>3. ASSUME NEW p \in Passphrases, disk = Old(p)
        PROVE  /\ IsDisk(disk) /\ disk.key = {} /\ disk.dflt = None
               /\ disk.ckey = {1} /\ disk.mkey # None /\ DOMAIN disk.pool = {1} /\ disk.pool[1] = 1
    <3>1. disk = [key |-> {}, ckey |-> {1}, mkey |-> p, pool |-> [i \in {1} |-> 1], dflt |-> None, old |-> TRUE]
      BY <2>3 DEF EmptyDisk
    <3>2. p # None
      BY WalletKeysAssumption DEF None
    <3>3. None \in Nat
      BY DEF None
    <3> QED  BY <3>1, <3>2, <3>3 DEF IsDisk
  <2> HIDE DEF Old
  <2>4. CASE disk = EmptyDisk /\ nKey = 0
    BY <2>2, <2>4
  <2>5. ASSUME NEW p \in Passphrases, disk = Old(p), nKey = 1
        PROVE  /\ IsDisk(disk) /\ disk.key = {} /\ disk.dflt = None /\ nKey \in Nat
               /\ disk.ckey = {1} /\ disk.mkey # None /\ DOMAIN disk.pool = {1} /\ disk.pool[1] = 1
    <3>1. nKey \in Nat
      BY <2>5
    <3> QED  BY <2>3, <2>5, <3>1
  <2>6. CASE \E p \in Passphrases : disk = Old(p) /\ nKey = 1
    BY <2>5, <2>6
  <2> QED  BY <2>1, <2>4, <2>6
<1>6. KeysTypes
  <2>1. OnDisk \subseteq 1..nKey
    BY <1>5 DEF OnDisk
  <2>2. DOMAIN disk.pool = {} \/ DOMAIN disk.pool = {1}
    BY <1>5
  <2>3. Bounded(DOMAIN disk.pool)
    BY <1>4, <2>2
  <2>4. Bounded(setKeyPool)
    BY <1>1, <1>4
  <2>5. reserve \in [Holders -> Reservations] /\ vchDefaultKey \in Nat
    BY <1>1, <1>2 DEF None
  <2>6. job.step = "none"
    BY <1>1
  <2> QED  BY <1>1, <1>3, <1>5, <2>1, <2>3, <2>4, <2>5, <2>6 DEF KeysTypes
<1>7. DiskSound /\ MemorySound /\ TxnSound
  BY <1>1, <1>2, <1>3, <1>5 DEF DiskSound, MemorySound, TxnSound, OnDisk
<1>8. KeysApart
  BY <1>1, <1>2, <1>3, <1>5 DEF KeysApart
<1> QED  BY <1>6, <1>7, <1>8 DEF KeysInv

LEMMA WalletNextHolds == KeysInv /\ [WalletNext]_walletVars => KeysInv'
<1> SUFFICES ASSUME KeysInv, [WalletNext]_walletVars PROVE KeysInv'
  OBVIOUS
<1>1. ASSUME NEW h \in Holders, Reserve(h) PROVE KeysInv'
  BY <1>1, StartTakeKeeps DEF Reserve
<1>2. ASSUME GetKeyFromPool PROVE KeysInv'
  BY <1>2, StartTakeKeeps DEF GetKeyFromPool
<1>3. ASSUME NEW h \in Holders, KeepKey(h) \/ ReturnKey(h) PROVE KeysInv'
  BY <1>3, KeepKeyKeeps, ReturnKeyKeeps
<1>4. ASSUME NEW p, Lock \/ Unlock(p) PROVE KeysInv'
  BY <1>4, OtherKeeps DEF Lock, Unlock
<1>5. ASSUME NEW p \in Passphrases, EncryptBegin(p) PROVE KeysInv'
  BY <1>5, EncryptBeginKeeps
<1>6. ASSUME NEW p \in Passphrases, NEW q \in Passphrases, ChangeWalletPassphrase(p, q) PROVE KeysInv'
  BY <1>6, PassphraseKeeps
<1>7. ASSUME UNCHANGED walletVars PROVE KeysInv'
  BY <1>7, OtherKeeps DEF walletVars, walletMem
<1> QED  BY <1>1, <1>2, <1>3, <1>4, <1>5, <1>6, <1>7, LoadWalletKeeps, CrashKeeps, FillGenerateKeeps,
            FillWriteKeeps, TakeKeeps, EncryptKeysKeeps, EncryptCommitKeeps, NewPoolEraseKeeps,
            EncryptDoneKeeps DEF WalletNext

LEMMA WalletHolds == WalletSpec => []KeysInv
<1> QED  BY WalletInitHolds, WalletNextHolds, PTL DEF WalletSpec

\* Whatever step of an encryption, of a top up or of a reservation the program ends at, wallet.dat
\* loads again with every key that was given away, under one master key or under none.
THEOREM KeysAlwaysSurvive == WalletSpec => []KeysSurvive
<1>1. KeysInv => KeysSurvive
  <2> SUFFICES ASSUME KeysInv PROVE KeysSurvive
    OBVIOUS
  <2>1. status # "DB_CORRUPT" /\ DiskSound
    BY DEF KeysInv, KeysTypes
  <2> QED  BY <2>1 DEF DiskSound, KeysSurvive, OnDisk, Given
<1> QED  BY <1>1, WalletHolds, PTL

\* A key of the pool is given away once, across crashes too, and no index is reserved twice: as
\* long as NewKeyPool wrote no record at an index that was reserved.
THEOREM KeysGivenOnce == WalletSpec => []GivenOnce
<1>1. KeysInv => GivenOnce
  <2> SUFFICES ASSUME KeysInv, KeysApart PROVE GivenOnce
    BY DEF KeysInv, GivenOnce
  <2>1. \A h \in Holders : reserve[h].nIndex # NoIndex => reserve[h].vchPubKey \notin Given
    BY DEF KeysApart
  <2>2. \A h \in Holders : reserve[h].nIndex # NoIndex =>
            /\ \A g \in Holders \ {h} : reserve[g].nIndex # reserve[h].nIndex
            /\ reserve[h].nIndex \notin setKeyPool
    BY DEF KeysApart
  <2>3. \A i, j \in DOMAIN used : i # j => used[i] # used[j]
    BY DEF KeysApart
  <2> QED  BY <2>1, <2>2, <2>3 DEF GivenOnce, Given
<1> QED  BY <1>1, WalletHolds, PTL

----------------------------------------------------------------------------
(* The transactions of the wallet: positions and spent flags.              *)

Entry == [pos : Int, spent : BOOLEAN]

\* The positions of the transactions w are below the next one and no two are the same.
Placed(w, next) ==
    /\ w \in [DOMAIN w -> Entry] /\ next \in Int
    /\ \A t \in DOMAIN w : w[t].pos < next
    /\ \A t, u \in DOMAIN w : t # u => w[t].pos # w[u].pos

\* A wallet.dat that loads well.
FilePlaced(d) ==
    /\ d = [tx |-> d.tx, next |-> d.next, best |-> d.best] /\ d.best \in Nat
    /\ Placed(d.tx, d.next)

\* Memory and disk agree on the positions.
PlacesAgree ==
    /\ FilePlaced(walletDat) /\ FilePlaced(oldCopy)
    /\ running # "down" =>
          /\ Placed(mapWallet, nOrderPosNext) /\ walletDat.next = nOrderPosNext
          /\ DOMAIN walletDat.tx \subseteq DOMAIN mapWallet
          /\ \A t \in DOMAIN walletDat.tx : walletDat.tx[t].pos = mapWallet[t].pos

Known == Foreign \cup DOMAIN ins

TxTypes ==
    /\ ins \in Seq(SUBSET Known) /\ Len(ins) <= MaxSends
    /\ chain \in Seq(Foreign \cup Sends) /\ scanned \in Nat
    /\ sending \in [Senders -> Nat] /\ running \in {"down", "scan", "up", "missing"}
    /\ reaccepted \in BOOLEAN
    /\ InChain \cup pool \cup DOMAIN mapWallet \cup DOMAIN walletDat.tx \cup DOMAIN oldCopy.tx \subseteq Known

\* What AddToWallet was given, and by whom.
AddingKnown ==
    \/ adding = NotAdding
    \/ /\ adding = [tx |-> adding.tx, from |-> adding.from, step |-> adding.step]
       /\ adding.step \in {"order", "write", "spent", "accept"} /\ running # "down"
       /\ adding.tx \in Known
       /\ adding.step = "order" <=> adding.tx \notin DOMAIN mapWallet
       /\ IF adding.from \in Senders THEN adding.tx = sending[adding.from] /\ adding.tx # 0
                                     ELSE adding.tx \in Foreign \cup InChain /\ adding.step # "accept"

\* A payment that a thread is about to commit is its own and nobody else has it.
SendingApart ==
    \A s \in Senders : sending[s] # 0 =>
        /\ running # "down" /\ sending[s] \in DOMAIN ins \ (InChain \cup pool)
        /\ sending[s] \in DOMAIN mapWallet => adding.step # "none" /\ adding.from = s
        /\ \A r \in Senders \ {s} : sending[r] # sending[s]

\* The chain has what its transactions spend.
ChainClosed == \A u \in InChain : InsOf(u) \subseteq InChain

\* Only the transaction that AddToWallet is at spends a coin in the chain whose flag is not set.
FlagsFollow ==
    /\ running \in {"scan", "missing"} => ~reaccepted
    /\ running = "up" /\ reaccepted =>
          \A t \in DOMAIN mapWallet, u \in InChain :
              t \in InsOf(u) /\ ~mapWallet[t].spent =>
                  adding.step \in {"order", "write", "spent"} /\ adding.tx = u
    /\ running = "up" /\ adding.step = "order" => \A u \in InChain : adding.tx \notin InsOf(u)

TxInv == PlacesAgree /\ TxTypes /\ AddingKnown /\ SendingApart /\ ChainClosed /\ FlagsFollow

----------------------------------------------------------------------------
LEMMA PlacedAsMemory ==
    ASSUME NEW m, NEW next, NEW d, Placed(m, next), d \in [DOMAIN d -> Entry], DOMAIN d \subseteq DOMAIN m,
           \A t \in DOMAIN d : d[t].pos = m[t].pos
    PROVE  Placed(d, next)
  BY DEF Placed

LEMMA PlacedNext ==
    ASSUME NEW m, NEW next, NEW x, x \notin DOMAIN m, Placed(m, next)
    PROVE  Placed(Entered(m, x, [pos |-> next, spent |-> FALSE]), next + 1)
<1> DEFINE v == [pos |-> next, spent |-> FALSE]
           p == Entered(m, x, v)
<1>1. v \in Entry /\ v.pos = next /\ next \in Int
  BY DEF Placed, Entry
<1>2. m \in [DOMAIN m -> Entry]
  BY DEF Placed
<1> HIDE DEF v
<1>3. /\ DOMAIN p = DOMAIN m \cup {x} /\ p[x] = v
      /\ \A t \in DOMAIN m : p[t] = m[t]
      /\ p \in [DOMAIN p -> Entry]
  BY <1>1, <1>2 DEF Entered
<1> HIDE DEF p
<1>4. \A t \in DOMAIN m : m[t].pos < next /\ m[t].pos \in Int
  BY <1>2 DEF Placed, Entry
<1>5. \A t \in DOMAIN p : p[t].pos < next + 1
  BY <1>1, <1>3, <1>4
<1>6. \A t, u \in DOMAIN p : t # u => p[t].pos # p[u].pos
  <2> TAKE t, u \in DOMAIN p
  <2> HAVE t # u
  <2>1. CASE t = x
    BY <2>1, <1>1, <1>3, <1>4
  <2>2. CASE u = x
    BY <2>2, <1>1, <1>3, <1>4
  <2>3. CASE t # x /\ u # x
    BY <2>3, <1>3 DEF Placed
  <2> QED
    BY <2>1, <2>2, <2>3
<1>7. Placed(p, next + 1)
  BY <1>1, <1>3, <1>5, <1>6 DEF Placed
<1> QED
  BY <1>7 DEF p, v

\* A file whose next position is put ahead is still in order.
LEMMA PlacedLater ==
    ASSUME NEW m, NEW next, Placed(m, next)
    PROVE  Placed(m, next + 1)
  BY DEF Placed, Entry

\* The frame of the actions that leave wallet and file alone.
LEMMA PlacesStay ==
    ASSUME PlacesAgree, UNCHANGED <<running, mapWallet, nOrderPosNext, walletDat, oldCopy>>
    PROVE  PlacesAgree'
  BY DEF PlacesAgree, FilePlaced, Placed

----------------------------------------------------------------------------
LEMMA TxInitHolds == TxInit => TxInv
<1> SUFFICES ASSUME TxInit PROVE TxInv
  OBVIOUS
<1> USE WalletTxsAssumption
<1>1. ins = <<>> /\ chain = <<>> /\ Len(ins) = 0 /\ DOMAIN ins = {} /\ mapWallet = <<>> /\ DOMAIN mapWallet = {}
  BY DEF TxInit
<1>2. InChain = {}
  BY <1>1 DEF InChain, ToSet
<1>3. FilePlaced(walletDat) /\ walletDat = oldCopy /\ walletDat.tx = <<>> /\ walletDat.next = 0
  BY DEF TxInit, FilePlaced, Placed, Entry
<1>4. PlacesAgree
  BY <1>3, <1>1 DEF PlacesAgree, TxInit, Placed, Entry
<1>5. TxTypes
  BY <1>1, <1>2, <1>3 DEF TxInit, TxTypes, Known
<1>6. AddingKnown /\ SendingApart /\ ChainClosed /\ FlagsFollow
  BY <1>1, <1>2 DEF TxInit, AddingKnown, SendingApart, ChainClosed, FlagsFollow
<1> QED
  BY <1>4, <1>5, <1>6 DEF TxInv

\* A transaction of the wallet, with or without its flag, is written.
LEMMA WroteAgrees ==
    ASSUME PlacesAgree, running # "down", UNCHANGED <<running, nOrderPosNext, oldCopy>>,
           NEW u \in DOMAIN mapWallet, DOMAIN mapWallet' = DOMAIN mapWallet,
           mapWallet' \in [DOMAIN mapWallet -> Entry],
           \A t \in DOMAIN mapWallet : mapWallet'[t].pos = mapWallet[t].pos,
           walletDat' = [walletDat EXCEPT !.tx = Entered(@, u, mapWallet'[u])]
    PROVE  PlacesAgree' /\ DOMAIN walletDat'.tx \subseteq DOMAIN mapWallet
<1> DEFINE d == Entered(walletDat.tx, u, mapWallet'[u])
<1>1. /\ FilePlaced(walletDat) /\ FilePlaced(oldCopy) /\ Placed(mapWallet, nOrderPosNext)
      /\ walletDat.next = nOrderPosNext /\ DOMAIN walletDat.tx \subseteq DOMAIN mapWallet
      /\ \A t \in DOMAIN walletDat.tx : walletDat.tx[t].pos = mapWallet[t].pos
  BY DEF PlacesAgree
<1>2. walletDat' = [tx |-> d, next |-> nOrderPosNext, best |-> walletDat.best] /\ walletDat.best \in Nat
  BY <1>1 DEF FilePlaced
<1>3. Placed(mapWallet', nOrderPosNext)
  BY <1>1, PlacedAsMemory
<1>4. walletDat.tx \in [DOMAIN walletDat.tx -> Entry]
  BY <1>1 DEF FilePlaced, Placed
<1>5. /\ DOMAIN d = DOMAIN walletDat.tx \cup {u} /\ d \in [DOMAIN d -> Entry]
      /\ \A t \in DOMAIN d : d[t].pos = mapWallet'[t].pos
  BY <1>1, <1>4 DEF Entered
<1> HIDE DEF d
<1>6. Placed(d, nOrderPosNext)
  BY <1>1, <1>3, <1>5, PlacedAsMemory
<1>7. FilePlaced(walletDat)' /\ FilePlaced(oldCopy)'
  BY <1>1, <1>2, <1>6 DEF FilePlaced, Placed
<1>8. Placed(mapWallet, nOrderPosNext)'
  BY <1>3 DEF Placed
<1>9. walletDat'.tx = d /\ walletDat'.next = nOrderPosNext
  BY <1>2
<1>10. DOMAIN d \subseteq DOMAIN mapWallet /\ DOMAIN d \subseteq DOMAIN mapWallet'
  BY <1>1, <1>5
<1>11. PlacesAgree'
  BY <1>5, <1>7, <1>8, <1>9, <1>10 DEF PlacesAgree
<1> QED
  BY <1>9, <1>10, <1>11

\* What AddToWallet is at, while it has something.
LEMMA AddingIs ==
    ASSUME AddingKnown, adding.step # "none"
    PROVE  /\ adding = [tx |-> adding.tx, from |-> adding.from, step |-> adding.step]
           /\ adding.step \in {"order", "write", "spent", "accept"} /\ running # "down"
           /\ adding.tx \in Known
           /\ adding.step = "order" <=> adding.tx \notin DOMAIN mapWallet
           /\ adding.from \in Senders => adding.tx = sending[adding.from] /\ adding.tx # 0
           /\ adding.from \notin Senders => adding.tx \in Foreign \cup InChain /\ adding.step # "accept"
  BY DEF AddingKnown, NotAdding

\* A payment that is about to be committed is neither a transaction of others nor in the chain.
LEMMA SendingIsOurs ==
    ASSUME TxTypes, SendingApart, NEW s \in Senders, sending[s] # 0
    PROVE  sending[s] \notin Foreign \cup InChain \cup pool /\ sending[s] \in Sends
<1>1. sending[s] \in DOMAIN ins /\ sending[s] \notin InChain \cup pool
  BY DEF SendingApart
<1>2. DOMAIN ins = 1 .. Len(ins) /\ Len(ins) \in Nat /\ Len(ins) <= MaxSends
  BY DEF TxTypes
<1>3. sending[s] \in Sends
  BY <1>1, <1>2, WalletTxsAssumption DEF Sends
<1> QED
  BY <1>1, <1>3, WalletTxsAssumption DEF Foreign

LEMMA AddOrderKeeps == TxInv /\ AddOrder => TxInv'
<1> SUFFICES ASSUME TxInv, AddOrder PROVE TxInv'
  OBVIOUS
<1>1. PlacesAgree /\ TxTypes /\ AddingKnown /\ SendingApart /\ ChainClosed /\ FlagsFollow
  BY DEF TxInv
<1> DEFINE x == adding.tx
           v == [pos |-> nOrderPosNext, spent |-> FALSE]
           m == Entered(mapWallet, x, v)
<1>2. /\ running # "down" /\ adding.step = "order" /\ mapWallet' = m /\ nOrderPosNext' = nOrderPosNext + 1
      /\ walletDat' = [walletDat EXCEPT !.next = nOrderPosNext + 1]
      /\ adding' = [adding EXCEPT !.step = "write"]
      /\ UNCHANGED <<running, scanned, reaccepted, oldCopy, ins, sending, chain, pool, refused, stops>>
  BY DEF AddOrder
<1>3. x \notin DOMAIN mapWallet /\ x \in Known
  BY <1>1, <1>2, AddingIs
<1>4. adding' = [tx |-> x, from |-> adding.from, step |-> "write"]
  BY <1>1, <1>2, AddingIs
<1>5. Placed(mapWallet, nOrderPosNext) /\ FilePlaced(walletDat) /\ walletDat.next = nOrderPosNext
  BY <1>1, <1>2 DEF PlacesAgree
<1>6. Placed(m, nOrderPosNext + 1)
  BY <1>3, <1>5, PlacedNext
<1>7. walletDat' = [tx |-> walletDat.tx, next |-> nOrderPosNext + 1, best |-> walletDat.best]
  BY <1>2, <1>5 DEF FilePlaced
<1>8. FilePlaced(walletDat')
  BY <1>5, <1>7, PlacedLater DEF FilePlaced
<1>9. DOMAIN m = DOMAIN mapWallet \cup {x} /\ m[x] = v /\ \A t \in DOMAIN mapWallet : m[t] = mapWallet[t]
  BY <1>3 DEF Entered
<1> HIDE DEF m
<1>10. PlacesAgree'
  <2>1. FilePlaced(oldCopy)'
    BY <1>1, <1>2 DEF PlacesAgree, FilePlaced, Placed
  <2>2. FilePlaced(walletDat)'
    BY <1>8 DEF FilePlaced, Placed
  <2>3. Placed(mapWallet, nOrderPosNext)'
    BY <1>2, <1>6 DEF Placed
  <2> QED
    BY <1>1, <1>2, <1>7, <1>9, <2>1, <2>2, <2>3 DEF PlacesAgree
<1>11. Known' = Known /\ InChain' = InChain /\ \A t : InsOf(t)' = InsOf(t)
  BY <1>2 DEF Known, InChain, InsOf
<1>12. TxTypes'
  BY <1>1, <1>2, <1>3, <1>7, <1>9, <1>11 DEF TxTypes
<1>13. AddingKnown'
  <2>1. adding.from \in Senders => x = sending[adding.from] /\ x # 0
    BY <1>1, <1>2, AddingIs
  <2>2. adding.from \notin Senders => x \in Foreign \cup InChain
    BY <1>1, <1>2, AddingIs
  <2> QED
    BY <1>2, <1>3, <1>4, <1>9, <1>11, <2>1, <2>2 DEF AddingKnown
<1>14. SendingApart'
  <2> SUFFICES ASSUME NEW s \in Senders, sending[s] # 0, sending[s] \in DOMAIN m
               PROVE  adding.from = s
    BY <1>1, <1>2, <1>4, <1>11 DEF SendingApart
  <2>1. CASE sending[s] = x
    <3>1. adding.from \in Senders
      BY <1>1, <1>2, <2>1, AddingIs, SendingIsOurs
    <3> QED
      BY <1>1, <1>2, <2>1, <3>1, AddingIs DEF SendingApart
  <2>2. CASE sending[s] # x
    BY <1>1, <1>2, <1>9, <2>2 DEF SendingApart
  <2> QED
    BY <2>1, <2>2
<1>15. ChainClosed' /\ FlagsFollow'
  <2>1. ChainClosed'
    BY <1>1, <1>11 DEF ChainClosed
  <2>2. ASSUME NEW t \in DOMAIN m, NEW u \in InChain, t \in InsOf(u), ~m[t].spent, running = "up", reaccepted
        PROVE  x = u
    <3>1. t # x
      BY <1>1, <1>2, <2>2 DEF FlagsFollow
    <3> QED
      BY <1>1, <1>2, <1>9, <2>2, <3>1 DEF FlagsFollow
  <2> QED
    BY <1>1, <1>2, <1>4, <1>11, <2>1, <2>2 DEF FlagsFollow
<1> QED
  BY <1>10, <1>12, <1>13, <1>14, <1>15 DEF TxInv

LEMMA AddWriteKeeps == TxInv /\ AddWrite => TxInv'
<1> SUFFICES ASSUME TxInv, AddWrite PROVE TxInv'
  OBVIOUS
<1>1. PlacesAgree /\ TxTypes /\ AddingKnown /\ SendingApart /\ ChainClosed /\ FlagsFollow
  BY DEF TxInv
<1> DEFINE x == adding.tx
           d == Entered(walletDat.tx, x, mapWallet[x])
<1>2. /\ running # "down" /\ adding.step = "write" /\ walletDat' = [walletDat EXCEPT !.tx = d]
      /\ adding' = [adding EXCEPT !.step = "spent"]
      /\ UNCHANGED <<running, scanned, reaccepted, mapWallet, nOrderPosNext, oldCopy, ins, sending, chain,
                     pool, refused, stops>>
  BY DEF AddWrite
<1>3. x \in DOMAIN mapWallet /\ x \in Known
  BY <1>1, <1>2, AddingIs
<1>4. adding' = [tx |-> x, from |-> adding.from, step |-> "spent"]
  BY <1>1, <1>2, AddingIs
<1>5. PlacesAgree' /\ DOMAIN walletDat'.tx \subseteq DOMAIN mapWallet
  <2>1. mapWallet \in [DOMAIN mapWallet -> Entry]
    BY <1>1, <1>2 DEF PlacesAgree, Placed
  <2> QED
    BY <1>1, <1>2, <1>3, <2>1, WroteAgrees
<1>6. Known' = Known /\ InChain' = InChain /\ \A t : InsOf(t)' = InsOf(t)
  BY <1>2 DEF Known, InChain, InsOf
<1>7. TxTypes'
  BY <1>1, <1>2, <1>5, <1>6 DEF TxTypes
<1>8. AddingKnown'
  <2>1. adding.from \in Senders => x = sending[adding.from] /\ x # 0
    BY <1>1, <1>2, AddingIs
  <2>2. adding.from \notin Senders => x \in Foreign \cup InChain
    BY <1>1, <1>2, AddingIs
  <2> QED
    BY <1>2, <1>3, <1>4, <1>6, <2>1, <2>2 DEF AddingKnown
<1>9. SendingApart' /\ ChainClosed' /\ FlagsFollow'
  BY <1>1, <1>2, <1>4, <1>6 DEF SendingApart, ChainClosed, FlagsFollow
<1> QED
  BY <1>5, <1>7, <1>8, <1>9 DEF TxInv

LEMMA AddSpentKeeps == TxInv /\ AddSpent => TxInv'
<1> SUFFICES ASSUME TxInv, AddSpent PROVE TxInv'
  OBVIOUS
<1>1. PlacesAgree /\ TxTypes /\ AddingKnown /\ SendingApart /\ ChainClosed /\ FlagsFollow
  BY DEF TxInv
<1>2. /\ running # "down" /\ adding.step = "spent"
      /\ UNCHANGED <<running, scanned, reaccepted, nOrderPosNext, oldCopy, ins, sending, chain, pool,
                     refused, stops>>
  BY DEF AddSpent
<1>3. Known' = Known /\ InChain' = InChain /\ \A t : InsOf(t)' = InsOf(t)
  BY <1>2 DEF Known, InChain, InsOf
<1>4. Placed(mapWallet, nOrderPosNext) /\ mapWallet \in [DOMAIN mapWallet -> Entry]
  BY <1>1, <1>2 DEF PlacesAgree, Placed
<1>5. ASSUME NEW u \in ToMark(adding.tx), mapWallet' = Marked(mapWallet, u),
             walletDat' = [walletDat EXCEPT !.tx = Entered(@, u, mapWallet'[u])], UNCHANGED adding
      PROVE  TxInv'
  <2>1. u \in DOMAIN mapWallet
    BY <1>5 DEF ToMark
  <2> DEFINE m == Marked(mapWallet, u)
  <2>2. /\ DOMAIN m = DOMAIN mapWallet /\ m \in [DOMAIN mapWallet -> Entry]
        /\ \A t \in DOMAIN mapWallet : m[t].pos = mapWallet[t].pos /\ (mapWallet[t].spent => m[t].spent)
    BY <1>4, <2>1 DEF Marked, Entry
  <2> HIDE DEF m
  <2>3. mapWallet' = m
    BY <1>5 DEF m
  <2>4. PlacesAgree' /\ DOMAIN walletDat'.tx \subseteq DOMAIN mapWallet
    BY <1>1, <1>2, <1>5, <2>1, <2>2, <2>3, WroteAgrees
  <2>5. TxTypes'
    BY <1>1, <1>2, <1>3, <2>2, <2>3, <2>4 DEF TxTypes
  <2>6. AddingKnown'
    BY <1>1, <1>2, <1>3, <1>5, <2>2, <2>3 DEF AddingKnown
  <2>7. SendingApart' /\ ChainClosed'
    BY <1>1, <1>2, <1>3, <1>5, <2>2, <2>3 DEF SendingApart, ChainClosed
  <2>8. FlagsFollow'
    BY <1>1, <1>2, <1>3, <1>5, <2>2, <2>3 DEF FlagsFollow
  <2> QED
    BY <2>4, <2>5, <2>6, <2>7, <2>8 DEF TxInv
<1>6. ASSUME ToMark(adding.tx) = {}, UNCHANGED <<mapWallet, walletDat>>,
             adding' = IF adding.from \in Senders THEN [adding EXCEPT !.step = "accept"] ELSE NotAdding
      PROVE  TxInv'
  <2>1. PlacesAgree'
    BY <1>1, <1>2, <1>6, PlacesStay
  <2>2. TxTypes'
    BY <1>1, <1>2, <1>3, <1>6 DEF TxTypes
  <2>3. /\ adding' = NotAdding
        \/ /\ adding' = [tx |-> adding.tx, from |-> adding.from, step |-> "accept"]
           /\ adding.from \in Senders /\ adding.tx = sending[adding.from] /\ adding.tx # 0
    BY <1>1, <1>2, <1>6, AddingIs
  <2>4. AddingKnown'
    BY <1>1, <1>2, <1>3, <1>6, <2>3, AddingIs DEF AddingKnown
  <2>5. SendingApart'
    <3> SUFFICES ASSUME NEW s \in Senders, sending[s] # 0, sending[s] \in DOMAIN mapWallet
                 PROVE  adding'.step # "none" /\ adding'.from = s
      BY <1>1, <1>2, <1>3, <1>6 DEF SendingApart
    <3>1. adding.from = s
      BY <1>1 DEF SendingApart
    <3> QED
      BY <1>1, <1>2, <1>6, <3>1, AddingIs
  <2>6. ChainClosed'
    BY <1>1, <1>3 DEF ChainClosed
  <2>7. FlagsFollow'
    <3>1. ASSUME NEW t \in DOMAIN mapWallet, NEW u \in InChain, t \in InsOf(u), ~mapWallet[t].spent,
                 running = "up", reaccepted
          PROVE  FALSE
      <4>1. adding.tx = u
        BY <1>1, <3>1 DEF FlagsFollow
      <4>2. t \in ToMark(adding.tx)
        BY <3>1, <4>1 DEF ToMark
      <4> QED
        BY <1>6, <4>2
    <3>2. adding'.step # "order"
      BY <2>3 DEF NotAdding
    <3> QED
      BY <1>1, <1>2, <1>3, <1>6, <3>1, <3>2 DEF FlagsFollow
  <2> QED
    BY <2>1, <2>2, <2>4, <2>5, <2>6, <2>7 DEF TxInv
<1> QED
  BY <1>5, <1>6 DEF AddSpent

LEMMA CommitAcceptKeeps == TxInv /\ CommitAccept => TxInv'
<1> SUFFICES ASSUME TxInv, CommitAccept PROVE TxInv'
  OBVIOUS
<1>1. PlacesAgree /\ TxTypes /\ AddingKnown /\ SendingApart /\ ChainClosed /\ FlagsFollow
  BY DEF TxInv
<1> DEFINE x == adding.tx
           from == adding.from
<1>2. /\ running # "down" /\ adding.step = "accept" /\ pool' \in {pool, pool \cup {x}}
      /\ sending' = [sending EXCEPT ![from] = 0] /\ adding' = NotAdding
      /\ UNCHANGED <<running, scanned, reaccepted, mapWallet, nOrderPosNext, walletDat, oldCopy, ins, chain>>
  BY DEF CommitAccept
<1>3. from \in Senders /\ x = sending[from] /\ x # 0 /\ x \in Known
  BY <1>1, <1>2, AddingIs
<1>4. Known' = Known /\ InChain' = InChain /\ \A t : InsOf(t)' = InsOf(t)
  BY <1>2 DEF Known, InChain, InsOf
<1>5. PlacesAgree'
  BY <1>1, <1>2, PlacesStay
<1>6. TxTypes'
  BY <1>1, <1>2, <1>3, <1>4 DEF TxTypes
<1>7. AddingKnown' /\ ChainClosed'
  BY <1>1, <1>2, <1>4 DEF AddingKnown, ChainClosed
<1>8. SendingApart'
  <2>0. sending \in [Senders -> Nat]
    BY <1>1 DEF TxTypes
  <2>1. sending'[from] = 0 /\ \A s \in Senders \ {from} : sending'[s] = sending[s]
    BY <1>2, <1>3, <2>0
  <2> SUFFICES ASSUME NEW s \in Senders \ {from}, sending[s] # 0
               PROVE  /\ sending[s] \in DOMAIN ins \ (InChain \cup pool') /\ sending[s] \notin DOMAIN mapWallet
                      /\ \A r \in Senders \ {s} : sending'[r] # sending[s]
    BY <1>2, <1>4, <2>1 DEF SendingApart
  <2>2. sending[s] # x /\ sending[s] \in DOMAIN ins \ (InChain \cup pool) /\ sending[s] \notin DOMAIN mapWallet
    BY <1>1, <1>3 DEF SendingApart
  <2>3. \A r \in Senders \ {s} : sending'[r] # sending[s]
    BY <1>1, <2>1 DEF SendingApart
  <2> QED
    BY <1>2, <2>2, <2>3
<1>9. FlagsFollow'
  BY <1>1, <1>2, <1>4 DEF FlagsFollow, NotAdding
<1> QED
  BY <1>5, <1>6, <1>7, <1>8, <1>9 DEF TxInv

\* AddToWallet begins with a transaction that the network or the chain gave.
LEMMA StartAddForeign ==
    ASSUME NEW t \in Foreign \cup InChain', t \in Known', NEW from \in {"sync", "scan"}, StartAdd(t, from),
           running' # "down", UNCHANGED mapWallet
    PROVE  /\ AddingKnown' /\ adding'.tx = t /\ adding'.step \in {"order", "spent"}
           /\ adding'.step = "order" <=> t \notin DOMAIN mapWallet
<1>1. adding' = [tx |-> t, from |-> from, step |-> IF t \in DOMAIN mapWallet THEN "spent" ELSE "order"]
  BY DEF StartAdd
<1>2. from \notin Senders
  BY WalletTxsAssumption
<1> QED
  BY <1>1, <1>2 DEF AddingKnown, Foreign

LEMMA RelayedKeeps == \A t \in Foreign : TxInv /\ Relayed(t) => TxInv'
<1> SUFFICES ASSUME NEW t \in Foreign, TxInv, Relayed(t) PROVE TxInv'
  OBVIOUS
<1>1. PlacesAgree /\ TxTypes /\ AddingKnown /\ SendingApart /\ ChainClosed /\ FlagsFollow
  BY DEF TxInv
<1>2. /\ running # "down" /\ adding.step = "none" /\ t \notin InChain
      /\ pool' = pool \cup {t} /\ StartAdd(t, "sync")
      /\ UNCHANGED <<running, scanned, reaccepted, mapWallet, nOrderPosNext, walletDat, oldCopy, ins, sending,
                     chain, refused, stops>>
  BY DEF Relayed, Free
<1>3. Known' = Known /\ InChain' = InChain /\ t \in Known /\ \A u : InsOf(u)' = InsOf(u)
  BY <1>2 DEF Known, InChain, InsOf
<1>4. /\ AddingKnown' /\ adding'.tx = t /\ adding'.step \in {"order", "spent"}
      /\ adding'.step = "order" <=> t \notin DOMAIN mapWallet
  BY <1>2, <1>3, StartAddForeign
<1>5. PlacesAgree'
  BY <1>1, <1>2, PlacesStay
<1>6. TxTypes'
  BY <1>1, <1>2, <1>3 DEF TxTypes
<1>7. SendingApart' /\ ChainClosed'
  <2>1. \A s \in Senders : sending[s] # 0 => sending[s] # t /\ sending[s] \notin DOMAIN mapWallet
    BY <1>1, <1>2, SendingIsOurs DEF SendingApart
  <2> QED
    BY <1>1, <1>2, <1>3, <2>1 DEF SendingApart, ChainClosed
<1>8. FlagsFollow'
  <2>1. \A u \in InChain : t \notin InsOf(u)
    BY <1>1, <1>2 DEF ChainClosed
  <2> QED
    BY <1>1, <1>2, <1>3, <1>4, <2>1 DEF FlagsFollow
<1> QED
  BY <1>4, <1>5, <1>6, <1>7, <1>8 DEF TxInv

LEMMA ConfirmedKeeps == \A t \in Foreign \cup pool : TxInv /\ Confirmed(t) => TxInv'
<1> SUFFICES ASSUME NEW t \in Foreign \cup pool, TxInv, Confirmed(t) PROVE TxInv'
  OBVIOUS
<1>1. PlacesAgree /\ TxTypes /\ AddingKnown /\ SendingApart /\ ChainClosed /\ FlagsFollow
  BY DEF TxInv
<1>2. /\ running = "up" /\ adding.step = "none" /\ t \notin InChain
      /\ InsOf(t) \subseteq InChain /\ chain' = Append(chain, t) /\ StartAdd(t, "sync")
      /\ pool' \subseteq pool /\ t \notin pool'
      /\ UNCHANGED <<running, scanned, reaccepted, mapWallet, nOrderPosNext, walletDat, oldCopy, ins, sending>>
  BY DEF Confirmed, Free
<1>3. Known' = Known /\ t \in Known /\ \A u : InsOf(u)' = InsOf(u)
  BY <1>1, <1>2 DEF Known, InsOf, TxTypes
<1>4. Known \subseteq Foreign \cup Sends
  <2>1. DOMAIN ins = 1 .. Len(ins) /\ Len(ins) \in Nat /\ Len(ins) <= MaxSends
    BY <1>1 DEF TxTypes
  <2> QED
    BY <2>1, WalletTxsAssumption DEF Known, Sends
<1>5. InChain' = InChain \cup {t} /\ chain' \in Seq(Foreign \cup Sends)
  <2>1. chain \in Seq(Foreign \cup Sends) /\ t \in Foreign \cup Sends
    BY <1>1, <1>3, <1>4 DEF TxTypes
  <2>2. /\ Len(chain') = Len(chain) + 1 /\ Len(chain) \in Nat /\ chain'[Len(chain) + 1] = t
        /\ \A i \in 1 .. Len(chain) : chain'[i] = chain[i]
        /\ chain' \in Seq(Foreign \cup Sends)
    BY <1>2, <2>1, AppendProperties
  <2>3. DOMAIN chain' = 1 .. Len(chain) + 1 /\ DOMAIN chain = 1 .. Len(chain)
    BY <2>1, <2>2
  <2> QED
    BY <2>2, <2>3 DEF InChain, ToSet
<1>6. /\ AddingKnown' /\ adding'.tx = t /\ adding'.step \in {"order", "spent"}
      /\ adding'.step = "order" <=> t \notin DOMAIN mapWallet
  BY <1>2, <1>3, <1>5, StartAddForeign
<1>7. PlacesAgree'
  BY <1>1, <1>2, PlacesStay
<1>8. TxTypes'
  BY <1>1, <1>2, <1>3, <1>5 DEF TxTypes
<1>9. SendingApart'
  <2>1. \A s \in Senders : sending[s] # 0 => sending[s] # t /\ sending[s] \notin DOMAIN mapWallet
    BY <1>1, <1>2, SendingIsOurs DEF SendingApart
  <2> QED
    BY <1>1, <1>2, <1>3, <1>5, <2>1 DEF SendingApart
<1>10. ChainClosed'
  BY <1>1, <1>2, <1>3, <1>5 DEF ChainClosed
<1>11. FlagsFollow'
  <2>1. \A u \in InChain' : t \notin InsOf(u)
    BY <1>1, <1>2, <1>5 DEF ChainClosed
  <2>2. ASSUME NEW v \in DOMAIN mapWallet, NEW u \in InChain', v \in InsOf(u), ~mapWallet[v].spent, reaccepted
        PROVE  u = t
    BY <1>1, <1>2, <1>5, <2>2 DEF FlagsFollow
  <2> QED
    BY <1>2, <1>3, <1>6, <2>1, <2>2 DEF FlagsFollow
<1> QED
  BY <1>6, <1>7, <1>8, <1>9, <1>10, <1>11 DEF TxInv

LEMMA BuildPaymentKeeps == \A s \in Senders : TxInv /\ BuildPayment(s) => TxInv'
<1> SUFFICES ASSUME NEW s \in Senders, TxInv, BuildPayment(s) PROVE TxInv'
  OBVIOUS
<1>1. PlacesAgree /\ TxTypes /\ AddingKnown /\ SendingApart /\ ChainClosed /\ FlagsFollow
  BY DEF TxInv
<1>2. PICK S \in (SUBSET Available) \ {{}} : ins' = Append(ins, S)
  BY DEF BuildPayment
<1> DEFINE n == Len(ins) + 1
<1>3. /\ running = "up" /\ adding.step = "none" /\ sending[s] = 0 /\ Len(ins) < MaxSends
      /\ sending' = [sending EXCEPT ![s] = n]
      /\ UNCHANGED <<running, scanned, reaccepted, mapWallet, nOrderPosNext, walletDat, oldCopy, adding, chain,
                     pool, refused, stops>>
  BY DEF BuildPayment, Free
<1>4. ins \in Seq(SUBSET Known) /\ S \in SUBSET Known /\ InChain' = InChain
  BY <1>1, <1>3 DEF TxTypes, Available, InChain
<1>5. /\ DOMAIN ins = 1 .. Len(ins) /\ Len(ins) \in Nat /\ n \in Sends /\ n \notin DOMAIN ins /\ n # 0
      /\ DOMAIN ins' = DOMAIN ins \cup {n} /\ Len(ins') = n /\ ins'[n] = S
      /\ \A i \in DOMAIN ins : ins'[i] = ins[i]
      /\ ins' \in Seq(SUBSET Known)
  <2>1. DOMAIN ins = 1 .. Len(ins) /\ Len(ins) \in Nat
    BY <1>4
  <2>2. Len(ins') = n /\ ins'[n] = S /\ (\A i \in 1 .. Len(ins) : ins'[i] = ins[i]) /\ ins' \in Seq(SUBSET Known)
    BY <1>2, <1>4, AppendProperties
  <2>3. DOMAIN ins' = 1 .. n
    BY <2>2
  <2> QED
    BY <1>3, <2>1, <2>2, <2>3, WalletTxsAssumption DEF Sends
<1> HIDE DEF n
<1>6. n \notin Known /\ Known' = Known \cup {n}
  BY <1>5, WalletTxsAssumption DEF Known, Foreign
<1>7. ins' \in Seq(SUBSET Known')
  <2>1. SUBSET Known \subseteq SUBSET Known'
    BY <1>6
  <2> QED
    BY <1>5, <2>1
<1>8. sending' \in [Senders -> Nat] /\ sending'[s] = n /\ \A r \in Senders \ {s} : sending'[r] = sending[r]
  BY <1>1, <1>3, <1>5 DEF TxTypes
<1>9. \A u \in Known : InsOf(u)' = InsOf(u)
  BY <1>5, <1>6 DEF InsOf, Known
<1>10. PlacesAgree'
  BY <1>1, <1>3, PlacesStay
<1>11. TxTypes'
  <2>1. Len(ins') <= MaxSends
    BY <1>3, <1>5, WalletTxsAssumption DEF n
  <2> QED
    BY <1>1, <1>3, <1>4, <1>6, <1>7, <1>8, <2>1 DEF TxTypes
<1>12. AddingKnown'
  BY <1>1, <1>3, AddingIs DEF AddingKnown
<1>13. SendingApart'
  <2>1. n \notin InChain \cup pool \cup DOMAIN mapWallet
    BY <1>1, <1>6 DEF TxTypes
  <2>2. \A r \in Senders \ {s} : sending[r] # n
    BY <1>1, <1>5 DEF SendingApart
  <2> QED
    BY <1>1, <1>3, <1>4, <1>5, <1>8, <2>1, <2>2 DEF SendingApart
<1>14. ChainClosed' /\ FlagsFollow'
  <2>1. \A u \in InChain : InsOf(u)' = InsOf(u)
    BY <1>1, <1>9 DEF TxTypes
  <2> QED
    BY <1>1, <1>3, <1>4, <2>1 DEF ChainClosed, FlagsFollow
<1> QED
  BY <1>10, <1>11, <1>12, <1>13, <1>14 DEF TxInv

LEMMA AbortKeeps == \A s \in Senders : TxInv /\ Abort(s) => TxInv'
<1> SUFFICES ASSUME NEW s \in Senders, TxInv, Abort(s) PROVE TxInv'
  OBVIOUS
<1>1. PlacesAgree /\ TxTypes /\ AddingKnown /\ SendingApart /\ ChainClosed /\ FlagsFollow
  BY DEF TxInv
<1>2. /\ adding.step = "none" /\ sending' = [sending EXCEPT ![s] = 0]
      /\ UNCHANGED <<running, scanned, reaccepted, mapWallet, nOrderPosNext, walletDat, oldCopy, adding, ins,
                     chain, pool, refused, stops>>
  BY DEF Abort, Free
<1>3. Known' = Known /\ InChain' = InChain /\ \A t : InsOf(t)' = InsOf(t)
  BY <1>2 DEF Known, InChain, InsOf
<1>4. sending' \in [Senders -> Nat] /\ sending'[s] = 0 /\ \A r \in Senders \ {s} : sending'[r] = sending[r]
  BY <1>1, <1>2 DEF TxTypes
<1>5. PlacesAgree'
  BY <1>1, <1>2, PlacesStay
<1>6. TxTypes' /\ AddingKnown'
  BY <1>1, <1>2, <1>3, <1>4, AddingIs DEF TxTypes, AddingKnown
<1>7. SendingApart'
  BY <1>1, <1>2, <1>3, <1>4 DEF SendingApart
<1>8. ChainClosed' /\ FlagsFollow'
  BY <1>1, <1>2, <1>3 DEF ChainClosed, FlagsFollow
<1> QED
  BY <1>5, <1>6, <1>7, <1>8 DEF TxInv

LEMMA CommitKeeps == \A s \in Senders : TxInv /\ Commit(s) => TxInv'
<1> SUFFICES ASSUME NEW s \in Senders, TxInv, Commit(s) PROVE TxInv'
  OBVIOUS
<1>1. PlacesAgree /\ TxTypes /\ AddingKnown /\ SendingApart /\ ChainClosed /\ FlagsFollow
  BY DEF TxInv
<1> DEFINE x == sending[s]
<1>2. /\ running # "down" /\ adding.step = "none" /\ x # 0 /\ StartAdd(x, s)
      /\ UNCHANGED <<running, scanned, reaccepted, mapWallet, nOrderPosNext, walletDat, oldCopy, ins, sending,
                     chain, pool, refused, stops>>
  BY DEF Commit, Free
<1>3. Known' = Known /\ InChain' = InChain /\ \A t : InsOf(t)' = InsOf(t)
  BY <1>2 DEF Known, InChain, InsOf
<1>4. x \in DOMAIN ins /\ x \notin InChain /\ x \notin DOMAIN mapWallet
  BY <1>1, <1>2 DEF SendingApart
<1>5. adding' = [tx |-> x, from |-> s, step |-> "order"]
  BY <1>2, <1>4 DEF StartAdd
<1>6. PlacesAgree'
  BY <1>1, <1>2, PlacesStay
<1>7. TxTypes'
  BY <1>1, <1>2, <1>3 DEF TxTypes
<1>8. AddingKnown'
  BY <1>1, <1>2, <1>3, <1>4, <1>5 DEF AddingKnown, Known
<1>9. SendingApart' /\ ChainClosed'
  BY <1>1, <1>2, <1>3, <1>4, <1>5 DEF SendingApart, ChainClosed
<1>10. FlagsFollow'
  <2>1. \A u \in InChain : x \notin InsOf(u)
    BY <1>1, <1>4 DEF ChainClosed
  <2> QED
    BY <1>1, <1>2, <1>3, <1>5, <2>1 DEF FlagsFollow
<1> QED
  BY <1>6, <1>7, <1>8, <1>9, <1>10 DEF TxInv

LEMMA BackupWalletKeeps == TxInv /\ BackupWallet => TxInv'
<1> SUFFICES ASSUME TxInv, BackupWallet PROVE TxInv'
  OBVIOUS
<1>1. PlacesAgree /\ TxTypes /\ AddingKnown /\ SendingApart /\ ChainClosed /\ FlagsFollow
  BY DEF TxInv
<1>2. /\ oldCopy' = walletDat
      /\ UNCHANGED <<running, scanned, reaccepted, mapWallet, nOrderPosNext, walletDat, adding, ins, sending,
                     chain, pool, refused, stops>>
  BY DEF BackupWallet
<1>3. Known' = Known /\ InChain' = InChain /\ \A t : InsOf(t)' = InsOf(t)
  BY <1>2 DEF Known, InChain, InsOf
<1>4. PlacesAgree'
  BY <1>1, <1>2 DEF PlacesAgree, FilePlaced, Placed
<1>5. TxTypes' /\ AddingKnown'
  BY <1>1, <1>2, <1>3 DEF TxTypes, AddingKnown
<1>6. SendingApart' /\ ChainClosed' /\ FlagsFollow'
  BY <1>1, <1>2, <1>3 DEF SendingApart, ChainClosed, FlagsFollow
<1> QED
  BY <1>4, <1>5, <1>6 DEF TxInv

LEMMA StopKeeps == TxInv /\ Stop => TxInv'
<1> SUFFICES ASSUME TxInv, Stop PROVE TxInv'
  OBVIOUS
<1>1. PlacesAgree /\ TxTypes /\ AddingKnown /\ SendingApart /\ ChainClosed /\ FlagsFollow
  BY DEF TxInv
<1> DEFINE d == [walletDat EXCEPT !.best = Len(chain)]
<1>2. /\ running' = "down" /\ adding' = NotAdding /\ pool' = {} /\ sending' = [s \in Senders |-> 0]
      /\ walletDat' \in {walletDat, oldCopy, d}
      /\ UNCHANGED <<scanned, reaccepted, mapWallet, nOrderPosNext, oldCopy, ins, chain>>
  BY DEF Stop
<1>3. Known' = Known /\ InChain' = InChain /\ \A t : InsOf(t)' = InsOf(t)
  BY <1>2 DEF Known, InChain, InsOf
<1>4. FilePlaced(walletDat) /\ FilePlaced(oldCopy) /\ Len(chain) \in Nat
  BY <1>1 DEF PlacesAgree, TxTypes
<1>5. d.tx = walletDat.tx /\ FilePlaced(d)
  <2>1. d = [tx |-> walletDat.tx, next |-> walletDat.next, best |-> Len(chain)]
    BY <1>4 DEF FilePlaced
  <2> QED
    BY <1>4, <2>1 DEF FilePlaced
<1> HIDE DEF d
<1>6. FilePlaced(walletDat') /\ DOMAIN walletDat'.tx \in {DOMAIN walletDat.tx, DOMAIN oldCopy.tx}
  BY <1>2, <1>4, <1>5
<1>7. PlacesAgree'
  BY <1>2, <1>4, <1>6 DEF PlacesAgree, FilePlaced, Placed
<1>8. TxTypes'
  <2>1. DOMAIN walletDat'.tx \subseteq Known
    BY <1>1, <1>6 DEF TxTypes
  <2> QED
    BY <1>1, <1>2, <1>3, <2>1 DEF TxTypes
<1>9. AddingKnown' /\ SendingApart' /\ ChainClosed' /\ FlagsFollow'
  BY <1>1, <1>2, <1>3 DEF AddingKnown, SendingApart, ChainClosed, FlagsFollow
<1> QED
  BY <1>7, <1>8, <1>9 DEF TxInv

LEMMA StartKeeps == TxInv /\ Start => TxInv'
<1> SUFFICES ASSUME TxInv, Start PROVE TxInv'
  OBVIOUS
<1>1. PlacesAgree /\ TxTypes /\ AddingKnown /\ SendingApart /\ ChainClosed /\ FlagsFollow
  BY DEF TxInv
<1>2. /\ running = "down" /\ running' = "scan" /\ scanned' = walletDat.best /\ reaccepted' = FALSE
      /\ mapWallet' = walletDat.tx /\ nOrderPosNext' = walletDat.next
      /\ UNCHANGED <<walletDat, oldCopy, adding, ins, sending, chain, pool, refused, stops>>
  BY DEF Start
<1>3. Known' = Known /\ InChain' = InChain /\ \A t : InsOf(t)' = InsOf(t)
  BY <1>2 DEF Known, InChain, InsOf
<1>4. FilePlaced(walletDat) /\ FilePlaced(oldCopy)
  BY <1>1 DEF PlacesAgree
<1>5. PlacesAgree'
  BY <1>2, <1>4 DEF PlacesAgree, FilePlaced, Placed
<1>6. TxTypes'
  BY <1>1, <1>2, <1>3, <1>4 DEF TxTypes, FilePlaced
<1>7. adding = NotAdding
  BY <1>1, <1>2 DEF AddingKnown
<1>8. AddingKnown' /\ SendingApart' /\ ChainClosed' /\ FlagsFollow'
  BY <1>1, <1>2, <1>3, <1>7 DEF AddingKnown, SendingApart, ChainClosed, FlagsFollow
<1> QED
  BY <1>5, <1>6, <1>8 DEF TxInv

LEMMA ScanNextKeeps == TxInv /\ ScanNext => TxInv'
<1> SUFFICES ASSUME TxInv, ScanNext PROVE TxInv'
  OBVIOUS
<1>1. PlacesAgree /\ TxTypes /\ AddingKnown /\ SendingApart /\ ChainClosed /\ FlagsFollow
  BY DEF TxInv
<1>2. /\ running \in {"scan", "missing"} /\ adding.step = "none"
      /\ UNCHANGED <<reaccepted, mapWallet, nOrderPosNext, oldCopy, ins, sending, chain, pool, refused, stops>>
  BY DEF ScanNext, Free
<1>3. Known' = Known /\ InChain' = InChain /\ \A t : InsOf(t)' = InsOf(t)
  BY <1>2 DEF Known, InChain, InsOf
<1>4. ~reaccepted /\ adding = NotAdding
  BY <1>1, <1>2, AddingIs DEF FlagsFollow, AddingKnown
<1>5. ASSUME scanned < Len(chain), scanned' = scanned + 1, UNCHANGED <<running, walletDat>>,
             UNCHANGED adding \/ StartAdd(chain[scanned + 1], "scan")
      PROVE  TxInv'
  <2> DEFINE t == chain[scanned + 1]
  <2>1. t \in InChain /\ t \in Known
    <3>1. Len(chain) \in Nat /\ DOMAIN chain = 1 .. Len(chain) /\ scanned \in Nat
      BY <1>1 DEF TxTypes
    <3>2. scanned + 1 \in DOMAIN chain
      BY <1>5, <3>1
    <3>3. t \in InChain
      BY <3>2 DEF InChain, ToSet
    <3> QED
      BY <1>1, <3>3 DEF TxTypes
  <2> HIDE DEF t
  <2>2. AddingKnown' /\ adding'.step \in {"none", "order", "spent"}
    <3>1. CASE UNCHANGED adding
      BY <1>4, <3>1 DEF AddingKnown, NotAdding
    <3>2. CASE StartAdd(t, "scan")
      BY <1>2, <1>3, <1>5, <2>1, <3>2, StartAddForeign
    <3> QED
      BY <1>5, <3>1, <3>2 DEF t
  <2>3. PlacesAgree'
    BY <1>1, <1>2, <1>5, PlacesStay
  <2>4. TxTypes'
    BY <1>1, <1>2, <1>3, <1>5 DEF TxTypes
  <2>5. SendingApart' /\ ChainClosed'
    BY <1>1, <1>2, <1>3, <1>5 DEF SendingApart, ChainClosed
  <2>6. FlagsFollow'
    BY <1>2, <1>4, <1>5 DEF FlagsFollow
  <2> QED
    BY <2>2, <2>3, <2>4, <2>5, <2>6 DEF TxInv
<1>6. ASSUME running' = "up", UNCHANGED <<adding, scanned>>,
             walletDat' \in {walletDat, [walletDat EXCEPT !.best = Len(chain)]}
      PROVE  TxInv'
  <2>1. FilePlaced(walletDat) /\ FilePlaced(oldCopy) /\ Len(chain) \in Nat /\ walletDat.next = nOrderPosNext
    BY <1>1, <1>2 DEF PlacesAgree, TxTypes
  <2>2. walletDat'.tx = walletDat.tx /\ walletDat'.next = walletDat.next /\ FilePlaced(walletDat')
    <3>1. CASE walletDat' = walletDat
      BY <2>1, <3>1
    <3>2. CASE walletDat' = [walletDat EXCEPT !.best = Len(chain)]
      <4>1. walletDat' = [tx |-> walletDat.tx, next |-> walletDat.next, best |-> Len(chain)]
        BY <2>1, <3>2 DEF FilePlaced
      <4> QED
        BY <2>1, <4>1 DEF FilePlaced
    <3> QED
      BY <1>6, <3>1, <3>2
  <2>3. PlacesAgree'
    BY <1>1, <1>2, <1>6, <2>1, <2>2 DEF PlacesAgree, FilePlaced, Placed
  <2>4. TxTypes' /\ AddingKnown'
    BY <1>1, <1>2, <1>3, <1>4, <1>6, <2>2 DEF TxTypes, AddingKnown
  <2>5. SendingApart' /\ ChainClosed' /\ FlagsFollow'
    BY <1>1, <1>2, <1>3, <1>4, <1>6 DEF SendingApart, ChainClosed, FlagsFollow, NotAdding
  <2> QED
    BY <2>3, <2>4, <2>5 DEF TxInv
<1>7. CASE scanned < Len(chain)
  BY <1>5, <1>7 DEF ScanNext
<1>8. CASE ~(scanned < Len(chain))
  BY <1>6, <1>8 DEF ScanNext
<1> QED
  BY <1>7, <1>8

LEMMA ReacceptKeeps == TxInv /\ Reaccept => TxInv'
<1> SUFFICES ASSUME TxInv, Reaccept PROVE TxInv'
  OBVIOUS
<1>1. PlacesAgree /\ TxTypes /\ AddingKnown /\ SendingApart /\ ChainClosed /\ FlagsFollow
  BY DEF TxInv
<1>2. PICK S \in SUBSET (DOMAIN mapWallet \ InChain) :
         /\ pool' = pool \cup S
         /\ mapWallet' = [t \in DOMAIN mapWallet |->
                [mapWallet[t] EXCEPT !.spent = @ \/ (t \in InChain /\ SpentInChain(t))
                                                \/ \E u \in S : t \in InsOf(u)]]
  BY DEF Reaccept
<1> DEFINE fMissing == \E t \in DOMAIN mapWallet \cap InChain : ~mapWallet[t].spent /\ SpentInChain(t)
<1>3. /\ running = "up" /\ adding.step = "none" /\ walletDat' = [walletDat EXCEPT !.tx = mapWallet']
      /\ reaccepted' = ~fMissing /\ running' = (IF fMissing THEN "missing" ELSE "up") /\ scanned' = 0
      /\ UNCHANGED <<nOrderPosNext, oldCopy, adding, ins, sending, chain, refused, stops>>
  BY DEF Reaccept, Free
<1>4. Known' = Known /\ InChain' = InChain /\ \A t : InsOf(t)' = InsOf(t)
  BY <1>3 DEF Known, InChain, InsOf
<1>5. /\ Placed(mapWallet, nOrderPosNext) /\ mapWallet \in [DOMAIN mapWallet -> Entry]
      /\ FilePlaced(walletDat) /\ FilePlaced(oldCopy) /\ walletDat.next = nOrderPosNext
  BY <1>1, <1>3 DEF PlacesAgree, Placed
<1>6. /\ DOMAIN mapWallet' = DOMAIN mapWallet /\ mapWallet' \in [DOMAIN mapWallet -> Entry]
      /\ \A t \in DOMAIN mapWallet : mapWallet'[t].pos = mapWallet[t].pos
      /\ \A t \in DOMAIN mapWallet : mapWallet[t].spent \/ (t \in InChain /\ SpentInChain(t)) => mapWallet'[t].spent
  BY <1>2, <1>5 DEF Entry
<1>7. Placed(mapWallet', nOrderPosNext)
  BY <1>5, <1>6, PlacedAsMemory
<1>8. walletDat' = [tx |-> mapWallet', next |-> nOrderPosNext, best |-> walletDat.best] /\ walletDat.best \in Nat
  BY <1>3, <1>5 DEF FilePlaced
<1>9. PlacesAgree'
  BY <1>3, <1>5, <1>6, <1>7, <1>8 DEF PlacesAgree, FilePlaced, Placed
<1>10. TxTypes'
  BY <1>1, <1>2, <1>3, <1>4, <1>6, <1>8 DEF TxTypes
<1>11. adding = NotAdding
  BY <1>1, <1>3, AddingIs DEF AddingKnown
<1>12. AddingKnown' /\ ChainClosed'
  BY <1>1, <1>3, <1>4, <1>11 DEF AddingKnown, ChainClosed
<1>13. SendingApart'
  BY <1>1, <1>2, <1>3, <1>4, <1>6 DEF SendingApart
<1>14. FlagsFollow'
  <2>1. ASSUME NEW t \in DOMAIN mapWallet, NEW u \in InChain, t \in InsOf(u), ~mapWallet'[t].spent
        PROVE  FALSE
    BY <1>1, <1>6, <2>1 DEF ChainClosed, SpentInChain
  <2> QED
    BY <1>3, <1>4, <1>6, <1>11, <2>1 DEF FlagsFollow, NotAdding
<1> QED
  BY <1>9, <1>10, <1>12, <1>13, <1>14 DEF TxInv

LEMMA TxNextHolds == TxInv /\ [TxNext]_txVars => TxInv'
<1> SUFFICES ASSUME TxInv, [TxNext]_txVars PROVE TxInv'
  OBVIOUS
<1>1. CASE UNCHANGED txVars
  <2>1. PlacesAgree /\ TxTypes /\ AddingKnown /\ SendingApart /\ ChainClosed /\ FlagsFollow
    BY DEF TxInv
  <2>2. Known' = Known /\ InChain' = InChain /\ \A t : InsOf(t)' = InsOf(t)
    BY <1>1 DEF Known, InChain, InsOf, txVars
  <2>3. PlacesAgree'
    BY <1>1, <2>1, PlacesStay DEF txVars
  <2>4. TxTypes' /\ AddingKnown' /\ SendingApart'
    BY <1>1, <2>1, <2>2 DEF TxTypes, AddingKnown, SendingApart, txVars
  <2>5. ChainClosed' /\ FlagsFollow'
    BY <1>1, <2>1, <2>2 DEF ChainClosed, FlagsFollow, txVars
  <2> QED
    BY <2>3, <2>4, <2>5 DEF TxInv
<1>2. CASE TxNext
  BY <1>2, AddOrderKeeps, AddWriteKeeps, AddSpentKeeps, CommitAcceptKeeps, RelayedKeeps, ConfirmedKeeps,
     BuildPaymentKeeps, AbortKeeps, CommitKeeps, BackupWalletKeeps, StopKeeps, StartKeeps, ScanNextKeeps,
     ReacceptKeeps DEF TxNext
<1> QED
  BY <1>1, <1>2

\* For any senders, transactions of others, copies, crashes and backups, a coin that the chain
\* has as spent is not offered for a payment once the start has accepted the wallet's
\* transactions again (AvailableCoins after ReacceptWalletTransactions).
THEOREM SpentIsNotOffered == TxSpec => []SpentNotOffered
<1>1. TxInv => SpentNotOffered
  <2> SUFFICES ASSUME TxInv, running = "up", reaccepted, Free, NEW t \in Available, NEW u \in InChain, t \in InsOf(u)
               PROVE  FALSE
    BY DEF SpentNotOffered
  <2> QED
    BY DEF TxInv, FlagsFollow, Free, Available
<1> QED
  BY <1>1, TxInitHolds, TxNextHolds, PTL DEF TxSpec

----------------------------------------------------------------------------
(* A wallet that an earlier version of the program wrote.                  *)

Item == [kind : {"tx", "entry"}, pos : Int]

ItemTypes ==
    /\ items \in Seq(Item) /\ itemsDat \in Seq(Item)
    /\ \A i \in DOMAIN items : items[i].pos >= -1
    /\ \A i \in DOMAIN itemsDat : itemsDat[i].pos >= -1
    /\ itemsNext \in Nat /\ itemsNextDat \in Nat /\ orderAt \in Nat /\ misled \in BOOLEAN /\ counted \in BOOLEAN
    /\ IsFiniteSet(nOrderPosOffsets) /\ nOrderPosOffsets \subseteq Int
    /\ IF orderAt = 0 THEN items = <<>> ELSE Len(items) = Len(itemsDat) /\ orderAt <= Len(items) + 1

\* From the item k on, there is room for the items without a position between those that have one.
Spaced(q, k) ==
    \A i \in DOMAIN q : i >= k /\ q[i].pos # -1 =>
        /\ q[i].pos >= i - 1
        /\ \A j \in k .. i - 1 : q[j].pos # -1 => q[i].pos - q[j].pos >= i - j

\* What ReorderTransactions has been at is in order, below the next position.
OrderedSoFar ==
    /\ itemsNext >= orderAt - 1
    /\ \A i \in 1 .. orderAt - 1 :
          /\ items[i].pos >= i - 1 /\ itemsNext - items[i].pos >= orderAt - i
          /\ \A j \in 1 .. i - 1 : items[i].pos - items[j].pos >= i - j
          /\ itemsDat[i].pos \in {-1, items[i].pos}

\* The two parts of it: the second may fail while the next position is the one on the disk.
InOrder ==
    \A i \in 1 .. orderAt - 1 :
        /\ items[i].pos >= i - 1 /\ \A j \in 1 .. i - 1 : items[i].pos - items[j].pos >= i - j
        /\ itemsDat[i].pos \in {-1, items[i].pos}
NextAbove ==
    itemsNext >= orderAt - 1 /\ \A i \in 1 .. orderAt - 1 : itemsNext - items[i].pos >= orderAt - i

\* Whatever happened before, ReorderTransactions counts the next position above all it has been at.
CountedAbove ==
    /\ orderAt \in DOMAIN items => counted
    /\ counted => \A i \in DOMAIN items : i < orderAt => items[i].pos < itemsNext

Shift(p) == Cardinality({o \in nOrderPosOffsets : p >= o})

\* And what it comes to will be put above that.
ComesAbove ==
    /\ Spaced(items, orderAt)
    /\ \A i \in DOMAIN items : i >= orderAt /\ items[i].pos # -1 =>
            items[i].pos + Shift(items[i].pos) >= itemsNext + (i - orderAt)
    /\ \A i \in DOMAIN items : i >= orderAt => itemsDat[i] = items[i]

ItemsInv ==
    /\ ItemTypes /\ CountedAbove
    /\ ~misled => IF orderAt = 0 THEN Spaced(itemsDat, 1)
                  ELSE InOrder /\ (counted => NextAbove) /\ ComesAbove

LEMMA OrderedParts == OrderedSoFar <=> InOrder /\ NextAbove
  BY DEF OrderedSoFar, InOrder, NextAbove

\* What the types say of the two sequences.
LEMMA ItemsAre ==
    ASSUME ItemTypes
    PROVE  /\ DOMAIN items = 1 .. Len(items) /\ Len(items) \in Nat
           /\ DOMAIN itemsDat = 1 .. Len(itemsDat) /\ Len(itemsDat) \in Nat
           /\ \A i \in DOMAIN items : items[i] \in Item /\ items[i].pos \in Int /\ items[i].pos >= -1
           /\ \A i \in DOMAIN itemsDat : itemsDat[i] \in Item /\ itemsDat[i].pos \in Int /\ itemsDat[i].pos >= -1
<1>1. items \in Seq(Item) /\ itemsDat \in Seq(Item)
  BY DEF ItemTypes
<1>2. \A i \in DOMAIN items : items[i] \in Item
  BY <1>1, ElementOfSeq
<1>3. \A i \in DOMAIN itemsDat : itemsDat[i] \in Item
  BY <1>1, ElementOfSeq
<1> QED
  BY <1>1, <1>2, <1>3 DEF ItemTypes, Item

\* An item is appended: the others stay.
LEMMA ItemAppended ==
    ASSUME NEW q \in Seq(Item), NEW x \in Item
    PROVE  /\ Append(q, x) \in Seq(Item) /\ Len(Append(q, x)) = Len(q) + 1 /\ Len(q) \in Nat
           /\ DOMAIN q = 1 .. Len(q) /\ DOMAIN Append(q, x) = 1 .. Len(q) + 1
           /\ Append(q, x)[Len(q) + 1] = x
           /\ \A i \in 1 .. Len(q) : Append(q, x)[i] = q[i]
  BY AppendProperties

\* An item is overwritten.
LEMMA ItemReplaced ==
    ASSUME NEW q \in Seq(Item), NEW n \in DOMAIN q, NEW x \in Item
    PROVE  /\ [q EXCEPT ![n] = x] \in Seq(Item) /\ Len([q EXCEPT ![n] = x]) = Len(q)
           /\ DOMAIN [q EXCEPT ![n] = x] = DOMAIN q /\ [q EXCEPT ![n] = x][n] = x
           /\ \A i \in DOMAIN q : i # n => [q EXCEPT ![n] = x][i] = q[i]
  BY ExceptSeq

LEMMA ShiftGrows ==
    ASSUME ItemTypes, NEW p \in Int, NEW q \in Int, p <= q
    PROVE  Shift(p) \in Nat /\ Shift(q) \in Nat /\ Shift(p) <= Shift(q)
<1> DEFINE P == {o \in nOrderPosOffsets : p >= o}
           Q == {o \in nOrderPosOffsets : q >= o}
<1>1. IsFiniteSet(nOrderPosOffsets) /\ nOrderPosOffsets \subseteq Int
  BY DEF ItemTypes
<1>2. P \subseteq Q /\ Q \subseteq nOrderPosOffsets
  <2> SUFFICES ASSUME NEW o \in nOrderPosOffsets, p >= o PROVE q >= o
    OBVIOUS
  <2> QED
    BY <1>1
<1>3. IsFiniteSet(Q)
  BY <1>1, <1>2, FS_Subset
<1>4. IsFiniteSet(P) /\ Cardinality(P) <= Cardinality(Q)
  BY <1>2, <1>3, FS_Subset
<1> QED
  BY <1>3, <1>4, FS_CardinalityType DEF Shift

\* A position that is given away shifts no item less.
LEMMA ShiftWith ==
    ASSUME ItemTypes, NEW p \in Int, NEW x \in Int, nOrderPosOffsets' = nOrderPosOffsets \cup {x}
    PROVE  IsFiniteSet(nOrderPosOffsets') /\ Shift(p) \in Nat /\ Shift(p)' \in Nat /\ Shift(p) <= Shift(p)'
<1> DEFINE P == {o \in nOrderPosOffsets : p >= o}
           Q == {o \in nOrderPosOffsets' : p >= o}
<1>1. IsFiniteSet(nOrderPosOffsets) /\ nOrderPosOffsets \subseteq Int
  BY DEF ItemTypes
<1>2. IsFiniteSet(nOrderPosOffsets')
  BY <1>1, FS_AddElement
<1>3. P \subseteq Q /\ Q \subseteq nOrderPosOffsets'
  BY <1>1
<1>4. IsFiniteSet(Q)
  BY <1>2, <1>3, FS_Subset
<1>5. IsFiniteSet(P) /\ Cardinality(P) <= Cardinality(Q)
  BY <1>3, <1>4, FS_Subset
<1> QED
  BY <1>2, <1>4, <1>5, FS_CardinalityType DEF Shift

\* Loaded items in order leave room below a next position that is above them.
LEMMA NextFromLast ==
    ASSUME ItemTypes, InOrder, orderAt = Len(items) + 1,
           \A i \in DOMAIN items : items[i].pos < itemsNext
    PROVE  NextAbove
<1> DEFINE n == Len(items)
<1>1. /\ DOMAIN items = 1 .. n /\ n \in Nat /\ itemsNext \in Nat
      /\ \A i \in 1 .. n : items[i].pos \in Int /\ items[i].pos < itemsNext
  BY ItemsAre DEF ItemTypes
<1> HIDE DEF n
<1>2. orderAt = n + 1 /\ orderAt - 1 = n
  BY <1>1 DEF n
<1>3. \A i \in 1 .. n : items[i].pos >= i - 1 /\ \A j \in 1 .. i - 1 : items[i].pos - items[j].pos >= i - j
  BY <1>2 DEF InOrder
<1>4. ASSUME NEW i \in 1 .. n PROVE itemsNext - items[i].pos >= (n + 1) - i
  <2>1. CASE i = n
    BY <1>1, <2>1
  <2>2. CASE i # n
    <3>1. n \in 1 .. n /\ i \in 1 .. n - 1
      BY <1>1, <2>2
    <3>2. items[n].pos - items[i].pos >= n - i
      BY <1>3, <3>1
    <3>3. /\ items[n].pos \in Int /\ items[i].pos \in Int /\ items[n].pos < itemsNext
          /\ itemsNext \in Nat /\ n \in Nat /\ i \in Int
      BY <1>1, <3>1
    <3> QED
      BY <3>2, <3>3
  <2> QED
    BY <2>1, <2>2
<1>5. itemsNext >= n
  <2>1. CASE n = 0
    BY <1>1, <2>1
  <2>2. CASE n # 0
    <3>1. n \in 1 .. n
      BY <1>1, <2>2
    <3>2. items[n].pos >= n - 1 /\ items[n].pos < itemsNext /\ items[n].pos \in Int
      BY <1>1, <1>3, <3>1
    <3> QED
      BY <1>1, <3>2
  <2> QED
    BY <2>1, <2>2
<1> QED
  BY <1>2, <1>4, <1>5 DEF NextAbove

LEMMA ItemsInitHolds == ItemsInit => ItemsInv
<1> SUFFICES ASSUME ItemsInit PROVE ItemsInv
  OBVIOUS
<1>1. items = <<>> /\ itemsDat = <<>> /\ DOMAIN items = {} /\ DOMAIN itemsDat = {} /\ items \in Seq(Item)
  BY DEF ItemsInit
<1>2. ItemTypes
  BY <1>1, FS_EmptySet DEF ItemsInit, ItemTypes
<1> QED
  BY <1>1, <1>2 DEF ItemsInit, ItemsInv, Spaced, CountedAbove

LEMMA OldProgramAddsKeeps == \A k \in {"tx", "entry"} : ItemsInv /\ OldProgramAdds(k) => ItemsInv'
<1> SUFFICES ASSUME NEW k \in {"tx", "entry"}, ItemsInv, OldProgramAdds(k) PROVE ItemsInv'
  OBVIOUS
<1> DEFINE x == [kind |-> k, pos |-> -1]
<1>1. ItemTypes /\ CountedAbove /\ (~misled => Spaced(itemsDat, 1))
  BY DEF ItemsInv, OldProgramAdds
<1>2. /\ orderAt = 0 /\ itemsDat' = Append(itemsDat, x)
      /\ UNCHANGED <<items, itemsNext, itemsNextDat, orderAt, nOrderPosOffsets, counted, misled, loads>>
  BY DEF OldProgramAdds
<1>3. x \in Item /\ x.pos = -1
  BY DEF Item
<1> HIDE DEF x
<1>4. /\ itemsDat' \in Seq(Item) /\ Len(itemsDat) \in Nat
      /\ DOMAIN itemsDat = 1 .. Len(itemsDat) /\ DOMAIN itemsDat' = 1 .. Len(itemsDat) + 1
      /\ itemsDat'[Len(itemsDat) + 1] = x
      /\ \A i \in 1 .. Len(itemsDat) : itemsDat'[i] = itemsDat[i]
  <2>1. itemsDat \in Seq(Item)
    BY <1>1 DEF ItemTypes
  <2> QED
    BY <1>2, <1>3, <2>1, ItemAppended
<1>5. ItemTypes'
  <2>1. \A i \in DOMAIN itemsDat' : itemsDat'[i].pos >= -1
    BY <1>1, <1>3, <1>4 DEF ItemTypes
  <2> QED
    BY <1>1, <1>2, <1>4, <2>1 DEF ItemTypes
<1>6. ASSUME ~misled PROVE Spaced(itemsDat', 1)
  <2>1. Spaced(itemsDat, 1)
    BY <1>1, <1>6
  <2> SUFFICES ASSUME NEW i \in DOMAIN itemsDat', itemsDat'[i].pos # -1
               PROVE  /\ itemsDat'[i].pos >= i - 1
                      /\ \A j \in 1 .. i - 1 : itemsDat'[j].pos # -1 => itemsDat'[i].pos - itemsDat'[j].pos >= i - j
    BY DEF Spaced
  <2>2. i \in 1 .. Len(itemsDat)
    BY <1>3, <1>4
  <2>3. itemsDat'[i] = itemsDat[i] /\ \A j \in 1 .. i - 1 : itemsDat'[j] = itemsDat[j]
    BY <1>4, <2>2
  <2>4. i >= 1 /\ i \in DOMAIN itemsDat
    BY <1>4, <2>2
  <2> QED
    BY <2>1, <2>3, <2>4 DEF Spaced
<1> QED
  BY <1>1, <1>2, <1>5, <1>6 DEF ItemsInv, Spaced, CountedAbove

LEMMA OldNamedKeeps == ItemsInv /\ OldProgramAddsNamed => ItemsInv'
  BY DEF OldProgramAddsNamed, ItemsInv, ItemTypes, CountedAbove, Spaced, InOrder, NextAbove, ComesAbove, Shift

LEMMA LoadItemsKeeps == ItemsInv /\ LoadItems => ItemsInv'
<1> SUFFICES ASSUME ItemsInv, LoadItems PROVE ItemsInv'
  OBVIOUS
<1>1. ItemTypes /\ (~misled => Spaced(itemsDat, 1))
  BY DEF ItemsInv, LoadItems
<1>2. /\ orderAt = 0 /\ items' = itemsDat /\ nOrderPosOffsets' = {} /\ counted' = fAnyUnordered
      /\ itemsNext' = IF fAnyUnordered THEN 0 ELSE itemsNextDat
      /\ orderAt' = IF fAnyUnordered THEN 1 ELSE Len(itemsDat) + 1
      /\ fAnyUnordered \in BOOLEAN
      /\ UNCHANGED <<itemsDat, itemsNextDat, misled>>
  BY DEF LoadItems, fAnyUnordered
<1>3. /\ DOMAIN itemsDat = 1 .. Len(itemsDat) /\ Len(itemsDat) \in Nat
      /\ \A i \in DOMAIN itemsDat : itemsDat[i] \in Item /\ itemsDat[i].pos \in Int /\ itemsDat[i].pos >= -1
  BY <1>1, ItemsAre
<1>4. ItemTypes'
  BY <1>1, <1>2, <1>3, FS_EmptySet DEF ItemTypes
<1>5. CountedAbove'
  <2>1. CASE fAnyUnordered
    BY <1>2, <1>3, <2>1 DEF CountedAbove
  <2>2. CASE ~fAnyUnordered
    <3>1. ~(orderAt' \in DOMAIN items')
      BY <1>2, <1>3, <2>2
    <3> QED
      BY <1>2, <2>2, <3>1 DEF CountedAbove
  <2> QED
    BY <2>1, <2>2
<1>6. ASSUME ~misled PROVE InOrder' /\ (counted' => NextAbove') /\ ComesAbove'
  <2>1. Spaced(itemsDat, 1)
    BY <1>1, <1>6
  <2>2. CASE fAnyUnordered
    <3>1. orderAt' = 1 /\ itemsNext' = 0 /\ items' = itemsDat /\ itemsDat' = itemsDat
      BY <1>2, <2>2
    <3>2. InOrder' /\ NextAbove'
      BY <3>1 DEF InOrder, NextAbove
    <3>3. \A i \in DOMAIN itemsDat : Shift(itemsDat[i].pos)' = 0
      <4> SUFFICES ASSUME NEW i \in DOMAIN itemsDat PROVE Shift(itemsDat[i].pos)' = 0
        OBVIOUS
      <4>1. Cardinality({o \in {} : itemsDat[i].pos >= o}) = 0
        BY FS_EmptySet
      <4> QED
        BY <1>2, <3>1, <4>1 DEF Shift
    <3>4. ComesAbove'
      BY <1>3, <2>1, <3>1, <3>3 DEF ComesAbove, Spaced
    <3> QED
      BY <3>2, <3>4
  <2>3. CASE ~fAnyUnordered
    <3>1. orderAt' = Len(itemsDat) + 1 /\ items' = itemsDat /\ itemsDat' = itemsDat /\ ~counted'
      BY <1>2, <2>3
    <3>2. \A i \in 1 .. Len(itemsDat) : itemsDat[i].pos # -1
      BY <1>3, <2>3 DEF fAnyUnordered
    <3>3. \A i \in 1 .. Len(itemsDat) : /\ itemsDat[i].pos >= i - 1
                                       /\ \A j \in 1 .. i - 1 : itemsDat[i].pos - itemsDat[j].pos >= i - j
      BY <1>3, <2>1, <3>2 DEF Spaced
    <3>4. InOrder'
      BY <1>3, <3>1, <3>3 DEF InOrder
    <3>5. ComesAbove'
      BY <1>3, <3>1 DEF ComesAbove, Spaced
    <3> QED
      BY <3>1, <3>4, <3>5
  <2> QED
    BY <2>2, <2>3
<1>7. orderAt' # 0
  BY <1>2, <1>3
<1> QED
  BY <1>2, <1>4, <1>5, <1>6, <1>7 DEF ItemsInv

LEMMA ReorderKeeps == ItemsInv /\ ReorderTransactions => ItemsInv'
<1> SUFFICES ASSUME ItemsInv, ReorderTransactions PROVE ItemsInv'
  OBVIOUS
<1> DEFINE k == orderAt
           old == items[k]
           pos == PositionOf(old)
           new == [old EXCEPT !.pos = pos]
           written == (old.pos = -1 /\ old.kind = "entry") \/ (old.pos \notin {-1, pos})
<1>1. ItemTypes /\ k \in DOMAIN items /\ CountedAbove /\ counted
  BY DEF ItemsInv, ReorderTransactions, CountedAbove
<1>2. /\ DOMAIN items = 1 .. Len(items) /\ Len(items) \in Nat /\ DOMAIN itemsDat = DOMAIN items
      /\ \A i \in DOMAIN items : items[i] \in Item /\ items[i].pos \in Int /\ items[i].pos >= -1
      /\ \A i \in DOMAIN itemsDat : itemsDat[i] \in Item /\ itemsDat[i].pos \in Int /\ itemsDat[i].pos >= -1
      /\ Len(items) = Len(itemsDat) /\ k # 0 /\ k \in Nat
  BY <1>1, ItemsAre DEF ItemTypes
<1>3. /\ items' = [items EXCEPT ![k].pos = pos]
      /\ itemsNext' = IF pos >= itemsNext THEN pos + 1 ELSE itemsNext
      /\ nOrderPosOffsets' = IF old.pos = -1 THEN nOrderPosOffsets \cup {pos} ELSE nOrderPosOffsets
      /\ itemsDat' = IF written THEN [itemsDat EXCEPT ![k].pos = pos] ELSE itemsDat
      /\ orderAt' = k + 1 /\ misled' = misled /\ counted' = counted /\ itemsNextDat' = itemsNextDat
  BY DEF ReorderTransactions
<1>4. itemsNext \in Nat /\ old \in Item /\ old.pos \in Int /\ old.pos >= -1 /\ Shift(old.pos) \in Nat
  <2>1. old \in Item /\ old.pos \in Int /\ old.pos >= -1
    BY <1>1, <1>2
  <2> HIDE DEF old
  <2>2. Shift(old.pos) \in Nat
    <3>1. old.pos <= old.pos
      BY <2>1
    <3> QED
      BY <1>1, <2>1, <3>1, ShiftGrows
  <2> QED
    BY <1>1, <2>1, <2>2 DEF ItemTypes
<1>5. pos \in Nat /\ pos = IF old.pos = -1 THEN itemsNext ELSE old.pos + Shift(old.pos)
  BY <1>4 DEF PositionOf, Shift
<1>6. new \in Item /\ new.pos = pos /\ new.kind = old.kind
  BY <1>4, <1>5 DEF Item
<1>7. items' = [items EXCEPT ![k] = new]
  BY <1>3
<1>8. items \in Seq(Item) /\ itemsDat \in Seq(Item)
  BY <1>1 DEF ItemTypes
<1> HIDE DEF pos, new
<1>9. /\ items' \in Seq(Item) /\ Len(items') = Len(items) /\ DOMAIN items' = DOMAIN items /\ items'[k] = new
      /\ \A i \in DOMAIN items : i # k => items'[i] = items[i]
  BY <1>1, <1>6, <1>7, <1>8, ItemReplaced
<1>10. /\ itemsDat' \in Seq(Item) /\ Len(itemsDat') = Len(items) /\ DOMAIN itemsDat' = DOMAIN items
       /\ itemsDat'[k].pos \in {pos, itemsDat[k].pos} /\ (~written => itemsDat'[k] = itemsDat[k])
       /\ (written => itemsDat'[k].pos = pos)
       /\ \A i \in DOMAIN items : i # k => itemsDat'[i] = itemsDat[i]
  <2>1. CASE written
    <3> DEFINE y == [itemsDat[k] EXCEPT !.pos = pos]
    <3>1. y \in Item /\ y.pos = pos
      BY <1>1, <1>2, <1>5 DEF Item
    <3>2. itemsDat' = [itemsDat EXCEPT ![k] = y]
      BY <1>3, <2>1
    <3> HIDE DEF y
    <3>3. /\ itemsDat' \in Seq(Item) /\ Len(itemsDat') = Len(itemsDat) /\ DOMAIN itemsDat' = DOMAIN itemsDat
          /\ itemsDat'[k] = y /\ \A i \in DOMAIN itemsDat : i # k => itemsDat'[i] = itemsDat[i]
      BY <1>1, <1>2, <1>8, <3>1, <3>2, ItemReplaced
    <3> QED
      BY <1>2, <2>1, <3>1, <3>3
  <2>2. CASE ~written
    BY <1>2, <1>3, <1>8, <2>2
  <2> QED
    BY <2>1, <2>2
<1> HIDE DEF written
<1>11. itemsNext' \in Nat
  BY <1>3, <1>4, <1>5
<1>12. IsFiniteSet(nOrderPosOffsets') /\ nOrderPosOffsets' \subseteq Int
  <2>1. IsFiniteSet(nOrderPosOffsets) /\ nOrderPosOffsets \subseteq Int
    BY <1>1 DEF ItemTypes
  <2>2. IsFiniteSet(nOrderPosOffsets \cup {pos})
    BY <2>1, FS_AddElement
  <2> QED
    BY <1>3, <1>5, <2>1, <2>2
<1>13. ItemTypes'
  <2>1. \A i \in DOMAIN items' : items'[i].pos >= -1
    BY <1>2, <1>5, <1>6, <1>9
  <2>2. \A i \in DOMAIN itemsDat' : itemsDat'[i].pos >= -1
    BY <1>1, <1>2, <1>5, <1>10
  <2>3. orderAt' \in Nat /\ orderAt' # 0 /\ orderAt' <= Len(items) + 1
    BY <1>1, <1>2, <1>3
  <2> QED
    BY <1>1, <1>3, <1>9, <1>10, <1>11, <1>12, <2>1, <2>2, <2>3 DEF ItemTypes
<1>14. ASSUME ~misled PROVE OrderedSoFar' /\ ComesAbove'
  <2>1. OrderedSoFar /\ ComesAbove
    BY <1>1, <1>2, <1>14, OrderedParts DEF ItemsInv
  <2>2. pos >= itemsNext /\ itemsNext >= k - 1
    <3>1. old.pos # -1 => old.pos + Shift(old.pos) >= itemsNext + (k - k)
      BY <1>1, <1>2, <2>1 DEF ComesAbove
    <3> QED
      BY <1>2, <1>4, <1>5, <2>1, <3>1 DEF OrderedSoFar
  <2>3. itemsNext' = pos + 1
    BY <1>3, <2>2
  <2>4. itemsDat[k] = old
    BY <1>1, <1>2, <2>1 DEF ComesAbove
  <2>5. itemsDat'[k].pos \in {-1, pos}
    BY <1>5, <1>6, <1>10, <2>4 DEF written
  <2>6. OrderedSoFar'
    <3>1. itemsNext' >= orderAt' - 1
      <4>1. orderAt' = k + 1 /\ k \in Nat /\ pos \in Nat /\ itemsNext \in Nat
        BY <1>2, <1>3, <1>4, <1>5
      <4> QED
        BY <2>2, <2>3, <4>1
    <3>2. ASSUME NEW i \in 1 .. orderAt' - 1
          PROVE  /\ items'[i].pos >= i - 1 /\ itemsNext' - items'[i].pos >= orderAt' - i
                 /\ \A j \in 1 .. i - 1 : items'[i].pos - items'[j].pos >= i - j
                 /\ itemsDat'[i].pos \in {-1, items'[i].pos}
      <4>1. CASE i = k
        <5>1. items'[k].pos = pos
          BY <1>6, <1>9
        <5>0. k \in Nat /\ pos \in Nat /\ itemsNext \in Nat
          BY <1>2, <1>4, <1>5
        <5>3. ASSUME NEW j \in 1 .. k - 1 PROVE pos - items'[j].pos >= k - j
          <6>1. j \in DOMAIN items /\ j # k /\ j \in Nat
            BY <1>1, <1>2, <5>0
          <6>2. items'[j] = items[j] /\ items[j].pos \in Int
            BY <1>2, <1>9, <6>1
          <6>3. itemsNext - items[j].pos >= k - j
            BY <2>1 DEF OrderedSoFar
          <6> QED
            BY <2>2, <5>0, <6>1, <6>2, <6>3
        <5>4. pos >= k - 1 /\ (pos + 1) - pos >= (k + 1) - k
          BY <2>2, <5>0
        <5> QED
          BY <1>3, <2>3, <2>5, <4>1, <5>1, <5>3, <5>4
      <4>2. CASE i # k
        <5>1. i \in 1 .. k - 1 /\ i \in DOMAIN items /\ i \in Nat
          BY <1>1, <1>2, <1>3, <4>2
        <5>2. items'[i] = items[i] /\ itemsDat'[i] = itemsDat[i] /\ items[i].pos \in Int
          BY <1>2, <1>9, <1>10, <4>2, <5>1
        <5>3. /\ items[i].pos >= i - 1 /\ itemsNext - items[i].pos >= k - i
              /\ itemsDat[i].pos \in {-1, items[i].pos}
          BY <2>1, <5>1 DEF OrderedSoFar
        <5>4. \A j \in 1 .. i - 1 : items'[j] = items[j] /\ items[i].pos - items[j].pos >= i - j
          <6> SUFFICES ASSUME NEW j \in 1 .. i - 1
                       PROVE  items'[j] = items[j] /\ items[i].pos - items[j].pos >= i - j
            OBVIOUS
          <6>1. k \in Nat /\ i \in Nat
            BY <1>2, <5>1
          <6>2. j # k /\ j \in DOMAIN items
            BY <1>1, <1>2, <5>1, <6>1
          <6> QED
            BY <1>9, <2>1, <5>1, <6>2 DEF OrderedSoFar
        <5>5. itemsNext' - items'[i].pos >= orderAt' - i
          <6>1. orderAt' = k + 1 /\ k \in Nat /\ pos \in Nat /\ itemsNext \in Nat
            BY <1>2, <1>3, <1>4, <1>5
          <6> QED
            BY <2>2, <2>3, <5>1, <5>2, <5>3, <6>1
        <5> QED
          BY <5>2, <5>3, <5>4, <5>5
      <4> QED
        BY <4>1, <4>2
    <3> QED
      BY <3>1, <3>2 DEF OrderedSoFar
  <2>7. Spaced(items, orderAt)'
    <3>1. Spaced(items, k)
      BY <2>1 DEF ComesAbove
    <3>2. orderAt' = k + 1 /\ k \in Nat /\ DOMAIN items' = DOMAIN items
      BY <1>2, <1>3, <1>9
    <3>3. \A i \in DOMAIN items : i >= k + 1 => i >= k /\ i # k /\ items'[i] = items[i]
      BY <1>2, <1>9, <3>2
    <3>4. ASSUME NEW i \in DOMAIN items, i >= k + 1, items'[i].pos # -1
          PROVE  /\ items'[i].pos >= i - 1
                 /\ \A j \in k + 1 .. i - 1 : items'[j].pos # -1 => items'[i].pos - items'[j].pos >= i - j
      <4>1. i >= k /\ items'[i] = items[i]
        BY <3>3, <3>4
      <4>2. /\ items[i].pos >= i - 1
            /\ \A j \in k .. i - 1 : items[j].pos # -1 => items[i].pos - items[j].pos >= i - j
        BY <3>1, <3>4, <4>1 DEF Spaced
      <4>3. \A j \in k + 1 .. i - 1 : j \in k .. i - 1 /\ items'[j] = items[j]
        BY <1>2, <3>2, <3>3
      <4> QED
        BY <4>1, <4>2, <4>3
    <3> QED
      BY <3>2, <3>4 DEF Spaced
  <2>8. ASSUME NEW i \in DOMAIN items, i >= k + 1, NEW p \in Int, p = items[i].pos, p # -1
        PROVE  p + Shift(p)' >= itemsNext' + (i - (k + 1))
    <3>1. i \in Nat /\ k \in Nat /\ i >= k /\ k \in k .. i - 1
      <4>1. i \in Nat /\ k \in Nat
        BY <1>2
      <4> QED
        BY <2>8, <4>1
    <3>2. p + Shift(p) >= itemsNext + (i - k)
      BY <2>1, <2>8, <3>1 DEF ComesAbove
    <3>3. old.pos # -1 => p - old.pos >= i - k
      BY <2>1, <2>8, <3>1 DEF ComesAbove, Spaced
    <3>4. Shift(p) \in Nat /\ pos \in Nat /\ itemsNext \in Nat /\ old.pos \in Int /\ Shift(old.pos) \in Nat
      <4>1. p <= p
        OBVIOUS
      <4> QED
        BY <1>1, <1>4, <1>5, <4>1, ShiftGrows
    <3>5. CASE old.pos = -1
      <4>1. Shift(p)' \in Nat /\ Shift(p) <= Shift(p)'
        BY <1>1, <1>3, <3>4, <3>5, ShiftWith
      <4>2. pos = itemsNext
        BY <1>5, <3>5
      <4> QED
        BY <2>3, <3>1, <3>2, <3>4, <4>1, <4>2
    <3>6. CASE old.pos # -1
      <4>1. Shift(p)' = Shift(p)
        BY <1>3, <3>6 DEF Shift
      <4>2. p >= old.pos /\ old.pos <= p
        BY <3>1, <3>3, <3>4, <3>6
      <4>3. Shift(old.pos) <= Shift(p)
        BY <1>1, <3>4, <4>2, ShiftGrows
      <4>4. pos = old.pos + Shift(old.pos)
        BY <1>5, <3>6
      <4>5. p + Shift(p) >= (pos + 1) + (i - (k + 1))
        <5>1. p - old.pos >= i - k
          BY <3>3, <3>6
        <5> HIDE DEF old
        <5> QED
          BY <3>1, <3>4, <4>3, <4>4, <5>1
      <4> QED
        BY <2>3, <4>1, <4>5
    <3> QED
      BY <3>5, <3>6
  <2>9. ComesAbove'
    <3>1. \A i \in DOMAIN items : i >= k + 1 => items'[i] = items[i] /\ itemsDat'[i] = itemsDat[i]
      BY <1>2, <1>9, <1>10
    <3>2. \A i \in DOMAIN items : i >= k + 1 => itemsDat'[i] = items'[i]
      BY <1>2, <2>1, <3>1 DEF ComesAbove
    <3> QED
      BY <1>2, <1>3, <1>9, <2>7, <2>8, <3>1, <3>2 DEF ComesAbove
  <2> QED
    BY <2>6, <2>9
<1>15. orderAt' # 0
  BY <1>2, <1>3
<1>16. CountedAbove'
  <2>1. ASSUME NEW i \in DOMAIN items, i < orderAt' PROVE items'[i].pos < itemsNext'
    <3>1. CASE i = k
      BY <1>3, <1>4, <1>5, <1>6, <1>9, <3>1
    <3>2. CASE i # k
      <4>1. i < k /\ items'[i] = items[i] /\ items[i].pos \in Int
        BY <1>2, <1>3, <1>9, <2>1, <3>2
      <4>2. items[i].pos < itemsNext
        BY <1>1, <4>1 DEF CountedAbove
      <4> QED
        BY <1>3, <1>4, <1>5, <4>1, <4>2
    <3> QED
      BY <3>1, <3>2
  <2> QED
    BY <1>1, <1>3, <1>9, <2>1 DEF CountedAbove
<1>17. OrderedSoFar' <=> InOrder' /\ NextAbove'
  BY DEF OrderedSoFar, InOrder, NextAbove
<1> QED
  BY <1>3, <1>13, <1>14, <1>15, <1>16, <1>17 DEF ItemsInv

LEMMA ItemAddedKeeps == \A k \in {"tx", "entry"} : ItemsInv /\ ItemAdded(k) => ItemsInv'
<1> SUFFICES ASSUME NEW k \in {"tx", "entry"}, ItemsInv, ItemAdded(k) PROVE ItemsInv'
  OBVIOUS
<1> DEFINE x == [kind |-> k, pos |-> itemsNext]
           n == Len(items)
<1>1. ItemTypes /\ CountedAbove
  BY DEF ItemsInv
<1>2. /\ orderAt > Len(items) /\ items' = Append(items, x) /\ itemsDat' = Append(itemsDat, x)
      /\ itemsNext' = itemsNext + 1 /\ itemsNextDat' = itemsNext + 1 /\ orderAt' = orderAt + 1
      /\ misled' = (misled \/ \E i \in DOMAIN items : items[i].pos >= itemsNext)
      /\ UNCHANGED <<nOrderPosOffsets, counted, loads>>
  BY DEF ItemAdded, ItemsLoaded
<1>3. itemsNext \in Nat /\ orderAt \in Nat /\ items \in Seq(Item) /\ itemsDat \in Seq(Item) /\ n \in Nat
  BY <1>1 DEF ItemTypes
<1>4. orderAt = n + 1 /\ Len(itemsDat) = n
  <2>1. orderAt # 0
    BY <1>2, <1>3
  <2> QED
    BY <1>1, <1>2, <1>3, <2>1 DEF ItemTypes
<1>5. x \in Item /\ x.pos = itemsNext
  BY <1>3 DEF Item
<1> HIDE DEF x
<1>6. /\ items' \in Seq(Item) /\ Len(items') = n + 1 /\ DOMAIN items = 1 .. n /\ DOMAIN items' = 1 .. n + 1
      /\ items'[n + 1] = x /\ \A i \in 1 .. n : items'[i] = items[i]
  BY <1>2, <1>3, <1>5, ItemAppended
<1>7. /\ itemsDat' \in Seq(Item) /\ Len(itemsDat') = n + 1 /\ DOMAIN itemsDat = 1 .. n
      /\ DOMAIN itemsDat' = 1 .. n + 1 /\ itemsDat'[n + 1] = x /\ \A i \in 1 .. n : itemsDat'[i] = itemsDat[i]
  BY <1>2, <1>3, <1>4, <1>5, ItemAppended
<1> HIDE DEF n
<1>8. ItemTypes'
  <2>1. \A i \in DOMAIN items' : items'[i].pos >= -1
    BY <1>1, <1>3, <1>5, <1>6 DEF ItemTypes
  <2>2. \A i \in DOMAIN itemsDat' : itemsDat'[i].pos >= -1
    BY <1>1, <1>3, <1>5, <1>7 DEF ItemTypes
  <2>3. orderAt' = n + 2 /\ orderAt' \in Nat /\ orderAt' # 0 /\ itemsNext + 1 \in Nat
    BY <1>2, <1>3, <1>4
  <2> QED
    BY <1>1, <1>2, <1>3, <1>6, <1>7, <2>1, <2>2, <2>3 DEF ItemTypes
<1>9. ASSUME ~misled' PROVE OrderedSoFar' /\ ComesAbove'
  <2>1. OrderedSoFar
    <3>1. InOrder
      <4>1. ~misled
        BY <1>2, <1>9
      <4>2. orderAt # 0
        BY <1>3, <1>4
      <4> QED
        BY <4>1, <4>2 DEF ItemsInv
    <3>2. \A i \in DOMAIN items : items[i].pos < itemsNext
      <4> SUFFICES ASSUME NEW i \in DOMAIN items PROVE items[i].pos < itemsNext
        OBVIOUS
      <4>1. ~(items[i].pos >= itemsNext)
        BY <1>2, <1>9
      <4> QED
        BY <1>1, <1>3, <4>1, ItemsAre
    <3>3. orderAt = Len(items) + 1
      BY <1>4 DEF n
    <3> QED
      BY <1>1, <3>1, <3>2, <3>3, NextFromLast, OrderedParts
  <2>2. itemsNext >= n
    BY <1>3, <1>4, <2>1 DEF OrderedSoFar
  <2>3. \A i \in 1 .. n : items[i].pos \in Int
    BY <1>1, <1>6, ItemsAre
  <2>4. ASSUME NEW i \in 1 .. n + 1
        PROVE  /\ items'[i].pos >= i - 1 /\ (itemsNext + 1) - items'[i].pos >= (n + 2) - i
               /\ \A j \in 1 .. i - 1 : items'[i].pos - items'[j].pos >= i - j
               /\ itemsDat'[i].pos \in {-1, items'[i].pos}
    <3>1. CASE i = n + 1
      <4>1. ASSUME NEW j \in 1 .. n PROVE itemsNext - items'[j].pos >= (n + 1) - j
        <5>1. orderAt - 1 = n
          BY <1>3, <1>4
        <5>2. j \in 1 .. orderAt - 1
          BY <5>1
        <5>3. itemsNext - items[j].pos >= orderAt - j
          BY <2>1, <5>2 DEF OrderedSoFar
        <5> QED
          BY <1>4, <1>6, <5>3
      <4>2. \A j \in 1 .. i - 1 : items'[i].pos - items'[j].pos >= i - j
        <5>1. i - 1 = n
          BY <1>3, <3>1
        <5> QED
          BY <1>5, <1>6, <3>1, <4>1, <5>1
      <4>3. itemsNext >= (n + 1) - 1 /\ (itemsNext + 1) - itemsNext >= (n + 2) - (n + 1)
        BY <1>3, <2>2
      <4> QED
        BY <1>5, <1>6, <1>7, <3>1, <4>2, <4>3
    <3>2. CASE i # n + 1
      <4>1. i \in 1 .. n /\ i \in Nat
        BY <1>3, <3>2
      <4>2. items'[i] = items[i] /\ itemsDat'[i] = itemsDat[i] /\ items[i].pos \in Int
        BY <1>6, <1>7, <2>3, <4>1
      <4>3. /\ items[i].pos >= i - 1 /\ itemsNext - items[i].pos >= (n + 1) - i
            /\ itemsDat[i].pos \in {-1, items[i].pos}
            /\ \A j \in 1 .. i - 1 : items[i].pos - items[j].pos >= i - j
        <5>1. orderAt - 1 = n
          BY <1>3, <1>4
        <5> QED
          BY <1>4, <2>1, <4>1, <5>1 DEF OrderedSoFar
      <4>4. \A j \in 1 .. i - 1 : items'[j] = items[j]
        BY <1>3, <1>6, <4>1
      <4>5. (itemsNext + 1) - items[i].pos >= (n + 2) - i
        <5>1. itemsNext \in Nat /\ n \in Nat /\ i \in Nat /\ items[i].pos \in Int
          BY <1>3, <4>1, <4>2
        <5>2. itemsNext - items[i].pos >= (n + 1) - i
          BY <4>3
        <5> QED
          BY <5>1, <5>2
      <4> QED
        BY <4>2, <4>3, <4>4, <4>5
    <3> QED
      BY <3>1, <3>2
  <2>5. orderAt' = n + 2 /\ orderAt' - 1 = n + 1 /\ itemsNext' = itemsNext + 1 /\ itemsNext' >= orderAt' - 1
    BY <1>2, <1>3, <1>4, <2>2
  <2>6. OrderedSoFar'
    BY <2>4, <2>5 DEF OrderedSoFar
  <2>7. \A i \in DOMAIN items' : ~(i >= orderAt')
    BY <1>3, <1>6, <2>5
  <2>8. ComesAbove'
    BY <2>7 DEF ComesAbove, Spaced
  <2> QED
    BY <2>6, <2>8
<1>10. orderAt' # 0
  BY <1>2, <1>3
<1>11. CountedAbove'
  <2>1. ASSUME counted, NEW i \in 1 .. n + 1 PROVE items'[i].pos < itemsNext + 1
    <3>1. CASE i = n + 1
      BY <1>3, <1>5, <1>6, <3>1
    <3>2. CASE i # n + 1
      <4>1. i \in 1 .. n /\ i < orderAt /\ items'[i] = items[i]
        BY <1>3, <1>4, <1>6, <3>2
      <4>2. items[i].pos < itemsNext /\ items[i].pos \in Int
        BY <1>1, <1>6, <2>1, <4>1, ItemsAre DEF CountedAbove
      <4> QED
        BY <1>3, <4>1, <4>2
    <3> QED
      BY <3>1, <3>2
  <2>2. ~(orderAt' \in DOMAIN items')
    BY <1>2, <1>3, <1>4, <1>6
  <2> QED
    BY <1>2, <1>6, <2>1, <2>2 DEF CountedAbove
<1>12. (OrderedSoFar' <=> InOrder' /\ NextAbove')
  BY DEF OrderedSoFar, InOrder, NextAbove
<1> QED
  BY <1>8, <1>9, <1>10, <1>11, <1>12 DEF ItemsInv

\* An entry of a named account only moves the next position on.
LEMMA NamedAddedKeeps == ItemsInv /\ NamedAdded => ItemsInv'
<1> SUFFICES ASSUME ItemsInv, NamedAdded PROVE ItemsInv'
  OBVIOUS
<1>1. ItemTypes /\ CountedAbove
  BY DEF ItemsInv
<1>2. /\ itemsNext' = itemsNext + 1 /\ itemsNextDat' = itemsNext + 1
      /\ UNCHANGED <<items, itemsDat, orderAt, nOrderPosOffsets, counted, misled, loads>>
  BY DEF NamedAdded
<1>3. itemsNext \in Nat /\ DOMAIN items = 1 .. Len(items) /\ Len(items) \in Nat
      /\ \A i \in DOMAIN items : items[i].pos \in Int
  BY <1>1, ItemsAre DEF ItemTypes
<1>4. ItemTypes'
  BY <1>1, <1>2, <1>3 DEF ItemTypes
<1>5. CountedAbove'
  <2>1. ASSUME counted, NEW i \in DOMAIN items, i < orderAt PROVE items[i].pos < itemsNext + 1
    BY <1>1, <1>3, <2>1 DEF CountedAbove
  <2> QED
    BY <1>1, <1>2, <2>1 DEF CountedAbove
<1>6. orderAt > Len(items) /\ orderAt \in Nat /\ orderAt # 0
  BY <1>1, <1>3 DEF NamedAdded, ItemsLoaded, ItemTypes
<1>7. orderAt = Len(items) + 1
  BY <1>1, <1>3, <1>6 DEF ItemTypes
<1>8. ASSUME ~misled PROVE InOrder' /\ (counted' => NextAbove') /\ ComesAbove'
  <2>1. InOrder /\ (counted => NextAbove) /\ ComesAbove
    BY <1>6, <1>8 DEF ItemsInv
  <2>2. InOrder'
    BY <1>2, <2>1 DEF InOrder
  <2>3. ASSUME counted PROVE NextAbove'
    <3>1. NextAbove
      BY <2>1, <2>3
    <3>2. ASSUME NEW i \in 1 .. orderAt - 1 PROVE (itemsNext + 1) - items[i].pos >= orderAt - i
      <4>1. i \in DOMAIN items /\ i \in Nat
        BY <1>3, <1>6, <1>7
      <4>2. itemsNext - items[i].pos >= orderAt - i /\ items[i].pos \in Int
        BY <1>3, <3>1, <4>1 DEF NextAbove
      <4> QED
        BY <1>3, <1>6, <4>1, <4>2
    <3>3. itemsNext + 1 >= orderAt - 1
      BY <1>3, <1>6, <3>1 DEF NextAbove
    <3> QED
      BY <1>2, <3>2, <3>3 DEF NextAbove
  <2>4. \A i \in DOMAIN items : ~(i >= orderAt)
    BY <1>3, <1>7
  <2>5. ComesAbove'
    BY <1>2, <2>4 DEF ComesAbove, Spaced
  <2> QED
    BY <1>2, <2>2, <2>3, <2>5
<1> QED
  BY <1>2, <1>4, <1>5, <1>6, <1>8 DEF ItemsInv

LEMMA ItemRewrittenKeeps == \A i \in Int : ItemsInv /\ ItemRewritten(i) => ItemsInv'
<1> SUFFICES ASSUME NEW n \in Int, ItemsInv, ItemRewritten(n) PROVE ItemsInv'
  OBVIOUS
<1>1. ItemTypes /\ CountedAbove
  BY DEF ItemsInv
<1>2. /\ orderAt > Len(items) /\ n \in DOMAIN items /\ itemsDat' = [itemsDat EXCEPT ![n] = items[n]]
      /\ UNCHANGED <<items, itemsNext, itemsNextDat, orderAt, nOrderPosOffsets, counted, misled, loads>>
  BY DEF ItemRewritten, ItemsLoaded
<1>3. /\ DOMAIN items = 1 .. Len(items) /\ Len(items) \in Nat /\ orderAt \in Nat
      /\ items[n] \in Item /\ items[n].pos >= -1 /\ itemsDat \in Seq(Item)
      /\ DOMAIN itemsDat = 1 .. Len(itemsDat)
  BY <1>1, <1>2, ItemsAre DEF ItemTypes
<1>4. orderAt = Len(items) + 1 /\ Len(itemsDat) = Len(items)
  <2>1. orderAt # 0
    BY <1>2, <1>3
  <2>2. Len(items) = Len(itemsDat) /\ orderAt <= Len(items) + 1
    BY <1>1, <2>1 DEF ItemTypes
  <2> QED
    BY <1>2, <1>3, <2>2
<1>5. /\ itemsDat' \in Seq(Item) /\ Len(itemsDat') = Len(itemsDat) /\ DOMAIN itemsDat' = DOMAIN itemsDat
      /\ itemsDat'[n] = items[n] /\ \A i \in DOMAIN itemsDat : i # n => itemsDat'[i] = itemsDat[i]
  BY <1>2, <1>3, <1>4, ItemReplaced
<1>6. ItemTypes'
  BY <1>1, <1>2, <1>3, <1>4, <1>5 DEF ItemTypes
<1>7. ASSUME ~misled PROVE InOrder' /\ (counted' => NextAbove') /\ ComesAbove'
  <2>1. InOrder /\ (counted => NextAbove) /\ ComesAbove
    BY <1>3, <1>4, <1>7 DEF ItemsInv
  <2>2. ASSUME NEW i \in 1 .. orderAt - 1 PROVE itemsDat'[i].pos \in {-1, items[i].pos}
    <3>1. i \in DOMAIN itemsDat
      BY <1>3, <1>4
    <3> QED
      BY <1>5, <2>1, <3>1 DEF InOrder
  <2>3. InOrder' /\ (counted' => NextAbove')
    BY <1>2, <2>1, <2>2 DEF InOrder, NextAbove
  <2>4. \A i \in DOMAIN items : ~(i >= orderAt)
    BY <1>3, <1>4
  <2>5. ComesAbove'
    BY <1>2, <2>4 DEF ComesAbove, Spaced
  <2> QED
    BY <2>3, <2>5
<1> QED
  BY <1>1, <1>2, <1>3, <1>4, <1>6, <1>7 DEF ItemsInv, CountedAbove

\* What a stop leaves on the disk has room for the items without a position, unless it fell
\* between moves: then nothing was moved, or nothing with a position is left to be moved.
LEMMA ItemsStopKeeps == ItemsInv /\ ItemsStop => ItemsInv'
<1> SUFFICES ASSUME ItemsInv, ItemsStop PROVE ItemsInv'
  OBVIOUS
<1> DEFINE n == Len(items)
<1>1. ItemTypes /\ CountedAbove
  BY DEF ItemsInv
<1>2. /\ orderAt > 0 /\ items' = <<>> /\ itemsNext' = 0 /\ orderAt' = 0 /\ nOrderPosOffsets' = {} /\ ~counted'
      /\ counted' \in BOOLEAN
      /\ misled' = (misled \/ AmidMoves) /\ UNCHANGED <<itemsDat, itemsNextDat, loads>>
  BY DEF ItemsStop
<1>3. DOMAIN items' = {} /\ items' \in Seq(Item)
  BY <1>2
<1>4. ItemTypes' /\ CountedAbove'
  BY <1>1, <1>2, <1>3, FS_EmptySet DEF ItemTypes, CountedAbove, AmidMoves
<1>5. /\ n \in Nat /\ orderAt \in Nat /\ orderAt # 0 /\ orderAt <= n + 1 /\ Len(itemsDat) = n
      /\ DOMAIN itemsDat = 1 .. n /\ DOMAIN items = 1 .. n /\ itemsNext \in Nat
      /\ \A i \in 1 .. n : items[i].pos \in Int /\ itemsDat[i].pos \in Int
  BY <1>1, <1>2, ItemsAre DEF ItemTypes
<1> HIDE DEF n
<1>6. ASSUME ~misled' PROVE Spaced(itemsDat', 1)
  <2>1. InOrder /\ (counted => NextAbove) /\ ComesAbove /\ ~AmidMoves
    BY <1>2, <1>5, <1>6 DEF ItemsInv
  <2> SUFFICES ASSUME NEW i \in 1 .. n, itemsDat[i].pos # -1
               PROVE  /\ itemsDat[i].pos >= i - 1
                      /\ \A j \in 1 .. i - 1 : itemsDat[j].pos # -1 => itemsDat[i].pos - itemsDat[j].pos >= i - j
    BY <1>2, <1>5 DEF Spaced
  <2>2. \A j \in 1 .. i - 1 : j \in 1 .. n /\ j \in Nat
    BY <1>5
  <2>3. \A j \in 1 .. orderAt - 1 : itemsDat[j].pos # -1 => itemsDat[j].pos = items[j].pos
    BY <2>1 DEF InOrder
  <2>4. CASE i < orderAt
    <3>1. i \in 1 .. orderAt - 1 /\ \A j \in 1 .. i - 1 : j \in 1 .. orderAt - 1
      BY <1>5, <2>4
    <3>2. /\ items[i].pos >= i - 1
          /\ \A j \in 1 .. i - 1 : items[i].pos - items[j].pos >= i - j
      BY <2>1, <3>1 DEF InOrder
    <3> QED
      BY <2>3, <3>1, <3>2
  <2>5. CASE ~(i < orderAt)
    <3>1. i >= orderAt /\ i \in DOMAIN items /\ itemsDat[i] = items[i] /\ items[i].pos # -1
      <4>1. i >= orderAt /\ i \in DOMAIN items
        BY <1>5, <2>5
      <4>2. itemsDat[i] = items[i]
        BY <2>1, <4>1 DEF ComesAbove
      <4> QED
        BY <4>1, <4>2
    <3>2. /\ items[i].pos >= i - 1
          /\ \A j \in orderAt .. i - 1 : items[j].pos # -1 => items[i].pos - items[j].pos >= i - j
      BY <2>1, <3>1 DEF ComesAbove, Spaced
    <3>3. nOrderPosOffsets = {}
      BY <2>1, <3>1 DEF AmidMoves
    <3>4. Shift(items[i].pos) = 0
      <4>1. Cardinality({o \in {} : items[i].pos >= o}) = 0
        BY FS_EmptySet
      <4> QED
        BY <3>3, <4>1 DEF Shift
    <3>5. items[i].pos >= itemsNext + (i - orderAt)
      <4>1. items[i].pos + Shift(items[i].pos) >= itemsNext + (i - orderAt)
        BY <2>1, <3>1 DEF ComesAbove
      <4> QED
        BY <1>5, <3>1, <3>4, <4>1
    <3>6. NextAbove
      <4>1. orderAt \in DOMAIN items
        BY <1>5, <3>1
      <4> QED
        BY <1>1, <2>1, <4>1 DEF CountedAbove
    <3>7. ASSUME NEW j \in 1 .. i - 1, itemsDat[j].pos # -1
          PROVE  itemsDat[i].pos - itemsDat[j].pos >= i - j
      <4>1. CASE j < orderAt
        <5>1. j \in 1 .. orderAt - 1 /\ j \in 1 .. n /\ j \in Nat /\ i \in Nat
          BY <1>5, <2>2, <4>1
        <5>2. itemsNext - items[j].pos >= orderAt - j /\ itemsDat[j].pos = items[j].pos
          BY <2>3, <3>6, <3>7, <5>1 DEF NextAbove
        <5>3. items[i].pos \in Int /\ items[j].pos \in Int
          BY <1>5, <5>1
        <5> QED
          BY <1>5, <3>1, <3>5, <5>1, <5>2, <5>3
      <4>2. CASE ~(j < orderAt)
        <5>1. j \in orderAt .. i - 1 /\ j \in DOMAIN items /\ j >= orderAt
          BY <1>5, <2>2, <4>2
        <5>2. itemsDat[j] = items[j]
          BY <2>1, <5>1 DEF ComesAbove
        <5> QED
          BY <3>1, <3>2, <3>7, <5>1, <5>2
      <4> QED
        BY <4>1, <4>2
    <3> QED
      BY <3>1, <3>2, <3>7
  <2> QED
    BY <2>4, <2>5
<1> QED
  BY <1>2, <1>4, <1>6 DEF ItemsInv

LEMMA ItemsNextHolds == ItemsInv /\ [ItemsNextStep]_itemVars => ItemsInv'
<1> SUFFICES ASSUME ItemsInv, [ItemsNextStep]_itemVars PROVE ItemsInv'
  OBVIOUS
<1>1. CASE UNCHANGED itemVars
  BY <1>1 DEF itemVars, ItemsInv, ItemTypes, CountedAbove, InOrder, NextAbove, ComesAbove, Spaced, Shift
<1>2. CASE ItemsNextStep
  <2>1. ASSUME NEW i \in 1 .. MaxItems, ItemRewritten(i) PROVE ItemsInv'
    BY <2>1, ItemRewrittenKeeps
  <2> QED
    BY <1>2, <2>1, LoadItemsKeeps, ReorderKeeps, ItemsStopKeeps, OldProgramAddsKeeps, ItemAddedKeeps,
       OldNamedKeeps, NamedAddedKeeps DEF ItemsNextStep
<1> QED
  BY <1>1, <1>2

\* For any number of items and loads: the positions of the transactions are distinct and below
\* the next one, in memory, on disk and in a backup; the next position that ReorderTransactions
\* counted is above those of the transactions and of the entries of the account "", and these
\* are in the order of their times, but for a stop between moves and an item that got a
\* position below another's, because the load had the next one from the disk.
THEOREM PositionsStaySound == TxSpec /\ ItemsSpec => []PositionsSound
<1>1. TxInv => OrderUnique
  BY DEF TxInv, PlacesAgree, FilePlaced, Placed, OrderUnique
<1>2. ItemsInv => ItemsOrdered
  <2> SUFFICES ASSUME ItemsInv, ItemsLoaded PROVE ItemsOrdered
    BY DEF ItemsOrdered
  <2>1. /\ ItemTypes /\ CountedAbove /\ Len(items) \in Nat /\ DOMAIN items = 1 .. Len(items)
        /\ \A j \in DOMAIN items : items[j].pos \in Int
    BY ItemsAre DEF ItemsInv
  <2>2. orderAt \in Nat /\ orderAt > Len(items) /\ orderAt # 0
    BY <2>1 DEF ItemsLoaded, ItemTypes
  <2>3. \A i \in DOMAIN items : i < orderAt /\ i \in 1 .. orderAt - 1 /\ i \in Nat
    BY <2>1, <2>2
  <2>4. counted => \A i \in DOMAIN items : items[i].pos < itemsNext
    BY <2>1, <2>3 DEF CountedAbove
  <2>5. ASSUME ~misled, NEW i \in DOMAIN items, NEW j \in 1 .. i - 1
        PROVE  items[j].pos < items[i].pos
    <3>1. items[i].pos - items[j].pos >= i - j
      BY <2>2, <2>3, <2>5 DEF ItemsInv, InOrder
    <3>2. i \in Nat /\ j \in Nat /\ j < i /\ j \in DOMAIN items
      BY <2>1
    <3> QED
      BY <2>1, <3>1, <3>2
  <2> QED
    BY <2>4, <2>5 DEF ItemsOrdered
<1>3. TxSpec => []TxInv
  BY TxInitHolds, TxNextHolds, PTL DEF TxSpec
<1>4. ItemsSpec => []ItemsInv
  BY ItemsInitHolds, ItemsNextHolds, PTL DEF ItemsSpec
<1>5. OrderUnique /\ ItemsOrdered => PositionsSound
  BY DEF PositionsSound
<1> QED
  BY <1>1, <1>2, <1>3, <1>4, <1>5, PTL

----------------------------------------------------------------------------
(* Choosing coins.                                                         *)

CoinWorth(s, I, k) == IF k \in I THEN s[k].nValue ELSE 0

\* What Total adds up: the coins up to each position.
SumsOf(s, I, f) ==
    f \in [0 .. Len(s) -> Nat] /\ f[0] = 0 /\ \A k \in 1 .. Len(s) : f[k] = f[k - 1] + CoinWorth(s, I, k)

LEMMA CoinTypes ==
    ASSUME NEW s \in Seq(Coin)
    PROVE  /\ Len(s) \in Nat /\ DOMAIN s = 1 .. Len(s)
           /\ \A k \in 1 .. Len(s) : s[k].nValue \in Nat
<1>1. \A c \in Coin : c.nValue \in Nat
  BY CoinSelectAssumption DEF Coin
<1> QED
  BY <1>1

UnfoldSum(s, I, g) == [k \in 0 .. Len(s) |-> IF k = 0 THEN 0 ELSE g[k - 1] + CoinWorth(s, I, k)]

LEMMA TotalIsSum ==
    ASSUME NEW s \in Seq(Coin), NEW I
    PROVE  \E f : SumsOf(s, I, f) /\ Total(s, I) = f[Len(s)]
<1> DEFINE n == Len(s)
           x0 == 0
           T == [p \in (1 .. n) \X Nat |-> p[2] + CoinWorth(s, I, p[1])]
<1>1. n \in Nat /\ \A k \in 1 .. n : CoinWorth(s, I, k) \in Nat
  BY CoinTypes DEF CoinWorth
<1>2. T \in [(1 .. n) \X Nat -> Nat] /\ \A k \in 1 .. n, v \in Nat : T[<<k, v>>] = v + CoinWorth(s, I, k)
  BY <1>1
<1>3. x0 \in Nat
  OBVIOUS
<1> HIDE DEF T
<1>4. PICK g \in [0 .. n -> Nat] : g = UnfoldOver(n, x0, T, g)
  <2> HIDE DEF n, x0
  <2> QED
    <3>1. LoopOver(Nat, x0, n, T)
      BY <1>1, <1>2, <1>3 DEF LoopOver
    <3>2. \E g \in [0 .. n -> Nat] : g = UnfoldOver(n, x0, T, g)
      BY <3>1, FiniteRecursion
    <3> QED
      BY <3>2
<1>5. g = UnfoldSum(s, I, g)
  <2>1. \A k \in 0 .. n : UnfoldOver(n, x0, T, g)[k] = UnfoldSum(s, I, g)[k]
    <3> SUFFICES ASSUME NEW k \in 0 .. n PROVE UnfoldOver(n, x0, T, g)[k] = UnfoldSum(s, I, g)[k]
      OBVIOUS
    <3>1. k # 0 => k \in 1 .. n /\ k - 1 \in 0 .. n
      BY <1>1
    <3>2. k # 0 => g[k - 1] \in Nat
      BY <1>4, <3>1
    <3> QED
      BY <1>1, <1>2, <3>1, <3>2 DEF UnfoldOver, UnfoldSum
  <2> QED
    BY <1>4, <2>1 DEF UnfoldOver, UnfoldSum
<1>6. PICK f : f = UnfoldSum(s, I, f) /\ Total(s, I) = f[n]
  <2> DEFINE f == CHOOSE x : x = UnfoldSum(s, I, x)
  <2>1. f = UnfoldSum(s, I, f)
    BY <1>5
  <2>2. Total(s, I) = f[n]
    BY DEF Total, UnfoldSum, CoinWorth
  <2> QED
    BY <2>1, <2>2
<1>7. DOMAIN f = 0 .. n /\ f[0] = 0 /\ \A k \in 1 .. n : f[k] = f[k - 1] + CoinWorth(s, I, k)
  <2>1. \A k \in 0 .. n : UnfoldSum(s, I, f)[k] = IF k = 0 THEN 0 ELSE f[k - 1] + CoinWorth(s, I, k)
    BY DEF UnfoldSum
  <2>2. DOMAIN UnfoldSum(s, I, f) = 0 .. n
    BY DEF UnfoldSum
  <2> QED
    BY <1>1, <1>6, <2>1, <2>2
<1>8. \A k \in 0 .. n : f[k] \in Nat
  <2> DEFINE S == {k \in 0 .. n : f[k] \in Nat}
  <2>1. 0 \in S
    BY <1>1, <1>7
  <2>2. ASSUME NEW k \in 1 .. n, k - 1 \in S PROVE k \in S
    BY <1>1, <1>7, <2>2
  <2> HIDE DEF S, n
  <2>3. \A k \in 0 .. n : k \in S
    BY <1>1, <2>1, <2>2, UpTo
  <2> QED
    BY <2>3 DEF S
<1>9. f \in [0 .. n -> Nat]
  <2>1. f = [k \in 0 .. n |-> f[k]]
    BY <1>6 DEF UnfoldSum
  <2> HIDE DEF n
  <2> QED
    BY <1>8, <2>1
<1> QED
  BY <1>6, <1>7, <1>9 DEF SumsOf

\* What coins are worth is a number, and one coin is worth its value.
LEMMA TotalFact ==
    ASSUME NEW s \in Seq(Coin)
    PROVE  (\A I : Total(s, I) \in Nat) /\ (\A i \in DOMAIN s : Total(s, {i}) = s[i].nValue)
<1>1. Len(s) \in Nat /\ DOMAIN s = 1 .. Len(s) /\ \A k \in 1 .. Len(s) : s[k].nValue \in Nat
  BY CoinTypes
<1>2. ASSUME NEW I PROVE Total(s, I) \in Nat
  BY <1>1, TotalIsSum DEF SumsOf
<1>3. ASSUME NEW i \in DOMAIN s PROVE Total(s, {i}) = s[i].nValue
  <2>1. PICK f : SumsOf(s, {i}, f) /\ Total(s, {i}) = f[Len(s)]
    BY TotalIsSum
  <2> DEFINE n == Len(s)
             v == s[i].nValue
             S == {k \in 0 .. n : f[k] = IF k < i THEN 0 ELSE v}
  <2>2. n \in Nat /\ i \in 1 .. n /\ v \in Nat
    BY <1>1, <1>3
  <2>3. f[0] = 0 /\ \A k \in 1 .. n : f[k] = f[k - 1] + (IF k = i THEN v ELSE 0)
    BY <2>1 DEF SumsOf, CoinWorth
  <2>4. 0 \in S
    BY <2>2, <2>3
  <2>5. ASSUME NEW k \in 1 .. n, k - 1 \in S PROVE k \in S
    <3>1. k \in Nat /\ k # 0 /\ k \in 0 .. n /\ i \in Nat
      BY <2>2
    <3>2. f[k - 1] = (IF k - 1 < i THEN 0 ELSE v) /\ f[k] = f[k - 1] + (IF k = i THEN v ELSE 0)
      BY <2>3, <2>5
    <3> HIDE DEF v, n
    <3>3. f[k] = IF k < i THEN 0 ELSE v
      BY <2>2, <3>1, <3>2
    <3> QED
      BY <3>1, <3>3
  <2> HIDE DEF S, n
  <2>6. \A k \in 0 .. n : k \in S
    BY <2>2, <2>4, <2>5, UpTo
  <2>7. n \in S
    BY <2>2, <2>6
  <2> QED
    BY <2>1, <2>2, <2>7 DEF S, n
<1> QED
  BY <1>2, <1>3

\* The sets of coins out of I that reach the target.
Reaching(s, I, target) == {F \in SUBSET I : Total(s, F) >= target}

Accs(s, I, target) == [pass : {0, 1}, in : SUBSET I, found : SUBSET Reaching(s, I, target), reached : BOOLEAN]

LEMMA TurnFact ==
    ASSUME NEW s \in Seq(Coin), NEW I, NEW target \in Int, NEW R,
           NEW acc \in Accs(s, I, target), NEW i \in I
    PROVE  Turn(s, target, R, acc, i) \in Accs(s, I, target)
<1> DEFINE in == acc.in \cup {i}
<1>1. in \in SUBSET I /\ Total(s, in) \in Nat
  BY TotalFact DEF Accs
<1>2. ~(Total(s, in) < target) => in \in Reaching(s, I, target)
  BY <1>1 DEF Reaching
<1> HIDE DEF in
<1>3. [acc EXCEPT !.in = in] \in Accs(s, I, target)
  BY <1>1 DEF Accs
<1>4. ~(Total(s, in) < target) => [acc EXCEPT !.reached = TRUE, !.found = @ \cup {in}] \in Accs(s, I, target)
  BY <1>2 DEF Accs
<1> QED
  BY <1>3, <1>4 DEF Turn, in

PassStep(s, I, target, R, a, k) == IF k \in I THEN Turn(s, target, R, a, k) ELSE a

UnfoldPass(s, I, target, R, acc, g) ==
    [k \in 0 .. Len(s) |-> IF k = 0 THEN acc ELSE PassStep(s, I, target, R, g[k - 1], k)]

LEMMA PassFact ==
    ASSUME NEW s \in Seq(Coin), NEW I, NEW target \in Int, NEW R, NEW acc \in Accs(s, I, target)
    PROVE  Pass(s, I, target, R, acc) \in Accs(s, I, target)
<1> DEFINE n == Len(s)
           X == Accs(s, I, target)
           Step(a, k) == PassStep(s, I, target, R, a, k)
           Unfold(g) == UnfoldPass(s, I, target, R, acc, g)
           T == [p \in (1 .. n) \X X |-> Step(p[2], p[1])]
<1>1. n \in Nat /\ acc \in X
  OBVIOUS
<1>2. \A k : \A a \in X : Step(a, k) \in X
  BY TurnFact DEF PassStep
<1> HIDE DEF X
<1>3. T \in [(1 .. n) \X X -> X] /\ \A k \in 1 .. n, a \in X : T[<<k, a>>] = Step(a, k)
  <2> HIDE DEF n, Step
  <2> QED
    BY <1>2
<1> HIDE DEF T
<1>4. PICK g \in [0 .. n -> X] : g = UnfoldOver(n, acc, T, g)
  <2> HIDE DEF n
  <2> QED
    <3>1. LoopOver(X, acc, n, T)
      BY <1>1, <1>3 DEF LoopOver
    <3>2. \E g \in [0 .. n -> X] : g = UnfoldOver(n, acc, T, g)
      BY <3>1, FiniteRecursion
    <3> QED
      BY <3>2
<1>5. g = Unfold(g)
  <2>1. \A k \in 0 .. n : UnfoldOver(n, acc, T, g)[k] = Unfold(g)[k]
    <3> SUFFICES ASSUME NEW k \in 0 .. n PROVE UnfoldOver(n, acc, T, g)[k] = Unfold(g)[k]
      OBVIOUS
    <3>1. k # 0 => k \in 1 .. n /\ g[k - 1] \in X
      BY <1>1, <1>4
    <3> QED
      BY <1>1, <1>3, <3>1 DEF UnfoldOver, UnfoldPass
  <2> QED
    BY <1>4, <2>1 DEF UnfoldOver, UnfoldPass
<1>6. PICK f : f = Unfold(f) /\ Pass(s, I, target, R, acc) = f[n]
  <2> DEFINE f == CHOOSE x : x = Unfold(x)
  <2>1. f = Unfold(f)
    BY <1>5
  <2>2. Pass(s, I, target, R, acc) = f[n]
    BY DEF Pass, UnfoldPass, PassStep
  <2> QED
    BY <2>1, <2>2
<1>7. f[0] = acc /\ \A k \in 1 .. n : f[k] = Step(f[k - 1], k)
  <2>1. \A k \in 0 .. n : Unfold(f)[k] = IF k = 0 THEN acc ELSE Step(f[k - 1], k)
    BY DEF UnfoldPass
  <2> QED
    BY <1>1, <1>6, <2>1
<1> DEFINE S == {k \in 0 .. n : f[k] \in X}
<1>8. 0 \in S
  BY <1>1, <1>7
<1>9. ASSUME NEW k \in 1 .. n, k - 1 \in S PROVE k \in S
  <2>1. f[k - 1] \in X /\ k \in 0 .. n
    BY <1>1, <1>9
  <2> HIDE DEF Step
  <2> QED
    BY <1>2, <1>7, <2>1
<1> HIDE DEF S, n
<1>10. \A k \in 0 .. n : k \in S
  BY <1>1, <1>8, <1>9, UpTo
<1>11. n \in S
  BY <1>1, <1>10
<1> QED
  BY <1>6, <1>11 DEF S, X

LEMMA RepetitionFact ==
    ASSUME NEW s \in Seq(Coin), NEW I, NEW target \in Int, NEW R
    PROVE  Repetition(s, I, target, R) \subseteq Reaching(s, I, target)
<1> DEFINE start == [pass |-> 0, in |-> {}, found |-> {}, reached |-> FALSE]
           first == Pass(s, I, target, R, start)
<1>1. start \in Accs(s, I, target)
  BY DEF Accs
<1> HIDE DEF start
<1>2. first \in Accs(s, I, target)
  BY <1>1, PassFact
<1> HIDE DEF first
<1>3. [first EXCEPT !.pass = 1] \in Accs(s, I, target)
  BY <1>2 DEF Accs
<1>4. Pass(s, I, target, R, [first EXCEPT !.pass = 1]) \in Accs(s, I, target)
  BY <1>3, PassFact
<1>5. \A a \in Accs(s, I, target) : a.found \subseteq Reaching(s, I, target)
  BY DEF Accs
<1>6. /\ first.found \subseteq Reaching(s, I, target)
      /\ Pass(s, I, target, R, [first EXCEPT !.pass = 1]).found \subseteq Reaching(s, I, target)
  BY <1>2, <1>4, <1>5
<1>7. Repetition(s, I, target, R) =
        IF first.reached THEN first.found ELSE Pass(s, I, target, R, [first EXCEPT !.pass = 1]).found
  BY DEF Repetition, first, start
<1> QED
  BY <1>6, <1>7

\* The approximation gives all coins or some that reach the target.
LEMMA ApproxFact ==
    ASSUME NEW s \in Seq(Coin), NEW I, NEW target \in Int
    PROVE  /\ I \in ApproximateBestSubset(s, I, target)
           /\ \A S \in ApproximateBestSubset(s, I, target) : S = I \/ S \in Reaching(s, I, target)
<1> DEFINE Best(F) == {S \in F : (\A T \in F : Total(s, S) <= Total(s, T)) /\ Total(s, S) < Total(s, I)}
           Bests == UNION {Best(Repetition(s, I, target, R)) : R \in SUBSET I}
<1>1. ApproximateBestSubset(s, I, target) = {I} \cup Bests
  BY DEF ApproximateBestSubset
<1>2. \A S \in Bests : \E R \in SUBSET I : S \in Repetition(s, I, target, R)
  OBVIOUS
<1> HIDE DEF Bests
<1>3. \A S \in Bests : S \in Reaching(s, I, target)
  BY <1>2, RepetitionFact
<1> QED
  BY <1>1, <1>3

\* The coins with enough confirmations.
Deep(s, nConfMine, nConfTheirs) ==
    {i \in DOMAIN s : s[i].nDepth >= (IF s[i].fromMe THEN nConfMine ELSE nConfTheirs)}

\* What a choice among the coins ok promises.
ChoiceGood(s, ok, target, S) ==
    /\ S \subseteq ok /\ Total(s, S) >= target
    /\ Total(s, ok) >= target + CENT => Total(s, S) = target \/ Total(s, S) >= target + CENT

LEMMA MinConfFact ==
    ASSUME NEW s \in Seq(Coin), NEW target \in Nat, NEW nConfMine, NEW nConfTheirs,
           NEW sel, sel = SelectCoinsMinConf(s, target, nConfMine, nConfTheirs),
           NEW ok, ok = Deep(s, nConfMine, nConfTheirs)
    PROVE  (\A S \in sel : ChoiceGood(s, ok, target, S)) /\ (Total(s, ok) >= target => sel # {})
<1> DEFINE exact == {i \in ok : s[i].nValue = target}
           lower == {i \in ok : s[i].nValue < target + CENT}
           larger == ok \ lower
           lowestLarger == {{i} : i \in {j \in larger : \A k \in larger : s[j].nValue <= s[k].nValue}}
           total == Total(s, lower)
           ShortOfCent(b) == Total(s, b) # target /\ Total(s, b) < target + CENT
           Choice(best) ==
               IF larger # {} /\ (ShortOfCent(best) \/ \E L \in lowestLarger : Total(s, L) <= Total(s, best))
               THEN lowestLarger ELSE {best}
           Second(best) ==
               IF Total(s, best) # target /\ total >= target + CENT
               THEN ApproximateBestSubset(s, lower, target + CENT) ELSE {best}
           Approx == ApproximateBestSubset(s, lower, target)
           bests == UNION {Second(b) : b \in Approx}
<1>1. sel = IF exact # {} THEN {{i} : i \in exact}
            ELSE IF total = target THEN {lower}
            ELSE IF total < target THEN lowestLarger
            ELSE UNION {Choice(c) : c \in bests}
  BY DEF SelectCoinsMinConf, Deep
<1>2. /\ CENT \in Nat /\ target + CENT \in Nat /\ ok \subseteq DOMAIN s
      /\ \A i \in DOMAIN s : s[i].nValue \in Nat /\ Total(s, {i}) = s[i].nValue
      /\ \A J : Total(s, J) \in Nat
  <2>1. CENT \in Nat /\ target + CENT \in Nat
    BY CoinSelectAssumption
  <2>2. ok \subseteq DOMAIN s
    BY DEF Deep
  <2>3. \A i \in DOMAIN s : s[i].nValue \in Nat
    BY CoinTypes
  <2>4. \A i \in DOMAIN s : Total(s, {i}) = s[i].nValue
    BY TotalFact
  <2>5. \A J : Total(s, J) \in Nat
    BY TotalFact
  <2> QED
    BY <2>1, <2>2, <2>3, <2>4, <2>5
<1>3. \A i \in larger : i \in ok /\ s[i].nValue \in Nat /\ s[i].nValue >= target + CENT
  <2> SUFFICES ASSUME NEW i \in larger PROVE i \in ok /\ s[i].nValue \in Nat /\ s[i].nValue >= target + CENT
    OBVIOUS
  <2>1. i \in ok /\ ~(s[i].nValue < target + CENT)
    OBVIOUS
  <2>2. s[i].nValue \in Nat
    BY <1>2, <2>1
  <2> QED
    BY <1>2, <2>1, <2>2
<1>4. \A L \in lowestLarger : ChoiceGood(s, ok, target, L)
  <2>1. \A L \in lowestLarger : \E i \in larger : L = {i}
    OBVIOUS
  <2> HIDE DEF lowestLarger, larger
  <2>2. ASSUME NEW i \in larger PROVE ChoiceGood(s, ok, target, {i})
    <3>1. i \in ok /\ Total(s, {i}) = s[i].nValue /\ s[i].nValue \in Nat /\ s[i].nValue >= target + CENT
      BY <1>2, <1>3
    <3> QED
      BY <1>2, <3>1 DEF ChoiceGood
  <2> QED
    BY <2>1, <2>2
<1>5. larger # {} => lowestLarger # {}
  <2> SUFFICES ASSUME larger # {} PROVE \E j \in larger : \A k \in larger : s[j].nValue <= s[k].nValue
    OBVIOUS
  <2> DEFINE V == {s[j].nValue : j \in larger}
  <2>1. V \in SUBSET Nat /\ V # {}
    BY <1>3
  <2>2. (\A v \in V : \E j \in larger : v = s[j].nValue) /\ \A j \in larger : s[j].nValue \in V
    OBVIOUS
  <2> HIDE DEF V
  <2>3. PICK v \in V : \A w \in V : v <= w
    BY <2>1, LeastNumber
  <2>4. PICK j \in larger : v = s[j].nValue
    BY <2>2
  <2> QED
    BY <2>2, <2>3, <2>4
<1>6. lower \subseteq ok /\ (larger = {} => lower = ok)
  OBVIOUS
<1> HIDE DEF lowestLarger, larger, lower
<1>7. CASE exact # {}
  <2>1. \A i \in exact : i \in ok /\ Total(s, {i}) = target
    BY <1>2
  <2> HIDE DEF exact
  <2>2. \A i \in exact : ChoiceGood(s, ok, target, {i})
    BY <2>1 DEF ChoiceGood
  <2> QED
    BY <1>1, <1>7, <2>2
<1>8. CASE exact = {} /\ total = target
  <2>1. ChoiceGood(s, ok, target, lower)
    BY <1>6, <1>8 DEF ChoiceGood
  <2> QED
    BY <1>1, <1>8, <2>1
<1>9. CASE exact = {} /\ total < target
  <2>1. sel = lowestLarger
    BY <1>1, <1>2, <1>9
  <2>2. Total(s, ok) >= target => larger # {}
    BY <1>2, <1>6, <1>9
  <2> QED
    BY <1>4, <1>5, <2>1, <2>2
<1>10. CASE exact = {} /\ ~(total = target) /\ ~(total < target)
  <2>0. total \in Nat
    BY <1>2
  <2>1. sel = UNION {Choice(c) : c \in bests} /\ total >= target
    <3>1. total >= target
      <4> HIDE DEF total
      <4> QED
        BY <1>10, <2>0
    <3>2. sel = UNION {Choice(c) : c \in bests}
      <4> HIDE DEF total, bests, Choice, exact
      <4> QED
        BY <1>1, <1>10
    <3> QED
      BY <3>1, <3>2
  \* Every candidate reaches the target; a cent more when the smaller coins alone can.
  <2>2. ASSUME NEW c \in bests
        PROVE  /\ c \subseteq lower /\ Total(s, c) >= target
               /\ total >= target + CENT => Total(s, c) = target \/ Total(s, c) >= target + CENT
    <3>1. PICK b \in Approx : c \in Second(b)
      OBVIOUS
    <3>2. b \subseteq lower /\ Total(s, b) >= target
      BY <1>2, <2>1, ApproxFact DEF Reaching
    <3>3. CASE Total(s, b) # target /\ total >= target + CENT
      <4>1. c \in ApproximateBestSubset(s, lower, target + CENT)
        BY <3>1, <3>3
      <4>2. target + CENT \in Int
        BY <1>2
      <4>3. c = lower \/ c \in Reaching(s, lower, target + CENT)
        BY <4>1, <4>2, ApproxFact
      <4>4. c \subseteq lower /\ Total(s, c) >= target + CENT
        BY <3>3, <4>3 DEF Reaching
      <4> QED
        BY <1>2, <4>4
    <3>4. CASE ~(Total(s, b) # target /\ total >= target + CENT)
      <4>1. c = b
        BY <3>1, <3>4
      <4> QED
        BY <3>2, <3>4, <4>1
    <3> QED
      BY <3>3, <3>4
  <2>3. \E c \in bests : TRUE
    <3>1. lower \in Approx
      BY <1>2, ApproxFact
    <3>2. \E c : c \in Second(lower)
      <4>1. target + CENT \in Int
        BY <1>2
      <4> QED
        BY <4>1, ApproxFact
    <3> QED
      BY <3>1, <3>2
  <2> HIDE DEF bests
  <2>4. ASSUME NEW c \in bests, NEW S \in Choice(c) PROVE ChoiceGood(s, ok, target, S)
    <3>1. CASE S \in lowestLarger
      BY <1>4, <3>1
    <3>2. CASE S \notin lowestLarger
      <4>1. S = c /\ (larger = {} \/ ~ShortOfCent(c))
        BY <2>4, <3>2
      <4>2. larger = {} => total = Total(s, ok)
        BY <1>6
      <4> QED
        BY <1>2, <1>6, <2>2, <4>1, <4>2 DEF ChoiceGood
    <3> QED
      BY <3>1, <3>2
  <2>5. \A c \in bests : Choice(c) # {}
    BY <1>5
  <2> HIDE DEF Choice
  <2> QED
    BY <2>1, <2>3, <2>4, <2>5
<1> QED
  BY <1>7, <1>8, <1>9, <1>10

\* What the wallet's choice promises: ok are the coins that may be spent, settled those whose
\* confirmations are the most that is asked for.
LEMMA SelectCoinsFact ==
    ASSUME NEW s \in Seq(Coin), NEW target \in Nat
    PROVE  LET sel == SelectCoins(s, target)
               ok  == Deep(s, 0, 1)
               settled == Deep(s, 1, 6)
           IN  /\ \A S \in sel :
                    /\ S \subseteq ok /\ Total(s, S) >= target
                    /\ Total(s, settled) >= target + CENT => Total(s, S) = target \/ Total(s, S) >= target + CENT
               /\ Total(s, ok) >= target => sel # {}
<1> DEFINE sel1 == SelectCoinsMinConf(s, target, 1, 6)
           sel2 == SelectCoinsMinConf(s, target, 1, 1)
           sel3 == SelectCoinsMinConf(s, target, 0, 1)
           sel  == SelectCoins(s, target)
           ok1  == Deep(s, 1, 6)
           ok2  == Deep(s, 1, 1)
           ok3  == Deep(s, 0, 1)
<1>1. sel = IF sel1 # {} THEN sel1 ELSE IF sel2 # {} THEN sel2 ELSE sel3
  <2> DEFINE confs == <<<<1, 6>>, <<1, 1>>, <<0, 1>>>>
             tries == [k \in 1 .. 3 |-> SelectCoinsMinConf(s, target, confs[k][1], confs[k][2])]
  <2>1. tries[1] = sel1 /\ tries[2] = sel2 /\ tries[3] = sel3
    OBVIOUS
  <2> HIDE DEF sel1, sel2, sel3
  <2>2. sel = IF tries[1] # {} THEN tries[1] ELSE IF tries[2] # {} THEN tries[2] ELSE tries[3]
    BY DEF SelectCoins
  <2> HIDE DEF tries
  <2> QED
    BY <2>1, <2>2
<1>2. /\ (\A S \in sel1 : ChoiceGood(s, ok1, target, S)) /\ (Total(s, ok1) >= target => sel1 # {})
      /\ (\A S \in sel2 : ChoiceGood(s, ok2, target, S))
      /\ (\A S \in sel3 : ChoiceGood(s, ok3, target, S)) /\ (Total(s, ok3) >= target => sel3 # {})
  BY MinConfFact
<1>3. ok1 \subseteq ok3 /\ ok2 \subseteq ok3
  <2>1. \A i \in DOMAIN s : s[i].nDepth \in Nat
    <3>1. \A c \in Coin : c.nDepth \in Nat
      BY CoinSelectAssumption DEF Coin
    <3> QED
      BY <3>1
  <2> QED
    BY <2>1 DEF Deep
<1>4. Total(s, ok1) \in Nat /\ Total(s, ok3) \in Nat /\ CENT \in Nat
  BY TotalFact, CoinSelectAssumption
<1> HIDE DEF sel, sel1, sel2, sel3, ok1, ok2, ok3
<1>5. Total(s, ok1) >= target + CENT => sel = sel1
  BY <1>1, <1>2, <1>4
<1>6. ASSUME NEW S \in sel
      PROVE  /\ S \subseteq ok3 /\ Total(s, S) >= target
             /\ Total(s, ok1) >= target + CENT => Total(s, S) = target \/ Total(s, S) >= target + CENT
  <2>1. S \in sel1 \/ S \in sel2 \/ S \in sel3
    BY <1>1
  <2>2. S \subseteq ok3 /\ Total(s, S) >= target
    BY <1>2, <1>3, <2>1 DEF ChoiceGood
  <2>3. ASSUME Total(s, ok1) >= target + CENT PROVE Total(s, S) = target \/ Total(s, S) >= target + CENT
    BY <1>2, <1>5, <2>3 DEF ChoiceGood
  <2> QED
    BY <2>2, <2>3
<1>7. Total(s, ok3) >= target => sel # {}
  BY <1>1, <1>2
<1> QED
  BY <1>6, <1>7 DEF sel, ok1, ok3

LEMMA OfTwo ==
    ASSUME NEW a \in Int, NEW b \in Int
    PROVE  /\ Min({a, b}) = IF a <= b THEN a ELSE b
           /\ Max({a, b}) = IF a >= b THEN a ELSE b
<1>1. \E x \in {a, b} : \A y \in {a, b} : x <= y
  OBVIOUS
<1>2. \E x \in {a, b} : \A y \in {a, b} : x >= y
  OBVIOUS
<1>3. Min({a, b}) \in {a, b} /\ \A y \in {a, b} : Min({a, b}) <= y
  BY <1>1 DEF Min
<1>4. Max({a, b}) \in {a, b} /\ \A y \in {a, b} : Max({a, b}) >= y
  BY <1>2 DEF Max
<1> QED
  BY <1>3, <1>4

\* One turn of the loop: inputs, change and fee add up, whatever is moved to the fee.
LEMMA BuildTurnFact ==
    ASSUME NEW s \in Seq(Coin), NEW nValue \in Nat, NEW nFeeRet \in Nat,
           NEW r \in BuildTurn(s, nValue, nFeeRet)
    PROVE  /\ r.coins \in SelectCoins(s, nValue + nFeeRet) /\ r.asked = nFeeRet
           /\ r.need \in {Max({nTransactionFee, 0}), Max({nTransactionFee, nMinTxFee})}
           /\ r.nIn = Total(s, r.coins) /\ r.nIn = nValue + r.nChange + r.nFee
           /\ r.nFee \in Nat /\ r.nFee >= nFeeRet
           /\ r.nChange = 0 \/ r.nChange >= DustLimit
<1> DEFINE Moved(rest) == IF nFeeRet < nMinTxFee /\ rest > 0 /\ rest < CENT
                          THEN Min({rest, nMinTxFee - nFeeRet}) ELSE 0
           Dust(change) == IF change > 0 /\ change < DustLimit THEN change ELSE 0
<1> DEFINE Change(rest) == rest - Moved(rest)
           Made(S, rest, n) ==
             [coins |-> S, nIn |-> Total(s, S), need |-> n, asked |-> nFeeRet,
              nChange |-> Change(rest) - Dust(Change(rest)),
              nFee |-> nFeeRet + Moved(rest) + Dust(Change(rest))]
           needs == {Max({nTransactionFee, 0}), Max({nTransactionFee, nMinTxFee})}
           sel == SelectCoins(s, nValue + nFeeRet)
<1>0. BuildTurn(s, nValue, nFeeRet) = {Made(S, Total(s, S) - nValue - nFeeRet, n) : S \in sel, n \in needs}
  BY DEF BuildTurn
<1> HIDE DEF Made, needs, sel
<1>1. PICK S \in sel, n \in needs : r = Made(S, Total(s, S) - nValue - nFeeRet, n)
  BY <1>0
<1> DEFINE rest == Total(s, S) - nValue - nFeeRet
           change == Change(rest)
<1>2. nValue + nFeeRet \in Nat /\ nMinTxFee \in Nat /\ DustLimit \in Nat /\ CENT \in Nat
  BY CoinSelectAssumption
<1>3. Total(s, S) \in Nat /\ Total(s, S) >= nValue + nFeeRet
  BY <1>2, TotalFact, SelectCoinsFact DEF sel
<1>4. rest \in Nat /\ Total(s, S) = nValue + nFeeRet + rest
  BY <1>3
<1>5. Moved(rest) \in Nat /\ Moved(rest) <= rest
  <2> HIDE DEF rest
  <2>1. CASE nFeeRet < nMinTxFee /\ rest > 0 /\ rest < CENT
    <3>1. rest \in Int /\ nMinTxFee - nFeeRet \in Nat
      BY <1>2, <1>4, <2>1
    <3> QED
      BY <1>4, <2>1, <3>1, OfTwo
  <2>2. CASE ~(nFeeRet < nMinTxFee /\ rest > 0 /\ rest < CENT)
    BY <1>4, <2>2
  <2> QED
    BY <2>1, <2>2
<1> HIDE DEF rest, Moved
<1>5a. Change(rest) = rest - Moved(rest)
  OBVIOUS
<1> HIDE DEF Change
<1>6. change \in Nat /\ rest = change + Moved(rest)
  BY <1>4, <1>5, <1>5a
<1> HIDE DEF change
<1>7. Dust(change) \in Nat /\ Dust(change) <= change /\ (change - Dust(change) = 0 \/ change - Dust(change) >= DustLimit)
  BY <1>2, <1>6
<1> HIDE DEF Dust
<1>8. /\ r.coins = S /\ r.nIn = Total(s, S) /\ r.need = n /\ r.asked = nFeeRet
      /\ r.nChange = change - Dust(change) /\ r.nFee = nFeeRet + Moved(rest) + Dust(change)
  <2>1. r = Made(S, rest, n)
    BY <1>1 DEF rest
  <2> HIDE DEF rest, Moved, Dust
  <2> QED
    BY <2>1 DEF Made, change
<1>9. r.nFee \in Nat /\ r.nFee >= nFeeRet /\ r.nIn = nValue + r.nChange + r.nFee
  <2>1. \A f, v, c, m, d \in Nat :
          f + m + d \in Nat /\ f + m + d >= f /\ v + f + (c + m) = v + (c - d) + (f + m + d)
    OBVIOUS
  <2>2. r.nIn = nValue + nFeeRet + (change + Moved(rest))
    BY <1>4, <1>6, <1>8
  <2> DEFINE m == Moved(rest)
             d == Dust(change)
  <2>3. m \in Nat /\ d \in Nat /\ change \in Nat
    BY <1>5, <1>6, <1>7
  <2>4. r.nIn = nValue + nFeeRet + (change + m) /\ r.nFee = nFeeRet + m + d /\ r.nChange = change - d
    BY <1>8, <2>2
  <2> HIDE DEF m, d
  <2> QED
    BY <2>1, <2>3, <2>4
<1> QED
  BY <1>7, <1>8, <1>9 DEF sel, needs

\* The fees that a turn can need: the smaller one, which the first turn pays, and the larger.
MostFee == Max({nTransactionFee, nMinTxFee})

LEMMA NeedsAre ==
    /\ Max({nTransactionFee, 0}) = nTransactionFee /\ nTransactionFee \in Nat
    /\ MostFee \in Nat /\ MostFee >= nTransactionFee
<1>1. nTransactionFee \in Int /\ nMinTxFee \in Int /\ 0 \in Int /\ nTransactionFee >= 0 /\ nMinTxFee >= 0
  BY CoinSelectAssumption
<1>2. Max({nTransactionFee, 0}) = IF nTransactionFee >= 0 THEN nTransactionFee ELSE 0
  BY <1>1, OfTwo
<1>3. MostFee = IF nTransactionFee >= nMinTxFee THEN nTransactionFee ELSE nMinTxFee
  BY <1>1, OfTwo DEF MostFee
<1> QED
  BY <1>1, <1>2, <1>3

\* There is a turn whenever the coins that may be spent are enough.
LEMMA TurnExists ==
    ASSUME NEW s \in Seq(Coin), NEW nValue \in Nat, NEW nFeeRet \in Nat,
           Total(s, Deep(s, 0, 1)) >= nValue + nFeeRet
    PROVE  BuildTurn(s, nValue, nFeeRet) # {}
<1>1. nValue + nFeeRet \in Nat
  OBVIOUS
<1>2. SelectCoins(s, nValue + nFeeRet) # {}
  <2> DEFINE target == nValue + nFeeRet
  <2>1. target \in Nat /\ Total(s, Deep(s, 0, 1)) >= target
    BY <1>1
  <2> HIDE DEF target
  <2>2. SelectCoins(s, target) # {}
    BY <2>1, SelectCoinsFact
  <2> QED
    BY <2>2 DEF target
<1> DEFINE Moved(rest) == IF nFeeRet < nMinTxFee /\ rest > 0 /\ rest < CENT
                          THEN Min({rest, nMinTxFee - nFeeRet}) ELSE 0
           Dust(change) == IF change > 0 /\ change < DustLimit THEN change ELSE 0
           Change(rest) == rest - Moved(rest)
           Made(S, rest, n) ==
             [coins |-> S, nIn |-> Total(s, S), need |-> n, asked |-> nFeeRet,
              nChange |-> Change(rest) - Dust(Change(rest)),
              nFee |-> nFeeRet + Moved(rest) + Dust(Change(rest))]
           needs == {Max({nTransactionFee, 0}), Max({nTransactionFee, nMinTxFee})}
           sel == SelectCoins(s, nValue + nFeeRet)
<1>3. BuildTurn(s, nValue, nFeeRet) = {Made(S, Total(s, S) - nValue - nFeeRet, n) : S \in sel, n \in needs}
  BY DEF BuildTurn
<1>4. needs # {} /\ sel # {}
  BY <1>2
<1> HIDE DEF needs, sel
<1>5. PICK S \in sel : TRUE
  BY <1>4
<1>6. PICK n \in needs : TRUE
  BY <1>4
<1> HIDE DEF Made
<1>7. Made(S, Total(s, S) - nValue - nFeeRet, n) \in BuildTurn(s, nValue, nFeeRet)
  BY <1>3, <1>5, <1>6
<1> QED
  BY <1>7

\* What a transaction that was made for nValue promises.
MadeGood(s, nValue, ok, settled, r) ==
    /\ r.coins \subseteq ok /\ r.nIn = Total(s, r.coins) /\ r.nIn = nValue + r.nChange + r.nFee
    /\ r.nFee >= r.need /\ (r.nChange = 0 \/ r.nChange >= DustLimit)
    /\ LET left == r.nIn - nValue - r.asked
       IN  Total(s, settled) >= nValue + r.asked + CENT => left = 0 \/ left >= CENT

\* CreateTransaction, for any coins and any amount.
LEMMA CreateFact ==
    ASSUME NEW s \in Seq(Coin), NEW nValue \in Nat,
           NEW b, b = CreateTransaction(s, nValue),
           NEW ok, ok = Deep(s, 0, 1), NEW settled, settled = Deep(s, 1, 6)
    PROVE  /\ nValue >= DustLimit /\ Total(s, ok) >= nValue + Max({nTransactionFee, nMinTxFee}) => ~b.fails
           /\ ~b.again
           /\ \A r \in b.made : MadeGood(s, nValue, ok, settled, r)
<1> DEFINE first  == BuildTurn(s, nValue, nTransactionFee)
           raised == {BuildTurn(s, nValue, r.need) : r \in {x \in first : x.nFee < x.need}}
           all    == first \cup UNION raised
           most   == MostFee
<1>1. nTransactionFee \in Nat /\ most \in Nat /\ most >= nTransactionFee
  BY NeedsAre
<1>2. ASSUME NEW fee \in Nat, NEW r \in BuildTurn(s, nValue, fee)
      PROVE  (r.need = nTransactionFee \/ r.need = most) /\ r.nFee \in Nat /\ r.need \in Nat /\ r.nFee >= fee
  <2>1. /\ r.need \in {Max({nTransactionFee, 0}), Max({nTransactionFee, nMinTxFee})}
        /\ r.nFee \in Nat /\ r.nFee >= fee
    BY BuildTurnFact
  <2> QED
    BY <1>1, <2>1, NeedsAre DEF MostFee
<1>3. \A B \in raised : B = BuildTurn(s, nValue, most) /\ \E r \in first : r.nFee < r.need
  <2> SUFFICES ASSUME NEW r \in first, r.nFee < r.need PROVE r.need = most
    OBVIOUS
  <2>1. (r.need = nTransactionFee \/ r.need = most) /\ r.nFee \in Nat /\ r.nFee >= nTransactionFee
    BY <1>1, <1>2
  <2> QED
    BY <1>1, <2>1
<1>4. \A r \in BuildTurn(s, nValue, most) : r.nFee >= r.need
  <2> SUFFICES ASSUME NEW r \in BuildTurn(s, nValue, most) PROVE r.nFee >= r.need
    OBVIOUS
  <2>1. r.nFee \in Nat /\ r.nFee >= most /\ (r.need = nTransactionFee \/ r.need = most)
    BY <1>1, <1>2
  <2> QED
    BY <1>1, <2>1
<1> HIDE DEF first, raised, most
<1>5. b = IF nValue < DustLimit THEN [made |-> {}, fails |-> TRUE, again |-> FALSE]
          ELSE [made  |-> {r \in all : r.nFee >= r.need},
                fails |-> first = {} \/ {} \in raised,
                again |-> \E r \in UNION raised : r.nFee < r.need]
  BY DEF CreateTransaction, first, raised
<1>6. DustLimit \in Nat /\ CENT \in Nat /\ Total(s, ok) \in Nat /\ Total(s, settled) \in Nat
  BY CoinSelectAssumption, TotalFact
<1>7. ~b.again
  <2>1. \A r \in UNION raised : r.nFee \in Nat /\ r.need \in Nat /\ r.nFee >= r.need
    <3> SUFFICES ASSUME NEW r \in BuildTurn(s, nValue, most) PROVE r.nFee \in Nat /\ r.need \in Nat
      BY <1>3, <1>4
    <3> QED
      BY <1>1, <1>2
  <2>2. ~(\E r \in UNION raised : r.nFee < r.need)
    BY <2>1
  <2> QED
    BY <1>5, <2>2
<1>8. ASSUME nValue >= DustLimit, Total(s, ok) >= nValue + most PROVE ~b.fails
  <2>1. Total(s, ok) >= nValue + nTransactionFee
    BY <1>1, <1>6, <1>8
  <2>2. first # {} /\ BuildTurn(s, nValue, most) # {}
    BY <1>1, <1>8, <2>1, TurnExists DEF first
  <2>3. ~(nValue < DustLimit)
    BY <1>6, <1>8
  <2>4. b.fails = (first = {} \/ {} \in raised)
    BY <1>5, <2>3
  <2> QED
    BY <1>3, <2>2, <2>4
<1>9. ASSUME NEW r \in b.made PROVE MadeGood(s, nValue, ok, settled, r)
  <2>1. r \in all /\ r.nFee >= r.need
    BY <1>5, <1>9
  <2>2. PICK fee \in Nat : r \in BuildTurn(s, nValue, fee)
    BY <1>1, <1>3, <2>1 DEF first
  <2>3. /\ r.coins \in SelectCoins(s, nValue + fee) /\ r.asked = fee
        /\ r.nIn = Total(s, r.coins) /\ r.nIn = nValue + r.nChange + r.nFee
        /\ r.nChange = 0 \/ r.nChange >= DustLimit
    BY <2>2, BuildTurnFact
  <2>4. nValue + fee \in Nat
    OBVIOUS
  <2>5. /\ r.coins \subseteq ok
        /\ Total(s, settled) >= nValue + fee + CENT
             => Total(s, r.coins) = nValue + fee \/ Total(s, r.coins) >= nValue + fee + CENT
    BY <2>3, <2>4, SelectCoinsFact
  <2>6. r.nIn \in Nat
    BY <2>3, TotalFact
  <2>7. Total(s, settled) >= nValue + r.asked + CENT
          => r.nIn - nValue - r.asked = 0 \/ r.nIn - nValue - r.asked >= CENT
    <3>1. \A t, v, f, c \in Nat : (t = v + f => t - v - f = 0) /\ (t >= v + f + c => t - v - f >= c)
      OBVIOUS
    <3>2. /\ Total(s, settled) >= nValue + fee + CENT => r.nIn = nValue + fee \/ r.nIn >= nValue + fee + CENT
          /\ r.asked = fee
      BY <2>3, <2>5
    <3> QED
      BY <1>6, <2>6, <3>1, <3>2
  <2> QED
    BY <2>1, <2>3, <2>5, <2>7 DEF MadeGood
<1> QED
  BY <1>7, <1>8, <1>9 DEF most, MostFee

SelectInv ==
    /\ vCoins \in Seq(Coin) /\ nPay \in Payments
    /\ built = <<>> \/ built = <<CreateTransaction(vCoins, nPay)>>

\* For any wallet, amount and fees, and whatever the random bits of ApproximateBestSubset:
\* CreateTransaction does not fail when there are enough coins, its loop ends, and what it
\* makes adds up, without dust and without change below a cent that could be avoided.
THEOREM PaymentsAreGood == SelectSpec => []PaymentGood
<1>1. SelectInit => SelectInv
  <2> SUFFICES ASSUME SelectInit PROVE vCoins \in Seq(Coin)
    BY DEF SelectInit, SelectInv
  <2>1. PICK n \in 0 .. MaxCoins : vCoins \in [1 .. n -> Coin]
    BY DEF SelectInit
  <2>2. n \in Nat
    BY <2>1, CoinSelectAssumption
  <2> QED
    BY <2>1, <2>2
<1>2. SelectInv /\ [SelectNext]_selectVars => SelectInv'
  BY DEF SelectInv, SelectNext, Create, selectVars
<1>3. SelectInv => PaymentGood
  <2> SUFFICES ASSUME SelectInv, built # <<>> PROVE PaymentGood
    BY DEF PaymentGood, PaymentExact, NoSmallChange
  <2> DEFINE b == CreateTransaction(vCoins, nPay)
             settled == {i \in DOMAIN vCoins : vCoins[i].nDepth >= IF vCoins[i].fromMe THEN 1 ELSE 6}
  <2>1. vCoins \in Seq(Coin) /\ nPay \in Nat /\ built[1] = b
    <3>1. Payments \subseteq Nat
      BY CoinSelectAssumption
    <3> HIDE DEF b
    <3> QED
      BY <3>1 DEF SelectInv, b
  <2>2. Spendable = Deep(vCoins, 0, 1) /\ settled = Deep(vCoins, 1, 6)
    BY DEF Spendable, Deep
  <2> HIDE DEF b, settled
  <2>3. /\ nPay >= DustLimit /\ Total(vCoins, Spendable) >= nPay + Max({nTransactionFee, nMinTxFee}) => ~b.fails
        /\ ~b.again
        /\ \A r \in b.made : MadeGood(vCoins, nPay, Spendable, settled, r)
    BY <2>1, <2>2, CreateFact DEF b
  <2>4. PaymentExact
    BY <2>1, <2>3 DEF PaymentExact, MadeGood
  <2>5. NoSmallChange
    BY <2>1, <2>3 DEF NoSmallChange, MadeGood, settled
  <2> QED
    BY <2>4, <2>5 DEF PaymentGood
<1> QED
  BY <1>1, <1>2, <1>3, PTL DEF SelectSpec

----------------------------------------------------------------------------
(* GetAddressGroupings.                                                    *)

Merged == groupings \ toMerge

\* There is a pointer left for every grouping.
PointersLeft ==
    /\ IsFiniteSet(groupings) /\ toMerge \subseteq groupings
    /\ DOMAIN group \subseteq 1 .. Cardinality(groupings)
    /\ Cardinality(DOMAIN group) <= Cardinality(Merged)

\* setmap is the inverse of group.
SetmapInverts ==
    /\ \A a \in DOMAIN setmap : setmap[a] \in DOMAIN group /\ a \in group[setmap[a]]
    /\ \A n \in DOMAIN group : \A a \in group[n] : a \in DOMAIN setmap /\ setmap[a] = n

\* A grouping that was merged lies in one group, and groups have no other addresses.
NoneDivided ==
    /\ DOMAIN setmap = UNION Merged
    /\ \A g \in Merged : \E n \in DOMAIN group : g \subseteq group[n]

\* The two parts of A are linked by one of the groupings G.
LinkedBy(G, A) ==
    \A S \in (SUBSET A) \ {{}, A} : \E g \in G : g \cap S # {} /\ g \cap (A \ S) # {}

AllLinked == \A n \in DOMAIN group : LinkedBy(Merged, group[n])

GroupInv == PointersLeft /\ SetmapInverts /\ NoneDivided /\ AllLinked

\* A grouping and the groups it hits are linked through it.
LEMMA MergedIsLinked ==
    ASSUME NEW G, NEW g, NEW H, \A A \in H : LinkedBy(G, A) /\ A \cap g # {}
    PROVE  LinkedBy(G \cup {g}, g \cup UNION H)
<1> DEFINE M == g \cup UNION H
<1> SUFFICES ASSUME NEW S \in SUBSET M, S # {}, S # M
             PROVE  \E e \in G \cup {g} : e \cap S # {} /\ e \cap (M \ S) # {}
  BY DEF LinkedBy
<1>1. CASE g \cap S # {} /\ g \cap (M \ S) # {}
  BY <1>1
<1>2. ASSUME NEW A \in H, A \cap S # {}, ~(A \subseteq S)
      PROVE  \E e \in G \cup {g} : e \cap S # {} /\ e \cap (M \ S) # {}
  <2>1. S \cap A \in (SUBSET A) \ {{}, A}
    BY <1>2
  <2>2. PICK e \in G : e \cap (S \cap A) # {} /\ e \cap (A \ (S \cap A)) # {}
    BY <2>1 DEF LinkedBy
  <2> QED
    BY <2>2
<1>3. CASE g \cap (M \ S) = {}
  <2>1. PICK x \in M \ S : TRUE
    OBVIOUS
  <2>2. PICK A \in H : x \in A
    BY <1>3
  <2> QED
    BY <1>2, <1>3, <2>1, <2>2
<1>4. CASE g \cap S = {}
  <2>1. PICK x \in S : TRUE
    OBVIOUS
  <2>2. PICK A \in H : x \in A
    BY <1>4
  <2> QED
    BY <1>2, <1>4, <2>1, <2>2
<1> QED
  BY <1>1, <1>3, <1>4

LEMMA GroupingsFinite == \A t \in GroupTx : IsFiniteSet(GroupingsOf({t}))
<1> SUFFICES ASSUME NEW t \in GroupTx PROVE IsFiniteSet(GroupingsOf({t}))
  OBVIOUS
<1>1. t.outs = {} \/ \E a \in Addresses : t.outs = {a}
  BY DEF GroupTx
<1>2. GroupingsOf({t}) \subseteq {t.mine \cup t.change, t.outs}
  <2>1. \A e \in UNION {{{a} : a \in u.outs} : u \in {t}} : e = t.outs
    BY <1>1
  <2>2. \A e \in {u.mine \cup u.change : u \in {v \in {t} : v.mine # {}}} : e = t.mine \cup t.change
    OBVIOUS
  <2> QED
    BY <2>1, <2>2 DEF GroupingsOf
<1>3. IsFiniteSet({t.mine \cup t.change, t.outs})
  <2>1. IsFiniteSet({t.mine \cup t.change}) /\ IsFiniteSet({t.outs})
    BY FS_Singleton
  <2>2. IsFiniteSet({t.mine \cup t.change} \cup {t.outs})
    BY <2>1, FS_Union
  <2>3. {t.mine \cup t.change} \cup {t.outs} = {t.mine \cup t.change, t.outs}
    OBVIOUS
  <2> QED
    BY <2>2, <2>3
<1> QED
  BY <1>2, <1>3, FS_Subset

LEMMA GroupInitHolds == GroupInit => GroupInv
<1> SUFFICES ASSUME GroupInit PROVE GroupInv
  OBVIOUS
<1>1. \E g, h, k \in Links : groupings = g \cup h \cup k
  BY DEF GroupInit
<1>2. IsFiniteSet(groupings)
  <2>1. \A g \in Links : IsFiniteSet(g)
    BY GroupingsFinite DEF Links
  <2>2. PICK g \in Links : \E h, k \in Links : groupings = g \cup h \cup k
    BY <1>1
  <2>3. PICK h \in Links : \E k \in Links : groupings = g \cup h \cup k
    BY <2>2
  <2>4. PICK k \in Links : groupings = g \cup h \cup k
    BY <2>3
  <2>5. IsFiniteSet(g \cup h)
    BY <2>1, FS_Union
  <2> QED
    BY <2>1, <2>4, <2>5, FS_Union
<1>3. toMerge = groupings /\ group = <<>> /\ setmap = <<>> /\ DOMAIN group = {} /\ DOMAIN setmap = {} /\ Merged = {}
  BY DEF GroupInit, Merged
<1>4. PointersLeft
  BY <1>2, <1>3, FS_EmptySet DEF PointersLeft
<1> QED
  BY <1>3, <1>4 DEF GroupInv, SetmapInverts, NoneDivided, AllLinked

LEMMA MergeGroupingKeeps == \A g \in toMerge : GroupInv /\ MergeGrouping(g) => GroupInv'
<1> SUFFICES ASSUME NEW g \in toMerge, GroupInv, MergeGrouping(g) PROVE GroupInv'
  OBVIOUS
<1> DEFINE hits   == {setmap[a] : a \in g \cap DOMAIN setmap}
           merged == g \cup UNION {group[h] : h \in hits}
           p      == CHOOSE n \in 1 .. Cardinality(groupings) : n \notin DOMAIN group
<1>1. PointersLeft /\ SetmapInverts /\ NoneDivided /\ AllLinked
  BY DEF GroupInv
<1>2. /\ toMerge' = toMerge \ {g} /\ groupings' = groupings
      /\ group' = [n \in (DOMAIN group \ hits) \cup {p} |-> IF n = p THEN merged ELSE group[n]]
      /\ setmap' = [a \in DOMAIN setmap \cup merged |-> IF a \in merged THEN p ELSE setmap[a]]
  BY DEF MergeGrouping, SetmapUpdate
<1>3. g \in groupings /\ g \notin Merged /\ Merged' = Merged \cup {g} /\ IsFiniteSet(groupings)
  BY <1>1, <1>2 DEF PointersLeft, Merged
<1>4. IsFiniteSet(Merged) /\ Cardinality(Merged') = Cardinality(Merged) + 1 /\ Cardinality(Merged) \in Nat
      /\ Cardinality(Merged') <= Cardinality(groupings) /\ Cardinality(groupings) \in Nat
  <2>1. IsFiniteSet(Merged) /\ IsFiniteSet(Merged') /\ Cardinality(Merged') <= Cardinality(groupings)
    <3>1. Merged \subseteq groupings /\ Merged' \subseteq groupings
      BY <1>3 DEF Merged
    <3> QED
      BY <1>3, <3>1, FS_Subset
  <2> QED
    BY <1>3, <2>1, FS_AddElement, FS_CardinalityType
<1> DEFINE N == Cardinality(groupings)
<1>5. p \in 1 .. N /\ p \notin DOMAIN group
  <2>1. \E n \in 1 .. N : n \notin DOMAIN group
    <3> SUFFICES ASSUME 1 .. N \subseteq DOMAIN group PROVE FALSE
      OBVIOUS
    <3>1. DOMAIN group = 1 .. N
      BY <1>1 DEF PointersLeft
    <3>2. Cardinality(DOMAIN group) = N
      BY <1>4, <3>1, FS_Interval
    <3> QED
      BY <1>1, <1>4, <3>2 DEF PointersLeft
  <2> QED
    BY <2>1
<1> HIDE DEF p
<1>6. hits \subseteq DOMAIN group
  BY <1>1 DEF SetmapInverts
<1>7. /\ DOMAIN group' = (DOMAIN group \ hits) \cup {p} /\ group'[p] = merged
      /\ \A n \in DOMAIN group \ hits : n # p /\ group'[n] = group[n]
  BY <1>2, <1>5
<1>8. /\ DOMAIN setmap' = DOMAIN setmap \cup merged /\ \A a \in merged : setmap'[a] = p
      /\ \A a \in DOMAIN setmap \ merged : setmap'[a] = setmap[a]
  BY <1>2
<1>9. /\ g \subseteq merged /\ \A h \in hits : group[h] \subseteq merged /\ group[h] \cap g # {}
      /\ \A a \in merged : a \in g \/ \E h \in hits : a \in group[h]
  BY <1>1 DEF SetmapInverts
<1>10. merged = g \cup UNION {group[h] : h \in hits}
  OBVIOUS
<1>11. \A a \in g \cap DOMAIN setmap : setmap[a] \in hits
  OBVIOUS
<1> HIDE DEF hits, merged
<1>12. PointersLeft'
  <2>1. IsFiniteSet(DOMAIN group)
    <3>1. IsFiniteSet(1 .. N)
      BY <1>4, FS_Interval
    <3> QED
      BY <1>1, <3>1, FS_Subset DEF PointersLeft
  <2>2. /\ IsFiniteSet(DOMAIN group \cup {p}) /\ Cardinality(DOMAIN group \cup {p}) = Cardinality(DOMAIN group) + 1
        /\ Cardinality(DOMAIN group) \in Nat
    BY <1>5, <2>1, FS_AddElement, FS_CardinalityType
  <2>3. DOMAIN group' \subseteq DOMAIN group \cup {p}
    BY <1>7
  <2>4. Cardinality(DOMAIN group') <= Cardinality(DOMAIN group) + 1 /\ Cardinality(DOMAIN group') \in Nat
    BY <2>2, <2>3, FS_Subset, FS_CardinalityType
  <2>5. DOMAIN group' \subseteq 1 .. N /\ toMerge' \subseteq groupings
    BY <1>1, <1>2, <1>5, <2>3 DEF PointersLeft
  <2>6. Cardinality(DOMAIN group') <= Cardinality(Merged')
    BY <1>1, <1>4, <2>2, <2>4 DEF PointersLeft
  <2> QED
    BY <1>2, <1>3, <2>5, <2>6 DEF PointersLeft
<1>13. SetmapInverts'
  <2>1. ASSUME NEW a \in DOMAIN setmap' PROVE setmap'[a] \in DOMAIN group' /\ a \in group'[setmap'[a]]
    <3>1. CASE a \in merged
      BY <1>7, <1>8, <3>1
    <3>2. CASE a \notin merged
      <4>1. a \in DOMAIN setmap /\ setmap'[a] = setmap[a] /\ setmap[a] \in DOMAIN group /\ a \in group[setmap[a]]
        BY <1>1, <1>8, <3>2 DEF SetmapInverts
      <4>2. setmap[a] \notin hits
        BY <1>9, <3>2, <4>1
      <4> QED
        BY <1>7, <4>1, <4>2
    <3> QED
      BY <3>1, <3>2
  <2>2. ASSUME NEW n \in DOMAIN group', NEW a \in group'[n] PROVE a \in DOMAIN setmap' /\ setmap'[a] = n
    <3>1. CASE n = p
      BY <1>7, <1>8, <3>1
    <3>2. CASE n # p
      <4>1. n \in DOMAIN group \ hits /\ a \in group[n]
        BY <1>7, <3>2
      <4>2. a \in DOMAIN setmap /\ setmap[a] = n
        BY <1>1, <4>1 DEF SetmapInverts
      <4>3. a \notin g
        BY <1>11, <4>1, <4>2
      <4>4. \A h \in hits : a \notin group[h]
        BY <1>1, <1>6, <4>1, <4>2 DEF SetmapInverts
      <4> QED
        BY <1>8, <1>9, <4>2, <4>3, <4>4
    <3> QED
      BY <3>1, <3>2
  <2> QED
    BY <2>1, <2>2 DEF SetmapInverts
<1>14. NoneDivided'
  <2>1. DOMAIN setmap' = UNION Merged'
    <3>1. DOMAIN setmap \cup merged = DOMAIN setmap \cup g
      BY <1>1, <1>6, <1>9 DEF SetmapInverts
    <3> QED
      BY <1>1, <1>3, <1>8, <3>1 DEF NoneDivided
  <2>2. ASSUME NEW e \in Merged' PROVE \E n \in DOMAIN group' : e \subseteq group'[n]
    <3>1. CASE e = g
      BY <1>7, <1>9, <3>1
    <3>2. CASE e # g
      <4>1. PICK n \in DOMAIN group : e \subseteq group[n]
        BY <1>1, <1>3, <3>2 DEF NoneDivided
      <4>2. CASE n \in hits
        BY <1>7, <1>9, <4>1, <4>2
      <4>3. CASE n \notin hits
        BY <1>7, <4>1, <4>3
      <4> QED
        BY <4>2, <4>3
    <3> QED
      BY <3>1, <3>2
  <2> QED
    BY <2>1, <2>2 DEF NoneDivided
<1>15. AllLinked'
  <2>1. LinkedBy(Merged', merged)
    <3> DEFINE H == {group[h] : h \in hits}
    <3>1. \A A \in H : LinkedBy(Merged, A) /\ A \cap g # {}
      BY <1>1, <1>6, <1>9 DEF AllLinked
    <3> HIDE DEF H
    <3>2. LinkedBy(Merged \cup {g}, g \cup UNION H)
      BY <3>1, MergedIsLinked
    <3> QED
      BY <1>3, <1>10, <3>2 DEF H
  <2>2. ASSUME NEW n \in DOMAIN group \ hits PROVE LinkedBy(Merged', group[n])
    BY <1>1, <1>3 DEF AllLinked, LinkedBy
  <2>3. \A n \in DOMAIN group' : LinkedBy(Merged', group'[n])
    BY <1>7, <2>1, <2>2
  <2> QED
    BY <2>3 DEF AllLinked, LinkedBy
<1> QED
  BY <1>12, <1>13, <1>14, <1>15 DEF GroupInv

\* For any wallet addresses and any transactions: the merge of GetAddressGroupings ends with
\* the classes of linked addresses, and setmap never points to a deleted group.
THEOREM GroupsStayExact == GroupSpec => []GroupsExact
<1>1. GroupInv /\ [GroupNext]_groupVars => GroupInv'
  <2> SUFFICES ASSUME GroupInv, [GroupNext]_groupVars PROVE GroupInv'
    OBVIOUS
  <2>1. CASE UNCHANGED groupVars
    BY <2>1 DEF groupVars, GroupInv, PointersLeft, SetmapInverts, NoneDivided, AllLinked, LinkedBy, Merged
  <2>2. CASE GroupNext
    BY <2>2, MergeGroupingKeeps DEF GroupNext
  <2> QED
    BY <2>1, <2>2
<1>2. GroupInv => GroupsExact
  <2> SUFFICES ASSUME GroupInv PROVE GroupsExact
    OBVIOUS
  <2>1. SetmapInverts /\ NoneDivided /\ AllLinked
    BY DEF GroupInv
  <2> DEFINE ret == {group[n] : n \in DOMAIN group}
  <2>2. ASSUME toMerge = {}
        PROVE  /\ UNION ret = UNION groupings
               /\ \A A, B \in ret : A # B => A \cap B = {}
               /\ \A g \in groupings : \E A \in ret : g \subseteq A
               /\ \A A \in ret : \A S \in (SUBSET A) \ {{}, A} :
                      \E g \in groupings : g \cap S # {} /\ g \cap (A \ S) # {}
    <3>1. Merged = groupings
      BY <2>2 DEF Merged
    <3>2. UNION ret = DOMAIN setmap
      BY <2>1 DEF SetmapInverts
    <3>3. UNION ret = UNION groupings
      BY <2>1, <3>1, <3>2 DEF NoneDivided
    <3>4. \A A, B \in ret : A # B => A \cap B = {}
      BY <2>1 DEF SetmapInverts
    <3>5. \A g \in groupings : \E A \in ret : g \subseteq A
      BY <2>1, <3>1 DEF NoneDivided
    <3>6. \A A \in ret : LinkedBy(groupings, A)
      BY <2>1, <3>1 DEF AllLinked
    <3> HIDE DEF ret
    <3> QED
      BY <3>3, <3>4, <3>5, <3>6 DEF LinkedBy
  <2> QED
    BY <2>1, <2>2 DEF GroupsExact, SetmapInverts
<1> QED
  BY <1>1, <1>2, GroupInitHolds, PTL DEF GroupSpec
===============================================================================
