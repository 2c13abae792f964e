----------------------------- MODULE WalletKeys -----------------------------
(***************************************************************************)
(* The keys of the wallet (src/wallet.cpp, src/walletdb.cpp, with          *)
(* src/keystore.h and src/crypter.cpp): the key pool and the keys reserved *)
(* from it, encryption, passphrases, loading, and a crash at any step.     *)
(*                                                                         *)
(* A key is a number in the order of generation.  A write outside a        *)
(* transaction survives the end of the process.  cs_wallet is held over    *)
(* several writes: job says by which operation, and where it is.           *)
(***************************************************************************)
EXTENDS Integers, Sequences, FiniteSets

CONSTANTS Holders,          \* CReserveKey objects
          Passphrases,
          KeyPoolSize,      \* -keypool
          MaxKeys,          \* bound: how many keys are generated
          MaxCrashes        \* bound: how often the program ends

ASSUME WalletKeysAssumption ==
    KeyPoolSize \in Nat /\ MaxKeys \in Nat /\ MaxCrashes \in Nat /\ Passphrases \subseteq Nat \ {0}

None == 0        \* the invalid CPubKey
NoIndex == -1

VARIABLES status,           \* "down", "up", or the DBErrors that keep the program from starting
          mapKeys,          \* the keys held in memory, plain or encrypted
          fUseCrypto,
          vMasterKey,       \* whether the master key is known: unlocked
          mapMasterKeys,    \* the passphrases of the master keys; the last one encrypts the keys
          setKeyPool, vchDefaultKey,
          disk,             \* wallet.dat
          txn,              \* the records of the open transaction: <<>> or <<disk>>
          job,              \* the operation that holds cs_wallet
          reserve,          \* reserve[h]: nIndex and vchPubKey
          nKey, crashes,
          used,             \* keys that were given away for good, in this order
          stale             \* a pool record was written at an index that is reserved

walletMem == <<mapKeys, fUseCrypto, vMasterKey, mapMasterKeys, setKeyPool, vchDefaultKey>>
walletVars == <<status, walletMem, disk, txn, job, reserve, nKey, crashes, used, stale>>

IsLocked == fUseCrypto /\ ~vMasterKey
Idle == status = "up" /\ job.step = "none"
NoJob == [step |-> "none"]
TakeJob(op, h) == [step |-> "fill", op |-> op, holder |-> h, made |-> 0]
NoReserve == [nIndex |-> NoIndex, vchPubKey |-> None]
SetMin(S) == CHOOSE x \in S : \A y \in S : x <= y
SetMax(S) == CHOOSE x \in S : \A y \in S : x >= y

EmptyDisk == [key |-> {}, ckey |-> {}, mkey |-> None, pool |-> <<>>, dflt |-> None, old |-> FALSE]

\* A new wallet, or one that version 0.4.0 encrypted: its pool is replaced when it is loaded.
WalletInit ==
    /\ \/ disk = EmptyDisk /\ nKey = 0
       \/ \E p \in Passphrases :
            /\ disk = [EmptyDisk EXCEPT !.ckey = {1}, !.mkey = p, !.pool = [i \in {1} |-> 1], !.old = TRUE]
            /\ nKey = 1
    /\ status = "down" /\ mapKeys = {} /\ fUseCrypto = FALSE /\ vMasterKey = FALSE
    /\ mapMasterKeys = <<>> /\ setKeyPool = {} /\ vchDefaultKey = None
    /\ txn = <<>> /\ job = NoJob /\ reserve = [h \in Holders |-> NoReserve]
    /\ crashes = 0 /\ used = <<>> /\ stale = FALSE
----------------------------------------------------------------------------
(* Loading.  Records of both kinds make LoadKey or LoadCryptedKey fail: a  *)
(* corrupt wallet.  A first run continues with GetKeyFromPool for the      *)
(* default key before anything else uses the wallet (src/init.cpp).        *)

\* What the records bring back to memory.
ReadKeyValue ==
    /\ mapKeys' = disk.key \cup disk.ckey
    /\ fUseCrypto' = (disk.ckey # {}) /\ vMasterKey' = FALSE
    /\ mapMasterKeys' = IF disk.mkey = None THEN <<>> ELSE <<disk.mkey>>
    /\ setKeyPool' = DOMAIN disk.pool
    /\ vchDefaultKey' = disk.dflt

\* DB_NEED_REWRITE: the file is rewritten without the pool, and the program must be started again.
RewritePool ==
    /\ disk' = [disk EXCEPT !.pool = <<>>, !.old = FALSE]
    /\ UNCHANGED <<status, walletMem>>

\* fFirstRun
FirstRun == IF disk.dflt = None THEN TakeJob("default", None) ELSE NoJob

LoadWallet ==
    /\ status = "down"
    /\ \/ /\ disk.key # {} /\ disk.ckey # {}
          /\ status' = "DB_CORRUPT" /\ job' = NoJob /\ UNCHANGED <<walletMem, disk>>
       \/ /\ disk.key = {} /\ disk.ckey # {} /\ disk.old
          /\ RewritePool /\ job' = NoJob
       \/ /\ disk.key = {} \/ disk.ckey = {}
          /\ ~(disk.ckey # {} /\ disk.old)
          /\ status' = "up" /\ ReadKeyValue /\ job' = FirstRun /\ UNCHANGED disk
    /\ UNCHANGED <<txn, reserve, nKey, crashes, used, stale>>

\* The program ends, or is stopped, at any point: an open transaction is gone.
Crash ==
    /\ status = "up" /\ crashes < MaxCrashes /\ crashes' = crashes + 1
    /\ status' = "down" /\ txn' = <<>> /\ job' = NoJob
    /\ reserve' = [h \in Holders |-> NoReserve]
    /\ UNCHANGED <<walletMem, disk, nKey, used, stale>>
----------------------------------------------------------------------------
(* Generating keys and filling the pool.                                   *)

\* GenerateNewKey and AddKeyPubKey, AddCryptedKey: into memory, then to disk.
GenerateNewKey ==
    /\ nKey < MaxKeys /\ nKey' = nKey + 1
    /\ mapKeys' = mapKeys \cup {nKey + 1}
    /\ disk' = IF fUseCrypto THEN [disk EXCEPT !.ckey = @ \cup {nKey + 1}]
                             ELSE [disk EXCEPT !.key = @ \cup {nKey + 1}]

WritePool(i, k) ==
    disk' = [disk EXCEPT !.pool = [j \in DOMAIN @ \cup {i} |-> IF j = i THEN k ELSE @[j]]]
ErasePool(i) == disk' = [disk EXCEPT !.pool = [j \in DOMAIN @ \ {i} |-> @[j]]]

\* The index of the next key of TopUpKeyPool, and of NewKeyPool.
NextIndex ==
    IF job.op = "new" THEN job.made + 1
    ELSE IF setKeyPool = {} THEN 1 ELSE SetMax(setKeyPool) + 1

FillDone ==
    IF job.op = "new" THEN job.made >= KeyPoolSize
    ELSE IsLocked \/ Cardinality(setKeyPool) >= KeyPoolSize + 1

\* One turn of the loop: the key is generated and written, then its pool record.
FillGenerate ==
    /\ status = "up" /\ job.step = "fill" /\ ~FillDone
    /\ GenerateNewKey
    /\ job' = [job EXCEPT !.step = "write"]
    /\ UNCHANGED <<status, fUseCrypto, vMasterKey, mapMasterKeys, setKeyPool, vchDefaultKey, txn,
                   reserve, crashes, used, stale>>

FillWrite ==
    /\ status = "up" /\ job.step = "write"
    /\ WritePool(NextIndex, nKey)
    /\ setKeyPool' = setKeyPool \cup {NextIndex}
    /\ job' = [job EXCEPT !.step = "fill", !.made = @ + 1]
    /\ stale' = (stale \/ \E h \in Holders : reserve[h].nIndex = NextIndex)
    /\ UNCHANGED <<status, mapKeys, fUseCrypto, vMasterKey, mapMasterKeys, vchDefaultKey, txn,
                   reserve, nKey, crashes, used>>
----------------------------------------------------------------------------
(* Taking keys.                                                            *)

\* ReserveKeyFromKeyPool begins: an unlocked pool is topped up first.
StartTake(op, h) ==
    /\ Idle
    /\ job' = TakeJob(op, h)
    /\ UNCHANGED <<status, walletMem, disk, txn, reserve, nKey, crashes, used, stale>>

\* CReserveKey::GetReservedKey
Reserve(h) == reserve[h].nIndex = NoIndex /\ StartTake("reserve", h)

GetKeyFromPool == StartTake("get", None)

Readable(i) == i \in DOMAIN disk.pool /\ disk.pool[i] \in mapKeys

\* The oldest key; the set loses it even when its record cannot be read and the call throws:
\* a CReserveKey then has the index without a key of it (its destructor returns it), while that
\* of GetOldestKeyPoolTime is lost.
\* Without any key (a locked wallet is not topped up): the default key, or none.
Take ==
    /\ status = "up" /\ job.step = "fill" /\ job.op \in {"reserve", "get", "default"} /\ FillDone
    /\ IF setKeyPool = {}
       THEN /\ UNCHANGED <<setKeyPool, disk, mapKeys, nKey, used, vchDefaultKey>>
            /\ reserve' = IF job.op = "reserve"
                          THEN [reserve EXCEPT ![job.holder].vchPubKey = vchDefaultKey] ELSE reserve
       ELSE LET i == SetMin(setKeyPool) IN
            /\ setKeyPool' = setKeyPool \ {i}
            /\ UNCHANGED <<mapKeys, nKey>>
            /\ IF ~Readable(i)
               THEN /\ \/ UNCHANGED reserve
                       \/ job.op = "reserve" /\ reserve' = [reserve EXCEPT ![job.holder].nIndex = i]
                    /\ UNCHANGED <<disk, used, vchDefaultKey>>
               ELSE IF job.op = "reserve"
               THEN /\ reserve' = [reserve EXCEPT ![job.holder] =
                                     [nIndex |-> i, vchPubKey |-> disk.pool[i]]]
                    /\ UNCHANGED <<disk, used, vchDefaultKey>>
               ELSE /\ used' = Append(used, disk.pool[i])
                    /\ disk' = [disk EXCEPT !.pool = [j \in DOMAIN @ \ {i} |-> @[j]],
                                            !.dflt = IF job.op = "default" THEN disk.pool[i] ELSE @]
                    /\ vchDefaultKey' = IF job.op = "default" THEN disk.pool[i] ELSE vchDefaultKey
                    /\ UNCHANGED reserve
    /\ job' = NoJob
    /\ UNCHANGED <<status, fUseCrypto, vMasterKey, mapMasterKeys, txn, crashes, stale>>

\* Variant: the key goes back to the pool when it is kept.
KeepInPool(h) ==
    /\ status = "up" /\ reserve[h].nIndex # NoIndex
    /\ used' = Append(used, reserve[h].vchPubKey)
    /\ reserve' = [reserve EXCEPT ![h] = NoReserve]
    /\ UNCHANGED <<status, walletMem, disk, txn, job, nKey, crashes, stale>>

\* KeepKey holds no lock.  What a transaction pays to is published after it.
KeepKey(h) ==
    /\ status = "up" /\ reserve[h].vchPubKey # None
    /\ IF reserve[h].nIndex # NoIndex
       THEN ErasePool(reserve[h].nIndex) /\ used' = Append(used, reserve[h].vchPubKey)
       ELSE UNCHANGED <<disk, used>>
    /\ reserve' = [reserve EXCEPT ![h] = NoReserve]
    /\ UNCHANGED <<status, walletMem, txn, job, nKey, crashes, stale>>

\* ReturnKey, also by the destructor and by GetOldestKeyPoolTime
ReturnKey(h) ==
    /\ Idle /\ reserve[h] # NoReserve
    /\ setKeyPool' = IF reserve[h].nIndex # NoIndex THEN setKeyPool \cup {reserve[h].nIndex}
                                                    ELSE setKeyPool
    /\ reserve' = [reserve EXCEPT ![h] = NoReserve]
    /\ UNCHANGED <<status, mapKeys, fUseCrypto, vMasterKey, mapMasterKeys, vchDefaultKey, disk,
                   txn, job, nKey, crashes, used, stale>>

----------------------------------------------------------------------------
(* Passphrases and encryption.                                             *)

Lock ==
    /\ Idle /\ fUseCrypto /\ vMasterKey' = FALSE
    /\ UNCHANGED <<status, mapKeys, fUseCrypto, mapMasterKeys, setKeyPool, vchDefaultKey, disk, txn,
                   job, reserve, nKey, crashes, used, stale>>

\* Unlock tries the master keys in turn; only the last one decrypts the keys.
Unlock(p) ==
    /\ Idle /\ fUseCrypto /\ mapMasterKeys # <<>>
    /\ vMasterKey' = (vMasterKey \/ p = mapMasterKeys[Len(mapMasterKeys)])
    /\ UNCHANGED <<status, mapKeys, fUseCrypto, mapMasterKeys, setKeyPool, vchDefaultKey, disk, txn,
                   job, reserve, nKey, crashes, used, stale>>

\* Locks first; the first master key that the old passphrase does not open ends it, locked.
ChangeWalletPassphrase(old, new) ==
    LET n == Len(mapMasterKeys)
        ok == \A i \in 1 .. n : mapMasterKeys[i] = old
    IN  /\ Idle /\ fUseCrypto /\ n > 0
        /\ vMasterKey' = (ok /\ vMasterKey)
        /\ mapMasterKeys' = IF ok THEN [mapMasterKeys EXCEPT ![n] = new] ELSE mapMasterKeys
        /\ disk' = IF ok THEN [disk EXCEPT !.mkey = new] ELSE disk
        /\ UNCHANGED <<status, mapKeys, fUseCrypto, setKeyPool, vchDefaultKey, txn, job, reserve,
                       nKey, crashes, used, stale>>

\* EncryptWallet: a transaction holds the master key and the encrypted keys; WriteCryptedKey
\* erases the plain ones.  TxnBegin may fail: the master key stays in memory.
EncryptBegin(p) ==
    /\ Idle /\ ~fUseCrypto /\ Len(mapMasterKeys) < 2
    /\ mapMasterKeys' = Append(mapMasterKeys, p)
    /\ \/ job' = [step |-> "keys", pass |-> p] /\ txn' = <<[disk EXCEPT !.mkey = p]>>
       \/ UNCHANGED <<job, txn>>
    /\ UNCHANGED <<status, mapKeys, fUseCrypto, vMasterKey, setKeyPool, vchDefaultKey, disk,
                   reserve, nKey, crashes, used, stale>>

\* Variant: WriteCryptedKey is not part of the transaction and leaves the plain record.
EncryptUntransacted ==
    /\ status = "up" /\ job.step = "keys"
    /\ fUseCrypto' = TRUE /\ vMasterKey' = FALSE
    /\ disk' = [disk EXCEPT !.ckey = mapKeys]
    /\ txn' = <<[txn[1] EXCEPT !.ckey = mapKeys, !.key = {}]>>
    /\ job' = [job EXCEPT !.step = "commit"]
    /\ UNCHANGED <<status, mapKeys, mapMasterKeys, setKeyPool, vchDefaultKey, reserve, nKey,
                   crashes, used, stale>>

\* EncryptKeys (keystore.cpp is external), SetMinVersion.  Both write to the transaction.
EncryptKeys ==
    /\ status = "up" /\ job.step = "keys"
    /\ fUseCrypto' = TRUE /\ vMasterKey' = FALSE
    /\ txn' = <<[txn[1] EXCEPT !.ckey = mapKeys, !.key = {}]>>
    /\ job' = [job EXCEPT !.step = "commit"]
    /\ UNCHANGED <<status, mapKeys, mapMasterKeys, setKeyPool, vchDefaultKey, disk, reserve, nKey,
                   crashes, used, stale>>

\* TxnCommit.  A pool record that KeepKey erased meanwhile stays erased.  A failure exits.
EncryptCommit ==
    /\ status = "up" /\ job.step = "commit"
    /\ disk' = [txn[1] EXCEPT !.pool = disk.pool]
    /\ txn' = <<>>
    /\ vMasterKey' = TRUE                                    \* Lock, Unlock(passphrase)
    /\ job' = [step |-> "erase"]
    /\ UNCHANGED <<status, mapKeys, fUseCrypto, mapMasterKeys, setKeyPool, vchDefaultKey, reserve,
                   nKey, crashes, used, stale>>

\* NewKeyPool: the records of the set are erased, then new ones are made from index 1 on.
NewPoolErase ==
    /\ status = "up" /\ job.step = "erase"
    /\ IF setKeyPool \cap DOMAIN disk.pool # {}
       THEN \E i \in setKeyPool \cap DOMAIN disk.pool :
                /\ ErasePool(i) /\ UNCHANGED <<setKeyPool, job>>
       ELSE /\ setKeyPool' = {} /\ job' = TakeJob("new", None)
            /\ UNCHANGED disk
    /\ UNCHANGED <<status, mapKeys, fUseCrypto, vMasterKey, mapMasterKeys, vchDefaultKey, txn,
                   reserve, nKey, crashes, used, stale>>

\* Lock, Rewrite (module DbEnv).
EncryptDone ==
    /\ status = "up" /\ job.step = "fill" /\ job.op = "new" /\ FillDone
    /\ vMasterKey' = FALSE /\ job' = NoJob
    /\ UNCHANGED <<status, mapKeys, fUseCrypto, mapMasterKeys, setKeyPool, vchDefaultKey, disk, txn,
                   reserve, nKey, crashes, used, stale>>

WalletNext ==
    \/ LoadWallet \/ Crash
    \/ FillGenerate \/ FillWrite \/ Take
    \/ GetKeyFromPool
    \/ \E h \in Holders : Reserve(h) \/ KeepKey(h) \/ ReturnKey(h)
    \/ Lock
    \/ \E p \in Passphrases : Unlock(p) \/ EncryptBegin(p)
    \/ \E p, q \in Passphrases : ChangeWalletPassphrase(p, q)
    \/ EncryptKeys \/ EncryptCommit \/ NewPoolErase \/ EncryptDone

WalletSpec == WalletInit /\ [][WalletNext]_walletVars
----------------------------------------------------------------------------
\* Whatever step of the encryption, of a top up or of a reservation the program ends at,
\* wallet.dat loads again, with every key that was given away, under one master key or under
\* none, and with no plain key beside encrypted ones.
KeysSurvive ==
    /\ status # "DB_CORRUPT"
    /\ disk.key = {} \/ disk.ckey = {}
    /\ disk.ckey # {} <=> disk.mkey # None
    /\ \A i \in DOMAIN used : used[i] \in disk.key \cup disk.ckey
    /\ \A i \in DOMAIN disk.pool : disk.pool[i] \in disk.key \cup disk.ckey

\* A key of the pool is given away once, also across crashes, two reservations never hold the
\* same index, and what is reserved is not in the pool: as long as no record was written at an
\* index that is reserved.
GivenOnce ==
    stale \/ /\ \A i, j \in DOMAIN used : i # j => used[i] # used[j]
             /\ \A h \in Holders : reserve[h].nIndex # NoIndex =>
                    /\ \A i \in DOMAIN used : used[i] # reserve[h].vchPubKey
                    /\ \A g \in Holders \ {h} : reserve[g].nIndex # reserve[h].nIndex
                    /\ reserve[h].nIndex \notin setKeyPool

\* CommitTransaction: "Take key pair from key pool so it won't be used again".
TakenOnce == \A i, j \in DOMAIN used : i # j => used[i] # used[j]
=============================================================================
