-------------------------------- MODULE DbEnv --------------------------------
(***************************************************************************)
(* The Berkeley DB environment (src/db.cpp, src/db.h) and what keeps       *)
(* wallet.dat self-contained (the flush thread, backup and recovery of     *)
(* src/walletdb.cpp).                                                      *)
(*                                                                         *)
(* There is one file.  A record is a number; Berkeley DB itself is         *)
(* external: a committed record is in its log until a handle is closed and *)
(* checkpointed, then in the file.  Each stretch of code that holds cs_db  *)
(* is one step, except Rewrite, which holds it over several.               *)
(***************************************************************************)
EXTENDS Integers, FiniteSets

CONSTANTS Users,          \* threads that use a CWalletDB
          MaxUpdates,     \* bound: how often nWalletDBUpdated is raised
          MaxRestarts     \* bound: how often the program is started again

ASSUME DbEnvAssumption == MaxUpdates \in Nat /\ MaxRestarts \in Nat

PoolRecord == -1    \* a record that is not counted, and that Rewrite may be asked to skip

VARIABLES fDbEnvInit,
          mapFileUseCount,   \* of the file; -1: no entry
          mapDb,             \* whether its handle is open
          cdb,               \* cdb[u]: the CDB object of thread u
          exists, dat,       \* the file and its records
          log,               \* committed records that only the log has
          rewrite, bak,      \* the records of wallet.dat.rewrite and of wallet.<time>.bak
          phase,             \* how far Rewrite is, which holds cs_db meanwhile
          nWalletDBUpdated, nLastSeen, nLastFlushed, quiet,
          nAtStart,          \* nWalletDBUpdated when the flush thread started
          committed, restarts

files == <<exists, dat, log, rewrite, bak>>
flushVars == <<nLastSeen, nLastFlushed, quiet, nAtStart>>
dbVars == <<fDbEnvInit, mapFileUseCount, mapDb, cdb, files, phase, nWalletDBUpdated, flushVars,
            committed, restarts>>

NoCDB == [pc |-> "none", pdb |-> "null", txn |-> FALSE, pend |-> {}, bumped |-> 0]

DbInit ==
    /\ fDbEnvInit = FALSE /\ mapFileUseCount = -1 /\ mapDb = FALSE
    /\ cdb = [u \in Users |-> NoCDB]
    /\ exists = FALSE /\ dat = {} /\ log = {} /\ rewrite = {} /\ bak = {} /\ phase = "none"
    /\ nWalletDBUpdated = 0 /\ nLastSeen = 0 /\ nLastFlushed = 0 /\ quiet = 0 /\ nAtStart = 0
    /\ committed = {} /\ restarts = 0

cs_db == phase = "none"        \* the lock is free
----------------------------------------------------------------------------
(* CDB.                                                                    *)

\* CDBEnv::Open
OpenEnv == fDbEnvInit' = TRUE

\* CDB::CDB: the environment is opened on the way, and the file created.  A failure to open
\* leaves the use count as it was, but with an entry.
OpenCDB(u) ==
    /\ cs_db /\ cdb[u].pc = "none"
    /\ OpenEnv
    /\ \/ /\ mapFileUseCount' = (IF mapFileUseCount < 0 THEN 1 ELSE mapFileUseCount + 1)
          /\ mapDb' = TRUE /\ exists' = TRUE
          /\ cdb' = [cdb EXCEPT ![u] = [NoCDB EXCEPT !.pc = "open", !.pdb = "live"]]
       \/ /\ ~mapDb /\ mapFileUseCount' = (IF mapFileUseCount < 0 THEN 0 ELSE mapFileUseCount)
          /\ UNCHANGED <<mapDb, exists, cdb>>
    /\ UNCHANGED <<dat, log, rewrite, bak, phase, nWalletDBUpdated, flushVars, committed, restarts>>

TxnBegin(u) ==
    /\ cdb[u].pdb = "live" /\ ~cdb[u].txn
    /\ cdb' = [cdb EXCEPT ![u].txn = TRUE]
    /\ UNCHANGED <<fDbEnvInit, mapFileUseCount, mapDb, files, phase, nWalletDBUpdated, flushVars,
                   committed, restarts>>

\* The first half of a CWalletDB method, nWalletDBUpdated++; accounting entries skip it.
Bump(u) ==
    /\ cdb[u].pdb = "live" /\ cdb[u].bumped = 0 /\ nWalletDBUpdated < MaxUpdates
    /\ nWalletDBUpdated' = nWalletDBUpdated + 1
    /\ cdb' = [cdb EXCEPT ![u].bumped = nWalletDBUpdated + 1]
    /\ UNCHANGED <<fDbEnvInit, mapFileUseCount, mapDb, files, phase, flushVars, committed, restarts>>

\* Write, with DB_AUTO_COMMIT when no transaction is active.
Put(u) ==
    \E r \in {PoolRecord, cdb[u].bumped} \ {0} :
        /\ cdb[u].pdb = "live"
        /\ IF cdb[u].txn
           THEN /\ cdb' = [cdb EXCEPT ![u].pend = @ \cup {r}, ![u].bumped = IF r = @ THEN 0 ELSE @]
                /\ UNCHANGED <<log, committed>>
           ELSE /\ cdb' = [cdb EXCEPT ![u].bumped = IF r = @ THEN 0 ELSE @]
                /\ log' = log \cup {r} /\ committed' = committed \cup {r}
        /\ UNCHANGED <<fDbEnvInit, mapFileUseCount, mapDb, exists, dat, rewrite, bak, phase,
                       nWalletDBUpdated, flushVars, restarts>>

TxnEnd(u) ==
    /\ cdb[u].pdb = "live" /\ cdb[u].txn
    /\ cdb' = [cdb EXCEPT ![u].txn = FALSE, ![u].pend = {}]
    /\ \/ log' = log \cup cdb[u].pend /\ committed' = committed \cup cdb[u].pend    \* TxnCommit
       \/ UNCHANGED <<log, committed>>                                              \* TxnAbort
    /\ UNCHANGED <<fDbEnvInit, mapFileUseCount, mapDb, exists, dat, rewrite, bak, phase, nWalletDBUpdated,
                   flushVars, restarts>>

\* CDB::Close lets go of the handle, aborts and checkpoints first, and takes cs_db to lower the
\* use count after that.
CloseCDB(u) ==
    /\ cdb[u].pdb = "live" /\ cdb[u].bumped = 0
    /\ cdb' = [cdb EXCEPT ![u] = [NoCDB EXCEPT !.pc = "closing"]]
    /\ UNCHANGED <<fDbEnvInit, mapFileUseCount, mapDb, files, phase, nWalletDBUpdated, flushVars,
                   committed, restarts>>

LowerUseCount(u) ==
    /\ cs_db /\ cdb[u].pc = "closing"
    /\ mapFileUseCount' = mapFileUseCount - 1
    /\ cdb' = [cdb EXCEPT ![u] = NoCDB]
    /\ UNCHANGED <<fDbEnvInit, mapDb, files, phase, nWalletDBUpdated, flushVars, committed, restarts>>
----------------------------------------------------------------------------
(* CDBEnv.                                                                 *)

Closed == [u \in Users |-> [cdb[u] EXCEPT !.pdb = IF @ = "live" /\ mapDb THEN "dangling" ELSE @]]

DetachUnflushed == mapDb' = FALSE /\ cdb' = Closed /\ log' = {} /\ UNCHANGED dat
\* CloseDb, then a checkpoint and lsn_reset: the file needs no log any more.
Detach == mapDb' = FALSE /\ cdb' = Closed /\ dat' = dat \cup log /\ log' = {}

IdleOrLast == mapFileUseCount <= 1
\* The file has no entry in mapFileUseCount, or a count of zero.
IdleFile == mapFileUseCount <= 0

\* CDBEnv::Flush(fShutdown): files that are not in use; at the end the log goes too.
EnvFlush ==
    \E fShutdown \in BOOLEAN :
        /\ cs_db /\ fDbEnvInit /\ mapFileUseCount >= 0 /\ IdleFile
        /\ Detach
        /\ mapFileUseCount' = -1
        /\ fDbEnvInit' = ~fShutdown
        /\ UNCHANGED <<exists, rewrite, bak, phase, nWalletDBUpdated, flushVars, committed, restarts>>

\* BackupWallet: the file is copied once it is detached.
Backup ==
    /\ cs_db /\ IdleFile
    /\ Detach /\ mapFileUseCount' = -1
    /\ UNCHANGED <<fDbEnvInit, exists, rewrite, bak, phase, nWalletDBUpdated, flushVars, committed, restarts>>

\* CDB::Rewrite: the copy.  A file .rewrite that is there already keeps its records
\* (DB_NOOVERWRITE, and DB_KEYEXIST is not counted as an error).
Rewrite(skip) ==
    /\ cs_db /\ IdleFile /\ fDbEnvInit /\ exists
    /\ Detach /\ mapFileUseCount' = 0
    /\ rewrite' = rewrite \cup (dat' \ skip)
    /\ phase' = "copied"
    /\ committed' = committed \ (skip \ rewrite)
    /\ UNCHANGED <<fDbEnvInit, exists, bak, nWalletDBUpdated, flushVars, restarts>>

RewriteRemove ==
    /\ phase = "copied"
    /\ \/ phase' = "removed" /\ exists' = FALSE /\ dat' = {}
       \/ phase' = "none" /\ UNCHANGED <<exists, dat>>           \* fSuccess = false
    /\ UNCHANGED <<fDbEnvInit, mapFileUseCount, mapDb, cdb, log, rewrite, bak, nWalletDBUpdated, flushVars,
                   committed, restarts>>

RewriteRename ==
    /\ phase = "removed" /\ phase' = "none"
    /\ \/ exists' = TRUE /\ dat' = rewrite /\ rewrite' = {}
       \/ UNCHANGED <<exists, dat, rewrite>>
    /\ UNCHANGED <<fDbEnvInit, mapFileUseCount, mapDb, cdb, log, bak, nWalletDBUpdated, flushVars,
                   committed, restarts>>
----------------------------------------------------------------------------
(* ThreadFlushWalletDB.                                                    *)

FlushLook ==
    /\ \/ nLastSeen # nWalletDBUpdated /\ nLastSeen' = nWalletDBUpdated /\ quiet' = 0
       \/ nLastSeen = nWalletDBUpdated /\ quiet < 2 /\ quiet' = quiet + 1 /\ UNCHANGED nLastSeen
    /\ UNCHANGED <<fDbEnvInit, mapFileUseCount, mapDb, cdb, files, phase, nWalletDBUpdated, nLastFlushed,
                   nAtStart, committed, restarts>>

FlushWhen == nLastFlushed # nWalletDBUpdated /\ quiet = 2

\* "Don't do this if any databases are in use"
FlushWallet ==
    /\ cs_db /\ nLastSeen = nWalletDBUpdated /\ FlushWhen
    /\ mapFileUseCount = 0
    /\ Detach /\ mapFileUseCount' = -1 /\ nLastFlushed' = nWalletDBUpdated
    /\ UNCHANGED <<fDbEnvInit, exists, rewrite, bak, phase, nWalletDBUpdated, nLastSeen, quiet, nAtStart,
                   committed, restarts>>
----------------------------------------------------------------------------
(* The program is killed and started again.                                *)

\* CDBEnv::Salvage: some of the records, perhaps none.
Salvaged(all) == SUBSET all

\* CWalletDB::Recover: the file is moved away and what can be salvaged goes into a new one; when
\* that is nothing, no new one is made.
Recover ==
    /\ exists /\ bak' = bak \cup dat \cup log /\ log' = {}
    /\ dat' \in Salvaged(dat \cup log) /\ exists' = (dat' # {})

\* The environment replays the log (DB_RECOVER); Verify passes, or Recover is called.
Restart ==
    /\ restarts < MaxRestarts /\ restarts' = restarts + 1
    /\ OpenEnv /\ mapFileUseCount' = -1 /\ mapDb' = FALSE /\ phase' = "none"
    /\ cdb' = [u \in Users |-> NoCDB]
    /\ UNCHANGED <<exists, dat, log, bak>> \/ Recover
    /\ nLastSeen' = nWalletDBUpdated /\ nLastFlushed' = nWalletDBUpdated /\ nAtStart' = nWalletDBUpdated
    /\ quiet' = 0
    /\ UNCHANGED <<rewrite, nWalletDBUpdated, committed>>

DbNext ==
    \/ EnvFlush \/ Backup \/ RewriteRemove \/ RewriteRename \/ FlushLook \/ FlushWallet \/ Restart
    \/ \E skip \in {{}, {PoolRecord}} : Rewrite(skip)
    \/ \E u \in Users : OpenCDB(u) \/ TxnBegin(u) \/ Bump(u) \/ Put(u) \/ TxnEnd(u) \/ CloseCDB(u)
                        \/ LowerUseCount(u)

DbSpec == DbInit /\ [][DbNext]_dbVars
----------------------------------------------------------------------------
(* Properties.                                                             *)

\* No thread holds a CDB whose handle was closed under it by the flush thread, a backup, Rewrite
\* or the flush at shutdown: the use count covers the handle (CDB::Close gives up pdb before it
\* lowers the count).
HandlesAlive == \A u \in Users : cdb[u].pdb # "dangling"

\* What was committed is in the file, in the log, or in the copy that Rewrite or Recover made,
\* whatever was killed half way; in particular the log is not removed at shutdown before the
\* file has all of it (CDBEnv::Flush).
NothingLost == committed \subseteq dat \cup log \cup rewrite \cup bak

\* Once the flush thread takes an update for flushed, it needs the log no more: the data file has
\* it (or the copy of it, when a rename of Rewrite failed), with all the counted ones since the
\* thread started; nLastFlushed is taken only when no database is in use, so that no increment
\* is ahead of its write.
FlushedMeansInFile == \A r \in committed : (nAtStart < r /\ r <= nLastFlushed) => r \in dat \cup rewrite

\* The wallet's records are durable: committed ones are somewhere, flushed ones in the file.
WalletDurable == NothingLost /\ FlushedMeansInFile
=============================================================================
