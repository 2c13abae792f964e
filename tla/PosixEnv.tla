------------------------------ MODULE PosixEnv ------------------------------
(***************************************************************************)
(* leveldb/util/env_posix.cc: what the environment shares between threads  *)
(* and processes.  LockFile and UnlockFile keep two databases from opening *)
(* one directory, MmapLimiter bounds the files that are mapped, and        *)
(* Schedule hands the compactions to the one background thread.  And       *)
(* PosixMmapFile: a file that is written through a window mapped into      *)
(* memory, which is extended before the window is mapped and trimmed by    *)
(* Close.  Sync has to make durable what is in the window and what was     *)
(* written through earlier windows.                                        *)
(*                                                                         *)
(* fcntl gives a lock to a process, not to a descriptor, and close() of    *)
(* any descriptor of the file takes the lock from the whole process.       *)
(*                                                                         *)
(* The k-th byte given to Append is the number k, an unwritten byte is 0.  *)
(* base_ is position 0 of the window: limit, dst and lastSync are offsets  *)
(* from it, and all are 0 when base_ is NULL.                              *)
(***************************************************************************)
EXTENDS Integers, Sequences, FiniteSets

CONSTANTS
  Processes, Threads,  \* processes that open one database, and the threads of each
  MmapLimit,           \* the slots of MmapLimiter (1000)
  EnvReaders,          \* threads that open table files
  MaxScheduled,        \* bound on the calls of Schedule
  MapPage,             \* page_size_
  MapCap,              \* the size up to which the window doubles (1 MB)
  MaxWritten,          \* bound on the bytes appended
  AppendSizes          \* the sizes of the data given to one Append

ASSUME PosixEnvAssumption ==
  /\ MmapLimit \in Nat /\ IsFiniteSet(EnvReaders) /\ MaxScheduled \in Nat
  /\ MapPage \in Nat \ {0} /\ MapCap \in Nat /\ MaxWritten \in Nat /\ AppendSizes \subseteq Nat

VARIABLES
  locked_files,   \* PosixLockTable, by process: is the file in it
  osLock,         \* the processes that fcntl gave the lock: at most one
  locker,         \* where each thread is in LockFile or UnlockFile
  lockLost,       \* processes whose lock a close() took while a thread held it
  allowed,        \* MmapLimiter::allowed_
  opening,        \* where each reader is in NewRandomAccessFile
  bgQueue,        \* queue_
  bgThread,       \* "none", "top" of the loop, "waiting" or "running"
  scheduled,      \* calls of Schedule so far: the k-th item is the number k
  bgRan,          \* the items that ran, in order
  mmapped,        \* is base_ not NULL
  mmLimit,        \* limit_ - base_
  mmDst,          \* dst_ - base_
  mmLastSync,     \* last_sync_ - base_
  mmOffset,       \* file_offset_
  mapSize,        \* map_size_
  pendingSync,    \* pending_sync_
  mmLeft,         \* left: what the Append in progress still has to copy
  mmCall,         \* "none", "append", or "closed" once fd_ is -1
  cached,         \* the file as the operating system shows it
  durable,        \* the file as the disk has it, by position
  written,        \* bytes copied so far
  syncedTo,       \* bytes copied before the last Sync that returned OK
  mmFine          \* no system call on this file has failed

lockVars == <<locked_files, osLock, locker, lockLost>>
limitVars == <<allowed, opening>>
bgVars == <<bgQueue, bgThread, scheduled, bgRan>>
envVars == <<lockVars, limitVars, bgVars>>

EnvInit ==
  /\ locked_files = [p \in Processes |-> FALSE]
  /\ osLock = {} /\ lockLost = {}
  /\ locker = [p \in Processes |-> [t \in Threads |-> "out"]]
  /\ allowed = MmapLimit
  /\ opening = [r \in EnvReaders |-> "none"]
  /\ bgQueue = <<>> /\ bgThread = "none" /\ scheduled = 0 /\ bgRan = <<>>

-----------------------------------------------------------------------------
(* LockFile and UnlockFile *)

Holds(p) == {t \in Threads : locker[p][t] = "held"}
Goes(p, t, at) == locker' = [locker EXCEPT ![p][t] = at]

\* close(fd) by thread t.
CloseFd(p, t) ==
  /\ osLock' = osLock \ {p}
  /\ lockLost' = IF p \in osLock /\ Holds(p) \ {t} # {} THEN lockLost \cup {p} ELSE lockLost

\* open() succeeds; when it fails LockFile returns at once.
OpenLockFile(p, t) ==
  /\ locker[p][t] = "out"
  /\ Goes(p, t, "opened")
  /\ UNCHANGED <<locked_files, osLock, lockLost>>

\* PosixLockTable::Insert: false when the file is in the table already.
CanInsert(p) == ~locked_files[p]

InsertLock(p, t) ==
  /\ locker[p][t] = "opened"
  /\ IF CanInsert(p)
     THEN /\ locked_files' = [locked_files EXCEPT ![p] = TRUE]
          /\ Goes(p, t, "inserted")
          /\ UNCHANGED <<osLock, lockLost>>
     ELSE CloseFd(p, t) /\ Goes(p, t, "out") /\ UNCHANGED locked_files

\* LockOrUnlock(fd, true): refused while another process has the lock, and it may fail.
FcntlLock(p, t) ==
  /\ locker[p][t] = "inserted"
  /\ \/ osLock \subseteq {p} /\ osLock' = {p} /\ Goes(p, t, "held") /\ UNCHANGED lockLost
     \/ CloseFd(p, t) /\ Goes(p, t, "refused")
  /\ UNCHANGED locked_files

RemoveRefused(p, t) ==
  /\ locker[p][t] = "refused"
  /\ locked_files' = [locked_files EXCEPT ![p] = FALSE]
  /\ Goes(p, t, "out")
  /\ UNCHANGED <<osLock, lockLost>>

\* UnlockFile: LockOrUnlock(fd, false), which may fail, then Remove, then close.
FcntlUnlock(p, t) ==
  /\ locker[p][t] = "held"
  /\ osLock' \in {osLock, osLock \ {p}}
  /\ Goes(p, t, "unlocked")
  /\ UNCHANGED <<locked_files, lockLost>>

RemoveLock(p, t) ==
  /\ locker[p][t] = "unlocked"
  /\ locked_files' = [locked_files EXCEPT ![p] = FALSE]
  /\ Goes(p, t, "removed")
  /\ UNCHANGED <<osLock, lockLost>>

CloseLock(p, t) ==
  /\ locker[p][t] = "removed"
  /\ CloseFd(p, t)
  /\ Goes(p, t, "out")
  /\ UNCHANGED locked_files

\* A process ends: its table is gone and the system takes its lock.
EndProcess(p) ==
  /\ locked_files' = [locked_files EXCEPT ![p] = FALSE]
  /\ osLock' = osLock \ {p}
  /\ lockLost' = lockLost \ {p}
  /\ locker' = [locker EXCEPT ![p] = [t \in Threads |-> "out"]]

LockNext ==
  \E p \in Processes :
    \/ EndProcess(p)
    \/ \E t \in Threads :
         \/ OpenLockFile(p, t) \/ InsertLock(p, t) \/ FcntlLock(p, t) \/ RemoveRefused(p, t)
         \/ FcntlUnlock(p, t) \/ RemoveLock(p, t) \/ CloseLock(p, t)

-----------------------------------------------------------------------------
(* MmapLimiter and NewRandomAccessFile *)

Moves(r, at) == opening' = [opening EXCEPT ![r] = at]

\* Acquire's first test is made without the mutex; "plain" is PosixRandomAccessFile.
AcquireUnlocked(r) ==
  /\ opening[r] = "none"
  /\ Moves(r, IF allowed <= 0 THEN "plain" ELSE "maybe")
  /\ UNCHANGED allowed

\* Mutated form: the value tested without the mutex is trusted.
AcquireTrusting(r) ==
  /\ opening[r] = "maybe"
  /\ allowed' = allowed - 1 /\ Moves(r, "acquired")

AcquireLocked(r) ==
  /\ opening[r] = "maybe"
  /\ \/ allowed <= 0 /\ Moves(r, "plain") /\ UNCHANGED allowed
     \/ allowed > 0 /\ allowed' = allowed - 1 /\ Moves(r, "acquired")

\* GetFileSize and mmap succeed, or one fails and the slot is released.
MapFile(r) ==
  /\ opening[r] = "acquired"
  /\ \/ Moves(r, "mapped") /\ UNCHANGED allowed
     \/ Moves(r, "none") /\ allowed' = allowed + 1

\* The file is deleted; ~PosixMmapReadableFile releases its slot.
DeleteReadable(r) ==
  /\ opening[r] \in {"mapped", "plain"}
  /\ allowed' = IF opening[r] = "mapped" THEN allowed + 1 ELSE allowed
  /\ Moves(r, "none")

LimitNext ==
  \E r \in EnvReaders : AcquireUnlocked(r) \/ AcquireLocked(r) \/ MapFile(r) \/ DeleteReadable(r)

-----------------------------------------------------------------------------
(* Schedule and the background thread *)

\* bgsignal_ wakes the thread if it waits.  The queue is tested before the item is
\* added, under mu_.
Schedule ==
  /\ scheduled < MaxScheduled
  /\ scheduled' = scheduled + 1
  /\ bgQueue' = Append(bgQueue, scheduled + 1)
  /\ bgThread' = IF bgThread = "none" \/ (bgQueue = <<>> /\ bgThread = "waiting") THEN "top" ELSE bgThread
  /\ UNCHANGED bgRan

\* pthread_cond_wait releases mu_; it may return without a signal.
WaitForItem == bgThread = "top" /\ bgQueue = <<>> /\ bgThread' = "waiting" /\ UNCHANGED <<bgQueue, scheduled, bgRan>>
SpuriousWakeup == bgThread = "waiting" /\ bgThread' = "top" /\ UNCHANGED <<bgQueue, scheduled, bgRan>>

\* The first item leaves the queue under mu_ and its function runs without it.
TakeItem ==
  /\ bgThread = "top" /\ bgQueue # <<>>
  /\ bgRan' = Append(bgRan, Head(bgQueue))
  /\ bgQueue' = Tail(bgQueue)
  /\ bgThread' = "running"
  /\ UNCHANGED scheduled
FunctionReturns == bgThread = "running" /\ bgThread' = "top" /\ UNCHANGED <<bgQueue, scheduled, bgRan>>

BgNext == Schedule \/ WaitForItem \/ SpuriousWakeup \/ TakeItem \/ FunctionReturns

EnvNext ==
  \/ LockNext  /\ UNCHANGED <<limitVars, bgVars>>
  \/ LimitNext /\ UNCHANGED <<lockVars, bgVars>>
  \/ BgNext    /\ UNCHANGED <<lockVars, limitVars>>

EnvSpec == EnvInit /\ [][EnvNext]_envVars

-----------------------------------------------------------------------------
(* PosixMmapFile *)

mmVars == <<mmapped, mmLimit, mmDst, mmLastSync, mmOffset, mapSize, pendingSync, mmLeft,
            mmCall, cached, durable, written, syncedTo, mmFine>>

MmInit ==
  /\ mmapped = FALSE /\ mmLimit = 0 /\ mmDst = 0 /\ mmLastSync = 0 /\ mmOffset = 0
  /\ mapSize = MapPage
  /\ pendingSync = FALSE
  /\ mmLeft = 0 /\ mmCall = "none"
  /\ cached = <<>>
  /\ durable = [p \in 1 .. MaxWritten |-> 0]
  /\ written = 0 /\ syncedTo = 0 /\ mmFine = TRUE

TruncateToPageBoundary(s) == s - (s % MapPage)

\* ftruncate: cut, or extend with zeros.
Resized(s, n) == [p \in 1 .. n |-> IF p <= Len(s) THEN s[p] ELSE 0]

\* The page cache writes the positions in S back to the disk.
WrittenBack(S) ==
  [p \in DOMAIN durable |-> IF p \in S THEN IF p <= Len(cached) THEN cached[p] ELSE 0
                                       ELSE durable[p]]

-----------------------------------------------------------------------------
(* Append *)

AppendData(n) ==
  /\ mmCall = "none"
  /\ written + n <= MaxWritten
  /\ mmCall' = "append"
  /\ mmLeft' = n
  /\ UNCHANGED <<mmapped, mmLimit, mmDst, mmLastSync, mmOffset, mapSize, pendingSync,
                 cached, durable, written, syncedTo, mmFine>>

\* One turn of the loop with room in the window: copy what fits.
CopyChunk ==
  /\ mmCall = "append" /\ mmDst < mmLimit
  /\ LET n == IF mmLeft <= mmLimit - mmDst THEN mmLeft ELSE mmLimit - mmDst
         at == mmOffset + mmDst
     IN /\ cached' = [p \in DOMAIN cached |->
                        IF p \in at + 1 .. at + n THEN written + (p - at) ELSE cached[p]]
        /\ mmDst' = mmDst + n
        /\ written' = written + n
        /\ mmLeft' = mmLeft - n
        /\ mmCall' = IF mmLeft = n THEN "none" ELSE "append"
  /\ UNCHANGED <<mmapped, mmLimit, mmLastSync, mmOffset, mapSize, pendingSync, durable,
                 syncedTo, mmFine>>

\* pending_sync_ after UnmapCurrentRegion.
PendingAfterUnmap == pendingSync \/ (mmapped /\ mmLastSync < mmLimit)

NextMapSize == IF mmapped /\ mapSize < MapCap THEN 2 * mapSize ELSE mapSize

\* One turn of the loop without room: UnmapCurrentRegion, then MapNewRegion.
MoveWindow ==
  /\ mmCall = "append" /\ mmDst = mmLimit
  /\ mmOffset' = mmOffset + mmLimit
  /\ pendingSync' = PendingAfterUnmap
  /\ mapSize' = NextMapSize
  /\ mmLastSync' = 0 /\ mmDst' = 0
  /\ \/ /\ mmapped' = TRUE
        /\ mmLimit' = NextMapSize
        /\ cached' = Resized(cached, mmOffset' + NextMapSize)
        /\ UNCHANGED <<mmLeft, mmCall, mmFine>>
     \/ \* munmap or ftruncate fails, or mmap does after the file was extended
        /\ mmapped' = FALSE
        /\ mmLimit' = 0
        /\ cached' \in {cached, Resized(cached, mmOffset' + NextMapSize)}
        /\ mmLeft' = 0 /\ mmCall' = "none"
        /\ mmFine' = FALSE
  /\ UNCHANGED <<durable, written, syncedTo>>

-----------------------------------------------------------------------------
(* Sync and Close *)

\* The variant that forgets the windows left behind.
SyncWindowOnly ==
  IF mmDst > mmLastSync
    THEN mmOffset + TruncateToPageBoundary(mmLastSync) + 1
           .. mmOffset + TruncateToPageBoundary(mmDst - 1) + MapPage
    ELSE {}

\* What fdatasync (all of the file, when earlier windows are pending) and msync (the
\* pages of the window from the last synced byte on) write to the disk.
SyncedPositions ==
  (IF pendingSync THEN DOMAIN durable ELSE {})
    \cup (IF mmDst > mmLastSync
            THEN LET p1 == TruncateToPageBoundary(mmLastSync)
                     p2 == TruncateToPageBoundary(mmDst - 1)
                 IN mmOffset + p1 + 1 .. mmOffset + p2 + MapPage
            ELSE {})

\* pending_sync_ and last_sync_ advance before the result of the calls is known.
SyncFile ==
  /\ mmCall = "none"
  /\ pendingSync' = FALSE
  /\ mmLastSync' = IF mmDst > mmLastSync THEN mmDst ELSE mmLastSync
  /\ \/ /\ durable' = WrittenBack(SyncedPositions)
        /\ syncedTo' = written
        /\ UNCHANGED mmFine
     \/ /\ pendingSync \/ mmDst > mmLastSync
        /\ mmFine' = FALSE
        /\ UNCHANGED <<durable, syncedTo>>
  /\ UNCHANGED <<mmapped, mmLimit, mmDst, mmOffset, mapSize, mmLeft, mmCall, cached, written>>

CloseMapped ==
  /\ mmCall = "none"
  /\ mmCall' = "closed"
  /\ mmOffset' = mmOffset + mmLimit
  /\ pendingSync' = PendingAfterUnmap
  /\ mapSize' = NextMapSize
  /\ mmapped' = FALSE /\ mmLimit' = 0 /\ mmDst' = 0 /\ mmLastSync' = 0
  /\ \/ /\ cached' = IF mmLimit > mmDst THEN Resized(cached, mmOffset' - (mmLimit - mmDst))
                                       ELSE cached
        /\ UNCHANGED mmFine
     \/ /\ mmFine' = FALSE
        /\ UNCHANGED cached
  /\ UNCHANGED <<mmLeft, durable, written, syncedTo>>

\* The operating system writes a page back when it likes.
WriteBack(page) ==
  /\ durable' = WrittenBack(page * MapPage + 1 .. (page + 1) * MapPage)
  /\ durable' # durable
  /\ UNCHANGED <<mmapped, mmLimit, mmDst, mmLastSync, mmOffset, mapSize, pendingSync, mmLeft,
                 mmCall, cached, written, syncedTo, mmFine>>

MmNext ==
  \/ \E n \in AppendSizes : AppendData(n)
  \/ CopyChunk \/ MoveWindow \/ SyncFile \/ CloseMapped
  \/ \E page \in 0 .. (MaxWritten - 1) \div MapPage : WriteBack(page)

MmSpec == MmInit /\ [][MmNext]_mmVars

-----------------------------------------------------------------------------
\* One thread of a process at most holds the lock ("fcntl(F_SETLK) does not provide
\* any protection against multiple uses from the same process", env_posix.cc:366-368),
\* and two processes hold it at once only after a close() took it from one of them:
\* that of a second LockFile that the table refused, or the one at the end of an
\* UnlockFile that another LockFile overtook.
LocksHeldApart ==
  /\ \A p \in Processes : Cardinality(Holds(p)) <= 1
  /\ \A p, q \in Processes : p # q /\ Holds(p) # {} /\ Holds(q) # {} => {p, q} \cap lockLost # {}

\* MmapLimiter never hands out more slots than there are, and a slot comes back when
\* the file that has it is deleted or could not be mapped.
SlotsCounted ==
  /\ allowed >= 0
  /\ allowed + Cardinality({r \in EnvReaders : opening[r] \in {"acquired", "mapped"}}) = MmapLimit

\* The background thread never sleeps over an item, and runs each one once and in the
\* order of the calls of Schedule.
ItemsRunInOrder ==
  /\ bgQueue # <<>> => bgThread \in {"top", "running"}
  /\ bgRan \o bgQueue = [i \in 1 .. scheduled |-> i]

\* What the threads share in the environment stays right.
EnvSound == LocksHeldApart /\ SlotsCounted /\ ItemsRunInOrder

\* While no system call has failed, whatever was appended before a Sync that returned OK
\* is on the disk at its place, however often the window has moved since the last Sync,
\* and a file that was closed holds exactly the bytes appended: nothing of the space the
\* window preallocated is left at its end and nothing written is cut off.
MappedFileExact ==
  mmFine =>
    /\ \A k \in 1 .. syncedTo : durable[k] = k
    /\ mmCall = "closed" => cached = [k \in 1 .. written |-> k]
=============================================================================
