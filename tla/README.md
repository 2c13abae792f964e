# A TLA+ model of tri-tip (tipcoin)

tri-tip is a peer-to-peer node derived from Bitcoin 0.8. What it builds
(`src/curecta.pro`) is the networking layer: connections to peers, the buffers
and messages on them, the table of known addresses and its file, and message
handlers that fetch blocks and give them to the program's own part, the
"gate" to a tipcoin network. `src/main.cpp` runs `initialise`
(`src/bitcoin_init.cpp`) and joins the threads it started. The repository also
holds the wallet, the RPC server, the coin database and the LevelDB store below
it; they are modelled too, although the build leaves most of them out. Several
headers (`net.h`, `main.h`, `util.h`, `sync.h`, `wallet.h`, `script.h`, all of
LevelDB's) are not in the repository, so inline methods, such as
`PushMessage`, `AskFor` and `AddRef`, are modelled from how the code uses them
and marked external in `PROJECT.json`.

`PROJECT.json` lists components, runs, mutants, the map from definitions to
source lines, findings, hazards and theorems.

## 1. Inventory

| Component (source) | State | Operations | Module |
|---|---|---|---|
| Check queue (`checkqueue.h`) | queue, nIdle, nTotal, nTodo, fAllOk, fQuit, two condition variables | Add, Loop (workers and master), Wait, construction and destruction of the control | `CheckQueue` |
| Connection lifecycle (`net.cpp`) | vNodes, vNodesDisconnected, reference counts and flags, semOutbound with its grants, vOneShots, pnodeSync | ConnectNode, FindNode, OpenNetworkConnection, ProcessOneShot, the opener threads, ThreadSocketHandler, ThreadMessageHandler, StartSync, CloseSocketDisconnect | `NodeLifecycle` |
| Connection buffers (`net.cpp`, handlers) | vSendMsg, nSendOffset, nSendSize, vRecvMsg, the descriptor sets | PushMessage, SocketSendData, ReceiveMsgBytes, select loop, ProcessMessages | `SocketBuffers` |
| Address manager (`addrman.*`) | mapInfo, mapAddr, vRandom, vvTried, vvNew, nTried, nNew | Add, Good, Attempt, Connected, Select, GetAddr | `AddrMan` |
| peers.dat (`addrman.h`, `db.cpp`) | the file and its temporary | Write, Read, DumpAddresses | `PeersDat` |
| Block handlers (`dust_coin/bitcoin_messages_handlers.cpp`) | mapAskFor, mapAlreadyAskedFor, mapOrphanBlocks, hashLastGetBlocksEnd, nMisbehavior, setBanned | inv, block, ProcessBlock, PushGetBlocks, SendMessages, Misbehaving | `BlockFetch` |
| Peer session and alerts (same file, `alert.cpp`) | nVersion, fSuccessfullyConnected, vRecvGetData; mapAlerts, setKnown | version, verack, getdata, ping, alert; ProcessAlert, RelayTo, Cancels | `PeerSession` |
| Relay and filters (`net.cpp`, `bloom.cpp`) | mapRelay, vRelayExpiration, pfilter | RelayTransaction, filterload, filteradd, filterclear | `TxRelay` |
| Local addresses (`net.cpp`) | mapLocalHost, vfReachable, vfLimited | AddLocal, SeenLocal, GetLocal, AdvertizeLocal | `LocalAddrs` |
| Sockets and proxies (`netbase.cpp`) | proxyInfo, nameproxyInfo, open descriptors | ConnectSocketByName, ConnectSocket, Socks4, Socks5 | `ProxyConnect` |
| RPC server (`bitcoinrpc.cpp`) | acceptors, io_service, worker threads | StartRPCThreads, StopRPCThreads, RPCListen, RPCAcceptHandler, ServiceConnection, execute | `RpcServer` |
| Database environment (`db.cpp`, `walletdb.cpp`) | mapFileUseCount, mapDb, log and file | CDB open and close, transactions, Flush, CloseDb, Rewrite, flush thread, backup, Recover | `DbEnv` |
| Wallet keys (`wallet.cpp`, `walletdb.cpp`, `crypter.cpp`, `keystore.*`) | key pool, reserved keys, master keys, the encrypted and plain key maps | TopUpKeyPool, Reserve, Keep, Return, EncryptWallet, Lock, Unlock, ChangeWalletPassphrase, LoadWallet | `WalletKeys` |
| Wallet transactions (`wallet.cpp`, `walletdb.cpp`) | mapWallet, spent flags, nOrderPosNext | AddToWallet, CreateTransaction, CommitTransaction, SelectCoins, ScanForWalletTransactions, ReacceptWalletTransactions, ReorderTransactions, GetAddressGroupings | `WalletTxs`, `CoinSelect` |
| Coins (`core.h`, `txdb.cpp`) | CCoins, undo records, the coin database | Spend, Cleanup, serialisation, BatchWrite | `CoinStore` |
| Merkle trees (`dust_coin/bitcoin_block.h`) | vMerkleTree | BuildMerkleTree, GetMerkleBranch, CheckMerkleBranch | `MerkleTree` |
| Lock order (`sync.cpp`) | a stack of locks per thread, the orders seen | push_lock, pop_lock | `LockOrder` |
| Locked pages (`allocators.h`) | a count per page | LockRange, UnlockRange, allocate, deallocate | `LockedPages` |
| Text codes (`util.cpp`) | none | base 64, base 32, amounts | `TextCodes` |
| LevelDB store (`leveldb/db/db_impl.cc`, `version_set.cc`, `builder.cc`) | memtables, logs, tables, manifests, CURRENT, versions, the writers' queue | Write, flush, merge, LogAndApply, DeleteObsoleteFiles, Recover | `LevelStore` |
| LevelDB levels (`version_set.cc`, `db_impl.cc`) | files per level, compact pointers, snapshots | PickCompaction, CompactRange, DoCompactionWork, Get, seeks | `LevelTree` |
| LevelDB formats (`log_*.cc`, `table/*.cc`, `filter_block.cc`, `coding.cc`, `write_batch.cc`, `version_edit.cc`) | a log, a table, a record | write, cut, read back, seek, step | `LogFile`, `TableFile`, `Encodings` |
| LevelDB iterators (`db_iter.cc`, `merger.cc`) | children and direction | Seek, SeekToFirst, SeekToLast, Next, Prev | `DbIter` |
| LevelDB caches (`cache.cc`, `table_cache.cc`) | LRU list, hash table, reference counts | FindTable, Insert, Release, Erase | `TableCache` |
| LevelDB environments (`memenv.cc`, `env_posix.cc`) | files and references; mapped window; file locks, map slots, work queue | file operations; Append, Sync, Close; LockFile, UnlockFile, Acquire, Schedule | `MemEnv`, `PosixEnv` |
| LevelDB repair (`repair.cc`) | files found, tables rebuilt | Run, ConvertLogToTable, ScanTable, WriteDescriptor | `Repair` |

How they interact. Five threads share the nodes: *opencon* and *addcon* open
connections, *net* (the socket handler) accepts, sends, receives, disconnects and
frees, *msghand* processes messages and sends, *dumpaddr* writes peers.dat.
`cs_vNodes` protects vNodes and the reference counts, but not a CNode's flags;
`cs_vSend` and `cs_vRecvMsg` protect its buffers, mostly with TRY_LOCK;
`CAddrMan::cs` its tables; `cs_main` serialises the handlers. The wallet is used
under `cs_wallet` by RPC threads and the handlers; every CWalletDB opens a handle of
the environment, which a flush thread closes when nobody uses it. LevelDB has one
mutex, given up during I/O, any number of writers and readers, and one
background thread that flushes and merges.

What is hard here:

* objects whose life ends in another thread than the one that uses them, with a
  reference count that is raised outside the lock that protects the pointer;
* grants of a semaphore that move between a thread and an object that may be
  disconnected at the same time;
* four redundant indexes over one table, rearranged by deletion, eviction and
  shuffling, and a file format that leaves the indexes out;
* byte streams that are cut anywhere, flow control on both sides of a connection;
* blocks that arrive in any order, twice, or never, from peers that come and go;
* a pool of threads that accounts for its work only in the next critical section;
* a wallet changed by single writes, and by one transaction in the middle, with the
  process ending at any of them;
* a store whose files are made, named, synced and deleted in an order that a crash may
  cut anywhere, while readers still use what is to be deleted.

Correctness, in a sentence per component: a round of checks ends with the
conjunction of exactly its own results; a CNode is freed when nobody uses it and
no slot is lost; messages arrive whole, in order, once; every index agrees with
the table and a bucket never overflows; a restart finds what was dumped; every
orphan's missing ancestors are asked for, and an announced block arrives; a
synced write survives and an acknowledged one can be read; the wallet never loses a
key it gave away, gives none away twice, and offers no coin the chain has as
spent; whatever is encoded is decoded again or refused.

## 2. Modules

Three abstract specifications say what a component promises, and the detailed
modules are shown to implement them: `CheckRound` (a round is opened, checks are added,
it closes with a verdict), `AddrBook` (an address is unknown, new or tried) and
`MessageStream` (two ordered streams that may be cut). The modules `*Proofs` and
`NumberFacts` hold theorems (section 4), `MC*` the instances for TLC where a
configuration alone does not do. The other modules are those of the table above;
`PROJECT.json` maps their definitions to source lines.

**CheckQueue.** A critical section of `Loop` is two steps, because the constructor of
`CCheckQueueControl` reads the counters without the mutex and can see the middle of
one. A batch is any subset of the right size (the code says the order does not
matter). Waits may end spuriously, and `boost::thread` interruption throws out of a
wait, which leaves nIdle and nTotal too high; both are actions. Condition variables
are wait sets: a thread is in `wait` until a notification makes it `woken`.

**NodeLifecycle.** A critical section of `cs_vNodes` is one step except the socket
handler's long one, where the openers can touch a node they have a pointer to. Using a
freed node sets `wild`; after that the model says nothing (undefined behaviour).
Whether a connection breaks is a choice, because buffers, bans and timeouts decide it;
other modules model those. Node objects are not reused: `new CNode` makes a new one.

**AddrMan and PeersDat.** Each public operation runs under the lock and is one action,
except `SelectTried` and `GetAddr_`, whose random loops take one step per iteration with
the lock held. The bucket hashes are constant functions, since nKey never changes. The
clock may show any time of a small set, so also run backwards. `PeersDat` extends
`AddrMan`: entries are serialised in the order of their ids, as the iteration over
`std::map` does, into a temporary file that is renamed or given up, and a restart at
any point reads the file back.

**SocketBuffers.** Bytes are units that know their message; the receiver looks only at
the announced size and its own counts. The kernel accepts and returns any part of what
fits. The two ends run the same code, which is how a deadlock between them can be seen.
The k-th unsent unit is `UnitAt`; `Starts` finds the messages that begin among units on the wire.

**BlockFetch.** One thread runs the handlers under `cs_main`; peers and time are free.
Nothing in the program fills `mapBlockIndex` or assigns `pindexBest`, so branches that
need an entry are absent, and a block is accepted only if its parent hash is zero.
Times are relative: `Tick` brings every scheduled request nearer.

**PeerSession, TxRelay, LocalAddrs.** The handlers of one thread, over records of a
peer's flags. A version message may end after any field. A bloom filter is its set of
bits, so false positives happen; MurmurHash3 is a constant function. A matched output is
added to the filter, and with BLOOM_UPDATE_P2PUBKEY_ONLY only if it is paid to a key or
to several, so `watched` grows with what the filter is told. `AdvertizeLocal`
visits one peer a step, so two threads that advertise interleave. The node listens:
with `-listen=0` GetLocal and AdvertizeLocal return at once (fNoListen, `net.cpp` 89) and
nothing is advertised, which is left out.

**ProxyConnect, RpcServer.** Every system call may fail and every read be short; a
handler of the io_service serves its connection before it returns, so a worker is busy
for as long as its client is connected.

**DbEnv, WalletKeys, WalletTxs, CoinSelect.** Berkeley DB is a log and a file: a
committed record is in the log until a checkpoint moves it. A write outside a
transaction survives the end of the process, one inside only with the commit. The
operations of the wallet that make several writes take one step for each, under
`cs_wallet`, and the process may end between any two. ReacceptWalletTransactions visits
the transactions in the order of their hashes, which may be any. `CoinSelect` computes the
set of all results that the random bits can give; its loops over coins are recursive
functions from each coin to the next. It builds a transaction for one payee, below 1000
bytes, so that its size adds no fee, and counts as failed also a payment to the payee that
is is dust. `WalletTxs` uses the weaker fact that some large enough set of available coins is
chosen. Its second part is a wallet that an earlier version of the program wrote, or writes in
turn: transactions and accounting entries without a position. ReorderTransactions lists only
the entries of the account "" (`walletdb.cpp` 129: ListAccountCreditDebit stops at the first
entry of another account, 99), so those of named accounts (`namedDat`) keep the position they
have or none, and do not count for the next position. What makes entries, the command
`move`, is not in the repository.

**LevelStore.** A write is its sequence number. Logs and manifests have
a synced part; a crash keeps everything or only that (`CrashSafe` itself considers
every prefix of the manifest in between). Each stretch of code with the mutex is a step, and
so is each I/O call outside it. Recovery reads the manifest, then the logs one by one, oldest
first, each into a table of its own. An I/O error in the replay of a log is not modelled: the
code gives the result of any log but the last to nobody (`db_impl.cc` 327), and what that
loses is plain from the text.

**LevelTree, TableFile, DbIter, LogFile, Encodings.** What LevelStore abstracts: which
entries a merge keeps and where a read finds them (LevelTree), how a table is cut into
blocks, indexed and searched (TableFile), how an iterator merges and turns round
(DbIter), and how records are cut into fragments and entries into bytes (LogFile,
Encodings). Sizes are scaled down: a block of 6 units with headers of 2, a varint digit of
base 4, user keys of one or two bytes up to 4.

**TableCache, MemEnv, PosixEnv, Repair.** Threads that look up, open without the
mutex and insert; handle numbers are given again after they are freed, so a stale
handle is seen. fcntl locks belong to processes and `close` gives them up, which the
lock table of one process is meant to make up for. A file written through a mapped window
(PosixMmapFile) is in `PosixEnv` too, which `MemEnv` extends as InMemoryEnv wraps the
environment below it. `Repair` may fail or stop at any
step and is then run again over what it left.

**CoinStore, MerkleTree, TextCodes, LockOrder, LockedPages.** Small components, checked
against a reference definition: the coins last written, the hash tree as nested pairs and a branch as the nodes beside a path in it,
the bits of the bytes, who waits for whom, which bytes hold secrets. That two threads wait for
each other is foretold by a report of a pair of sections, not necessarily the pair of the two
threads: push_lock ends at the first pair it reports (`sync.cpp` 99). Longer cycles of threads
are outside what it looks for. `TextCodes` notices what follows a text when that is a symbol of
the alphabet; a surplus `=` the decoders accept.

**Mutated forms.** An operator used for checking that a property can fail is preceded
by a mutated form of it (`AllOkOverwritten` before `AllOkAfter`, say). The
specifications do not use them.

## 3. Runs

| Run | Shows | Instance |
|---|---|---|
| `checkqueue` | `RoundKept`: counters exact, queue unused between rounds, refinement of `CheckRound`; `RoundCloses`: every round ends | 2 workers, 2 checks, batches of 1: queue, batches and idle threads coexist, and a worker is late |
| `nodes` | `NodesSafe`: reference counts, slots, no freed node in use, inbound limit, sockets closed; `DisconnectHappens`: a node marked for disconnection leaves vNodes | 2 nodes, 2 addresses, the `-connect` loop with a one-shot, 1 inbound and 1 outbound slot |
| `nodes_addref_race` | violation, see below | 2 nodes of one address, both openers |
| `addrman_safety` | `TablesExact`: the error codes of `Check_` never arise, buckets bounded, Select_ ends; `ImplementsBook`: refinement of `AddrBook` | 3 addresses for 3 places: every insertion, deletion and eviction happens |
| `buffers` | `StreamKept`: send counters exact, messages whole, receive buffer bounded, refinement of `MessageStream`; `Delivered`: each message is processed while both ends are up | one end speaks; messages of 0 and 2 units after headers of 1, one larger than the receive limit, reads of one unit, a wire of 2: every cut |
| `blocks_orphans` | `AncestorsAsked`, `HonestUnpunished` | 2 peers, one honest, a chain of two orphans |
| `blocks_arrive` | `RequestsServed`: an announced block arrives; scheduled requests of a block are the retry time apart | 1 peer that answers, disconnects and returns, a good and a bad block |
| `levelstore` | `CrashSafe`: no crash loses a synced write; `ReadsComplete`: acknowledged writes stay readable, files in use stay | 2 writers, 2 sequence numbers, 1 iterator, file numbers to 9: two generations of logs and tables |
| `levels_divided_key` | violation, see below | the tree of `levelfiles` |
| `levelfiles` | one property for each of ten modules below the store | see below |
| `wallet` | handles, durability, keys, selection, grouping, positions, spent flags, peers.dat | see below |
| `services` | one property for each of ten modules | see below |

The last three check small components side by side. Their MC module takes, in a
behaviour, steps of exactly one component, chosen initially by `part`, so that the
state space is the sum of the components', not the product. This asks nothing about
their interaction; where components interact (AddrMan and its file, the two ends of a
connection, the store's writers, background thread and recovery) one module has both.

* `levelfiles`: `TreeSound` with 2 keys, 3 levels, 3 writes, a snapshot and files of 2 entries,
  so that a deletion is dropped, kept, moved and split, for the keys no merge has divided between
  two files (`split`); `RecordsExact` with 3 records that do
  not fit, just fit and span blocks, and batches and edits of 2 entries, cut and
  altered; `TableExact` over all tables of up to 3 of 10 keys, restart interval 2 and
  several blocks; `CursorExact` over all histories of 3 entries on 2 keys and a late
  write; `CacheSound` with 2 threads, 3 files, capacity 2 and a hash table that is
  resized; `FilesExact` with 2 names, 2 users, and 9 units through a window of 4;
  `RepairKeeps` with 2 tables, 2 logs and 2 attempts; `EnvSound` with 2 processes of 2
  threads, 2 slots for 3 readers, 4 work items.
* `wallet`: `HandlesAlive` and `WalletDurable` with 2 users of one file, flush thread,
  backup and a restart; `KeysSurvive` and `GivenOnce` with 2 reservations, 2 passphrases,
  5 keys and a crash; `PaymentGood` for every wallet of up to 3 coins of 5 values and 3
  depths and 3 amounts; `GroupsExact` for all groupings of 4 addresses that occur;
  `PositionsSound` and `SpentNotOffered` with 2 senders, 2 payments, a stop, an old copy,
  and a wallet of 4 items, of named accounts or not, that an earlier version also writes; `FileExact` with 2 addresses, and
  dumps, failed dumps, crashes and restarts at every step (a dump is complete, a restart exact).
* `services`: `AlertsKept` with 2 peers, an alert, one that cancels it and expires first and
  one not signed; `RelayKept` with 2 transactions, one spending the other; `BestAdvertised`
  with 2 threads, 3 addresses, 2 peers; `SocketsAccounted` for every proxy setting;
  `ServerListens` with 2 workers, 2 acceptors, 3 clients; `SecretsLocked` with 2 threads and
  3 pages; `DeadlockForetold` with 2 threads and 3 sections, held up to 3 deep; `CoinsExact`
  up to 7 outputs with mask bytes of 2 bits; `BranchProves` for blocks of up to 7
  transactions; `CodesExact` for up to 4 or 5 bytes, and for amounts around each carry.

Bounds. `MaxIds` and `MaxAttempts` (AddrMan), `MaxPush` and `Speakers`, the ends that make
messages (SocketBuffers), `MaxDelay` and
`MaxGate` (BlockFetch), `MaxSequence`, `MaxFileNumber` and `MaxIters` (LevelStore) and the
constants whose names begin with `Max` in the others are guards that only stop new work;
each is large enough for all actions to occur and for two of the conflicting objects to
exist at a time. CHECK_DEADLOCK is off where the system may stop: a check queue whose
process has aborted, a connection that is closed, and the components of `levelfiles`,
`levelstore`, `wallet` and `services`, which stop at their bounds, as a file that has been read to
its end or a server that was shut down. Symmetry is used in `levelstore` only, over the
writers, without a temporal property.

Fairness. The queue: a thread that keeps contending for the mutex gets it, a critical
section and a check end, the owner calls Wait (its destructor does). The nodes: both
loops are endless and sleep for a bounded time, and a TRY_LOCK that is repeated for
ever succeeds, since every holder lets go. The buffers: select returns when a
descriptor is ready, the message loop visits each node. The blocks: the message loop
visits every peer, time passes, and *only the peers in `Answering`* answer. The other
runs check invariants, without fairness.

Two runs end with a violation. `nodes_addref_race`: "wait until threads are done
using it" (`net.cpp` 775) is not what happens: ConnectNode takes its reference after
FindNode released the lock, and the node may be freed by then. `levels_divided_key`: "if we
find data in an smaller level, later levels are irrelevant" (`version_set.cc` 307) is not so
for every key. While a snapshot needs an older entry of a key, a merge keeps both and may
close its output between them (`db_impl.cc` 945); a compaction that takes the file with the
newer one alone (`PickCompaction` adds no second file of its level above 0) leaves the older
one in front of it, and Get returns the older value, now and at later snapshots.

Smaller disagreements between a comment and the code are stated as properties that no
regular run checks. Each is kept beside its component for whoever changes that code:
put it in the configuration named, and TLC ends with a counterexample today.

| Property (configuration) | Comment | What happens |
|---|---|---|
| `AssertsHold` (`CheckQueue.cfg`) | "passed queue is supposed to be unused" | The assertions read the counters without the mutex: a worker that is starting or waking makes them fail on an unused queue |
| `GrantReleased` (`NodeLifecycle.cfg`) | "release outbound grant (if any)" | A grant moves to a node that is already in the disconnected pool |
| `PoolDrains` (`NodeLifecycle.cfg`) | "hold in disconnected pool until all refs are released" | fNetworkNode is set after the node broke: its first reference is never released |
| `SyncNodeConnected` (`NodeLifecycle.cfg`) | "if this was the sync node, we'll need a new one" | StartSync assigns a node that was disconnected meanwhile |
| `SelectEndsInRange` (`AddrMan.cfg`) | "(min=0, max=100)" | With a bias of 100 Select_ loops for ever over an empty table (no caller passes it) |
| `EvictsOldest` (`AddrMan.cfg`, with two times and two tried places) | "find the least recently tried among them" | The remembered position is the one before the entry's own swap |
| `NewBucketsBounded` (`MCWallet.cfg`, `OldFiles <- OtherVersion`) | "maximum allowed number of entries in buckets" | A file with another bucket count overfills buckets |
| `NoDeadlock` (`SocketBuffers.cfg`, `Speakers = {n1, n2}`, `MaxPush = 2`) | "so we don't deadlock" (`net.cpp` 848) | Both ends have a send queue and stop receiving |
| `HeldUntilParent` (`BlockArrives.cfg`, `Checked = {g, bad}`, `nDoS <- NoPenalty`) | "until we get it" | Orphans are never released |
| `AcceptedOnce` (`BlockArrives.cfg`, `MaxGate = 2`) | "Check for duplicate" | Accepted blocks are not remembered |
| `SyncAsks` (`MCBlockFetch.cfg`) | "Start block sync" | The duplicate filter's initial value equals the first request |
| `SelfDetected` (`MCServices.cfg`, `FarEnd <- MCOurselves`, `SPeers = {"p", "q", "r"}`, `MaxNonce = 4`) | "Disconnect if we connected to ourself" | The nonce is compared with the last one made: another connection made meanwhile hides it |
| `TakenOnce` (`MCWallet.cfg`) | "so it won't be used again" | TopUpKeyPool writes over the record of a reserved key's index, which is kept or returned later |
| `NamedOrdered` (`MCWallet.cfg`) | "get all CWalletTx and CAccountingEntry into a sorted-by-time multimap" (`walletdb.cpp` 118) | Only the entries of the account "" are listed: one of a named account keeps -1, so every start orders again, or a position that is not counted and is given again |
| `AlwaysOrdered` (`MCWallet.cfg`) | "Since we're changing the order, write it back" (`walletdb.cpp` 165) | The single writes may stop between two moves, and the next position that was counted is not written: after the next start an item gets one below another's |
| `ItemsUnique` (`MCWallet.cfg`) | positions order the items | ReorderTransactions does not write nOrderPosNext: after the next start positions are given again |
| `MustNotFail` (`MCWallet.cfg`) | "This must not fail. The transaction has already been signed and recorded." | Two payments are built from the same coins before either is committed |
| `NextAdvances` (`MCLevelFiles.cfg`) | "iter_ is pointing just before the entries for this->key()" | After a step back over an entry newer than the snapshot, Next returns the same key |
| `WholeKeysCorrect` (`MCLevelTree.cfg`, `ManualLevels = {0}`, `kTargetFileSize = 1`, `kExpandedLimit = 2`, `MaxSnapshots = 0`) | "Avoid compacting too much in one shot" (`version_set.cc` 1333) | The limit cuts the inputs in level 0 too, where files overlap: a newer file goes below an older one, and Get returns the older value |
| `LevelsDisjoint` (`MCLevelTree.cfg`, `TreeKeys = {1, 2, 3}`, `ManualLevels = {0}`, `kL0_CompactionTrigger = 9`, `kTargetFileSize = 9`, `MaxWrites = 5`, `MaxSnapshots = 0`, `MaxFiles = 8`) | "Must not overlap" (`version_set.cc` 682) | A memtable flushed while a manual compaction of level 0 runs is pushed into a gap between its inputs, which its output then spans |

Three properties say precisely what the code does where it does less than one would
like: `ItemsOrdered` (in `PositionsSound`) claims that a next position counted by
ReorderTransactions is above every position it ordered, whatever was stopped before, but the
order itself only until a stop between two moves, or an item added on a next position from the
disk below another's; `SocketsAccounted` excepts the return of Socks5 that leaves its socket open
(`netbase.cpp` 291), and `EnvSound` says when a record lock is lost by `close` (a refused
second LockFile, or an UnlockFile overtaken by a LockFile of another thread).

## 4. Proofs

The theorems hold for every value of the constants that satisfies the named assumptions.
These are natural bounds, finite sets of threads, nodes and files, distinct null values, and
a few facts that the code or its environment provides: a block's hash covers its parent's, so
no set of blocks is closed under parents (`BlockFetchAssumption`); an entry's buckets are
functions of it (`AddrManAssumption`), and buckets are numbers (`BucketsNumbered`); every element sets some bit of a filter
(`TxRelayAssumption`); a mask byte has some bits (`CoinSizes`). 33 of the 40 properties that the runs check are theorems:

| Module | Theorems | What they are about |
|---|---|---|
| `BlockCheckProofs` | RoundsKept and its parts; CoinsStayExact, BranchesProve | what is done with a block's transactions: the check queue, and its refinement of `CheckRound`; coins; Merkle trees |
| `ServicesProofs` | NodesStaySafe and its parts, SecretsStayLocked, DeadlocksForetold, ServerKeepsListening, AddressesAdvertised, AlertsAreKept, SocketsStayAccounted, RelayStaysKept | connections, locked pages, lock order, RPC server, local addresses, sessions, proxies, relay |
| `AddrManProofs` | TablesStayExact, ManagerImplementsBook, FilesStayExact | the address manager, the refinement of `AddrBook`, and peers.dat |
| `MessageProofs` | StreamStaysKept; HonestPeersUnpunished, AncestorsAreAsked, RequestsStayApart | a connection's buffers, and their refinement of `MessageStream`; the block handlers |
| `LevelStoreProofs` | StoreInvariant, CrashSafety, ReadSafety; CacheStaysSound; CursorStaysExact | the store; the LRU cache of tables and blocks; the iterator |
| `LevelFilesProofs` | EnvironmentSound, EnvironmentFilesExact, MappedFilesExact, RepairLosesNothing; TreeInvariant, TreeStaysSound | the environment, the files in memory and the one written through a window, RepairDB; the levels, their compactions and what a read finds in them |
| `WalletProofs` | HandlesStayAlive, WalletStaysDurable, KeysAlwaysSurvive, KeysGivenOnce, SpentIsNotOffered, PositionsStaySound, PaymentsAreGood, GroupsStayExact | the wallet and its database |
| `NumberFacts` | lemmas | the least number of a set, induction up to n for a set, functions defined from each number to the next, division by a width |

Each proof has the same shape: the initial states satisfy the inductive invariant, one lemma
per action says that the step keeps it, and the property follows from it. What the
invariants add to the property is the argument; the main ones are these.

**CheckQueue.** The counters cannot be proved by themselves: that nTodo is right after a
thread accounts for its batch needs nNow to be the size of its batch, and that
needs to know which threads hold one. `Inv` adds `ThreadState` (the mutex is held by the
thread in its critical section; nNow is the size of the batch; a batch that has been
run is empty), `MasterState` (where the master is between rounds) and `ResultsSoFar`
(what fAllOk and fOk mean in the middle of a round: TRUE says that every check
accounted for succeeded, FALSE that some submitted check fails). `Refinement` shows that
each step is a step of `CheckRound` or leaves its variables alone: the step that matters is
the master's return, where nothing is outstanding, so fAllOk is the conjunction of all results.

**Nodes.** `RefCountExact` says whom a node's references belong to, and
`UsedNodesAlive` that nobody with one holds a freed node. The strengthening: `Placement`
(an allocated node is in exactly one of vNodes, the pool, the freed nodes, or in the
hands of the disconnect pass), `Copies` (what the two loops' copies may contain in each
phase), `OpenerNodes`, `OpenerLocals`, and `OpenerRefs`, the crucial one: an opener
whose node carries no extra reference created it, no other opener uses it, and the
socket handler will not release its first reference because fNetworkNode and fInbound
are not set yet. Without it a node could be freed between connecting and marking it.
The theorems hold up to the race of `nodes_addref_race`: after a use of a freed node
the model claims nothing, which is why `UsedNodesAlive` excludes `wild`.

**Address manager.** `Check_` describes the tables between operations, but an eviction from
a tried bucket takes several steps with the entry that moves in no table at all. `AddrInv`
therefore describes the four indexes up to that entry, and `MovingSound` says what the
eviction relies on: the tried bucket is full, and the new bucket it came from has a place,
since the entry just left it. `ManagerImplementsBook` maps each step to one of
`AddrBook` or to a stutter; only the end of the eviction makes the moving entry tried.

**peers.dat.** `FileInv` adds to `AddrInv` that a file is one this node could have written
(`OwnFile`: addresses differ, no bucket overfull, an entry in as many new buckets as
allowed). Both directions go through the ids of the file: a map is visited in order
(`InOrderFact`), so the index of an entry is the number of lesser ids (`IndexInFact`), whatever
gaps deletion left; `EntryAt` then pairs the ids in the file with those in the tables. On reading,
`KeptAll` and `BucketsAll` say that no limit drops anything, so that ids become 0, 1, 2, ...
and `TablesSound` finds every part of `AddrInv` again. `FilesStayExact` assumes that the first
start finds no file or an `OwnFile`; a file of another version may overfill buckets (section 3).

**Buffers.** A cursor says which unit of which message comes next. `StreamInv` says per
direction that the received messages are frames numbered after the last processed one, only
the last of them incomplete (`RecvGood`); that the units on the wire form a chain that starts
at the receiver's cursor; and, while the sender is up, that the chain ends at the sender's
position, nSendOffset units into its first message (`WireGood`). So `SendFact`, `ReceiveFact`
and `ChainSplit` say of *any* k units sent or read what TLC sees for small k. The receive
buffer's bound needs that select() waits for data only with room left (`Room`). The abstract
queue is then the interval of numbers from the processed message to the last one that can
still arrive (`QueueFact`), and pushing, processing and closing act on it as `MessageStream`
says. The sums, the assembly loop and `Starts` are recursive functions; `FiniteRecursion`
gives their unfolding.

**Blocks.** `RequestsStayApart` speaks of two times of one list. `LastRemembered` (no
request of a missing block is later than what mapAlreadyAskedFor has) and `TwoApart` make it
inductive. `AncestorsAreAsked` needs that the walk of GetOrphanRoot ends: that is where the
assumption on parents is used, and `RootIsFirst` says where it ends.

**Store.** `StoreInv` relates the durable part of the manifest, the logs and the memory in
each phase. `Recoverable` says of an edit that a recovery may start from it: its tables
exist, are below its next number, hold nothing above its last sequence number, and every
synced write is in them or in the synced part of a log from its log number on. `ManifestInv`
asks that of *every* edit from the synced one on, since a crash may leave any of them, and that
no later edit's next number is at or below an earlier one's tables, so that no file that an
earlier edit names is written over. While the database is opened, `OldManifestInv` keeps the
old manifest recoverable until CURRENT names the new one. `VersionInv`, `FlushInv` and
`MergeInv` tie an edit that is being written to the version it will install.

**Environment, mapped file and repair.** `TableExactly` (the lock table has the file while exactly one
thread of the process is on its way with it) and `LockGiven` (a holder's process has fcntl's
lock unless a close() took it). `MmInv`: what is not on the disk is in the window behind the
last byte synced or announced by pending_sync_ (`DurableInv`), and the window ends where the
file does (`WindowInv`). `RepairInv` says where the contents of a log are between its
conversion and its move to `lost/` (`ConvertedSaved`), that the Repairer's lists are the
directory's and its next number is above all (`ListsTrue`), and that a descriptor is there
only when no log is left, so that a second run cannot make it stale (`DescriptorSound`).

**Memory files.** That refs_ counts names and open files (`RefsGood`) is not enough for a read
to give what was appended: `FilesGood` adds that the blocks of a file are as many as its size
needs and hold each byte in its place, the rest being unwritten, and `OpenGood` that the
positions of readers are within. A step moves one name or one open file from a file to another
(`RefsMove`), and only files that lose their last reference go (`Unreferenced`), none of which
is open (`UsedHasRefs`). That a free FileState remains for NewWritableFile is a count: names and
users hold one each, and the user who asks holds none (`FreeFile`). A read crosses blocks by
dividing its offset (`BlockOfByte`).

**Levels.** That a read finds the newest write is not inductive: a compaction may move, cut and
drop entries, and a memtable may be flushed while it runs. `TreeInv` has four parts.
`VersionSound` orders a version: entries of one key in two files are newer in the file of the
smaller level (`LevelsOrdered`), in level 0 in the file of the larger number
(`LevelZeroOrdered`), and in a level above 0 two files lie apart (`LevelsApart`). `Visible` says
that the newest entry at or below a snapshot is still there, or is a deletion below which
nothing is left for that snapshot to see; with the order, Get stops at that entry
(`ReadsRight`). `InputsSound` is the hard part: of a running compaction's inputs it keeps what
makes the exchange safe although the version changes meanwhile: what stays behind in their
level is newer, nothing in the next level touches them, and a file that appears deeper is apart
from them, so that IsBaseLevelForKey, which asks the version the compaction began with, still
tells the truth when a deletion is dropped. `Spanned` says that no range fits between the inputs,
hence that a memtable pushed down meanwhile does not land in a gap the output will close.
`ChosenSound` derives it all from the search for overlapping files (`FoundInLevel`), the
expansion of the inputs and their undivided keys; `MergeResult` says of the fold of
DoCompactionWork which entries are kept, in order, in outputs none of which is empty; and
`ReplacedSound` puts outputs in the place of inputs, for a merge as for a trivial move.
Keys that a merge has divided (`split`) are excepted, as `levels_divided_key` shows they must be.
The theorem assumes `ManualBelowFlushes`, that CompactRange is not asked for a level a
memtable may be pushed into, where the last two rows of the table in section 3 fail. Nothing in this
program calls CompactRange, so `ManualLevels` is empty there; the run has {1}.

**Wallet.** `DbInv`: the use count stands for the threads with a handle (`UseCounted`), what a
thread is about to write is ahead of what was flushed (`AheadOfFlush`), and where each
committed record is in every phase of Rewrite (`Kept`). `KeysInv`: what is on disk loads at any
time (`DiskSound`), what memory knows of it, what the transaction of EncryptWallet holds, and
`KeysApart` for the pool (every index has its record, for one), which fails once TopUpKeyPool has written over a reserved record
(`stale`). `TxInv`: `FlagsFollow` says that the only transaction of the chain whose inputs are
not all flagged is the one that AddToWallet is at. `PositionsSound` needs for
ReorderTransactions that offsets passed so far leave room (`Spaced`, `ComesAbove`), that what
it has passed is in order, on disk too, and where a stop leaves a gap in that (`ItemsStopKeeps`);
it is about the wallet's transactions and its entries of the account "". For
`PaymentGood` each loop of SelectCoinsMinConf has a lemma that says what it leaves after each
coin. `GroupInv` counts: the pointers left suffice for the groups still to be merged.

**Services.** `PagesInv`: a page's count is the number of ranges on it. `OrderInv`: a
thread that waits has noted the order of all it holds and what it waits for, or one of these
pairs was reported, and of an order noted both ways one way was reported; so of two threads
that wait for each other one was warned for what it holds. `RpcInv`: an
accept is pending or in the queue, never both. `LocalInv`: a peer knows the best address or a
thread will still visit it. `SessionInv`: what a peer is marked to know it was given.
`ProxyInv`: the socket of the call in progress is open and nobody else's. `RelayInv`: what a
peer watches is in its filter.

**Coins and Merkle trees.** `CoinInv` only says that what is on the disk is the stream of the
last batch and that coins are cleaned up; the work is that reading undoes writing
(`RoundTrip`), for masks of any length: the reader counts non-zero bytes, so it stops where the
trailing zero bytes were cut (`MaskThen`), the bits of each byte come back (`ByteBuilt`), and the
outputs that follow are those whose bit is set. Of the tree, `TreeFact` says that each node is
made of the one or two below it, on any level; `PrefixFact` that a branch only grows; and
`WalkFact` that the walk along it passes the nodes over its transaction, level by level.

**LRU cache.** `CacheInv` is a statement about one record, the state of a shard, so each
operation of the C++ classes has its own lemma and `Insert` is their composition: the list
has no entry and no key twice (`ListGood`), the chains hold exactly the listed entries
(`TableGood`), and an entry has a reference per reader that uses it and one of the list
(`CountsGood`, over any count of uses, so that the same lemmas serve every step). Two facts
need an argument: the loop of `Insert` stops with the others untouched, because each turn
shortens the list (`EvictOldestGood`), and memory for one more entry is always free
(`FreeHandle`), because the other readers hold one each and the list has no key twice.

**Iterator.** `IterInv` says where the iterator and the merge under it are: in the forward
direction the merge is at the entry shown, in the reverse direction it is at an earlier key
than the one shown, past which no entry of the snapshot is left (`IterAt`). `FwdOK` and `RevOK`
say of the merge that each child is placed so that no entry of the snapshot between it and the
current one is passed over. They are about the entries of the snapshot (`Seen`) and not about
all, so that a write into the memtable, which may land between a child and the current key,
leaves them true. Each loop has an invariant: `NothingPassed` for
FindNextUserEntry (what was passed is hidden by the key to skip), `SavedLast` for
FindPrevUserEntry (what was saved is the newest entry so far of the last key); and each ends,
because what is left ahead (`Beyond`, `Below`) shrinks, within as many turns as there are
entries, which is what lets the model bound the loops. That a step forward is right after a
step back needs that the merge turns round onto an entry of the key that was left, and
`LandsShort` is exactly where the code does not give that (section 3); from then until the
next seek the invariant says nothing.

What TLC alone checks, on the instances of section 3:

* liveness (`RoundCloses`, `DisconnectHappens`, `Delivered`, `RequestsServed`): fairness and
  ENABLED are beyond the prover;
* `TableExact`, `RecordsExact` and `CodesExact`: what encoding, searching and
  decoding compute is an induction over the data.

## 5. Not modelled

The parts that `PROJECT.json` lists as `not_modelled`, with their reasons. In short:
DNS seeding, UPnP and discovery are library calls whose outcomes are
nondeterministic inputs elsewhere; start and stop of the whole node, and the interruption
of the network threads; ciphers, hashes, big numbers, address parsing, formatting and
JSON, which are pure functions of bytes or OpenSSL calls; checkpoints, which read a map
that stays empty; the user interface; and the `tt*` headers, drafts that do not compile. Of
modelled parts, left out are: addr and getaddr of the session, keep-alive pings, the
trickling of inventory, nServices, amounts for display, accounting reports, resending of
wallet transactions, LevelDB's C bindings, statistics, DestroyDB, sharding of the cache,
compression, `env_win.cc` (the same interface over another system), and the contents of
messages and values.

## 6. Plan

1. Composition of `BlockFetch` with the session, and of the wallet's keys with the
   environment below them (a crash then loses what the log does not have).
2. Start and stop of the node; `AddTimeData`.
