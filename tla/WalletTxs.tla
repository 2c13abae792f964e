------------------------------ MODULE WalletTxs ------------------------------
(***************************************************************************)
(* The transactions of the wallet (src/wallet.cpp, src/walletdb.cpp):      *)
(* AddToWallet and the spent flags, payments by several threads, the       *)
(* rescan and the reacceptance at the start, and a crash at any write.     *)
(*                                                                         *)
(* A transaction has one output, which is ours; it spends the outputs of   *)
(* the transactions ins.  SelectCoins is any large enough set of available *)
(* coins (module CoinSelect refines it).  The block chain and the memory   *)
(* pool are external: the pool refuses what spends an output twice, and a  *)
(* new transaction of either is given to the wallet (SyncWithWallets).     *)
(***************************************************************************)
EXTENDS Integers, Sequences, FiniteSets, SequencesExt

CONSTANTS Senders,          \* threads in SendMoney
          Funds,            \* transactions of others that pay us
          Copies,           \* transactions that a copy of wallet.dat makes
          CopyOf,           \* CopyOf[c]: the fund that c spends
          MaxSends,         \* bound: payments
          MaxStops,         \* bound: how often the program ends
          MaxItems,         \* bound: items of an upgraded wallet
          MaxLoads          \* bound: how often that wallet is loaded

Sends == 1 .. MaxSends      \* our payments, in the order of their creation

ASSUME WalletTxsAssumption ==
    /\ CopyOf \in [Copies -> Funds] /\ Funds \cap Copies = {}
    /\ MaxSends \in Nat /\ (Funds \cup Copies) \cap Sends = {}
    /\ {"sync", "scan"} \cap Senders = {}

VARIABLES running,          \* "down", "scan", "up"; "missing": the scan of Reaccept
          scanned,          \* how far the scan is
          reaccepted,       \* ReacceptWalletTransactions has run since the start
          mapWallet,        \* the transactions in memory: [pos, spent]
          nOrderPosNext,
          walletDat,        \* what is on disk: [tx, next, best]
          oldCopy,          \* a backup of it
          adding,           \* the AddToWallet that holds cs_wallet
          ins,              \* ins[t]: what our payment t spends
          sending,          \* sending[s]: the payment of thread s
          chain, pool,      \* external: confirmed transactions in order, the memory pool
          refused,          \* payments that the memory pool refused
          stops,
          items,            \* a wallet used by an earlier version too: its transactions and the
                            \* entries of the account "" by time, [kind, pos]
          itemsDat,         \* the same items on disk, where pos may be -1
          namedDat,         \* the positions of the entries of named accounts, which are only on disk
          itemsNext,        \* nOrderPosNext of that wallet, in memory
          itemsNextDat,     \* and on disk
          orderAt,          \* the item ReorderTransactions is at; 0: not loaded
          nOrderPosOffsets, \* the positions it gave to items that had none
          counted,          \* it has counted itemsNext in this run; else that came from the disk
          misled,           \* a stop cut it short amid moves, or an item got a position below another's
          loads

txVars == <<running, scanned, reaccepted, mapWallet, nOrderPosNext, walletDat, oldCopy, adding, ins, sending,
            chain, pool, refused, stops>>
itemVars == <<items, itemsDat, namedDat, itemsNext, itemsNextDat, orderAt, nOrderPosOffsets, counted, misled, loads>>

Foreign == Funds \cup Copies
InsOf(t) == IF t \in Copies THEN {CopyOf[t]} ELSE IF t \in DOMAIN ins THEN ins[t] ELSE {}
InChain == ToSet(chain)
NotAdding == [step |-> "none"]
Entered(f, x, v) == [y \in DOMAIN f \cup {x} |-> IF y = x THEN v ELSE f[y]]
Free == running # "down" /\ adding.step = "none"        \* cs_wallet

TxInit ==
    /\ running = "up" /\ scanned = 0 /\ reaccepted = TRUE
    /\ mapWallet = <<>> /\ nOrderPosNext = 0
    /\ walletDat = [tx |-> <<>>, next |-> 0, best |-> 0] /\ oldCopy = walletDat
    /\ adding = NotAdding /\ ins = <<>> /\ sending = [s \in Senders |-> 0]
    /\ chain = <<>> /\ pool = {} /\ refused = {} /\ stops = 0
----------------------------------------------------------------------------
(* AddToWallet.  It writes three times: the next position, the transaction *)
(* and, in WalletUpdateSpent, each transaction whose output it spends.     *)

\* IsMine(tx) || IsFromMe(tx) holds: every transaction pays us.
StartAdd(t, from) ==
    adding' = [tx |-> t, from |-> from,
               step |-> IF t \in DOMAIN mapWallet THEN "spent" ELSE "order"]

\* Variant: the next position is only kept in memory.
AddOrderUnwritten ==
    /\ running # "down" /\ adding.step = "order"
    /\ nOrderPosNext' = nOrderPosNext + 1
    /\ mapWallet' = Entered(mapWallet, adding.tx, [pos |-> nOrderPosNext, spent |-> FALSE])
    /\ adding' = [adding EXCEPT !.step = "write"]
    /\ UNCHANGED <<running, scanned, reaccepted, walletDat, oldCopy, ins, sending, chain, pool, refused, stops>>

\* IncOrderPosNext
AddOrder ==
    /\ running # "down" /\ adding.step = "order"
    /\ nOrderPosNext' = nOrderPosNext + 1
    /\ walletDat' = [walletDat EXCEPT !.next = nOrderPosNext + 1]
    /\ mapWallet' = Entered(mapWallet, adding.tx, [pos |-> nOrderPosNext, spent |-> FALSE])
    /\ adding' = [adding EXCEPT !.step = "write"]
    /\ UNCHANGED <<running, scanned, reaccepted, oldCopy, ins, sending, chain, pool, refused, stops>>

\* WriteToDisk of the new transaction
AddWrite ==
    /\ running # "down" /\ adding.step = "write"
    /\ walletDat' = [walletDat EXCEPT !.tx = Entered(@, adding.tx, mapWallet[adding.tx])]
    /\ adding' = [adding EXCEPT !.step = "spent"]
    /\ UNCHANGED <<running, scanned, reaccepted, mapWallet, nOrderPosNext, oldCopy, ins, sending, chain, pool,
                   refused, stops>>

Marked(w, t) == [w EXCEPT ![t].spent = TRUE]

\* WalletUpdateSpent: one transaction after the other.  Then back to the caller.
ToMark(t) == {u \in InsOf(t) : u \in DOMAIN mapWallet /\ ~mapWallet[u].spent}

\* Variant: the flags of the spent coins are not updated when the wallet has the transaction.
AddSpentNew ==
    /\ running # "down" /\ adding.step = "spent"
    /\ adding' = IF adding.from \in Senders THEN [adding EXCEPT !.step = "accept"] ELSE NotAdding
    /\ UNCHANGED <<running, scanned, reaccepted, mapWallet, walletDat, nOrderPosNext, oldCopy, ins, sending,
                   chain, pool, refused, stops>>

AddSpent ==
    /\ running # "down" /\ adding.step = "spent"
    /\ IF ToMark(adding.tx) # {}
       THEN \E u \in ToMark(adding.tx) :
              /\ mapWallet' = Marked(mapWallet, u)
              /\ walletDat' = [walletDat EXCEPT !.tx = Entered(@, u, mapWallet'[u])]
              /\ UNCHANGED adding
       ELSE /\ adding' = IF adding.from \in Senders THEN [adding EXCEPT !.step = "accept"]
                                                    ELSE NotAdding
            /\ UNCHANGED <<mapWallet, walletDat>>
    /\ UNCHANGED <<running, scanned, reaccepted, nOrderPosNext, oldCopy, ins, sending, chain, pool, refused,
                   stops>>

----------------------------------------------------------------------------
(* The network: transactions enter the memory pool or the chain.           *)

Conflicts(t, S) == \E u \in S \ {t} : InsOf(u) \cap InsOf(t) # {}

\* A transaction whose inputs exist and are not spent by another one.
Valid(t) ==
    /\ InsOf(t) \subseteq InChain \cup pool
    /\ ~Conflicts(t, InChain \cup pool)

\* A transaction of others, or of a copy of the wallet, is relayed to us.
Relayed(t) ==
    /\ Free /\ running = "up" /\ t \in Foreign \ (pool \cup InChain) /\ Valid(t)
    /\ pool' = pool \cup {t} /\ StartAdd(t, "sync")
    /\ UNCHANGED <<running, scanned, reaccepted, mapWallet, nOrderPosNext, walletDat, oldCopy, ins, sending,
                   chain, refused, stops>>

\* A block confirms a transaction; what conflicts with it leaves the memory pool.
Confirmed(t) ==
    /\ Free /\ running = "up" /\ t \notin InChain
    /\ t \in pool \/ t \in Foreign
    /\ InsOf(t) \subseteq InChain /\ ~Conflicts(t, InChain)
    /\ chain' = Append(chain, t)
    /\ pool' = {u \in pool \ {t} : InsOf(u) \cap InsOf(t) = {}}
    /\ StartAdd(t, "sync")
    /\ UNCHANGED <<running, scanned, reaccepted, mapWallet, nOrderPosNext, walletDat, oldCopy, ins, sending,
                   refused, stops>>
----------------------------------------------------------------------------
(* Payments.                                                               *)

\* AvailableCoins, with IsConfirmed: in a block, or a payment of ours.
Available ==
    {t \in DOMAIN mapWallet : ~mapWallet[t].spent /\ (t \in InChain \/ t \in Sends)}

\* CreateTransaction holds cs_main and cs_wallet, and gives them back before the payment is
\* committed.
BuildPayment(s) ==
    /\ Free /\ running = "up" /\ sending[s] = 0 /\ Len(ins) < MaxSends
    /\ \E S \in (SUBSET Available) \ {{}} : ins' = Append(ins, S)
    /\ sending' = [sending EXCEPT ![s] = Len(ins) + 1]
    /\ UNCHANGED <<running, scanned, reaccepted, mapWallet, nOrderPosNext, walletDat, oldCopy, adding, chain,
                   pool, refused, stops>>

\* The user refuses the fee.
Abort(s) ==
    /\ Free /\ sending[s] # 0
    /\ sending' = [sending EXCEPT ![s] = 0]
    /\ UNCHANGED <<running, scanned, reaccepted, mapWallet, nOrderPosNext, walletDat, oldCopy, adding, ins,
                   chain, pool, refused, stops>>

\* CommitTransaction: AddToWallet, the flags again (they are set), then the memory pool.
Commit(s) ==
    /\ Free /\ sending[s] # 0 /\ StartAdd(sending[s], s)
    /\ UNCHANGED <<running, scanned, reaccepted, mapWallet, nOrderPosNext, walletDat, oldCopy, ins, sending,
                   chain, pool, refused, stops>>

\* AcceptToMemoryPool, RelayWalletTransaction
CommitAccept ==
    /\ running # "down" /\ adding.step = "accept"
    /\ IF Valid(adding.tx) THEN pool' = pool \cup {adding.tx} /\ UNCHANGED refused
                           ELSE refused' = refused \cup {adding.tx} /\ UNCHANGED pool
    /\ sending' = [sending EXCEPT ![adding.from] = 0] /\ adding' = NotAdding
    /\ UNCHANGED <<running, scanned, reaccepted, mapWallet, nOrderPosNext, walletDat, oldCopy, ins, chain,
                   stops>>
----------------------------------------------------------------------------
(* Stop and start.                                                         *)

BackupWallet ==
    /\ running = "up" /\ Free /\ oldCopy' = walletDat /\ oldCopy # walletDat
    /\ UNCHANGED <<running, scanned, reaccepted, mapWallet, nOrderPosNext, walletDat, adding, ins, sending,
                   chain, pool, refused, stops>>

\* The program ends, properly (SetBestChain) or not; the user may put the backup in place.
Stop ==
    /\ running # "down" /\ stops < MaxStops /\ stops' = stops + 1
    /\ running' = "down" /\ adding' = NotAdding /\ pool' = {}
    /\ sending' = [s \in Senders |-> 0]
    /\ walletDat' \in {walletDat, oldCopy}
                      \cup (IF Free THEN {[walletDat EXCEPT !.best = Len(chain)]} ELSE {})
    /\ UNCHANGED <<scanned, reaccepted, mapWallet, nOrderPosNext, oldCopy, ins, chain, refused>>

\* LoadWallet; the rescan starts after the best block that the wallet knows.
Start ==
    /\ running = "down"
    /\ running' = "scan" /\ scanned' = walletDat.best /\ reaccepted' = FALSE
    /\ mapWallet' = walletDat.tx /\ nOrderPosNext' = walletDat.next
    /\ UNCHANGED <<walletDat, oldCopy, adding, ins, sending, chain, pool, refused, stops>>

\* ScanForWalletTransactions, one block after the other; at the start SetBestChain follows.
\* The scan of Reaccept does not update what the wallet has (fUpdate).
ScanNext ==
    /\ running \in {"scan", "missing"} /\ Free
    /\ IF scanned < Len(chain)
       THEN /\ scanned' = scanned + 1
            /\ LET t == chain[scanned + 1] IN
               IF running = "missing" /\ t \in DOMAIN mapWallet THEN UNCHANGED adding
                                                               ELSE StartAdd(t, "scan")
            /\ UNCHANGED <<running, walletDat>>
       ELSE /\ running' = "up" /\ UNCHANGED <<adding, scanned>>
            /\ walletDat' = IF running = "scan" THEN [walletDat EXCEPT !.best = Len(chain)]
                                                ELSE walletDat
    /\ UNCHANGED <<reaccepted, mapWallet, nOrderPosNext, oldCopy, ins, sending, chain, pool, refused,
                   stops>>

\* The transactions in no block that the memory pool takes: each one's inputs are there and not
\* spent by another one.  They are tried in the order of their hashes, each after its parents
\* (AcceptWalletTransaction takes vtxPrev along), so S is any set that leaves out no valid one.
TakenAgain(S) ==
    LET there == InChain \cup pool \cup S
        Takes(t) == InsOf(t) \subseteq there /\ ~Conflicts(t, there)
    IN  \A t \in DOMAIN mapWallet \ InChain : t \in S <=> Takes(t)

SpentInChain(t) == \E u \in InChain : t \in InsOf(u)

\* ReacceptWalletTransactions, while payments are already possible: an output that the chain
\* has as spent is marked; what is in no block goes to the memory pool again, and from there to
\* the wallet.  A flag that was missing makes it scan the chain for missing transactions and
\* begin again.
Reaccept ==
    /\ running = "up" /\ ~reaccepted /\ Free
    /\ \E S \in SUBSET (DOMAIN mapWallet \ InChain) :
         /\ TakenAgain(S) /\ pool' = pool \cup S
         /\ mapWallet' = [t \in DOMAIN mapWallet |->
                [mapWallet[t] EXCEPT !.spent = @ \/ (t \in InChain /\ SpentInChain(t))
                                                \/ \E u \in S : t \in InsOf(u)]]
    /\ walletDat' = [walletDat EXCEPT !.tx = mapWallet']
    /\ LET fMissing == \E t \in DOMAIN mapWallet \cap InChain : ~mapWallet[t].spent /\ SpentInChain(t)
       IN  /\ reaccepted' = ~fMissing
           /\ running' = (IF fMissing THEN "missing" ELSE "up") /\ scanned' = 0
    /\ UNCHANGED <<nOrderPosNext, oldCopy, adding, ins, sending, chain, refused, stops>>

TxNext ==
    \/ AddOrder \/ AddWrite \/ AddSpent \/ CommitAccept
    \/ \E t \in Foreign : Relayed(t)
    \/ \E t \in Foreign \cup pool : Confirmed(t)
    \/ \E s \in Senders : BuildPayment(s) \/ Abort(s) \/ Commit(s)
    \/ BackupWallet \/ Stop \/ Start \/ ScanNext \/ Reaccept

TxSpec == TxInit /\ [][TxNext]_txVars
----------------------------------------------------------------------------
(* A wallet that an earlier version of the program wrote has transactions  *)
(* and accounting entries without a position.  LoadWallet puts them in     *)
(* order (ReorderTransactions), with single writes, and does not write the *)
(* next position.  It lists the entries of the account "" only: those of   *)
(* named accounts keep what they have, none (-1) or a position, and are    *)
(* not counted in the next position.                                       *)

ItemsInit ==
    /\ items = <<>> /\ itemsDat = <<>> /\ namedDat = <<>> /\ itemsNext = 0 /\ itemsNextDat = 0
    /\ orderAt = 0 /\ nOrderPosOffsets = {} /\ counted = FALSE /\ misled = FALSE /\ loads = 0

ItemsLoaded == orderAt > Len(items)
RoomForItem == Len(itemsDat) + Len(namedDat) < MaxItems

\* The earlier version adds an item, which has no position.
OldProgramAdds(k) ==
    /\ orderAt = 0 /\ RoomForItem
    /\ itemsDat' = Append(itemsDat, [kind |-> k, pos |-> -1])
    /\ UNCHANGED <<items, namedDat, itemsNext, itemsNextDat, orderAt, nOrderPosOffsets, counted, misled, loads>>

OldProgramAddsNamed ==
    /\ orderAt = 0 /\ RoomForItem
    /\ namedDat' = Append(namedDat, -1)
    /\ UNCHANGED <<items, itemsDat, itemsNext, itemsNextDat, orderAt, nOrderPosOffsets, counted, misled, loads>>

\* ReadKeyValue: any transaction, and any entry of any account, that has no position.
fAnyUnordered == (\E i \in DOMAIN itemsDat : itemsDat[i].pos = -1) \/ -1 \in ToSet(namedDat)

\* LoadWallet: fAnyUnordered makes it call ReorderTransactions.
LoadItems ==
    /\ orderAt = 0 /\ loads < MaxLoads /\ loads' = loads + 1
    /\ items' = itemsDat /\ nOrderPosOffsets' = {} /\ counted' = fAnyUnordered
    /\ itemsNext' = IF fAnyUnordered THEN 0 ELSE itemsNextDat
    /\ orderAt' = IF fAnyUnordered THEN 1 ELSE Len(itemsDat) + 1
    /\ UNCHANGED <<itemsDat, namedDat, itemsNextDat, misled>>

\* The position of an item: the next one, or its own moved past those given before it.
PositionOf(old) ==
    IF old.pos = -1 THEN itemsNext
    ELSE old.pos + Cardinality({o \in nOrderPosOffsets : old.pos >= o})

\* One turn of ReorderTransactions' loop.  What moved is written, and every entry that had no
\* position; a transaction that had none only gets it in memory.
ReorderTransactions ==
    /\ orderAt \in DOMAIN items
    /\ LET old == items[orderAt]
           pos == PositionOf(old)
       IN  /\ items' = [items EXCEPT ![orderAt].pos = pos]
           /\ itemsNext' = IF pos >= itemsNext THEN pos + 1 ELSE itemsNext
           /\ nOrderPosOffsets' = IF old.pos = -1 THEN nOrderPosOffsets \cup {pos} ELSE nOrderPosOffsets
           /\ itemsDat' = IF (old.pos = -1 /\ old.kind = "entry") \/ (old.pos \notin {-1, pos})
                          THEN [itemsDat EXCEPT ![orderAt].pos = pos] ELSE itemsDat
    /\ orderAt' = orderAt + 1
    /\ UNCHANGED <<namedDat, itemsNextDat, counted, misled, loads>>

\* AddToWallet, or an entry of the command move, which is not in the repository: IncOrderPosNext
\* writes the next position.
ItemAdded(k) ==
    /\ ItemsLoaded /\ RoomForItem
    /\ items' = Append(items, [kind |-> k, pos |-> itemsNext])
    /\ itemsDat' = Append(itemsDat, [kind |-> k, pos |-> itemsNext])
    /\ itemsNext' = itemsNext + 1 /\ itemsNextDat' = itemsNext + 1 /\ orderAt' = orderAt + 1
    /\ misled' = (misled \/ \E i \in DOMAIN items : items[i].pos >= itemsNext)
    /\ UNCHANGED <<namedDat, nOrderPosOffsets, counted, loads>>

NamedAdded ==
    /\ ItemsLoaded /\ RoomForItem
    /\ namedDat' = Append(namedDat, itemsNext)
    /\ itemsNext' = itemsNext + 1 /\ itemsNextDat' = itemsNext + 1
    /\ UNCHANGED <<items, itemsDat, orderAt, nOrderPosOffsets, counted, misled, loads>>

\* WriteToDisk of a transaction that changed, with its position.
ItemRewritten(i) ==
    /\ ItemsLoaded /\ i \in DOMAIN items /\ items[i].kind = "tx"
    /\ itemsDat' = [itemsDat EXCEPT ![i] = items[i]]
    /\ UNCHANGED <<items, namedDat, itemsNext, itemsNextDat, orderAt, nOrderPosOffsets, counted, misled, loads>>

\* An item that has a position is still to be moved past one that had none.
AmidMoves == nOrderPosOffsets # {} /\ \E i \in DOMAIN items : i >= orderAt /\ items[i].pos # -1

\* The program ends, at any write.
ItemsStop ==
    /\ orderAt > 0
    /\ items' = <<>> /\ itemsNext' = 0 /\ orderAt' = 0 /\ nOrderPosOffsets' = {} /\ counted' = FALSE
    /\ misled' = (misled \/ AmidMoves)
    /\ UNCHANGED <<itemsDat, namedDat, itemsNextDat, loads>>

ItemsNextStep ==
    \/ LoadItems \/ ReorderTransactions \/ ItemsStop
    \/ \E k \in {"tx", "entry"} : OldProgramAdds(k) \/ ItemAdded(k)
    \/ OldProgramAddsNamed \/ NamedAdded
    \/ \E i \in 1 .. MaxItems : ItemRewritten(i)

ItemsSpec == ItemsInit /\ [][ItemsNextStep]_itemVars
----------------------------------------------------------------------------
\* The transactions and the entries of the account "" of a wallet that two versions of the
\* program use in turn are in the order of their times (OrderedTxItems sorts by position):
\* also when a stop fell into ReorderTransactions, unless it came between the moves of items
\* that had positions (AmidMoves), and until one is added below another's position.  That is
\* only so where the load had the next position from the disk: when ReorderTransactions has
\* counted it, it is above them all, whatever happened before.  Of the entries of named
\* accounts nothing is claimed.
ItemsOrdered ==
    ItemsLoaded =>
        /\ counted => \A i \in DOMAIN items : items[i].pos < itemsNext
        /\ ~misled => \A i \in DOMAIN items : \A j \in 1 .. i - 1 : items[j].pos < items[i].pos

\* What the comment says: "get all CWalletTx and CAccountingEntry into a sorted-by-time multimap"
\* (walletdb.cpp 118).  Entries of named accounts have no position, or one that is given again.
NamedOrdered ==
    ItemsLoaded => \A p \in ToSet(namedDat) : p # -1 /\ p < itemsNext

\* The order without exceptions: broken by a stop amid moves, and by a next position that
\* ReorderTransactions counted and did not write.
AlwaysOrdered ==
    ItemsLoaded => \A i \in DOMAIN items : \A j \in 1 .. i - 1 : items[j].pos < items[i].pos

\* OrderedTxItems: a multimap by position; two items of one position come in no fixed order.
ItemsUnique ==
    ItemsLoaded => \A i, j \in DOMAIN items : i # j => items[i].pos # items[j].pos

\* No two transactions have the same position, in memory or on disk, and the next one is new:
\* also after a crash between the writes of AddToWallet, and after a backup was put in place.
OrderUnique ==
    /\ \A t, u \in DOMAIN walletDat.tx : t # u => walletDat.tx[t].pos # walletDat.tx[u].pos
    /\ \A t \in DOMAIN walletDat.tx : walletDat.tx[t].pos < walletDat.next

\* What the positions are for: the wallet lists its items in the order they came.
PositionsSound == OrderUnique /\ ItemsOrdered

\* Once the wallet has been scanned and its transactions were accepted again, no coin that the
\* chain has as spent is offered for a payment, whether a crash came between the transaction
\* and the flags, or the wallet is an old copy.
SpentNotOffered ==
    running = "up" /\ reaccepted /\ Free =>
        \A t \in Available : ~\E u \in InChain : t \in InsOf(u)

\* CommitTransaction: "This must not fail. The transaction has already been signed and
\* recorded."
MustNotFail == refused = {}
=============================================================================
