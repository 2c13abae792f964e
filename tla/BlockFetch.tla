----------------------------- MODULE BlockFetch -----------------------------
(***************************************************************************)
(* How a node learns of blocks and gets them                               *)
(* (src/dust_coin/bitcoin_messages_handlers.cpp): inv, the requests that   *)
(* AskFor schedules and SendMessages sends, block, ProcessBlock with its   *)
(* orphans, and getblocks.  One thread runs all of it under cs_main; the   *)
(* peers and the clock are free.                                           *)
(*                                                                         *)
(* Nothing in the program fills mapBlockIndex or sets pindexBest: the      *)
(* branches that need an entry of mapBlockIndex are left out, and every    *)
(* getblocks begins at NULL.  Transactions are always "already had".       *)
(* Times are relative to the present.                                      *)
(***************************************************************************)
EXTENDS Integers, Sequences, FiniteSets

CONSTANTS Peers, Blocks,
          Zero,            \* the hash uint256(0)
          hashPrevBlock,   \* the parent of a block, which may be Zero or unknown
          Checked,         \* the blocks that pass CheckBlock
          Honest,          \* the peers that send only those, and no inv that is too large
          Answering,       \* the peers that answer a getdata
          nDoS,            \* the penalty of a block that fails CheckBlock
          BanScore,
          Retry,           \* the two minutes of AskFor
          MaxDelay,        \* bound: how far ahead a request is scheduled
          MaxGate          \* bound: the length of m_blocks

ASSUME BlockFetchAssumption ==
    /\ Zero \notin Blocks /\ DOMAIN hashPrevBlock = Blocks
    \* A block's hash covers its parent's: there is no cycle of parents.
    /\ \A S \in SUBSET Blocks : S # {} => \E b \in S : hashPrevBlock[b] \notin S
    /\ Checked \subseteq Blocks /\ Honest \subseteq Peers /\ Answering \subseteq Peers
    /\ nDoS \in [Blocks \ Checked -> Nat] /\ BanScore \in Nat \ {0}
    /\ Retry \in Nat \ {0} /\ MaxDelay \in Nat /\ MaxGate \in Nat

VARIABLES conn,               \* the peers that are connected
          setBanned,          \* the peers that may not connect
          mapAskFor,          \* mapAskFor[p]: scheduled requests, [in, inv]
          mapAlreadyAskedFor, \* the time of the last request of a block
          mapOrphanBlocks,
          m_blocks,           \* CBitcoinNetworkGate: the accepted blocks
          hashLastGetBlocksEnd, fStartSync, nMisbehavior,
          getdata,            \* getdata[p]: requested of p and not answered
          getblocks,          \* hashEnd of the getblocks sent so far
          vInv                \* the inv message being handled: what is left of it

node == <<mapAskFor, hashLastGetBlocksEnd, fStartSync, nMisbehavior, getdata>>
vars == <<conn, setBanned, node, mapAlreadyAskedFor, mapOrphanBlocks, m_blocks, getblocks, vInv>>

Idle == vInv = << >>

\* CNode::CNode.
Fresh(p) ==
    /\ mapAskFor' = [mapAskFor EXCEPT ![p] = {}] /\ getdata' = [getdata EXCEPT ![p] = {}]
    /\ hashLastGetBlocksEnd' = [hashLastGetBlocksEnd EXCEPT ![p] = Zero]
    /\ fStartSync' = [fStartSync EXCEPT ![p] = FALSE]
    /\ nMisbehavior' = [nMisbehavior EXCEPT ![p] = 0]

Init ==
    /\ conn = {} /\ setBanned = {}
    /\ mapAskFor = [p \in Peers |-> {}] /\ getdata = [p \in Peers |-> {}]
    /\ hashLastGetBlocksEnd = [p \in Peers |-> Zero]
    /\ fStartSync = [p \in Peers |-> FALSE] /\ nMisbehavior = [p \in Peers |-> 0]
    /\ mapAlreadyAskedFor = << >> /\ mapOrphanBlocks = {} /\ m_blocks = << >>
    /\ getblocks = {}
    /\ vInv = << >>
----------------------------------------------------------------------------
(* A mutated form precedes the operator it is a form of.                   *)

AlreadyAsked(b) == b \in mapOrphanBlocks \cup DOMAIN mapAlreadyAskedFor

\* AlreadyHave, for MSG_BLOCK.
AlreadyHave(b) == b \in mapOrphanBlocks

OrphanItself(orphans, b) == b

\* GetOrphanRoot: the walk from b through parents that are orphans.
GetOrphanRoot(orphans, b) ==
    LET walk[i \in 0..Cardinality(orphans)] ==
            IF i = 0 THEN b
            ELSE IF hashPrevBlock[walk[i - 1]] \in orphans THEN hashPrevBlock[walk[i - 1]] ELSE walk[i - 1]
    IN  walk[Cardinality(orphans)]

\* "Filter out duplicate requests"
PushGetBlocks(p, hashEnd) ==
    IF hashEnd = hashLastGetBlocksEnd[p] THEN UNCHANGED <<hashLastGetBlocksEnd, getblocks>>
    ELSE /\ hashLastGetBlocksEnd' = [hashLastGetBlocksEnd EXCEPT ![p] = hashEnd]
         /\ getblocks' = getblocks \cup {hashEnd}

AskFor(p, b) ==
    LET at == IF b \in DOMAIN mapAlreadyAskedFor /\ mapAlreadyAskedFor[b] + Retry > 0
              THEN mapAlreadyAskedFor[b] + Retry ELSE 0
    IN /\ at <= MaxDelay
       /\ mapAskFor' = [mapAskFor EXCEPT ![p] = @ \cup {[in |-> at, inv |-> b]}]
       /\ mapAlreadyAskedFor' = [x \in DOMAIN mapAlreadyAskedFor \cup {b} |->
                                   IF x = b THEN at ELSE mapAlreadyAskedFor[x]]
----------------------------------------------------------------------------
(* Connections and time.                                                   *)

Connect(p) ==
    /\ Idle /\ p \notin conn /\ p \notin setBanned
    /\ conn' = conn \cup {p} /\ Fresh(p)
    /\ UNCHANGED <<setBanned, mapAlreadyAskedFor, mapOrphanBlocks, m_blocks, getblocks, vInv>>

Disconnect(p) ==
    /\ Idle /\ p \in conn
    /\ conn' = conn \ {p} /\ Fresh(p)
    /\ UNCHANGED <<setBanned, mapAlreadyAskedFor, mapOrphanBlocks, m_blocks, getblocks, vInv>>

BanEnds(p) ==
    /\ p \in setBanned
    /\ setBanned' = setBanned \ {p}
    /\ UNCHANGED <<conn, node, mapAlreadyAskedFor, mapOrphanBlocks, m_blocks, getblocks, vInv>>

\* A request that is due stays due; one that is two minutes old no longer matters.
Earlier(t, least) == IF t > least THEN t - 1 ELSE t
Tick ==
    /\ mapAskFor' = [p \in Peers |-> {[r EXCEPT !.in = Earlier(@, 0)] : r \in mapAskFor[p]}]
    /\ mapAlreadyAskedFor' = [b \in DOMAIN mapAlreadyAskedFor |-> Earlier(mapAlreadyAskedFor[b], -Retry)]
    /\ UNCHANGED <<conn, setBanned, hashLastGetBlocksEnd, fStartSync, nMisbehavior, getdata,
                   mapOrphanBlocks, m_blocks, getblocks, vInv>>
----------------------------------------------------------------------------
(* ProcessMessage.                                                         *)

\* Misbehaving(howmuch).
TooMuch(score) == score >= BanScore
Misbehaving(p, howmuch) ==
    IF TooMuch(nMisbehavior[p] + howmuch)
    THEN /\ setBanned' = setBanned \cup {p} /\ conn' = conn \ {p}
         /\ mapAskFor' = [mapAskFor EXCEPT ![p] = {}] /\ getdata' = [getdata EXCEPT ![p] = {}]
         /\ hashLastGetBlocksEnd' = [hashLastGetBlocksEnd EXCEPT ![p] = Zero]
         /\ fStartSync' = [fStartSync EXCEPT ![p] = FALSE]
         /\ nMisbehavior' = [nMisbehavior EXCEPT ![p] = 0]
    ELSE /\ nMisbehavior' = [nMisbehavior EXCEPT ![p] = @ + howmuch]
         /\ UNCHANGED <<setBanned, conn, mapAskFor, getdata, hashLastGetBlocksEnd, fStartSync>>

\* "inv" with more than MAX_INV_SZ entries.
InvTooLarge(p) ==
    /\ Idle /\ p \in conn \ Honest
    /\ Misbehaving(p, 20)
    /\ UNCHANGED <<mapAlreadyAskedFor, mapOrphanBlocks, m_blocks, getblocks, vInv>>

\* "inv": the blocks one after the other.
Inv(p, blocks) ==
    /\ Idle /\ p \in conn
    /\ vInv' = [i \in 1..Len(blocks) |-> [pfrom |-> p, hash |-> blocks[i]]]
    /\ UNCHANGED <<conn, setBanned, node, mapAlreadyAskedFor, mapOrphanBlocks, m_blocks, getblocks>>

InvNew ==
    /\ ~Idle /\ ~AlreadyHave(Head(vInv).hash)
    /\ AskFor(Head(vInv).pfrom, Head(vInv).hash)
    /\ vInv' = Tail(vInv)
    /\ UNCHANGED <<conn, setBanned, hashLastGetBlocksEnd, fStartSync, nMisbehavior, getdata,
                   mapOrphanBlocks, m_blocks, getblocks>>

InvOrphan ==
    /\ ~Idle /\ Head(vInv).hash \in mapOrphanBlocks
    /\ PushGetBlocks(Head(vInv).pfrom, GetOrphanRoot(mapOrphanBlocks, Head(vInv).hash))
    /\ vInv' = Tail(vInv)
    /\ UNCHANGED <<conn, setBanned, mapAskFor, mapAlreadyAskedFor, fStartSync, nMisbehavior, getdata,
                   mapOrphanBlocks, m_blocks>>

\* "block" may come without a request.
Received(p, b) ==
    /\ Idle /\ p \in conn
    /\ p \in Honest => b \in Checked

\* The penalty of a block that ProcessBlock does not take, and a mutated form.
PenalizeDuplicate(b) == IF AlreadyHave(b) THEN 10 ELSE nDoS[b]
PenaltyOf(b) == IF AlreadyHave(b) THEN 0 ELSE nDoS[b]

\* mapAlreadyAskedFor.erase(inv) if ProcessBlock took the block.
AskedAfter(b, taken) ==
    [x \in DOMAIN mapAlreadyAskedFor \ (IF taken THEN {b} ELSE {}) |-> mapAlreadyAskedFor[x]]

\* ProcessBlock: a duplicate, or a block that fails CheckBlock.
BlockRefused(p, b) ==
    /\ Received(p, b) /\ (AlreadyHave(b) \/ b \notin Checked)
    /\ Misbehaving(p, PenaltyOf(b))
    /\ mapAlreadyAskedFor' = AskedAfter(b, FALSE)
    /\ UNCHANGED <<mapOrphanBlocks, m_blocks, getblocks, vInv>>

\* A block whose parent is missing: "shunt it off to holding area until we get it".
BlockOrphan(p, b) ==
    /\ Received(p, b) /\ ~AlreadyHave(b) /\ b \in Checked /\ hashPrevBlock[b] # Zero
    /\ mapOrphanBlocks' = mapOrphanBlocks \cup {b}
    /\ PushGetBlocks(p, GetOrphanRoot(mapOrphanBlocks \cup {b}, b))
    /\ mapAlreadyAskedFor' = AskedAfter(b, TRUE)
    /\ getdata' = [getdata EXCEPT ![p] = @ \ {b}]
    /\ UNCHANGED <<conn, setBanned, mapAskFor, fStartSync, nMisbehavior, m_blocks, vInv>>

\* BitcoinGate->addBlock.
BlockAccepted(p, b) ==
    /\ Received(p, b) /\ ~AlreadyHave(b) /\ b \in Checked /\ hashPrevBlock[b] = Zero
    /\ Len(m_blocks) < MaxGate
    /\ m_blocks' = Append(m_blocks, b)
    /\ mapAlreadyAskedFor' = AskedAfter(b, TRUE)
    /\ getdata' = [getdata EXCEPT ![p] = @ \ {b}]
    /\ UNCHANGED <<conn, setBanned, mapAskFor, hashLastGetBlocksEnd, fStartSync, nMisbehavior,
                   mapOrphanBlocks, getblocks, vInv>>
----------------------------------------------------------------------------
(* SendMessages.                                                           *)

\* StartSync of net.cpp chooses p.
StartSync(p) ==
    /\ Idle /\ p \in conn /\ ~fStartSync[p]
    /\ fStartSync' = [fStartSync EXCEPT ![p] = TRUE]
    /\ UNCHANGED <<conn, setBanned, mapAskFor, hashLastGetBlocksEnd, nMisbehavior, getdata,
                   mapAlreadyAskedFor, mapOrphanBlocks, m_blocks, getblocks, vInv>>

\* "Start block sync", and the requests that are due.
Due(p) == {r \in mapAskFor[p] : r.in = 0}
SendMessages(p) ==
    /\ Idle /\ p \in conn
    /\ fStartSync[p] \/ Due(p) # {}
    /\ fStartSync' = [fStartSync EXCEPT ![p] = FALSE]
    /\ IF fStartSync[p] THEN PushGetBlocks(p, Zero) ELSE UNCHANGED <<hashLastGetBlocksEnd, getblocks>>
    /\ getdata' = [getdata EXCEPT ![p] = @ \cup {r.inv : r \in {x \in Due(p) : ~AlreadyHave(x.inv)}}]
    /\ mapAskFor' = [mapAskFor EXCEPT ![p] = @ \ Due(p)]
    /\ UNCHANGED <<conn, setBanned, nMisbehavior, mapAlreadyAskedFor, mapOrphanBlocks, m_blocks, vInv>>

Next ==
    \/ Tick \/ InvNew \/ InvOrphan
    \/ \E p \in Peers :
          \/ Connect(p) \/ Disconnect(p) \/ BanEnds(p) \/ StartSync(p) \/ SendMessages(p)
          \/ InvTooLarge(p)
          \/ \E b \in Blocks : \/ BlockRefused(p, b) \/ BlockOrphan(p, b) \/ BlockAccepted(p, b)
                               \/ \E c \in Blocks : Inv(p, <<b>>) \/ Inv(p, <<b, c>>)

Spec == Init /\ [][Next]_vars

\* The message handler's loop visits every peer, time passes, and the peers in
\* Answering send what they are asked for.
Answer(p, b) == b \in getdata[p] /\ (BlockOrphan(p, b) \/ BlockAccepted(p, b) \/ BlockRefused(p, b))
FairSpec ==
    /\ Spec
    /\ WF_vars(Tick) /\ WF_vars(InvNew) /\ WF_vars(InvOrphan)
    /\ \A p \in Peers : SF_vars(SendMessages(p))
    /\ \A p \in Answering : \A b \in Blocks : SF_vars(Answer(p, b))
----------------------------------------------------------------------------
(* Properties.                                                             *)

\* Every variable keeps the type of its declaration.
TypeOK ==
    /\ conn \subseteq Peers /\ setBanned \subseteq Peers
    /\ mapAskFor \in [Peers -> SUBSET [in : Nat, inv : Blocks]]
    /\ getdata \in [Peers -> SUBSET Blocks]
    /\ hashLastGetBlocksEnd \in [Peers -> Blocks \cup {Zero}]
    /\ fStartSync \in [Peers -> BOOLEAN] /\ nMisbehavior \in [Peers -> 0..(BanScore - 1)]
    /\ DOMAIN mapAlreadyAskedFor \subseteq Blocks
    /\ \A b \in DOMAIN mapAlreadyAskedFor : mapAlreadyAskedFor[b] \in Int
    /\ mapOrphanBlocks \subseteq Blocks
    /\ \A i \in 1..Len(m_blocks) : m_blocks[i] \in Blocks
    /\ getblocks \subseteq Blocks \cup {Zero}
    /\ \A i \in 1..Len(vInv) : vInv[i] \in [pfrom : Peers, hash : Blocks]

\* The requests of one block that are scheduled for the future, with whichever
\* peers, are Retry apart, as long as no copy of the block has arrived.
Accepted == {m_blocks[i] : i \in 1..Len(m_blocks)}
Future(b) == UNION {{[peer |-> p, in |-> r.in] : r \in {x \in mapAskFor[p] : x.inv = b /\ x.in > 0}} : p \in Peers}
RequestsApart ==
    \A b \in Blocks \ (Accepted \cup mapOrphanBlocks) : \A r, s \in Future(b) :
        r # s => r.in - s.in >= Retry \/ s.in - r.in >= Retry

\* For every orphan chain, some peer was asked for what precedes its first
\* block: each held block without a held parent was the end of a getblocks.
RootsAsked ==
    \A b \in mapOrphanBlocks :
        hashPrevBlock[b] \notin mapOrphanBlocks => b \in getblocks

\* A getblocks for missing ancestors ends at the first block of an orphan chain,
\* in whichever order the blocks of the chain came.
AsksForRoots ==
    [][\A p \in Peers :
          LET h == hashLastGetBlocksEnd'[p]
          IN  h # hashLastGetBlocksEnd[p] /\ h # Zero =>
                h \in mapOrphanBlocks' /\ hashPrevBlock[h] \notin mapOrphanBlocks']_vars

\* Ancestors that are missing are asked for, from the right block on.
AncestorsAsked == AsksForRoots /\ []RootsAsked

\* A peer that sends only good blocks is never penalised, whatever it sends twice,
\* unasked or in whatever order.
HonestUnpunished == \A p \in Honest : nMisbehavior[p] = 0 /\ p \notin setBanned

\* A block announced by a peer that answers arrives, or the peer goes.
AnnouncedArrives ==
    \A p \in Answering : \A b \in Checked :
        (\E r \in mapAskFor[p] : r.inv = b) ~> (b \in Accepted \cup mapOrphanBlocks \/ p \notin conn)

\* The requests for a block are neither lost, whatever came between, nor doubled.
RequestsServed == AnnouncedArrives /\ []RequestsApart

\* "If we don't already have its previous block, shunt it off to holding area until
\* we get it" (bitcoin_messages_handlers.cpp:581).
HeldUntilParent == \A b \in mapOrphanBlocks : hashPrevBlock[b] \notin Accepted

\* "Check for duplicate" (bitcoin_messages_handlers.cpp:550).
AcceptedOnce == \A i, j \in 1..Len(m_blocks) : m_blocks[i] = m_blocks[j] => i = j

\* "Start block sync" (bitcoin_messages_handlers.cpp:469) sends a getblocks.
SyncAsks ==
    [][\A p \in Peers : fStartSync[p] /\ ~fStartSync'[p] /\ p \in conn' => Zero \in getblocks']_vars
=============================================================================
