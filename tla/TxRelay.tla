------------------------------- MODULE TxRelay -------------------------------
(***************************************************************************)
(* Relay of transactions: RelayTransaction of src/net.cpp, the bloom       *)
(* filters of src/bloom.cpp and the messages that load, extend and clear   *)
(* them (src/dust_coin/bitcoin_messages_handlers.cpp).                     *)
(*                                                                         *)
(* A filter is the set of its bits that are set.  What a filter is asked   *)
(* for is an element: a transaction, an outpoint <<tx, i>> or a datum of a *)
(* script; MurmurHash3 is the constant Bits.                               *)
(***************************************************************************)
EXTENDS Integers, Sequences, FiniteSets

CONSTANTS RPeers,
          Txs, Data,        \* transactions and script data
          Bits,             \* Bits[e]: the bits of element e, one for each hash function
          Outs,             \* Outs[t][i]: the data of the script of output i of t
          PaysKey,          \* the outpoints whose script is of type pubkey or multisig
          Spends,           \* Spends[t]: the outpoints that t spends
          SigData,          \* SigData[t]: the data of its input scripts
          RelayPeriod,      \* the 15 minutes an entry stays in mapRelay
          MaxClock,         \* bound: the last time of the clock
          MaxRelays         \* bound: how many entries vRelayExpiration holds

UpdateNone == 0
UpdateAll == 1
UpdatePubKey == 2
OutPoints == UNION {{<<t, i>> : i \in DOMAIN Outs[t]} : t \in Txs}
NoFilter == [bits |-> {}, flags |-> -1]   \* a NULL pfilter

ASSUME TxRelayAssumption ==
    /\ \A e \in Txs \cup Data \cup OutPoints : Bits[e] \subseteq Nat /\ Bits[e] # {}
    /\ \A t \in Txs : Outs[t] \in Seq(SUBSET Data) /\ Spends[t] \subseteq OutPoints /\ SigData[t] \subseteq Data
    /\ RelayPeriod \in Nat /\ MaxClock \in Nat /\ MaxRelays \in Nat

VARIABLES pfilter,            \* pfilter[p]: the filter of p, or NoFilter
          fRelayTxes, setInventoryKnown, vInventoryToSend,
          mapRelay, vRelayExpiration, clock,
          watched,            \* watched[p]: what p asked for, in its present filter, and the
                              \* outputs that paid to it when they were relayed
          due                 \* due[p]: the transactions p must hear of

relayVars == <<pfilter, fRelayTxes, setInventoryKnown, vInventoryToSend, mapRelay, vRelayExpiration,
               clock, watched, due>>
relayMaps == <<mapRelay, vRelayExpiration, clock>>

\* fRelayTxes comes with the version message of the peer.
RelayInit ==
    /\ pfilter = [p \in RPeers |-> NoFilter] /\ fRelayTxes \in [RPeers -> BOOLEAN]
    /\ setInventoryKnown = [p \in RPeers |-> {}] /\ vInventoryToSend = [p \in RPeers |-> {}]
    /\ mapRelay = {} /\ vRelayExpiration = << >> /\ clock = 0
    /\ watched = [p \in RPeers |-> {}] /\ due = [p \in RPeers |-> {}]
----------------------------------------------------------------------------
(* CBloomFilter.                                                           *)

insert(f, e) == [f EXCEPT !.bits = @ \cup Bits[e]]
contains(f, e) == Bits[e] \subseteq f.bits

\* IsRelevantAndUpdate adds an output when its script matches, as the flags say.
InsertKeysOnly(f, o) == IF f.flags # UpdateNone /\ o \in PaysKey THEN insert(f, o) ELSE f
InsertMatched(f, o) ==
    IF f.flags = UpdateAll \/ (f.flags = UpdatePubKey /\ o \in PaysKey) THEN insert(f, o) ELSE f

\* The loop over the outputs, in their order: each sees the bits that the ones before it set.
ScanOutput(s, t, i) ==
    IF \E d \in Outs[t][i] : contains(s.filter, d)
    THEN [filter |-> InsertMatched(s.filter, <<t, i>>), found |-> TRUE] ELSE s
Scan(f, t) ==
    LET step[i \in 0..Len(Outs[t])] ==
            IF i = 0 THEN [filter |-> f, found |-> contains(f, t)] ELSE ScanOutput(step[i - 1], t, i)
    IN  step[Len(Outs[t])]

IsRelevant(f, t) ==
    Scan(f, t).found \/ \E e \in Spends[t] \cup SigData[t] : contains(Scan(f, t).filter, e)
----------------------------------------------------------------------------
(* The messages of a peer.                                                 *)

\* A filter that is too large is refused; fRelayTxes is set all the same.
FilterLoad(p) ==
    /\ \/ UNCHANGED <<pfilter, watched, due>>
       \/ \E S \in {{d} : d \in Data}, flags \in {UpdateNone, UpdateAll, UpdatePubKey} :
            /\ pfilter' = [pfilter EXCEPT ![p] = [bits |-> UNION {Bits[e] : e \in S}, flags |-> flags]]
            /\ watched' = [watched EXCEPT ![p] = S]
            /\ due' = [due EXCEPT ![p] = {}]
    /\ fRelayTxes' = [fRelayTxes EXCEPT ![p] = TRUE]
    /\ UNCHANGED <<setInventoryKnown, vInventoryToSend, relayMaps>>

\* Without a filter, or with a datum that is too long, the peer only misbehaves.
FilterAdd(p) ==
    \E e \in Data \cup OutPoints :
        /\ pfilter[p] # NoFilter
        /\ pfilter' = [pfilter EXCEPT ![p] = insert(@, e)]
        /\ watched' = [watched EXCEPT ![p] = @ \cup {e}]
        /\ UNCHANGED <<fRelayTxes, setInventoryKnown, vInventoryToSend, relayMaps, due>>

FilterClear(p) ==
    /\ pfilter' = [pfilter EXCEPT ![p] = NoFilter]
    /\ fRelayTxes' = [fRelayTxes EXCEPT ![p] = TRUE]
    /\ watched' = [watched EXCEPT ![p] = {}] /\ due' = [due EXCEPT ![p] = {}]
    /\ UNCHANGED <<setInventoryKnown, vInventoryToSend, relayMaps>>

\* inv and tx: AddInventoryKnown.
PeerHas(p) ==
    \E t \in Txs :
        /\ setInventoryKnown' = [setInventoryKnown EXCEPT ![p] = @ \cup {t}]
        /\ UNCHANGED <<pfilter, fRelayTxes, vInventoryToSend, relayMaps, watched, due>>

RelayTick ==
    /\ clock < MaxClock /\ clock' = clock + 1
    /\ UNCHANGED <<pfilter, fRelayTxes, setInventoryKnown, vInventoryToSend, mapRelay, vRelayExpiration,
                   watched, due>>
----------------------------------------------------------------------------
(* RelayTransaction.                                                       *)

Expired == {i \in DOMAIN vRelayExpiration : \A j \in 1..i : vRelayExpiration[j].at < clock}

\* Expire old relay messages, then insert: a transaction that is there keeps its entry.
MapRelayAfter(t) == (mapRelay \ {vRelayExpiration[i].tx : i \in Expired}) \cup {t}

Told(p, t) == fRelayTxes[p] /\ (pfilter[p] # NoFilter => IsRelevant(pfilter[p], t))

\* What a peer with this filter has been promised: what it watches, and what pays to it,
\* uses its keys or spends a watched output.
Promised(p, t) ==
    \/ pfilter[p] = NoFilter
    \/ t \in watched[p]
    \/ (SigData[t] \cup Spends[t] \cup UNION {Outs[t][i] : i \in DOMAIN Outs[t]}) \cap watched[p] # {}

\* The outputs that pay to what p watches are watched too, if p asked for that.
PaidTo(p, t) ==
    {o \in {<<t, i>> : i \in DOMAIN Outs[t]} :
        /\ Outs[t][o[2]] \cap watched[p] # {}
        /\ pfilter[p].flags = UpdateAll \/ (pfilter[p].flags = UpdatePubKey /\ o \in PaysKey)}

RelayTransaction(t) ==
    /\ Len(vRelayExpiration) - Cardinality(Expired) < MaxRelays
    /\ mapRelay' = MapRelayAfter(t)
    /\ vRelayExpiration' = Append(SubSeq(vRelayExpiration, Cardinality(Expired) + 1, Len(vRelayExpiration)),
                                  [at |-> clock + RelayPeriod, tx |-> t])
    /\ pfilter' = [p \in RPeers |-> IF fRelayTxes[p] /\ pfilter[p] # NoFilter
                                    THEN Scan(pfilter[p], t).filter ELSE pfilter[p]]
    /\ vInventoryToSend' = [p \in RPeers |->
            IF Told(p, t) /\ t \notin setInventoryKnown[p] THEN vInventoryToSend[p] \cup {t}
            ELSE vInventoryToSend[p]]
    /\ due' = [p \in RPeers |-> IF fRelayTxes[p] /\ Promised(p, t) THEN due[p] \cup {t} ELSE due[p]]
    /\ watched' = [p \in RPeers |-> watched[p] \cup (IF fRelayTxes[p] THEN PaidTo(p, t) ELSE {})]
    /\ UNCHANGED <<fRelayTxes, setInventoryKnown, clock>>

RelayNext ==
    \/ RelayTick
    \/ \E t \in Txs : RelayTransaction(t)
    \/ \E p \in RPeers : FilterLoad(p) \/ FilterAdd(p) \/ FilterClear(p) \/ PeerHas(p)

RelaySpec == RelayInit /\ [][RelayNext]_relayVars
----------------------------------------------------------------------------
(* Properties.                                                             *)

\* A peer with a filter hears of every transaction that it asked for, in whatever order filters
\* were loaded and extended and transactions came: also of one that spends an output which
\* matched earlier, though the peer never added that outpoint ("clients don't have to update the
\* filter themselves", IsRelevantAndUpdate of bloom.cpp).
PromiseKept == \A p \in RPeers : due[p] \subseteq vInventoryToSend[p] \cup setInventoryKnown[p]

\* Whatever is in mapRelay will leave it: an expiry entry is queued, however often the same
\* transaction was relayed and expired before (RelayTransaction of net.cpp).
RelayExpires == \A t \in mapRelay : \E i \in DOMAIN vRelayExpiration : vRelayExpiration[i].tx = t

\* Peers hear of what they asked for, and the map they fetch it from does not grow for ever.
RelayKept == PromiseKept /\ RelayExpires
=============================================================================
