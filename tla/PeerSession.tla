----------------------------- MODULE PeerSession -----------------------------
(***************************************************************************)
(* The session with a peer: the handshake, the small requests, and the     *)
(* alerts that are kept and relayed (ProcessMessage in                     *)
(* src/dust_coin/bitcoin_messages_handlers.cpp, src/alert.cpp, PushVersion *)
(* in src/net.cpp).  One thread handles the messages of all peers.         *)
(*                                                                         *)
(* An alert is a record of its own fields.  What the handshake tells the   *)
(* address manager is AddrMan's Good and LocalAddrs' SeenLocal, in modules *)
(* of their own; transactions and filters are in TxRelay; blocks are in    *)
(* BlockFetch.  addr and getaddr are left out; ping is only answered;      *)
(* getblocks, getheaders, mempool and unknown commands do nothing.         *)
(***************************************************************************)
EXTENDS Integers, FiniteSets

CONSTANTS SPeers,
          InboundPeers,     \* those that connected to us
          FarEnd,           \* FarEnd[p]: the other end of a connection to ourselves, or p
          VersionMsgs,      \* what a peer may announce: [nVersion, strSubVer]
          Alerts,           \* the alerts that may arrive, records
          MIN_PROTO_VERSION, PROTOCOL_VERSION, strMySubVer,
          maxInt,           \* std::numeric_limits<int>::max()
          SessionBanScore,  \* -banscore
          MaxNow,           \* bound: the last time of the clock
          MaxNonce          \* bound: how many version messages are sent

ASSUME PeerSessionAssumption ==
    /\ InboundPeers \subseteq SPeers /\ FarEnd \in [SPeers -> SPeers]
    /\ \A m \in VersionMsgs : m.nVersion \in Nat \ {0}
    /\ MIN_PROTO_VERSION \in Nat /\ PROTOCOL_VERSION \in Nat
    /\ SessionBanScore \in Nat \ {0} /\ MaxNow \in Nat /\ MaxNonce \in Nat
    /\ \A a \in Alerts : a.nExpiration \in Int

VARIABLES node,             \* node[p]: the CNode of p
          mapAlerts,
          nLocalHostNonce,  \* the nonce of the last version message, whoever it went to
          now

\* node[p].alerts: the alerts p has from us or sent to us; node[p].sent: the handshake we sent.

sessionVars == <<node, mapAlerts, nLocalHostNonce, now>>

\* CNode::CNode, and a peer that is not connected.
Gone == [up |-> FALSE, nVersion |-> 0, strSubVer |-> "", fSuccessfullyConnected |-> FALSE,
         fDisconnect |-> FALSE, nMisbehavior |-> 0, setKnown |-> {}, nRecvVersion |-> 0,
         vRecvGetData |-> FALSE, alerts |-> {}, sent |-> {}, nonce |-> 0]

SessionInit ==
    /\ node = [p \in SPeers |-> Gone]
    /\ mapAlerts = {} /\ nLocalHostNonce = 0 /\ now = 0
----------------------------------------------------------------------------
(* Alerts.                                                                 *)

IsInEffect(a) == now < a.nExpiration
Cancels(a, b) == IsInEffect(a) /\ (b.nID <= a.nCancel \/ b.nID \in a.setCancel)

AppliesTo(a, nVersion, strSubVer) ==
    /\ IsInEffect(a) /\ a.nMinVer <= nVersion /\ nVersion <= a.nMaxVer
    /\ a.setSubVer = {} \/ strSubVer \in a.setSubVer
AppliesToMe(a) == AppliesTo(a, PROTOCOL_VERSION, strMySubVer)

May(n, a) == AppliesTo(a, n.nVersion, n.strSubVer) \/ AppliesToMe(a) \/ now < a.nRelayUntil

\* RelayTo of each alert of S.  setKnown takes an alert before the test of whether the peer
\* may have it: one that may not is not tried again.
RelayTo(n, S) ==
    LET new == {a \in S \ n.setKnown : IsInEffect(a)}
        pushed == {a \in new : May(n, a)}
    IN  [n EXCEPT !.setKnown = @ \cup new, !.alerts = @ \cup pushed]

\* The one alert of the highest identifier must be the predefined one.
KeyCompromisedForm(a) ==
    a.nID = maxInt => /\ a.nExpiration = maxInt /\ a.nCancel = maxInt - 1
                      /\ a.nMinVer = 0 /\ a.nMaxVer = maxInt /\ a.setSubVer = {} /\ a.urgent

\* "Cancel previous alerts": what stays of mapAlerts when a is processed.
KeptAlerts(a) == {b \in mapAlerts : ~Cancels(a, b) /\ IsInEffect(b)}

\* Variant: an alert that one in effect cancels is taken.
AcceptWhenSigned(a) == a.signed /\ IsInEffect(a) /\ KeyCompromisedForm(a)

AcceptAlert(a) ==
    /\ a.signed /\ IsInEffect(a) /\ KeyCompromisedForm(a)
    /\ \A b \in KeptAlerts(a) : ~Cancels(b, a)

\* ProcessAlert returns early, before it touches mapAlerts, on the first three tests.
ProcessAlert(a) ==
    mapAlerts' = IF ~(a.signed /\ IsInEffect(a) /\ KeyCompromisedForm(a)) THEN mapAlerts
                 ELSE KeptAlerts(a) \cup (IF AcceptAlert(a) THEN {a} ELSE {})
----------------------------------------------------------------------------
(* Connections.                                                            *)

\* PushVersion draws a nonce into the one global variable.
PushVersion(n) ==
    /\ nLocalHostNonce < MaxNonce
    /\ nLocalHostNonce' = nLocalHostNonce + 1
    /\ n.nonce = nLocalHostNonce' /\ "version" \in n.sent

\* An outbound node sends its version when it is made; an inbound one waits.
Connect(p) ==
    /\ ~node[p].up
    /\ p \in InboundPeers => FarEnd[p] = p \/ node[FarEnd[p]].up
    /\ node' = [node EXCEPT ![p] = IF p \in InboundPeers THEN [Gone EXCEPT !.up = TRUE]
                                   ELSE [Gone EXCEPT !.up = TRUE, !.sent = {"version"},
                                                     !.nonce = nLocalHostNonce + 1]]
    /\ IF p \in InboundPeers THEN UNCHANGED nLocalHostNonce ELSE PushVersion(node'[p])
    /\ UNCHANGED <<mapAlerts, now>>

\* The socket thread drops the node; the other end of a connection to ourselves goes too.
Drop(p) ==
    /\ node[p].up
    /\ node' = [q \in SPeers |-> IF q \in {p, FarEnd[p]} THEN Gone ELSE node[q]]
    /\ UNCHANGED <<mapAlerts, nLocalHostNonce, now>>

SessionTick ==
    /\ now < MaxNow /\ now' = now + 1
    /\ UNCHANGED <<node, mapAlerts, nLocalHostNonce>>

Misbehave(n, howmuch) ==
    [n EXCEPT !.nMisbehavior = @ + howmuch, !.fDisconnect = @ \/ n.nMisbehavior + howmuch >= SessionBanScore]

Handled(p) == node[p].up /\ ~node[p].fDisconnect
----------------------------------------------------------------------------
(* The messages.                                                           *)

\* Which announcements p can send: ours, when p is the other end of our own connection.
Announced(p) ==
    IF FarEnd[p] = p THEN {[nVersion |-> m.nVersion, strSubVer |-> m.strSubVer, nNonce |-> 0] : m \in VersionMsgs}
    ELSE IF node[FarEnd[p]].nonce = 0 THEN {}
    ELSE {[nVersion |-> PROTOCOL_VERSION, strSubVer |-> strMySubVer, nNonce |-> node[FarEnd[p]].nonce]}

ActingVersion(nVersion) == IF nVersion = 10300 THEN 300 ELSE nVersion

\* The end of the handler: verack, the known alerts, and the connection counts as made.
VersionDone(n) ==
    [RelayTo(n, mapAlerts) EXCEPT !.fSuccessfullyConnected = TRUE]

\* "Disconnect if we connected to ourself"
ConnectedToSelf(m) == m.nNonce = nLocalHostNonce /\ m.nNonce > 0

Version(p) ==
    \E m \in Announced(p) :
        LET n == [node[p] EXCEPT !.nVersion = ActingVersion(m.nVersion), !.strSubVer = m.strSubVer]
            told == IF p \in InboundPeers
                    THEN [n EXCEPT !.sent = @ \cup {"version", "verack"}, !.nonce = nLocalHostNonce + 1]
                    ELSE [n EXCEPT !.sent = @ \cup {"verack"}]
        IN /\ Handled(p) /\ node[p].nVersion = 0
           /\ \/ /\ m.nVersion < MIN_PROTO_VERSION
                 /\ node' = [node EXCEPT ![p] = [@ EXCEPT !.nVersion = m.nVersion, !.fDisconnect = TRUE]]
                 /\ UNCHANGED nLocalHostNonce
              \/ /\ m.nVersion >= MIN_PROTO_VERSION /\ ConnectedToSelf(m)
                 /\ node' = [node EXCEPT ![p] = [n EXCEPT !.fDisconnect = TRUE]]
                 /\ UNCHANGED nLocalHostNonce
              \/ /\ m.nVersion >= MIN_PROTO_VERSION /\ ~ConnectedToSelf(m)
                 /\ node' = [node EXCEPT ![p] = VersionDone(told)]
                 /\ IF p \in InboundPeers THEN PushVersion(told) ELSE UNCHANGED nLocalHostNonce
           /\ UNCHANGED <<mapAlerts, now>>

\* A version message that ends early throws after nVersion was read into the node.
VersionCut(p) ==
    \E m \in Announced(p) :
        /\ Handled(p) /\ node[p].nVersion = 0 /\ FarEnd[p] = p
        /\ node' = [node EXCEPT ![p].nVersion = m.nVersion]
        /\ UNCHANGED <<mapAlerts, nLocalHostNonce, now>>

\* A second version message, or any other message before the first.
OutOfTurn(p) ==
    /\ Handled(p) /\ FarEnd[p] = p
    /\ node' = [node EXCEPT ![p] = Misbehave(@, 1)]
    /\ UNCHANGED <<mapAlerts, nLocalHostNonce, now>>

Verack(p) ==
    /\ Handled(p) /\ node[p].nVersion # 0
    /\ FarEnd[p] = p \/ "verack" \in node[FarEnd[p]].sent
    /\ node' = [node EXCEPT ![p].nRecvVersion =
                    IF node[p].nVersion < PROTOCOL_VERSION THEN node[p].nVersion ELSE PROTOCOL_VERSION]
    /\ UNCHANGED <<mapAlerts, nLocalHostNonce, now>>

\* vRecvGetData is never emptied: every later call of ProcessMessages sends notfound again.
GetData(p) ==
    /\ Handled(p) /\ node[p].nVersion # 0 /\ FarEnd[p] = p
    /\ node' = [node EXCEPT ![p].vRecvGetData = TRUE]
    /\ UNCHANGED <<mapAlerts, nLocalHostNonce, now>>

Alert(p) ==
    \E a \in Alerts :
        /\ Handled(p) /\ node[p].nVersion # 0 /\ FarEnd[p] = p /\ a \notin node[p].setKnown
        /\ ProcessAlert(a)
        /\ node' = IF AcceptAlert(a)
                   THEN [q \in SPeers |->
                            LET n == IF q = p THEN [node[p] EXCEPT !.setKnown = @ \cup {a}, !.alerts = @ \cup {a}] ELSE node[q]
                            IN  IF n.up THEN RelayTo(n, {a}) ELSE n]
                   ELSE [node EXCEPT ![p] = Misbehave(@, 10)]
        /\ UNCHANGED <<nLocalHostNonce, now>>

SessionNext ==
    \/ SessionTick
    \/ \E p \in SPeers : Connect(p) \/ Drop(p) \/ Version(p) \/ VersionCut(p) \/ OutOfTurn(p)
                         \/ Verack(p) \/ GetData(p) \/ Alert(p)

SessionSpec == SessionInit /\ [][SessionNext]_sessionVars
----------------------------------------------------------------------------
(* Properties.                                                             *)

\* Every peer that completed the handshake knows every alert in effect that concerns this
\* version: it sent the alert, or the alert was sent to it, whichever came first, the alert or
\* the peer (the loop over mapAlerts in the version handler, and over vNodes in the alert one).
AlertsReach ==
    \A p \in SPeers, a \in mapAlerts :
        node[p].up /\ node[p].fSuccessfullyConnected /\ AppliesToMe(a) => a \in node[p].alerts

\* No alert is kept beside one in effect that cancels it, in whatever order the two arrived
\* (ProcessAlert cancels the earlier ones and refuses a later one).
CancelledGone == \A a, b \in mapAlerts : a # b => ~Cancels(a, b)

\* Alerts reach every peer, and cancelled ones are gone.
AlertsKept == AlertsReach /\ CancelledGone

\* A connection to ourselves is not completed at both ends ("Disconnect if we connected to
\* ourself", the test of nLocalHostNonce in the version handler).
SelfDetected ==
    \A p \in SPeers : FarEnd[p] # p =>
        ~(node[p].fSuccessfullyConnected /\ node[FarEnd[p]].fSuccessfullyConnected)
=============================================================================
