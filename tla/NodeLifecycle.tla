---------------------------- MODULE NodeLifecycle ----------------------------
(***************************************************************************)
(* The life of CNode objects in src/net.cpp: the threads that open         *)
(* outbound connections (opencon, addcon), the socket handler that accepts *)
(* inbound ones, serves all of them, disconnects and deletes them, and the *)
(* message handler.  They share vNodes, the disconnected pool, the         *)
(* reference counts and the outbound semaphore.                            *)
(*                                                                         *)
(* A critical section of cs_vNodes is one step, except the socket          *)
(* handler's long one (disconnect, then delete), during which the openers  *)
(* can still touch a CNode they hold a pointer to.  Message contents,      *)
(* buffers, bans and the per-node locks only decide whether a node breaks  *)
(* or a deletion is put off: they are nondeterministic choices.            *)
(***************************************************************************)
EXTENDS Integers, FiniteSets

CONSTANTS Nodes,        \* CNode objects; none is allocated twice
          Addrs,        \* addresses of peers
          Openers,      \* threads that open outbound connections
          OpenCon,      \* the one that runs ThreadOpenConnections
          OneShots,     \* the addresses queued by AddOneShot at start
          ConnectArgs,  \* the -connect addresses (none: automatic connections)
          nMaxOutbound, \* min(MAX_OUTBOUND_CONNECTIONS, nMaxConnections)
          nMaxInbound,  \* nMaxConnections - MAX_OUTBOUND_CONNECTIONS
          NULL          \* the null pointer, or no address

ASSUME LifecycleAssumption ==
    /\ IsFiniteSet(Nodes) /\ IsFiniteSet(Openers)
    /\ OpenCon \in Openers
    /\ OneShots \subseteq Addrs /\ ConnectArgs \subseteq Addrs
    /\ nMaxOutbound \in Nat /\ nMaxInbound \in Nat
    /\ NULL \notin Nodes /\ NULL \notin Addrs

VARIABLES vNodes, vNodesDisconnected,
          deleted,       \* nodes whose memory has been freed
          nRefCount, fDisconnect, fNetworkNode, fInbound,
          hSocket,       \* TRUE while the socket is open
          grantOutbound, \* TRUE while the node holds a semaphore grant
          addr,          \* the peer's address, NULL for a node not yet made
          named,         \* connected by name: addrName is the given string
          semOutbound,   \* the semaphore's value
          vOneShots,
          pnodeSync,
          opc, oAddr, oName, oNode, oGrant, \* per opener: locals of OpenNetworkConnection
          npc, nCopy, nRetiring,            \* the socket handler's locals
          mpc, mCopy, mPick,                \* the message handler's locals
          extra,         \* history: references ConnectNode took on an existing node
          released,      \* history: nodes whose first reference was released
          wild           \* a freed node was used: the behaviour is undefined

nodeVars == <<addr, named, fInbound>>
openVars == <<opc, oAddr, oName, oNode, oGrant>>
netVars  == <<npc, nCopy, nRetiring>>
msgVars  == <<mpc, mCopy, mPick>>
histVars == <<extra, released, wild>>
vars == <<vNodes, vNodesDisconnected, deleted, nRefCount, fDisconnect, fNetworkNode,
          hSocket, grantOutbound, nodeVars, semOutbound, vOneShots, pnodeSync,
          openVars, netVars, msgVars, histVars>>

\* StartNode: the semaphore is full and no connection exists.
Init ==
    /\ vNodes = {} /\ vNodesDisconnected = {} /\ deleted = {}
    /\ nRefCount = [n \in Nodes |-> 0]
    /\ fDisconnect = [n \in Nodes |-> FALSE]
    /\ fNetworkNode = [n \in Nodes |-> FALSE]
    /\ fInbound = [n \in Nodes |-> FALSE]
    /\ hSocket = [n \in Nodes |-> FALSE]
    /\ grantOutbound = [n \in Nodes |-> FALSE]
    /\ addr = [n \in Nodes |-> NULL]
    /\ named = [n \in Nodes |-> FALSE]
    /\ semOutbound = nMaxOutbound
    /\ vOneShots = OneShots
    /\ pnodeSync = NULL
    /\ opc = [t \in Openers |-> "idle"]
    /\ oAddr = [t \in Openers |-> NULL]
    /\ oName = [t \in Openers |-> FALSE]
    /\ oNode = [t \in Openers |-> NULL]
    /\ oGrant = [t \in Openers |-> FALSE]
    /\ npc = "top" /\ nCopy = {} /\ nRetiring = NULL
    /\ mpc = "idle" /\ mCopy = {} /\ mPick = NULL
    /\ extra = [n \in Nodes |-> 0] /\ released = {} /\ wild = FALSE

\* cs_vNodes is free: the socket handler is not in its long critical section.
LockFree == npc \notin {"disc", "retire", "delete"}

Fresh == {n \in Nodes : addr[n] = NULL}

AddRefs(S) == [n \in Nodes |-> IF n \in S THEN nRefCount[n] + 1 ELSE nRefCount[n]]
Releases(S) == [n \in Nodes |-> IF n \in S THEN nRefCount[n] - 1 ELSE nRefCount[n]]

\* new CNode(hSocket, a, ...); AddRef(); vNodes.push_back().
NewNode(n, a, byName, inbound) ==
    /\ n \in Fresh
    /\ addr' = [addr EXCEPT ![n] = a]
    /\ named' = [named EXCEPT ![n] = byName]
    /\ fInbound' = [fInbound EXCEPT ![n] = inbound]
    /\ hSocket' = [hSocket EXCEPT ![n] = TRUE]
    /\ nRefCount' = AddRefs({n})
    /\ vNodes' = vNodes \cup {n}

(* An operator used for checking that a property can fail is preceded by   *)
(* its mutated form.                                                       *)

\* CNode::CloseSocketDisconnect().
CloseSocketDisconnect(n) ==
    /\ fDisconnect' = [fDisconnect EXCEPT ![n] = TRUE]
    /\ hSocket' = [hSocket EXCEPT ![n] = FALSE]
    /\ pnodeSync' = IF pnodeSync = n THEN NULL ELSE pnodeSync

\* A node breaks: its socket is closed, or it is only marked (inactivity,
\* a one-shot that is done).
Break(n) == \/ CloseSocketDisconnect(n)
            \/ /\ fDisconnect' = [fDisconnect EXCEPT ![n] = TRUE]
               /\ UNCHANGED <<hSocket, pnodeSync>>
----------------------------------------------------------------------------
(* ThreadOpenConnections, ThreadOpenAddedConnections, ProcessOneShot and   *)
(* OpenNetworkConnection.                                                  *)

\* Begin an attempt with the grant g held or not.
Attempt(t, a, byName, g) ==
    /\ opc' = [opc EXCEPT ![t] = "check"]
    /\ oAddr' = [oAddr EXCEPT ![t] = a]
    /\ oName' = [oName EXCEPT ![t] = byName]
    /\ oGrant' = [oGrant EXCEPT ![t] = g]
    /\ UNCHANGED oNode

unchangedByOpener == <<vNodesDisconnected, deleted, fDisconnect, pnodeSync, netVars, msgVars, released>>
unchangedNodes == <<vNodes, nRefCount, fNetworkNode, hSocket, grantOutbound, nodeVars, extra, wild>>

\* CSemaphoreGrant grant(*semOutbound): wait for a free slot.
GetGrant(t) ==
    /\ opc[t] = "idle" /\ semOutbound > 0
    /\ t = OpenCon => ConnectArgs = {}
    /\ semOutbound' = semOutbound - 1
    /\ opc' = [opc EXCEPT ![t] = "granted"]
    /\ oGrant' = [oGrant EXCEPT ![t] = TRUE]
    /\ UNCHANGED <<unchangedByOpener, unchangedNodes, vOneShots, oAddr, oName, oNode>>

\* ProcessOneShot: the queued address is dropped when no slot is free.
ProcessOneShot(t, a) ==
    /\ t = OpenCon /\ opc[t] = "idle" /\ a \in vOneShots
    /\ vOneShots' = vOneShots \ {a}
    /\ IF semOutbound > 0
       THEN semOutbound' = semOutbound - 1 /\ Attempt(t, a, TRUE, TRUE)
       ELSE UNCHANGED <<semOutbound, openVars>>
    /\ UNCHANGED <<unchangedByOpener, unchangedNodes>>

\* -connect: by name, and without a grant.
ConnectArg(t, a) ==
    /\ t = OpenCon /\ opc[t] = "idle" /\ a \in ConnectArgs
    /\ Attempt(t, a, TRUE, FALSE)
    /\ UNCHANGED <<unchangedByOpener, unchangedNodes, semOutbound, vOneShots>>

ConnectedOutbound == {addr[n] : n \in {m \in vNodes : ~fInbound[m]}}

\* opencon takes an address from addrman whose group has no outbound peer;
\* addcon takes one of its list, by name when there is a name proxy.
Choose(t, a, byName) ==
    /\ opc[t] = "granted" /\ LockFree
    /\ t = OpenCon => a \notin ConnectedOutbound /\ ~byName
    /\ Attempt(t, a, byName, TRUE)
    /\ UNCHANGED <<unchangedByOpener, unchangedNodes, semOutbound, vOneShots>>

\* OpenNetworkConnection returns false (or opencon found no address): the
\* grant goes out of scope, and a one-shot is queued again.
IsOneShot(t) == t = OpenCon /\ oName[t] /\ oGrant[t]

GiveUp(t) ==
    /\ opc' = [opc EXCEPT ![t] = "idle"]
    /\ oAddr' = [oAddr EXCEPT ![t] = NULL]
    /\ oName' = [oName EXCEPT ![t] = FALSE]
    /\ oGrant' = [oGrant EXCEPT ![t] = FALSE]
    /\ semOutbound' = IF oGrant[t] THEN semOutbound + 1 ELSE semOutbound
    /\ vOneShots' = IF IsOneShot(t) THEN vOneShots \cup {oAddr[t]} ELSE vOneShots
    /\ UNCHANGED <<unchangedByOpener, unchangedNodes, oNode>>

NoAddress(t) == t = OpenCon /\ opc[t] = "granted" /\ GiveUp(t)

\* FindNode by IP, or by the string given.
Conflicting(a, byName) == {n \in vNodes : addr[n] = a /\ (byName => named[n])}

\* Already connected, or (not by name) the address is banned or local.
Refused(t) ==
    /\ opc[t] = "check" /\ LockFree
    /\ oName[t] => Conflicting(oAddr[t], TRUE) # {}
    /\ GiveUp(t)

Proceed(t) ==
    /\ opc[t] = "check" /\ LockFree
    /\ Conflicting(oAddr[t], oName[t]) = {}
    /\ opc' = [opc EXCEPT ![t] = "connect"]
    /\ UNCHANGED <<unchangedByOpener, unchangedNodes, semOutbound, vOneShots,
                   oAddr, oName, oNode, oGrant>>
----------------------------------------------------------------------------
(* ConnectNode.                                                            *)

\* "Look for an existing connection": the lock is released on return.
FindExisting(t, n) ==
    /\ opc[t] = "connect" /\ LockFree /\ ~oName[t]
    /\ n \in Conflicting(oAddr[t], FALSE)
    /\ opc' = [opc EXCEPT ![t] = "found"]
    /\ oNode' = [oNode EXCEPT ![t] = n]
    /\ UNCHANGED <<unchangedByOpener, unchangedNodes, semOutbound, vOneShots,
                   oAddr, oName, oGrant>>

FindNone(t) ==
    /\ opc[t] = "connect" /\ LockFree
    /\ oName[t] \/ Conflicting(oAddr[t], FALSE) = {}
    /\ opc' = [opc EXCEPT ![t] = "dial"]
    /\ UNCHANGED <<unchangedByOpener, unchangedNodes, semOutbound, vOneShots,
                   oAddr, oName, oNode, oGrant>>

\* pnode->AddRef() on the node found, without the lock.
AddRefFound(t) ==
    /\ opc[t] = "found"
    /\ opc' = [opc EXCEPT ![t] = "connected"]
    /\ nRefCount' = AddRefs({oNode[t]})
    /\ extra' = [extra EXCEPT ![oNode[t]] = @ + 1]
    /\ wild' = (oNode[t] \in deleted)
    /\ UNCHANGED <<unchangedByOpener, vNodes, fNetworkNode, hSocket, grantOutbound, nodeVars,
                   semOutbound, vOneShots, oAddr, oName, oNode, oGrant>>

DialFails(t) == opc[t] = "dial" /\ GiveUp(t)

Dial(t, n) ==
    /\ opc[t] = "dial" /\ LockFree
    /\ NewNode(n, oAddr[t], oName[t], FALSE)
    /\ opc' = [opc EXCEPT ![t] = "connected"]
    /\ oNode' = [oNode EXCEPT ![t] = n]
    /\ UNCHANGED <<unchangedByOpener, fNetworkNode, grantOutbound, extra, wild,
                   semOutbound, vOneShots, oAddr, oName, oGrant>>

SemAfterMove(t) == IF grantOutbound[oNode[t]] THEN semOutbound + 1 ELSE semOutbound

\* grantOutbound->MoveTo(pnode->grantOutbound): the target is released first.
MoveGrant(t) ==
    /\ opc[t] = "connected"
    /\ opc' = [opc EXCEPT ![t] = "moved"]
    /\ IF oGrant[t]
       THEN /\ semOutbound' = SemAfterMove(t)
            /\ grantOutbound' = [grantOutbound EXCEPT ![oNode[t]] = TRUE]
       ELSE UNCHANGED <<semOutbound, grantOutbound>>
    /\ oGrant' = [oGrant EXCEPT ![t] = FALSE]
    /\ UNCHANGED <<unchangedByOpener, vNodes, nRefCount, fNetworkNode, hSocket, nodeVars,
                   extra, wild, vOneShots, oAddr, oName, oNode>>

\* pnode->fNetworkNode = true; return true.
MarkNetworkNode(t) ==
    /\ opc[t] = "moved"
    /\ fNetworkNode' = [fNetworkNode EXCEPT ![oNode[t]] = TRUE]
    /\ opc' = [opc EXCEPT ![t] = "idle"]
    /\ oAddr' = [oAddr EXCEPT ![t] = NULL]
    /\ oName' = [oName EXCEPT ![t] = FALSE]
    /\ oNode' = [oNode EXCEPT ![t] = NULL]
    /\ UNCHANGED <<unchangedByOpener, vNodes, nRefCount, hSocket, grantOutbound, nodeVars,
                   extra, wild, semOutbound, vOneShots, oGrant>>
----------------------------------------------------------------------------
(* ThreadSocketHandler.                                                    *)

unchangedByNet == <<fNetworkNode, vOneShots, openVars, msgVars, extra, wild>>

\* LOCK(cs_vNodes); vNodesCopy = vNodes.
NetLock ==
    /\ npc = "top"
    /\ npc' = "disc" /\ nCopy' = vNodes
    /\ UNCHANGED <<vNodes, vNodesDisconnected, deleted, nRefCount, fDisconnect, hSocket,
                   grantOutbound, nodeVars, semOutbound, pnodeSync, nRetiring, released,
                   unchangedByNet>>

DisconnectableIdle(n, fEmpty) == nRefCount[n] <= 0 /\ fEmpty

\* fDisconnect, or no references and nothing left to process or to send.
Disconnectable(n, fEmpty) == fDisconnect[n] \/ (nRefCount[n] <= 0 /\ fEmpty)

\* Remove from vNodes, release the outbound grant (if any), close the socket.
Disconnect(n) ==
    /\ npc = "disc" /\ n \in nCopy
    /\ \E fEmpty \in BOOLEAN : Disconnectable(n, fEmpty)
    /\ npc' = "retire" /\ nRetiring' = n /\ nCopy' = nCopy \ {n}
    /\ vNodes' = vNodes \ {n}
    /\ semOutbound' = IF grantOutbound[n] THEN semOutbound + 1 ELSE semOutbound
    /\ grantOutbound' = [grantOutbound EXCEPT ![n] = FALSE]
    /\ CloseSocketDisconnect(n)
    /\ UNCHANGED <<vNodesDisconnected, deleted, nRefCount, nodeVars, released, unchangedByNet>>

Keep(n) ==
    /\ npc = "disc" /\ n \in nCopy
    /\ \E fEmpty \in BOOLEAN : ~Disconnectable(n, fEmpty)
    /\ nCopy' = nCopy \ {n}
    /\ UNCHANGED <<vNodes, vNodesDisconnected, deleted, nRefCount, fDisconnect, hSocket,
                   grantOutbound, nodeVars, semOutbound, pnodeSync, npc, nRetiring, released,
                   unchangedByNet>>

MayRelease(n) == fNetworkNode[n] \/ fInbound[n]

\* "hold in disconnected pool until all refs are released"
Retire ==
    /\ npc = "retire"
    /\ IF MayRelease(nRetiring)
       THEN /\ nRefCount' = Releases({nRetiring})
            /\ released' = released \cup {nRetiring}
       ELSE UNCHANGED <<nRefCount, released>>
    /\ vNodesDisconnected' = vNodesDisconnected \cup {nRetiring}
    /\ npc' = "disc" /\ nRetiring' = NULL
    /\ UNCHANGED <<vNodes, deleted, fDisconnect, hSocket, grantOutbound, nodeVars, semOutbound,
                   pnodeSync, nCopy, unchangedByNet>>

BeginDelete ==
    /\ npc = "disc" /\ nCopy = {}
    /\ npc' = "delete" /\ nCopy' = vNodesDisconnected
    /\ UNCHANGED <<vNodes, vNodesDisconnected, deleted, nRefCount, fDisconnect, hSocket,
                   grantOutbound, nodeVars, semOutbound, pnodeSync, nRetiring, released,
                   unchangedByNet>>

\* "wait until threads are done using it"
Deletable(n) == nRefCount[n] <= 0

\* All three TRY_LOCKs succeeded; the destructor releases the grant.
Delete(n) ==
    /\ npc = "delete" /\ n \in nCopy /\ Deletable(n)
    /\ nCopy' = nCopy \ {n}
    /\ vNodesDisconnected' = vNodesDisconnected \ {n}
    /\ deleted' = deleted \cup {n}
    /\ semOutbound' = IF grantOutbound[n] THEN semOutbound + 1 ELSE semOutbound
    /\ grantOutbound' = [grantOutbound EXCEPT ![n] = FALSE]
    /\ UNCHANGED <<vNodes, nRefCount, fDisconnect, hSocket, nodeVars, pnodeSync, npc, nRetiring,
                   released, unchangedByNet>>

\* Still referenced, or one of its locks is taken.
PutOff(n) ==
    /\ npc = "delete" /\ n \in nCopy
    /\ nCopy' = nCopy \ {n}
    /\ UNCHANGED <<vNodes, vNodesDisconnected, deleted, nRefCount, fDisconnect, hSocket,
                   grantOutbound, nodeVars, semOutbound, pnodeSync, npc, nRetiring, released,
                   unchangedByNet>>

\* The end of the critical section; select() follows.
NetUnlock ==
    /\ npc = "delete" /\ nCopy = {}
    /\ npc' = "accept"
    /\ UNCHANGED <<vNodes, vNodesDisconnected, deleted, nRefCount, fDisconnect, hSocket,
                   grantOutbound, nodeVars, semOutbound, pnodeSync, nCopy, nRetiring, released,
                   unchangedByNet>>

Inbound == {n \in vNodes : fInbound[n]}

RoomForInbound == Cardinality(Inbound) < nMaxInbound

\* accept() on a listening socket, unless full or banned.
Accept(n, a) ==
    /\ npc = "accept" /\ RoomForInbound
    /\ NewNode(n, a, FALSE, TRUE)
    /\ UNCHANGED <<vNodesDisconnected, deleted, fDisconnect, grantOutbound, semOutbound,
                   pnodeSync, netVars, released, unchangedByNet>>

\* "Service each socket": copy vNodes and take a reference on each.
NetCopy ==
    /\ npc = "accept"
    /\ npc' = "service" /\ nCopy' = vNodes
    /\ nRefCount' = AddRefs(vNodes)
    /\ UNCHANGED <<vNodes, vNodesDisconnected, deleted, fDisconnect, hSocket, grantOutbound,
                   nodeVars, semOutbound, pnodeSync, nRetiring, released, unchangedByNet>>

\* Receiving or sending fails, or the inactivity check fires.
NetBreak(n) ==
    /\ npc = "service" /\ n \in nCopy /\ hSocket[n]
    /\ Break(n)
    /\ UNCHANGED <<vNodes, vNodesDisconnected, deleted, nRefCount, grantOutbound, nodeVars,
                   semOutbound, netVars, released, unchangedByNet>>

NetRelease ==
    /\ npc = "service"
    /\ npc' = "top" /\ nCopy' = {}
    /\ nRefCount' = Releases(nCopy)
    /\ UNCHANGED <<vNodes, vNodesDisconnected, deleted, fDisconnect, hSocket, grantOutbound,
                   nodeVars, semOutbound, pnodeSync, nRetiring, released, unchangedByNet>>
----------------------------------------------------------------------------
(* ThreadMessageHandler and StartSync.                                     *)

unchangedByMsg == <<vNodes, vNodesDisconnected, deleted, fNetworkNode, grantOutbound, nodeVars,
                    semOutbound, vOneShots, openVars, netVars, histVars>>

MsgCopyUncounted ==
    /\ mpc = "idle" /\ LockFree
    /\ mCopy' = vNodes
    /\ mpc' = IF pnodeSync \in vNodes THEN "process" ELSE "sync"
    /\ UNCHANGED <<fDisconnect, hSocket, pnodeSync, nRefCount, mPick, unchangedByMsg>>

\* Copy vNodes, take references, and see whether the sync node is there.
MsgCopy ==
    /\ mpc = "idle" /\ LockFree
    /\ mCopy' = vNodes
    /\ nRefCount' = AddRefs(vNodes)
    /\ mpc' = IF pnodeSync \in vNodes THEN "process" ELSE "sync"
    /\ UNCHANGED <<fDisconnect, hSocket, pnodeSync, mPick, unchangedByMsg>>

\* StartSync finds a node that satisfies the preconditions, or none.
PickSync(n) ==
    /\ mpc = "sync" /\ n \in mCopy /\ ~fDisconnect[n]
    /\ mPick' = n /\ mpc' = "start"
    /\ UNCHANGED <<nRefCount, fDisconnect, hSocket, pnodeSync, mCopy, unchangedByMsg>>

PickNone ==
    /\ mpc = "sync"
    /\ mpc' = "process"
    /\ UNCHANGED <<nRefCount, fDisconnect, hSocket, pnodeSync, mCopy, mPick, unchangedByMsg>>

\* pnodeSync = pnodeNewSync
SetSync ==
    /\ mpc = "start"
    /\ pnodeSync' = mPick /\ mPick' = NULL /\ mpc' = "process"
    /\ UNCHANGED <<nRefCount, fDisconnect, hSocket, mCopy, unchangedByMsg>>

\* ProcessMessages or SendMessages ends the connection.
MsgBreak(n) ==
    /\ mpc = "process" /\ n \in mCopy /\ ~fDisconnect[n]
    /\ Break(n)
    /\ UNCHANGED <<nRefCount, msgVars, unchangedByMsg>>

MsgRelease ==
    /\ mpc = "process" /\ LockFree
    /\ mpc' = "idle" /\ mCopy' = {}
    /\ nRefCount' = Releases(mCopy)
    /\ UNCHANGED <<fDisconnect, hSocket, pnodeSync, mPick, unchangedByMsg>>
----------------------------------------------------------------------------
OpenerStep(t) ==
    \/ \E a \in Addrs : \/ ProcessOneShot(t, a) \/ ConnectArg(t, a)
                        \/ \E b \in BOOLEAN : Choose(t, a, b)
    \/ GetGrant(t) \/ NoAddress(t) \/ Refused(t) \/ Proceed(t)
    \/ FindNone(t) \/ AddRefFound(t) \/ DialFails(t) \/ MoveGrant(t) \/ MarkNetworkNode(t)
    \/ \E n \in Nodes : FindExisting(t, n) \/ Dial(t, n)

NetStep ==
    \/ NetLock \/ Retire \/ BeginDelete \/ NetUnlock \/ NetCopy \/ NetRelease
    \/ \E n \in Nodes : \/ Disconnect(n) \/ Keep(n) \/ Delete(n) \/ PutOff(n) \/ NetBreak(n)
                        \/ \E a \in Addrs : Accept(n, a)

MsgStep ==
    \/ MsgCopy \/ PickNone \/ SetSync \/ MsgRelease
    \/ \E n \in Nodes : PickSync(n) \/ MsgBreak(n)

\* Nothing is said about what the program does after it used a freed node.
Next == ~wild /\ ((\E t \in Openers : OpenerStep(t)) \/ NetStep \/ MsgStep)

Spec == Init /\ [][Next]_vars
----------------------------------------------------------------------------
(* Properties.                                                             *)

Live == {n \in Nodes : addr[n] # NULL} \ deleted

\* Every variable keeps the type of its declaration.
TypeOK ==
    /\ vNodes \in SUBSET Nodes /\ vNodesDisconnected \in SUBSET Nodes /\ deleted \in SUBSET Nodes
    /\ nRefCount \in [Nodes -> Nat]
    /\ fDisconnect \in [Nodes -> BOOLEAN] /\ fNetworkNode \in [Nodes -> BOOLEAN]
    /\ fInbound \in [Nodes -> BOOLEAN] /\ hSocket \in [Nodes -> BOOLEAN]
    /\ grantOutbound \in [Nodes -> BOOLEAN] /\ named \in [Nodes -> BOOLEAN]
    /\ addr \in [Nodes -> Addrs \cup {NULL}]
    /\ semOutbound \in Nat
    /\ vOneShots \in SUBSET Addrs
    /\ pnodeSync \in Nodes \cup {NULL}
    /\ opc \in [Openers -> {"idle", "granted", "check", "connect", "found", "dial", "connected", "moved"}]
    /\ oAddr \in [Openers -> Addrs \cup {NULL}]
    /\ oName \in [Openers -> BOOLEAN] /\ oGrant \in [Openers -> BOOLEAN]
    /\ oNode \in [Openers -> Nodes \cup {NULL}]
    /\ npc \in {"top", "disc", "retire", "delete", "accept", "service"}
    /\ nCopy \in SUBSET Nodes /\ nRetiring \in Nodes \cup {NULL}
    /\ mpc \in {"idle", "sync", "start", "process"}
    /\ mCopy \in SUBSET Nodes /\ mPick \in Nodes \cup {NULL}
    /\ extra \in [Nodes -> Nat] /\ released \in SUBSET Nodes /\ wild \in BOOLEAN

\* The references of a node are the socket handler's, the message handler's,
\* the one of its creation until Retire gives it back, and those ConnectNode
\* took on a node it found (which nobody gives back).
One(b) == IF b THEN 1 ELSE 0
HeldByNet(n) == npc = "service" /\ n \in nCopy

RefCountExact ==
    \A n \in Nodes : nRefCount[n] = One(HeldByNet(n)) + One(n \in mCopy) + extra[n]
                                    + One(addr[n] # NULL /\ n \notin released)

\* "wait until threads are done using it": no thread that copied vNodes, and
\* no opener that has its reference, ever holds a pointer to a freed node.
UsedNodesAlive ==
    /\ \A n \in nCopy \cup mCopy : n \notin deleted
    /\ \A t \in Openers : opc[t] \in {"connected", "moved"} /\ ~wild => oNode[t] \notin deleted

Granted == {t \in Openers : oGrant[t]}
Holders == {n \in Nodes : grantOutbound[n]}

\* Every slot of the outbound semaphore is free, held by an opener, or held
\* by a node that has not been freed: none is lost and none is made up.
GrantsConserved ==
    /\ semOutbound + Cardinality(Granted) + Cardinality(Holders) = nMaxOutbound
    /\ ~wild => Holders \subseteq Live

\* No more inbound connections than the slots kept for them.
InboundLimit == Cardinality(Inbound) <= nMaxInbound

\* A node is connected, being retired, in the disconnected pool, or freed,
\* and once it has left vNodes its socket is closed for good.
ClosedOnceDisconnected ==
    /\ vNodes \cap (vNodesDisconnected \cup deleted \cup {nRetiring}) = {}
    /\ vNodesDisconnected \cap deleted = {}
    /\ \A n \in vNodesDisconnected \cup deleted : ~hSocket[n] /\ fDisconnect[n]

\* Nodes and slots are accounted for: every reference has a holder, nothing that
\* is in use is freed, no slot of either kind is lost or overdrawn, and a node
\* that was disconnected stays closed.
NodesSafe == RefCountExact /\ UsedNodesAlive /\ GrantsConserved /\ InboundLimit /\ ClosedOnceDisconnected

\* The strengthening that makes these properties inductive: where a node is,
\* what the loops' copies contain, and what an opener that uses a node knows.
Allocated == {n \in Nodes : addr[n] # NULL}

Placement ==
    /\ Allocated = vNodes \cup vNodesDisconnected \cup deleted \cup ({nRetiring} \ {NULL})
    /\ npc = "retire" <=> nRetiring # NULL
    /\ nRetiring \notin vNodesDisconnected \cup deleted
    /\ nRetiring # NULL => ~hSocket[nRetiring] /\ fDisconnect[nRetiring]
    /\ released \subseteq vNodesDisconnected \cup deleted
    /\ \A n \in Nodes \ Allocated : extra[n] = 0 /\ ~fNetworkNode[n] /\ ~fInbound[n]

Copies ==
    /\ npc \in {"top", "accept"} => nCopy = {}
    /\ npc \in {"disc", "retire"} => nCopy \subseteq vNodes
    /\ npc = "delete" => nCopy \subseteq vNodesDisconnected
    /\ nCopy \cup mCopy \subseteq Allocated
    /\ mpc = "idle" => mCopy = {}
    /\ mpc = "start" => mPick \in mCopy

Uses(t) == opc[t] \in {"connected", "moved"}

OpenerNodes ==
    \A t \in Openers : Uses(t) \/ opc[t] = "found" => oNode[t] \in Allocated

OpenerLocals ==
    \A t \in Openers : /\ opc[t] \notin {"idle", "granted"} => oAddr[t] \in Addrs
                       /\ opc[t] \in {"idle", "granted"} => ~oName[t]
                       /\ opc[t] \in {"idle", "moved"} => ~oGrant[t]
                       /\ opc[t] = "granted" => oGrant[t]

\* An opener whose node has no extra reference made the node itself, and the
\* socket handler will not release the first reference.
OpenerRefs ==
    \A t \in Openers : Uses(t) /\ extra[oNode[t]] = 0 =>
        /\ oNode[t] \notin released
        /\ ~fNetworkNode[oNode[t]] /\ ~fInbound[oNode[t]]
        /\ \A u \in Openers : Uses(u) /\ oNode[u] = oNode[t] => u = t

Inv == /\ TypeOK /\ Placement /\ Copies
       /\ OpenerNodes /\ OpenerLocals /\ OpenerRefs
       /\ RefCountExact /\ UsedNodesAlive /\ GrantsConserved
       /\ InboundLimit /\ ClosedOnceDisconnected

\* A node that is to be disconnected leaves vNodes.
DisconnectHappens ==
    \A n \in Nodes : (n \in vNodes /\ fDisconnect[n]) ~> (n \notin vNodes \/ wild)

(* What comments of net.cpp say, and races between the threads break.      *)

\* "wait until threads are done using it" (net.cpp:775): also for the node
\* ConnectNode found and is about to take a reference on.
NeverWild == ~wild

\* "release outbound grant (if any)" (net.cpp:757): a node that has been
\* disconnected holds no slot of the semaphore.
GrantReleased == \A n \in vNodesDisconnected : ~grantOutbound[n]

\* "hold in disconnected pool until all refs are released" (net.cpp:764):
\* the references are released, and the node leaves the pool.
PoolDrains == \A n \in Nodes : (n \in vNodesDisconnected) ~> (n \notin vNodesDisconnected \/ wild)

\* "if this was the sync node, we'll need a new one" (net.cpp:517): pnodeSync
\* does not point to a node that has been disconnected.
SyncNodeConnected == pnodeSync \notin vNodesDisconnected \cup deleted

\* The loops of the socket handler and of the message handler keep running
\* (each sleeps for a bounded time, and a thread that keeps contending for
\* cs_vNodes gets it); a TRY_LOCK that is tried again and again succeeds.
Fairness ==
    /\ WF_vars(~wild /\ NetStep)
    /\ SF_vars(~wild /\ MsgStep)
    /\ \A n \in Nodes : SF_vars(~wild /\ Delete(n))

FairSpec == Spec /\ Fairness
=============================================================================
