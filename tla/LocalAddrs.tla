------------------------------ MODULE LocalAddrs ------------------------------
(***************************************************************************)
(* The node's own addresses (src/net.cpp): mapLocalHost with its scores,   *)
(* AddLocal by the threads that find an address (interfaces, UPnP, the     *)
(* external IP services, -externalip), SeenLocal by the version messages   *)
(* of peers, and AdvertizeLocal, which tells each peer the address that is *)
(* best for it.  mapLocalHost is read again for every peer, under a lock   *)
(* of its own, while cs_vNodes is held.  The node listens (fNoListen).      *)
(***************************************************************************)
EXTENDS Integers, Sequences, FiniteSets

CONSTANTS LocalThreads,      \* threads that learn or confirm local addresses
          Locals,            \* routable addresses, natural numbers: the order of the map
          PeerNodes,
          NetOf,             \* NetOf[a]: the network of address a
          ReachOf,           \* ReachOf[n][a]: GetReachabilityFrom, for peer n
          Limits,            \* the sets of networks that may be limited by -onlynet
          FirstScores,       \* scores AddLocal is called with, LOCAL_IF and above
          ManualScore,       \* LOCAL_MANUAL
          MaxScore           \* bound: score of an address

\* A reachability is one of the seven of GetReachabilityFrom; no address starts with LOCAL_NONE.
ASSUME LocalAddrsAssumption ==
    /\ Locals \subseteq Nat \ {0} /\ MaxScore \in Nat /\ FirstScores \subseteq 1 .. MaxScore - 1
    /\ ReachOf \in [PeerNodes -> [Locals -> 0 .. 6]]

VARIABLES discover,       \* fDiscover
          limited,        \* vfLimited, fixed at start
          reachable,      \* vfReachable
          localHost,      \* mapLocalHost: address -> score; 0: not in the map
          connected,      \* peers with fSuccessfullyConnected
          settled,        \* peers that were connected before the last change of localHost
          addrLocal,      \* addrLocal[n]: the address peer n was told, 0: none
          told,           \* addresses pushed to peer n, see PushAddress
          advert          \* advert[t]: the peers t has still to visit, or <<>>: not advertising

localVars == <<discover, limited, reachable, localHost, connected, settled, addrLocal, told, advert>>

Known == {a \in Locals : localHost[a] > 0}

\* GetLocal of a node that listens (with -listen=0, fNoListen, it finds no address at all):
\* reachability first, then the score; the first of the map among equals.
GetLocal(n) ==
    LET better(a, b) == \/ ReachOf[n][a] > ReachOf[n][b]
                        \/ ReachOf[n][a] = ReachOf[n][b] /\ localHost[a] > localHost[b]
    IN  IF Known = {} THEN 0
        ELSE CHOOSE a \in Known : \A b \in Known \ {a} : ~better(b, a) /\ (better(a, b) \/ a < b)

LocalInit ==
    /\ discover \in BOOLEAN /\ limited \in Limits /\ reachable = {}
    /\ localHost = [a \in Locals |-> 0]
    /\ connected = {} /\ settled = {}
    /\ addrLocal = [n \in PeerNodes |-> 0] /\ told = [n \in PeerNodes |-> {}]
    /\ advert = [t \in LocalThreads |-> <<>>]

\* cs_vNodes is held by a thread that has begun to visit the peers.
Visiting(t) == advert[t] # <<>> /\ advert[t][1] = "visiting"
StartAdvert(t) == advert' = [advert EXCEPT ![t] = <<"wanted", PeerNodes>>]

\* AddLocal of an address that is routable; the score grows when it is found again.
AddLocal(t, a, score) ==
    /\ advert[t] = <<>>
    /\ discover \/ score >= ManualScore
    /\ NetOf[a] \notin limited
    /\ localHost[a] < MaxScore
    /\ localHost' = [localHost EXCEPT ![a] = IF @ = 0 THEN score ELSE IF score >= @ THEN score + 1 ELSE @]
    /\ reachable' = reachable \cup {NetOf[a]} \cup (IF NetOf[a] = "ipv6" THEN {"ipv4"} ELSE {})
    /\ settled' = connected
    /\ StartAdvert(t)
    /\ UNCHANGED <<discover, limited, connected, addrLocal, told>>

\* Variant: a vote changes the score and tells nobody.
SeenQuietly(t, a) ==
    /\ advert[t] = <<>> /\ localHost[a] \in 1 .. MaxScore - 1
    /\ localHost' = [localHost EXCEPT ![a] = @ + 1]
    /\ settled' = connected
    /\ UNCHANGED <<discover, limited, reachable, connected, addrLocal, told, advert>>

\* SeenLocal: a peer saw us at an address we know.
SeenLocal(t, a) ==
    /\ advert[t] = <<>> /\ localHost[a] \in 1 .. MaxScore - 1
    /\ localHost' = [localHost EXCEPT ![a] = @ + 1]
    /\ settled' = connected
    /\ StartAdvert(t)
    /\ UNCHANGED <<discover, limited, reachable, connected, addrLocal, told>>

\* AdvertizeLocal takes cs_vNodes ...
LockNodes(t) ==
    /\ advert[t] # <<>> /\ ~Visiting(t) /\ \A u \in LocalThreads : ~Visiting(u)
    /\ advert' = [advert EXCEPT ![t][1] = "visiting"]
    /\ UNCHANGED <<discover, limited, reachable, localHost, connected, settled, addrLocal, told>>

\* ... and visits the peers one after the other.
VisitPeer(t, n) ==
    LET best == GetLocal(n) IN
    /\ Visiting(t) /\ n \in advert[t][2]
    /\ IF n \in connected /\ best # 0 /\ best # addrLocal[n]
       THEN /\ addrLocal' = [addrLocal EXCEPT ![n] = best]
            /\ told' = [told EXCEPT ![n] = @ \cup {best}]
       ELSE UNCHANGED <<addrLocal, told>>
    /\ LET rest == advert[t][2] \ {n}
       IN  advert' = [advert EXCEPT ![t] = IF rest = {} THEN <<>> ELSE <<"visiting", rest>>]
    /\ UNCHANGED <<discover, limited, reachable, localHost, connected, settled>>

\* A version message: an inbound peer says where it sees us; then it counts as connected.
PeerConnects(n) ==
    /\ n \notin connected
    /\ connected' = connected \cup {n}
    /\ \E a \in Locals \cup {0} : addrLocal' = [addrLocal EXCEPT ![n] = a]
    /\ UNCHANGED <<discover, limited, reachable, localHost, settled, told, advert>>

\* The peer leaves vNodes, which needs cs_vNodes; its place may be taken again.
PeerLeaves(n) ==
    /\ n \in connected /\ \A t \in LocalThreads : ~Visiting(t)
    /\ connected' = connected \ {n} /\ settled' = settled \ {n}
    /\ addrLocal' = [addrLocal EXCEPT ![n] = 0] /\ told' = [told EXCEPT ![n] = {}]
    /\ UNCHANGED <<discover, limited, reachable, localHost, advert>>

LocalNext ==
    \/ \E t \in LocalThreads, a \in Locals : SeenLocal(t, a) \/ \E s \in FirstScores : AddLocal(t, a, s)
    \/ \E t \in LocalThreads : LockNodes(t) \/ \E n \in PeerNodes : VisitPeer(t, n)
    \/ \E n \in PeerNodes : PeerConnects(n) \/ PeerLeaves(n)

LocalSpec == LocalInit /\ [][LocalNext]_localVars
----------------------------------------------------------------------------
\* When no thread has still to advertise, every peer that was there before the last change knows
\* the address that is best for it, however the changes and the visits of the threads interleave;
\* and an address of a limited network is never given out.
BestAdvertised ==
    /\ (\A t \in LocalThreads : advert[t] = <<>>) =>
         \A n \in settled : Known # {} => addrLocal[n] = GetLocal(n)
    /\ \A n \in PeerNodes : \A a \in told[n] : NetOf[a] \notin limited
=============================================================================
