----------------------------- MODULE ProxyConnect -----------------------------
(***************************************************************************)
(* Connecting a socket to a destination, directly or through a proxy:      *)
(* ConnectSocketByName, ConnectSocket, ConnectSocketDirectly, Socks4 and   *)
(* Socks5 of src/netbase.cpp.  The system's calls and the proxy's answers  *)
(* are inputs; a call that reads may give fewer bytes than it asked for.   *)
(***************************************************************************)
EXTENDS Integers, Sequences

CONSTANTS MaxSockets      \* bound: sockets ever made

Versions == {0, 4, 5}     \* nSocksVersion; 0: no proxy

VARIABLES proxyInfo,      \* the proxy version for IPv4 and for IPv6 destinations
          nameproxy,      \* nameproxyInfo: 0 or 5, see SetNameProxy
          nameLookup,     \* fNameLookup
          call,           \* the call in progress: [at, dest, via, s]
          socks,          \* sockets: "open", "connected" (to the first hop), "through", "closed"
          given,          \* sockets returned to callers, with what was asked for
          stray           \* sockets left open by the early return of Socks5

proxyVars == <<proxyInfo, nameproxy, nameLookup, call, socks, given, stray>>

NoCall == [at |-> "none", dest |-> "none", via |-> 0, s |-> 0]

ProxyInit ==
    /\ proxyInfo \in [{"ipv4", "ipv6", "unsupported"} -> Versions] /\ proxyInfo["unsupported"] = 0
    /\ nameproxy \in {0, 5}
    /\ nameLookup \in BOOLEAN
    /\ call = NoCall /\ socks = <<>> /\ given = {} /\ stray = {}

Return == call' = NoCall /\ UNCHANGED given
KeepSettings == UNCHANGED <<proxyInfo, nameproxy, nameLookup>>

\* ConnectSocketByName: a numeric name, or one that resolves, gives an address.
ConnectSocketByName ==
    /\ call.at = "none" /\ Len(socks) < MaxSockets
    /\ \E numeric, found \in BOOLEAN, net \in {"ipv4", "ipv6"} :
         LET allow == nameLookup /\ nameproxy = 0 IN
         call' = IF numeric \/ (allow /\ found)
                    THEN [at |-> "connect", dest |-> net, via |-> proxyInfo[net], s |-> 0]
                    ELSE IF nameproxy = 0 THEN NoCall
                    ELSE [at |-> "connect", dest |-> "name", via |-> nameproxy, s |-> 0]
    /\ KeepSettings /\ UNCHANGED <<socks, given, stray>>

\* ConnectSocket
ConnectSocket(net) ==
    /\ call.at = "none" /\ Len(socks) < MaxSockets
    /\ call' = [at |-> "connect", dest |-> net, via |-> proxyInfo[net], s |-> 0]
    /\ KeepSettings /\ UNCHANGED <<socks, given, stray>>

\* ConnectSocketDirectly begins: GetSockAddr, socket, non-blocking mode.
MakeSocket ==
    /\ call.at = "connect"
    /\ KeepSettings /\ UNCHANGED stray
    /\ \/ /\ (call.dest = "unsupported" /\ call.via = 0) \/ Len(socks) = MaxSockets
          /\ Return /\ UNCHANGED socks
       \/ /\ ~(call.dest = "unsupported" /\ call.via = 0) /\ Len(socks) < MaxSockets
          /\ \/ Return /\ UNCHANGED socks                               \* socket() failed
             \/ Return /\ socks' = Append(socks, "closed")               \* fcntl failed
             \/ /\ socks' = Append(socks, "open") /\ UNCHANGED given
                /\ call' = [call EXCEPT !.at = "wait", !.s = Len(socks) + 1]

Close(s) == socks' = [socks EXCEPT ![s] = "closed"]

\* Variant: a connection that timed out is given up without closing the socket.
FinishUnclosed ==
    /\ call.at = "wait"
    /\ KeepSettings /\ UNCHANGED stray
    /\ Return /\ UNCHANGED socks

\* connect and select: connected at once or in time, or refused, timed out, failed.
FinishConnect ==
    /\ call.at = "wait"
    /\ KeepSettings /\ UNCHANGED stray
    /\ \/ Close(call.s) /\ Return
       \/ /\ socks' = [socks EXCEPT ![call.s] = "connected"]
          /\ IF call.via = 0
             THEN given' = given \cup {<<call.s, call.dest>>} /\ call' = NoCall
             ELSE call' = [call EXCEPT !.at = IF call.via = 4 THEN "socks4" ELSE "greet"] /\ UNCHANGED given

Through(s) ==
    /\ socks' = [socks EXCEPT ![s] = "through"]
    /\ given' = given \cup {<<s, call.dest>>} /\ call' = NoCall

\* Socks4: only for IPv4; one request, one answer.
Socks4 ==
    /\ call.at = "socks4"
    /\ KeepSettings /\ UNCHANGED stray
    /\ \/ Close(call.s) /\ Return
       \/ call.dest = "ipv4" /\ Through(call.s)

\* Socks5: greeting, request, answer, bound address, bound port; each may fail.
Socks5Step ==
    /\ call.at \in {"greet", "request", "answer", "port"}
    /\ KeepSettings /\ UNCHANGED stray
    /\ \/ Close(call.s) /\ Return
       \/ call.at = "port" /\ Through(call.s)
       \/ /\ call.at # "port" /\ UNCHANGED <<socks, given>>
          /\ \E next \in {"request", "answer", "name", "port"} :
               /\ <<call.at, next>> \in {<<"greet", "request">>, <<"request", "answer">>,
                                         <<"answer", "port">>, <<"answer", "name">>}
               /\ call' = [call EXCEPT !.at = next]

\* The bound address is a name: when its length cannot be read the socket is not closed.
Socks5Name ==
    /\ call.at = "name"
    /\ KeepSettings
    /\ \/ Return /\ stray' = stray \cup {call.s} /\ UNCHANGED socks
       \/ Close(call.s) /\ Return /\ UNCHANGED stray
       \/ call' = [call EXCEPT !.at = "port"] /\ UNCHANGED <<socks, given, stray>>

ProxyNext ==
    \/ ConnectSocketByName \/ MakeSocket \/ FinishConnect \/ Socks4 \/ Socks5Step \/ Socks5Name
    \/ \E net \in {"ipv4", "ipv6", "unsupported"} : ConnectSocket(net)

ProxySpec == ProxyInit /\ [][ProxyNext]_proxyVars
----------------------------------------------------------------------------
\* On every path of success and failure a socket is closed, in use by the call, or returned once,
\* but for the one early return of Socks5 (stray); and what is returned goes through the proxy
\* that is set for its destination, with the negotiation complete, or directly when there is none.
SocketsAccounted ==
    /\ \A s \in DOMAIN socks : socks[s] # "closed" =>
         \/ call.s = s
         \/ s \in stray
         \/ \E g \in given : g[1] = s
    /\ \A g \in given :
         socks[g[1]] = IF g[2] # "name" /\ proxyInfo[g[2]] = 0 THEN "connected" ELSE "through"
=============================================================================
