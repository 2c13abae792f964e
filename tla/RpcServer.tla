------------------------------ MODULE RpcServer ------------------------------
(***************************************************************************)
(* The JSON-RPC server (src/bitcoinrpc.cpp): StartRPCThreads,              *)
(* StopRPCThreads, RPCListen, RPCAcceptHandler, ServiceConnection and      *)
(* CRPCTable::execute, run by the worker threads of one io_service.        *)
(*                                                                         *)
(* An accept that completed waits in the io_service until a worker runs    *)
(* its handler; the handler serves the whole connection before it returns. *)
(***************************************************************************)
EXTENDS Integers, Sequences, FiniteSets

CONSTANTS Workers,           \* -rpcthreads
          Acceptors,         \* the IPv6 and the IPv4 acceptor: {6, 4}
          RpcClients,        \* connections of clients
          Allowed,           \* clients ClientAllowed accepts
          MaxRequests        \* bound: requests of a connection

ASSUME RpcServerAssumption == 0 \notin RpcClients /\ Allowed \subseteq RpcClients /\ MaxRequests \in Nat

VARIABLES server,         \* "off", "on", "stopped", or "failed": no acceptor could listen
          listening,      \* acceptors that are open
          pending,        \* pending[a]: connection objects with an accept in progress
          ready,          \* completed accepts: <<a, client or 0 for an error>>
          worker,         \* worker[w]: [at, client, n], n requests served
          client,         \* client[c]: "new", "queued", "served", "closed"
          csMain          \* the worker that holds cs_main and cs_wallet, or 0

rpcVars == <<server, listening, pending, ready, worker, client, csMain>>

IdleWorker == [at |-> "idle", client |-> 0, n |-> 0, last |-> FALSE]

RpcInit ==
    /\ server = "off" /\ listening = {} /\ pending = [a \in Acceptors |-> 0] /\ ready = <<>>
    /\ worker = [w \in Workers |-> IdleWorker]
    /\ client = [c \in RpcClients |-> "new"] /\ csMain = <<>>

\* StartRPCThreads: IPv6 first; IPv4 too when it failed or only loopback is used (open).
StartRPCThreads ==
    /\ server = "off"
    /\ \E open \in SUBSET Acceptors :
         /\ listening' = open
         /\ pending' = [a \in Acceptors |-> IF a \in open THEN 1 ELSE 0]
         /\ server' = IF open = {} THEN "failed" ELSE "on"
    /\ UNCHANGED <<ready, worker, client, csMain>>

\* The system completes an accept, or reports an error for it.
AcceptDone(a) ==
    /\ a \in listening /\ pending[a] > 0 /\ server # "stopped"
    /\ pending' = [pending EXCEPT ![a] = @ - 1]
    /\ \/ /\ Len(ready) < Cardinality(RpcClients)
          /\ ready' = Append(ready, <<a, 0>>) /\ UNCHANGED client
       \/ \E c \in RpcClients :
            /\ client[c] = "new"
            /\ client' = [client EXCEPT ![c] = "queued"] /\ ready' = Append(ready, <<a, c>>)
    /\ UNCHANGED <<server, listening, worker, csMain>>

\* Variant: after an error the acceptor is not armed again.
HandlerArmsAfterSuccess(w) ==
    /\ server = "on" /\ worker[w].at = "idle" /\ ready # <<>>
    /\ LET c == Head(ready)[2] IN
       /\ pending' = IF c = 0 THEN pending ELSE [pending EXCEPT ![Head(ready)[1]] = @ + 1]
       /\ worker' = IF c \in Allowed THEN [worker EXCEPT ![w] = [@ EXCEPT !.at = "read", !.client = c]] ELSE worker
       /\ client' = IF c = 0 THEN client
                    ELSE [client EXCEPT ![c] = IF c \in Allowed THEN "served" ELSE "closed"]
    /\ ready' = Tail(ready)
    /\ UNCHANGED <<server, listening, csMain>>

\* RPCAcceptHandler: a new accept is started first; then the connection is refused or served.
RPCAcceptHandler(w) ==
    /\ server = "on" /\ worker[w].at = "idle" /\ ready # <<>>
    /\ LET c == Head(ready)[2] IN
       /\ pending' = [pending EXCEPT ![Head(ready)[1]] = @ + 1]
       /\ worker' = IF c \in Allowed THEN [worker EXCEPT ![w] = [@ EXCEPT !.at = "read", !.client = c]] ELSE worker
       /\ client' = IF c = 0 THEN client
                    ELSE [client EXCEPT ![c] = IF c \in Allowed THEN "served" ELSE "closed"]
    /\ ready' = Tail(ready)
    /\ UNCHANGED <<server, listening, csMain>>

CloseConn(w) ==
    /\ client' = [client EXCEPT ![worker[w].client] = "closed"]
    /\ worker' = [worker EXCEPT ![w] = IdleWorker]

\* ServiceConnection: the request is not HTTP, or for another page, or without the password.
RefuseRequest(w) ==
    /\ worker[w].at = "read" /\ CloseConn(w)
    /\ UNCHANGED <<server, listening, pending, ready, csMain>>

\* A request, or a batch, that is authorised; last: "connection: close".
ReadRequest(w) ==
    /\ worker[w].at = "read" /\ worker[w].n < MaxRequests
    /\ \E last \in BOOLEAN, safe \in BOOLEAN :
         worker' = [worker EXCEPT ![w] = [@ EXCEPT !.at = IF safe THEN "run" ELSE "lock", !.last = last]]
    /\ UNCHANGED <<server, listening, pending, ready, client, csMain>>

\* LOCK2(cs_main, cs_wallet) for a command that is not threadSafe.
LockForCommand(w) ==
    /\ worker[w].at = "lock" /\ csMain = <<>>
    /\ csMain' = <<w>> /\ worker' = [worker EXCEPT ![w].at = "run"]
    /\ UNCHANGED <<server, listening, pending, ready, client>>

\* The command returns, or throws: an error outside a batch ends the connection.
FinishCommand(w) ==
    /\ worker[w].at = "run"
    /\ csMain' = IF csMain = <<w>> THEN <<>> ELSE csMain
    /\ \/ CloseConn(w)
       \/ /\ ~worker[w].last
          /\ worker' = [worker EXCEPT ![w].at = "read", ![w].n = @ + 1]
          /\ UNCHANGED client
    /\ UNCHANGED <<server, listening, pending, ready>>

\* StopRPCThreads: io_service::stop; handlers that wait are not run any more.  (After a failed
\* start the worker group does not exist: the join of the code goes through a null pointer.)
StopRPCThreads ==
    /\ server = "on" /\ server' = "stopped"
    /\ UNCHANGED <<listening, pending, ready, worker, client, csMain>>

RpcNext ==
    \/ StartRPCThreads \/ StopRPCThreads
    \/ \E a \in Acceptors : AcceptDone(a)
    \/ \E w \in Workers : \/ RPCAcceptHandler(w) \/ RefuseRequest(w) \/ ReadRequest(w)
                          \/ LockForCommand(w) \/ FinishCommand(w)

RpcSpec == RpcInit /\ [][RpcNext]_rpcVars
----------------------------------------------------------------------------
\* Whatever errors and connections come, an open acceptor always has exactly one accept in progress
\* or waiting for its handler, so the server never goes deaf; a client is served by one worker; and
\* the locks are held only by a worker that is running a command.
ServerListens ==
    /\ \A a \in listening :
         pending[a] + Cardinality({i \in DOMAIN ready : ready[i][1] = a}) = 1
    /\ \A c \in RpcClients :
         Cardinality({w \in Workers : worker[w].client = c}) = IF client[c] = "served" THEN 1 ELSE 0
    /\ csMain # <<>> => worker[csMain[1]].at = "run"
=============================================================================
