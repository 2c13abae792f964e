----------------------------- MODULE MCServices -----------------------------
(***************************************************************************)
(* Instances of modules that do not share state, side by side: a behaviour *)
(* is one of the module named by part, and the others stay where they are. *)
(***************************************************************************)
EXTENDS PeerSession, TxRelay, LocalAddrs, ProxyConnect, RpcServer, LockedPages, LockOrder,
        CoinStore, MerkleTree, TextCodes, TLC

CONSTANTS t1, t2, datum1, datum2

VARIABLE part

\* An alert of version 3 peers, one that cancels it and expires first, and one whose
\* signature is not good.
MCAlert(id, cancel, cancels, expiration, relayUntil, minVer, maxVer) ==
  [nID |-> id, nCancel |-> cancel, setCancel |-> cancels, nExpiration |-> expiration,
   nRelayUntil |-> relayUntil, nMinVer |-> minVer, nMaxVer |-> maxVer, setSubVer |-> {},
   signed |-> TRUE, urgent |-> FALSE]
MCAlerts == {MCAlert(1, 0, {}, 2, 1, 3, 3), MCAlert(2, 0, {1}, 1, 0, 2, 3),
             [MCAlert(9, 8, {}, 9, 9, 0, 9) EXCEPT !.signed = FALSE]}
MCVersions == {[nVersion |-> 1, strSubVer |-> "a"], [nVersion |-> 3, strSubVer |-> "a"]}
MCFarEnd == [p \in SPeers |-> p]
\* For SelfDetected, with a third peer "r": "p" and "q" are the two ends of one connection.
MCOurselves == [p \in SPeers |-> IF p = "p" THEN "q" ELSE IF p = "q" THEN "p" ELSE p]

\* Two transactions, the second spending an output of the first, and two pieces of data.
MCBits == (t1 :> {0} @@ t2 :> {1} @@ datum1 :> {2, 3} @@ datum2 :> {3, 4} @@ <<t1, 1>> :> {4, 5}
             @@ <<t1, 2>> :> {6, 7} @@ <<t2, 1>> :> {1, 6})
MCOuts == (t1 :> <<{datum1}, {datum2}>> @@ t2 :> <<{datum1}>>)
MCPaysKey == {<<t1, 1>>}
MCSpends == (t1 :> {} @@ t2 :> {<<t1, 2>>})
MCSigData == (t1 :> {} @@ t2 :> {})

MCAmounts == {-15000, -1, 0, 1, 10, 100, 5000, 10000, 12300, 9999999} \cup (99990 .. 100110)

MCNetOf == <<"ipv4", "ipv4", "ipv6">>
MCReachOf == [n \in {"p", "q"} |-> IF n = "p" THEN <<2, 2, 1>> ELSE <<1, 1, 2>>]
MCLimits == {{}, {"ipv6"}}

MCInit ==
  /\ part \in {"session", "relay", "addresses", "proxy", "rpc", "pages", "locks", "coins", "merkle",
              "texts"}
  /\ SessionInit /\ RpcInit /\ PagesInit /\ OrderInit /\ CoinInit /\ MerkleInit
  /\ CodeInit /\ (part # "texts" => code = "money")
  /\ RelayInit /\ (part # "relay" => \A p \in RPeers : fRelayTxes[p])
  /\ LocalInit /\ (part # "addresses" => discover /\ limited = {})
  /\ ProxyInit /\ (part # "proxy" => /\ \A n \in DOMAIN proxyInfo : proxyInfo[n] = 0
                                     /\ nameproxy = 0 /\ ~nameLookup)

netVars == <<sessionVars, relayVars, localVars, proxyVars>>
hostVars == <<rpcVars, pageVars, orderVars, coinVars, merkleVars, codeVars>>

MCNext ==
  /\ UNCHANGED part
  /\ \/ part = "session" /\ SessionNext
          /\ UNCHANGED <<relayVars, localVars, proxyVars, hostVars>>
     \/ part = "relay" /\ RelayNext
          /\ UNCHANGED <<sessionVars, localVars, proxyVars, hostVars>>
     \/ part = "addresses" /\ LocalNext
          /\ UNCHANGED <<sessionVars, relayVars, proxyVars, hostVars>>
     \/ part = "proxy" /\ ProxyNext
          /\ UNCHANGED <<sessionVars, relayVars, localVars, hostVars>>
     \/ part = "rpc" /\ RpcNext
          /\ UNCHANGED <<netVars, pageVars, orderVars, coinVars, merkleVars, codeVars>>
     \/ part = "pages" /\ PagesNext
          /\ UNCHANGED <<netVars, rpcVars, orderVars, coinVars, merkleVars, codeVars>>
     \/ part = "locks" /\ OrderNext
          /\ UNCHANGED <<netVars, rpcVars, pageVars, coinVars, merkleVars, codeVars>>
     \/ part = "coins" /\ CoinNext
          /\ UNCHANGED <<netVars, rpcVars, pageVars, orderVars, merkleVars, codeVars>>
     \/ part = "merkle" /\ MerkleNext
          /\ UNCHANGED <<netVars, rpcVars, pageVars, orderVars, coinVars, codeVars>>
     \/ part = "texts" /\ CodeNext
          /\ UNCHANGED <<netVars, rpcVars, pageVars, orderVars, coinVars, merkleVars>>
=============================================================================
