------------------------------ MODULE MCWallet ------------------------------
(***************************************************************************)
(* Instances of the modules of what a node keeps in its files, the wallet  *)
(* and the addresses it knows, side by side: a behaviour is one of the     *)
(* module named by part, and the others stay where they are.               *)
(***************************************************************************)
EXTENDS DbEnv, WalletKeys, CoinSelect, WalletTxs, PeersDat, TLC

CONSTANTS a1, a2

VARIABLE part

MCCopyOf == 21 :> 11

NothingSaved == {NoFile}

\* For NewBucketsBounded: a file of a version with three new buckets, where each of two
\* addresses that a1 told us about has a bucket of its own.
SavedEntry(a) == [addr |-> a, port |-> 1, source |-> a1, nTime |-> 1, nLastSuccess |-> 0, nAttempts |-> 0]
OtherVersion == {[nUBuckets |-> 3, new |-> <<SavedEntry(a1), SavedEntry(a2)>>, tried |-> << >>,
                  buckets |-> [b \in {0, 1, 2} |-> IF b = 2 THEN {} ELSE {b}]]}

MCInit ==
  /\ part \in {"environment", "keys", "selection", "transactions", "upgrade", "groups", "addresses"}
  /\ DbInit /\ TxInit /\ ItemsInit /\ InitFile
  /\ WalletInit /\ (part # "keys" => nKey = 0)
  /\ IF part = "groups" THEN GroupInit
     ELSE groupings = {} /\ toMerge = {} /\ group = <<>> /\ setmap = <<>>
  /\ IF part = "selection" THEN SelectInit ELSE vCoins = <<>> /\ nPay = 1 /\ built = <<>>

peersVars == <<vars, fileVars>>

MCNext ==
  /\ UNCHANGED part
  /\ \/ part = "environment"  /\ DbNext     /\ UNCHANGED <<walletVars, selectVars, txVars, itemVars, groupVars, peersVars>>
     \/ part = "keys"         /\ WalletNext /\ UNCHANGED <<dbVars, selectVars, txVars, itemVars, groupVars, peersVars>>
     \/ part = "selection"    /\ SelectNext /\ UNCHANGED <<dbVars, walletVars, txVars, itemVars, groupVars, peersVars>>
     \/ part = "transactions" /\ TxNext     /\ UNCHANGED <<dbVars, walletVars, selectVars, itemVars, groupVars, peersVars>>
     \/ part = "upgrade"      /\ ItemsNextStep /\ UNCHANGED <<dbVars, walletVars, selectVars, txVars, groupVars, peersVars>>
     \/ part = "groups"       /\ GroupNext /\ UNCHANGED <<dbVars, walletVars, selectVars, txVars, itemVars, peersVars>>
     \/ part = "addresses" /\ NextFile
          /\ UNCHANGED <<dbVars, walletVars, selectVars, txVars, itemVars, groupVars>>
=============================================================================
