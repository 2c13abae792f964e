----------------------------- MODULE CoinSelect -----------------------------
(***************************************************************************)
(* Choosing the coins of a payment (SelectCoins, SelectCoinsMinConf,       *)
(* ApproximateBestSubset) and the fee loop of CreateTransaction, all in    *)
(* src/wallet.cpp; and the groups of addresses that payments have shown to *)
(* belong together (GetAddressGroupings).                                  *)
(*                                                                         *)
(* A coin is a record: nValue, nDepth, fromMe.  The random choices of the  *)
(* code are nondeterministic: an operator returns every result that some   *)
(* sequence of random bits gives.  A payment has one payee and stays below *)
(* 1000 bytes, where GetMinFee (external) asks for nothing or nMinTxFee.   *)
(***************************************************************************)
EXTENDS Integers, Sequences, FiniteSets, FiniteSetsExt

CONSTANTS CoinValues, Depths,       \* what the coins of the wallet may be
          Payments,                 \* amounts to pay
          CENT, nMinTxFee, nTransactionFee,
          DustLimit,                \* an output below it is dust
          MaxCoins,                 \* bound: coins in the wallet
          Addresses                 \* addresses of the wallet

ASSUME CoinSelectAssumption ==
    /\ CoinValues \cup Payments \subseteq Nat /\ Depths \subseteq Nat
    /\ {CENT, nMinTxFee, nTransactionFee, DustLimit, MaxCoins} \subseteq Nat

Coin == [nValue : CoinValues, nDepth : Depths, fromMe : BOOLEAN]

VARIABLES vCoins,      \* the coins, largest first
          nPay,        \* what is to be paid
          built,       \* what CreateTransaction can do: <<>>, then a record of it
          groupings,   \* GetAddressGroupings: the groups one by one, and those
          toMerge,     \* that its second loop has not reached
          group,       \* the sets that uniqueGroupings points to, by pointer
          setmap       \* the pointer by address

selectVars == <<vCoins, nPay, built>>
groupVars == <<groupings, toMerge, group, setmap>>

\* What the coins I of s are worth.
Total(s, I) ==
    LET sum[k \in 0 .. Len(s)] ==
            IF k = 0 THEN 0 ELSE sum[k - 1] + (IF k \in I THEN s[k].nValue ELSE 0)
    IN  sum[Len(s)]
----------------------------------------------------------------------------
\* One repetition of ApproximateBestSubset with the random bits R: pass 0 goes over the coins
\* of R, pass 1 over the others.  Every time the target is reached the sum is a candidate, and
\* the coin that reached it is left out again.
Turn(s, target, R, acc, i) ==
    IF ~(IF acc.pass = 0 THEN i \in R ELSE i \notin acc.in) THEN acc
    ELSE LET in == acc.in \cup {i} IN
         IF Total(s, in) < target THEN [acc EXCEPT !.in = in]
         ELSE [acc EXCEPT !.reached = TRUE, !.found = @ \cup {in}]

Pass(s, I, target, R, acc) ==
    LET turn[k \in 0 .. Len(s)] ==
            IF k = 0 THEN acc
            ELSE IF k \in I THEN Turn(s, target, R, turn[k - 1], k) ELSE turn[k - 1]
    IN  turn[Len(s)]

Repetition(s, I, target, R) ==
    LET first == Pass(s, I, target, R, [pass |-> 0, in |-> {}, found |-> {}, reached |-> FALSE])
    IN  IF first.reached THEN first.found
        ELSE Pass(s, I, target, R, [first EXCEPT !.pass = 1]).found

\* vfBest after some repetitions: all coins, or the candidate with the smallest sum.
ApproximateBestSubset(s, I, target) ==
    LET Best(F) == {S \in F : /\ \A T \in F : Total(s, S) <= Total(s, T)
                              /\ Total(s, S) < Total(s, I)}
    IN  {I} \cup UNION {Best(Repetition(s, I, target, R)) : R \in SUBSET I}

\* Variant: a sub-cent remainder is not tried again for a cent more.
SelectOnce(s, target, nConfMine, nConfTheirs) ==
    LET ok == {i \in DOMAIN s : s[i].nDepth >= (IF s[i].fromMe THEN nConfMine ELSE nConfTheirs)}
    IN  IF Total(s, ok) < target THEN {} ELSE ApproximateBestSubset(s, ok, target)

\* The sets SelectCoinsMinConf may return; none: it returns false.
SelectCoinsMinConf(s, target, nConfMine, nConfTheirs) ==
    LET ok == {i \in DOMAIN s : s[i].nDepth >= (IF s[i].fromMe THEN nConfMine ELSE nConfTheirs)}
        exact == {i \in ok : s[i].nValue = target}
        lower == {i \in ok : s[i].nValue < target + CENT}
        larger == ok \ lower
        lowestLarger == {{i} : i \in {j \in larger : \A k \in larger : s[j].nValue <= s[k].nValue}}
        total == Total(s, lower)
        Choice(best) ==
            LET nBest == Total(s, best) IN
            IF larger # {} /\ \/ nBest # target /\ nBest < target + CENT
                              \/ \E L \in lowestLarger : Total(s, L) <= nBest
            THEN lowestLarger ELSE {best}
        Second(best) ==
            IF Total(s, best) # target /\ total >= target + CENT
            THEN ApproximateBestSubset(s, lower, target + CENT) ELSE {best}
    IN  IF exact # {} THEN {{i} : i \in exact}
        ELSE IF total = target THEN {lower}
        ELSE IF total < target THEN lowestLarger
        ELSE UNION {Choice(c) : c \in UNION {Second(b) : b \in ApproximateBestSubset(s, lower, target)}}

SelectCoins(s, target) ==
    LET confs == <<<<1, 6>>, <<1, 1>>, <<0, 1>>>>
        FirstOf(sel) == IF sel[1] # {} THEN sel[1] ELSE IF sel[2] # {} THEN sel[2] ELSE sel[3]
    IN  FirstOf([k \in 1 .. 3 |-> SelectCoinsMinConf(s, target, confs[k][1], confs[k][2])])
----------------------------------------------------------------------------
\* One turn of CreateTransaction's loop with the fee nFeeRet: the transactions it can make,
\* with the fee that they then have to pay.
BuildTurn(s, nValue, nFeeRet) ==
    LET Moved(rest) == IF nFeeRet < nMinTxFee /\ rest > 0 /\ rest < CENT
                       THEN Min({rest, nMinTxFee - nFeeRet}) ELSE 0
        Dust(change) == IF change > 0 /\ change < DustLimit THEN change ELSE 0
        Change(rest) == rest - Moved(rest)
        Made(S, rest, n) ==
            [coins |-> S, nIn |-> Total(s, S), need |-> n, asked |-> nFeeRet,
             nChange |-> Change(rest) - Dust(Change(rest)),
             nFee |-> nFeeRet + Moved(rest) + Dust(Change(rest))]
    IN  {Made(S, Total(s, S) - nValue - nFeeRet, n) :
            S \in SelectCoins(s, nValue + nFeeRet),
            n \in {Max({nTransactionFee, 0}), Max({nTransactionFee, nMinTxFee})}}

\* The loop: too small a fee is raised to what is needed and everything is done again.  The
\* transactions it can make; whether it can fail, for an output that is dust or for too few
\* coins; and whether it can need more than the two turns.
CreateTransaction(s, nValue) ==
    LET first  == BuildTurn(s, nValue, nTransactionFee)
        raised == {BuildTurn(s, nValue, r.need) : r \in {x \in first : x.nFee < x.need}}
    IN  IF nValue < DustLimit THEN [made |-> {}, fails |-> TRUE, again |-> FALSE]
        ELSE [made  |-> {r \in first \cup UNION raised : r.nFee >= r.need},
              fails |-> first = {} \/ {} \in raised,
              again |-> \E r \in UNION raised : r.nFee < r.need]

SelectInit ==
    /\ vCoins \in UNION {[1 .. n -> Coin] : n \in 0 .. MaxCoins}
    /\ \A i \in 1 .. Len(vCoins) - 1 : vCoins[i].nValue >= vCoins[i + 1].nValue
    /\ nPay \in Payments
    /\ built = <<>>

Create == built = <<>> /\ built' = <<CreateTransaction(vCoins, nPay)>> /\ UNCHANGED <<vCoins, nPay>>

SelectNext == Create

SelectSpec == SelectInit /\ [][SelectNext]_selectVars
----------------------------------------------------------------------------
(* GetAddressGroupings.  A transaction of the wallet is the addresses of   *)
(* its inputs that are ours, of its change and of its outputs to us; the   *)
(* wallet has at most three.                                               *)

GroupTx ==
    {[mine |-> m, change |-> c, outs |-> {}] :
        m \in {S \in SUBSET Addresses : Cardinality(S) \in {1, 2}},
        c \in {S \in SUBSET Addresses : Cardinality(S) <= 1}}
    \cup {[mine |-> {}, change |-> {}, outs |-> {a}] : a \in Addresses}

\* The first loop: inputs and change together, every output to us by itself.
GroupingsOf(txs) ==
    {t.mine \cup t.change : t \in {u \in txs : u.mine # {}}}
    \cup UNION {{{a} : a \in t.outs} : t \in txs}

\* What one transaction links.
Links == {GroupingsOf({t}) : t \in GroupTx}

GroupInit ==
    /\ groupings \in {g \cup h \cup k : g, h, k \in Links}
    /\ toMerge = groupings /\ group = <<>> /\ setmap = <<>>

\* Variant: only the addresses of the new grouping are pointed to the merged group.
SetmapNew(g, merged, p) == [a \in g |-> p]

\* "update setmap": every element of the merged group.
SetmapUpdate(g, merged, p) == [a \in merged |-> p]

\* One turn of the second loop.  The groups hit are merged into a new one and deleted.
MergeGrouping(g) ==
    /\ g \in toMerge /\ toMerge' = toMerge \ {g}
    /\ LET hits   == {setmap[a] : a \in g \cap DOMAIN setmap}
           merged == g \cup UNION {group[h] : h \in hits}
           p      == CHOOSE n \in 1 .. Cardinality(groupings) : n \notin DOMAIN group
           update == SetmapUpdate(g, merged, p)
       IN  /\ group' = [n \in (DOMAIN group \ hits) \cup {p} |-> IF n = p THEN merged ELSE group[n]]
           /\ setmap' = [a \in DOMAIN setmap \cup DOMAIN update |->
                           IF a \in DOMAIN update THEN update[a] ELSE setmap[a]]
    /\ UNCHANGED groupings

GroupNext == \E g \in toMerge : MergeGrouping(g)

GroupSpec == GroupInit /\ [][GroupNext]_groupVars

\* setmap never points to a group that was deleted, and in the end the groups are exactly the
\* addresses that are linked: each address is in one, no grouping is divided, and no group
\* has two parts that nothing links.
GroupsExact ==
    /\ \A a \in DOMAIN setmap : setmap[a] \in DOMAIN group /\ a \in group[setmap[a]]
    /\ toMerge = {} =>
         LET ret == {group[n] : n \in DOMAIN group}
         IN  /\ UNION ret = UNION groupings
             /\ \A A, B \in ret : A # B => A \cap B = {}
             /\ \A g \in groupings : \E A \in ret : g \subseteq A
             /\ \A A \in ret : \A S \in (SUBSET A) \ {{}, A} :
                    \E g \in groupings : g \cap S # {} /\ g \cap (A \ S) # {}
----------------------------------------------------------------------------
(* What a payment promises, whatever the random bits.                      *)

Spendable == {i \in DOMAIN vCoins : vCoins[i].nDepth >= IF vCoins[i].fromMe THEN 0 ELSE 1}

\* CreateTransaction does not fail when the spendable coins reach the amount with the largest
\* fee, its loop ends, and what it builds spends exactly what it pays: the fee that is reported
\* is what is left between inputs and outputs, enough of a fee, and no dust as change.
PaymentExact ==
    built # <<>> =>
        /\ nPay >= DustLimit /\ Total(vCoins, Spendable) >= nPay + Max({nTransactionFee, nMinTxFee})
             => ~built[1].fails
        /\ ~built[1].again
        /\ \A r \in built[1].made :
             /\ r.coins \subseteq Spendable
             /\ r.nIn = Total(vCoins, r.coins) /\ r.nIn = nPay + r.nChange + r.nFee
             /\ r.nFee >= r.need
             /\ r.nChange = 0 \/ r.nChange >= DustLimit

\* The coins chosen leave no change below a cent when the confirmed coins of ours and the
\* settled ones of others could leave more (sub-cent change makes the payment cost a fee).
NoSmallChange ==
    built # <<>> => \A r \in built[1].made :
        LET settled == {i \in DOMAIN vCoins : vCoins[i].nDepth >= IF vCoins[i].fromMe THEN 1 ELSE 6}
            left == r.nIn - nPay - r.asked
        IN  Total(vCoins, settled) >= nPay + r.asked + CENT => left = 0 \/ left >= CENT

\* Both, for every wallet and every amount.
PaymentGood == PaymentExact /\ NoSmallChange
=============================================================================
