------------------------------ MODULE CoinStore ------------------------------
(***************************************************************************)
(* core.h, CCoins and CTxInUndo, and txdb.cpp, CCoinsViewDB: the unspent   *)
(* outputs of a transaction, how they are spent and what is kept to undo   *)
(* it, and the compact form in which both are stored.  The outputs are     *)
(* announced by a code and a bit vector whose trailing zero bytes are not  *)
(* stored, so the reader must find out where the vector ends.              *)
(*                                                                         *)
(* An output is the number of its place plus one, a spent one Spent (a     *)
(* null CTxOut).  A stream is a sequence of values: a VARINT or a byte of  *)
(* the mask is one element.                                                *)
(***************************************************************************)
EXTENDS Integers, Sequences, FiniteSets

CONSTANTS
  CoinTxs,      \* transaction ids
  MaskWidth,    \* outputs per mask byte (8 in the code)
  MaxOuts,      \* bound on the outputs of a transaction
  CoinHeights,  \* heights of blocks: positive, outputs of block 0 are not in the set
  MaxBatches    \* bound on the batches written

ASSUME CoinSizes == MaskWidth \in Nat \ {0} /\ MaxOuts \in Nat
ASSUME HeightsPositive == CoinHeights \subseteq Nat \ {0}

VARIABLES
  coinView,     \* the coins in memory, by transaction: the mapCoins of the next BatchWrite
  coinDisk,     \* the stored streams, by transaction
  bestDisk,     \* the stored hash of the best block
  lastBatch,    \* what the last BatchWrite was given: the coins and the block
  undos         \* the last undo record: what was spent, from which coins, and its stream

coinVars == <<coinView, coinDisk, bestDisk, lastBatch, undos>>

Spent == 0
NoCoins == [coinBase |-> FALSE, vout |-> <<>>, height |-> 0, version |-> 0]
Absent == <<>>

IsNull(vout, i) == i >= Len(vout) \/ vout[i + 1] = Spent     \* vout[i], counted from 0
IsPruned(c) == \A i \in 1 .. Len(c.vout) : c.vout[i] = Spent

\* CCoins::Cleanup: drop the spent outputs at the end.
Cleanup(vout) ==
  SubSeq(vout, 1, CHOOSE n \in 0 .. Len(vout) :
                    /\ \A i \in n + 1 .. Len(vout) : vout[i] = Spent
                    /\ n > 0 => vout[n] # Spent)

CoinInit ==
  /\ coinView = [t \in CoinTxs |-> NoCoins]
  /\ coinDisk = [t \in CoinTxs |-> Absent]
  /\ bestDisk = 0
  /\ lastBatch = [coins |-> coinView, best |-> 0]
  /\ undos = {}

-----------------------------------------------------------------------------
(* The stored form *)

\* Byte b of the unspentness vector, which starts at vout[2], from its last bit to its first.
MaskByte(vout, b) ==
  LET byte[k \in 0 .. MaskWidth] ==
        IF k = 0 THEN 0
        ELSE 2 * byte[k - 1]
               + (IF IsNull(vout, 2 + b * MaskWidth + (MaskWidth - k)) THEN 0 ELSE 1)
  IN byte[MaskWidth]

\* chAvail & (1 << p).
BitSet(byte, p) ==
  LET shifted[q \in 0 .. p] == IF q = 0 THEN byte ELSE shifted[q - 1] \div 2
  IN shifted[p] % 2 = 1

\* CCoins::CalcMaskSize: nBytes, up to the last byte with a bit set.
MaskBytes(vout) ==
  LET Used == {b \in 0 .. Len(vout) : MaskByte(vout, b) # 0}
  IN IF Used = {} THEN 0 ELSE 1 + CHOOSE b \in Used : \A c \in Used : c <= b

\* The variant that counts the bytes, zero ones included.
NonzeroAsBytes(vout) == MaskBytes(vout)

\* CCoins::CalcMaskSize: nNonzeroBytes.
NonzeroBytes(vout) == Cardinality({b \in 0 .. Len(vout) : MaskByte(vout, b) # 0})

\* The loop of CCoins::Serialize over the outputs: the spent ones are not stored.
Unspent(vout) ==
  LET kept[n \in 0 .. Len(vout)] ==
        IF n = 0 THEN <<>>
        ELSE IF vout[n] = Spent THEN kept[n - 1] ELSE Append(kept[n - 1], vout[n])
  IN kept[Len(vout)]

\* CCoins::Serialize; the assertion there is that a stored CCoins is not pruned.
Serialize(c) ==
  LET first == ~IsNull(c.vout, 0)
      second == ~IsNull(c.vout, 1)
      nCode == 8 * (NonzeroBytes(c.vout) - (IF first \/ second THEN 0 ELSE 1))
                 + (IF c.coinBase THEN 1 ELSE 0) + (IF first THEN 2 ELSE 0)
                 + (IF second THEN 4 ELSE 0)
  IN <<c.version, nCode>> \o [b \in 1 .. MaskBytes(c.vout) |-> MaskByte(c.vout, b - 1)]
       \o Unspent(c.vout) \o <<c.height>>

Malformed == [NoCoins EXCEPT !.version = -1]

\* CCoins::Unserialize: the vector ends with the byte that brings the number of non-zero
\* bytes to what the code announces; each bit set takes the next output of the stream.
Unserialize(s) ==
  LET nCode == s[2]
      announced == nCode \div 8 + (IF nCode % 8 \in {0, 1} THEN 1 ELSE 0)
      Ends == {m \in 0 .. Len(s) - 3 :
                 /\ Cardinality({k \in 3 .. m + 2 : s[k] # 0}) = announced
                 /\ m > 0 => s[m + 2] # 0}
      mask == CHOOSE m \in Ends : TRUE
      avail == [i \in 1 .. 2 + mask * MaskWidth |->
                  IF i = 1 THEN (nCode \div 2) % 2 = 1
                  ELSE IF i = 2 THEN (nCode \div 4) % 2 = 1
                  ELSE BitSet(s[3 + (i - 3) \div MaskWidth], (i - 3) % MaskWidth)]
      nth(i) == Cardinality({j \in 1 .. i : avail[j]})
      at(k) == 2 + mask + k
  IN IF Ends = {} \/ at(nth(Len(avail))) >= Len(s)
       THEN Malformed
       ELSE [coinBase |-> nCode % 2 = 1, version |-> s[1],
             height |-> s[at(nth(Len(avail))) + 1],
             vout |-> Cleanup([i \in DOMAIN avail |->
                                 IF avail[i] THEN s[at(nth(i))] ELSE Spent])]

\* CTxInUndo::Serialize and Unserialize: the version is there when the height is.
SerializeUndo(u) ==
  <<u.height * 2 + (IF u.coinBase THEN 1 ELSE 0)>>
    \o (IF u.height > 0 THEN <<u.version>> ELSE <<>>) \o <<u.txout>>

UnserializeUndo(s) ==
  LET height == s[1] \div 2
  IN [coinBase |-> s[1] % 2 = 1, height |-> height,
      version |-> IF height > 0 THEN s[2] ELSE 0, txout |-> s[Len(s)]]

-----------------------------------------------------------------------------
(* The operations *)

\* CCoins(tx, nHeight): the outputs of a new transaction.
CreateCoins(t, n, coinBase, height) ==
  /\ coinView[t] = NoCoins
  /\ coinView' = [coinView EXCEPT ![t] =
                    [coinBase |-> coinBase, vout |-> [i \in 1 .. n |-> i],
                     height |-> height, version |-> 1]]
  /\ UNCHANGED <<coinDisk, bestDisk, lastBatch, undos>>

\* CCoins::Spend, with the undo record it makes: the metadata goes in with the last output.
SpendOutput(t, n) ==
  /\ ~IsNull(coinView[t].vout, n)
  /\ LET c == coinView[t]
         vout == Cleanup([c.vout EXCEPT ![n + 1] = Spent])
         last == vout = <<>>
         undo == [txout |-> c.vout[n + 1],
                  height |-> IF last THEN c.height ELSE 0,
                  coinBase |-> last /\ c.coinBase,
                  version |-> IF last THEN c.version ELSE 0]
     IN /\ coinView' = [coinView EXCEPT ![t].vout = vout]
        /\ undos' = {[n |-> n, from |-> c, stream |-> SerializeUndo(undo)]}
  /\ UNCHANGED <<coinDisk, bestDisk, lastBatch>>

\* CCoinsViewDB::BatchWrite: one batch of BatchWriteCoins for every coin, and the block.
BatchWrite(setBest) ==
  /\ lastBatch.best < MaxBatches
  /\ coinDisk' = [t \in CoinTxs |-> IF IsPruned(coinView[t]) THEN Absent
                                                             ELSE Serialize(coinView[t])]
  /\ bestDisk' = IF setBest THEN bestDisk + 1 ELSE bestDisk
  /\ lastBatch' = [coins |-> coinView, best |-> IF setBest THEN lastBatch.best + 1
                                                           ELSE lastBatch.best]
  /\ UNCHANGED <<coinView, undos>>

\* CCoinsViewDB::GetCoins and HaveCoins.
GetCoins(t) == IF coinDisk[t] = Absent THEN NoCoins ELSE Unserialize(coinDisk[t])

\* A restart: what memory held is gone and the coins are read again.
ReloadCoins ==
  /\ coinView' = [t \in CoinTxs |-> GetCoins(t)]
  /\ undos' = {}
  /\ UNCHANGED <<coinDisk, bestDisk, lastBatch>>

CoinNext ==
  \/ \E t \in CoinTxs, n \in 1 .. MaxOuts, b \in BOOLEAN, h \in CoinHeights :
       CreateCoins(t, n, b, h)
  \/ \E t \in CoinTxs, n \in 0 .. MaxOuts - 1 : SpendOutput(t, n)
  \/ \E setBest \in BOOLEAN : BatchWrite(setBest)
  \/ ReloadCoins

CoinSpec == CoinInit /\ [][CoinNext]_coinVars

-----------------------------------------------------------------------------
\* Whatever outputs were spent and in whatever order, the coins read back are the coins of
\* the last batch, output by output with their metadata, a transaction is absent exactly
\* when all its outputs are spent, and an undo record read back has the output that was
\* spent at its place and, if nothing of the transaction was left, all the metadata needed
\* to bring it back.
CoinsExact ==
  /\ \A t \in CoinTxs : IF IsPruned(lastBatch.coins[t])
                          THEN coinDisk[t] = Absent
                          ELSE GetCoins(t) = lastBatch.coins[t]
  /\ bestDisk = lastBatch.best
  /\ \A u \in undos :
       LET undo == UnserializeUndo(u.stream)
           last == \A i \in 1 .. Len(u.from.vout) : i # u.n + 1 => u.from.vout[i] = Spent
       IN /\ undo.txout = u.n + 1
          /\ last => /\ undo.height = u.from.height
                     /\ undo.coinBase = u.from.coinBase
                     /\ undo.version = u.from.version
=============================================================================
