----------------------------- MODULE MerkleTree -----------------------------
(***************************************************************************)
(* dust_coin/bitcoin_block.h, CBlock: the hash tree over the transactions  *)
(* of a block, kept in one vector level after level, and the branch that   *)
(* shows that a transaction is at its place in the block.                  *)
(*                                                                         *)
(* Hashing two values is pairing them: no two pairs collide.  The vectors  *)
(* count from 1 here, so a place i of the code is i + 1.                   *)
(***************************************************************************)
EXTENDS Integers, Sequences

CONSTANTS
  MaxBlockTx,   \* bound on the transactions of a block
  TxNames       \* the values transactions can have

VARIABLES
  vtx,          \* the hashes of the transactions of the block
  vMerkleTree   \* the tree, empty until it is built

merkleVars == <<vtx, vMerkleTree>>

MerkleInit == vtx = <<>> /\ vMerkleTree = <<>>

\* Half the nodes of a level, rounded up.
HalfOf(nSize) == (nSize + 1) \div 2

\* One turn of the loop of BuildMerkleTree, on the tree, the nodes below its last level and
\* the size of that level; an odd level's last node is paired with itself.
LevelAbove(s) ==
  IF s.nSize <= 1 THEN s
  ELSE [tree  |-> s.tree \o [k \in 1 .. HalfOf(s.nSize) |->
                               LET i == 2 * (k - 1)
                                   i2 == IF i + 1 <= s.nSize - 1 THEN i + 1 ELSE s.nSize - 1
                               IN <<s.tree[s.j + i + 1], s.tree[s.j + i2 + 1]>>],
        j     |-> s.j + s.nSize,
        nSize |-> HalfOf(s.nSize)]

\* The tree over some hashes: fewer turns than hashes lead to the root.
BuildLevels(hashes) ==
  LET turn[k \in 0 .. Len(hashes)] ==
        IF k = 0 THEN [tree |-> hashes, j |-> 0, nSize |-> Len(hashes)] ELSE LevelAbove(turn[k - 1])
  IN turn[Len(hashes)].tree

MerkleRoot(tree) == IF tree = <<>> THEN <<>> ELSE tree[Len(tree)]

\* nIndex ^ 1.
SiblingOf(nIndex) == IF nIndex % 2 = 1 THEN nIndex - 1 ELSE nIndex + 1

\* The variant that does not pair the last node of an odd level with itself.
SiblingLast(nIndex, nSize) == IF SiblingOf(nIndex) > nSize - 1 THEN nIndex - 1 ELSE SiblingOf(nIndex)

\* std::min(nIndex ^ 1, nSize - 1).
SiblingIn(nIndex, nSize) == IF SiblingOf(nIndex) > nSize - 1 THEN nSize - 1 ELSE SiblingOf(nIndex)

\* One turn of the loop of GetMerkleBranch.
BranchAbove(tree, s) ==
  IF s.nSize <= 1 THEN s
  ELSE [branch |-> Append(s.branch, tree[s.j + SiblingIn(s.nIndex, s.nSize) + 1]),
        nIndex |-> s.nIndex \div 2,
        j      |-> s.j + s.nSize,
        nSize  |-> HalfOf(s.nSize)]

\* The branch from a place in a tree over n hashes.
BranchLevels(tree, nIndex, n) ==
  LET turn[k \in 0 .. n] ==
        IF k = 0 THEN [branch |-> <<>>, nIndex |-> nIndex, j |-> 0, nSize |-> n]
        ELSE BranchAbove(tree, turn[k - 1])
  IN turn[n].branch

\* One turn of the loop of CheckMerkleBranch: hash on the side the index's bit tells.
HashAbove(s, otherside) ==
  [hash   |-> IF s.nIndex % 2 = 1 THEN <<otherside, s.hash>> ELSE <<s.hash, otherside>>,
   nIndex |-> s.nIndex \div 2]

CheckMerkleBranch(hash, branch, nIndex) ==
  IF nIndex = -1 THEN <<>>
  ELSE LET turn[k \in 0 .. Len(branch)] ==
             IF k = 0 THEN [hash |-> hash, nIndex |-> nIndex] ELSE HashAbove(turn[k - 1], branch[k])
       IN turn[Len(branch)].hash

-----------------------------------------------------------------------------
\* vtx.push_back: it leaves the tree alone, so a block is filled before its tree is built.
AddTx(t) ==
  /\ Len(vtx) < MaxBlockTx
  /\ vMerkleTree = <<>>
  /\ vtx' = Append(vtx, <<t>>)
  /\ UNCHANGED vMerkleTree

BuildMerkleTree ==
  /\ vMerkleTree' = BuildLevels(vtx)
  /\ UNCHANGED vtx

SetNullBlock == vtx' = <<>> /\ vMerkleTree' = <<>>

MerkleNext == (\E t \in TxNames : AddTx(t)) \/ BuildMerkleTree \/ SetNullBlock

MerkleSpec == MerkleInit /\ [][MerkleNext]_merkleVars

GetMerkleBranch(nIndex) ==
  BranchLevels(IF vMerkleTree = <<>> THEN BuildLevels(vtx) ELSE vMerkleTree,
               nIndex, Len(vtx))

-----------------------------------------------------------------------------
\* The branch of every transaction of a block, of whatever length, leads from its hash to
\* the block's Merkle root, and from the hash of a different transaction to another root.
BranchProves ==
  \A i \in 0 .. Len(vtx) - 1 :
    LET root == MerkleRoot(BuildLevels(vtx))
    IN /\ CheckMerkleBranch(vtx[i + 1], GetMerkleBranch(i), i) = root
       /\ \A t \in TxNames : <<t>> # vtx[i + 1] =>
            CheckMerkleBranch(<<t>>, GetMerkleBranch(i), i) # root
=============================================================================
