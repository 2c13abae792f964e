----------------------------- MODULE NumberFacts -----------------------------
(***************************************************************************)
(* Facts about numbers that several proofs need: the least one of a set,   *)
(* induction over 0..n for the numbers of a set, that a function defined   *)
(* from each number to the next exists (a loop over a vector), and what    *)
(* division and multiplication by a width do.                              *)
(***************************************************************************)
EXTENDS Integers, WellFoundedInduction, TLAPS

\* Every set of natural numbers has a least one.
LEMMA LeastNumber ==
    ASSUME NEW S \in SUBSET Nat, S # {}
    PROVE  \E x \in S : \A y \in S : x <= y
<1> DEFINE R == OpToRel(<, Nat)
<1>1. IsWellFoundedOn(R, Nat)
  BY NatLessThanWellFounded
<1>2. \A x, y \in Nat : <<y, x>> \notin R => x <= y
  BY DEF OpToRel
<1> HIDE DEF R
<1>3. \E x \in S : \A y \in S : ~ (<<y, x>> \in R)
  BY <1>1, WFMin
<1> QED  BY <1>2, <1>3

\* One unfolding of a recursive function over 0..n.
UnfoldOver(n, x0, T, g) == [i \in 0..n |-> IF i = 0 THEN x0 ELSE T[<<i, g[i - 1]>>]]

\* Induction over 0..n, for the numbers of a set.
LEMMA UpTo ==
    ASSUME NEW n \in Nat, NEW S, 0 \in S, \A i \in 1..n : i - 1 \in S => i \in S
    PROVE  \A i \in 0..n : i \in S
<1> DEFINE Bad == {i \in Nat : i \in 0..n /\ i \notin S}
<1>1. Bad \in SUBSET Nat
  OBVIOUS
<1>2. \A i \in Bad : i \in 0..n /\ i \notin S
  OBVIOUS
<1>3. \A i \in 0..n : i \notin S => i \in Bad
  OBVIOUS
<1> HIDE DEF Bad
<1>4. ASSUME Bad # {} PROVE FALSE
  <2>1. PICK m \in Bad : \A k \in Bad : m <= k
    BY <1>1, <1>4, LeastNumber
  <2>2. m \in 1..n /\ m - 1 \in 0..n /\ m - 1 \notin Bad
    BY <1>1, <1>2, <2>1
  <2> QED  BY <1>2, <1>3, <2>1, <2>2
<1> QED  BY <1>3, <1>4

\* A loop over the values X that starts with x0 and makes the turns 1..n.
LoopOver(X, x0, n, T) == x0 \in X /\ n \in Nat /\ T \in [(1..n) \X X -> X]

\* A function defined from each number to the next exists: the values after every turn.
LEMMA FiniteRecursion ==
    ASSUME NEW X, NEW x0, NEW n, NEW T, LoopOver(X, x0, n, T)
    PROVE  \E g \in [0..n -> X] : g = UnfoldOver(n, x0, T, g)
<1> x0 \in X /\ n \in Nat /\ T \in [(1..n) \X X -> X]
  BY DEF LoopOver
<1> DEFINE Good(m, g) == g \in [0..m -> X] /\ \A i \in 0..m : g[i] = IF i = 0 THEN x0 ELSE T[<<i, g[i - 1]>>]
           S == {m \in 0..n : \E g : Good(m, g)}
<1> HIDE DEF Good
<1>1. \A i \in 0..n : i \in S
  <2>1. 0 \in S
    <3> DEFINE g == [i \in 0..0 |-> x0]
    <3>1. Good(0, g)
      BY DEF Good
    <3> QED  BY <3>1
  <2>2. ASSUME NEW m \in 1..n, m - 1 \in S PROVE m \in S
    <3>1. m - 1 \in 0..n /\ m \in 0..n /\ m # 0
      OBVIOUS
    <3>2. PICK h : Good(m - 1, h)
      BY <2>2
    <3>3. h[m - 1] \in X /\ T[<<m, h[m - 1]>>] \in X
      BY <3>1, <3>2 DEF Good
    <3> DEFINE g == [i \in 0..m |-> IF i = m THEN T[<<m, h[m - 1]>>] ELSE h[i]]
    <3>4. \A i \in 0..m : g[i] = IF i = m THEN T[<<m, h[m - 1]>>] ELSE h[i]
      OBVIOUS
    <3>5. g \in [0..m -> X]
      BY <3>1, <3>2, <3>3 DEF Good
    <3> HIDE DEF g
    <3>6. ASSUME NEW i \in 0..m PROVE g[i] = IF i = 0 THEN x0 ELSE T[<<i, g[i - 1]>>]
      <4>1. CASE i = m
        BY <3>1, <3>4, <4>1
      <4>2. CASE i # m
        <5>1. i \in 0..(m - 1) /\ g[i] = h[i] /\ (i # 0 => i - 1 \in 0..m /\ i - 1 # m)
          BY <3>1, <3>4, <4>2
        <5>2. h[i] = IF i = 0 THEN x0 ELSE T[<<i, h[i - 1]>>]
          BY <3>2, <5>1 DEF Good
        <5> QED  BY <3>4, <5>1, <5>2
      <4> QED  BY <4>1, <4>2
    <3>7. Good(m, g)
      BY <3>5, <3>6 DEF Good
    <3> QED  BY <3>1, <3>7
  <2> HIDE DEF S
  <2> QED  BY <2>1, <2>2, UpTo
<1>2. PICK g : Good(n, g)
  BY <1>1
<1>3. g = UnfoldOver(n, x0, T, g)
  BY <1>2 DEF UnfoldOver, Good
<1> QED  BY <1>2, <1>3 DEF Good

\* Division and multiplication by the width of a block, a byte or a page.
LEMMA DivMod ==
    ASSUME NEW x \in Nat, NEW w \in Nat \ {0}
    PROVE  x \div w \in Nat /\ x % w \in 0..(w - 1) /\ x = (x \div w) * w + (x % w)
  BY SMTT(30)

\* More blocks are not smaller, and one more block is its width more.
LEMMA TimesGrows ==
    ASSUME NEW a \in Nat, NEW b \in Nat, a <= b, NEW w \in Nat \ {0}
    PROVE  a * w <= b * w /\ a <= a * w /\ (a + 1) * w = a * w + w /\ a * w \in Nat
  BY SMTT(30)
==============================================================================
