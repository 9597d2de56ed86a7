------------------------------ MODULE Induction ------------------------------
(***************************************************************************)
(* Induction over the natural numbers, stated of sets of numbers so that   *)
(* it can be used of any formula: the proofs about operators defined by    *)
(* recursion apply it to the set of numbers for which the formula holds.   *)
(***************************************************************************)
EXTENDS Integers, WellFoundedInduction, TLAPS

\* A set of natural numbers has a least element, unless it is empty.
LEMMA LeastNumber ==
    ASSUME NEW T \in SUBSET Nat, T # {}
    PROVE  \E x \in T : \A y \in T : x <= y
  <1> DEFINE R == OpToRel(<, Nat)
  <1>1. IsWellFoundedOn(R, Nat)
    BY NatLessThanWellFounded
  <1>2. \A x, y \in Nat : x < y => <<x, y>> \in R
    BY DEF OpToRel
  <1> HIDE DEF R
  <1>3. PICK x \in T : \A y \in T : ~(<<y, x>> \in R)
    BY <1>1, WFMin
  <1>4. ASSUME NEW y \in T PROVE x <= y
    <2>1. x \in Nat /\ y \in Nat
      OBVIOUS
    <2>2. ~(y < x)
      BY <1>2, <1>3, <2>1
    <2> QED BY <2>1, <2>2
  <1> QED BY <1>4

\* A set that has 0, and the successor of each number it has, has them all.
LEMMA SetInduction ==
    ASSUME NEW T \in SUBSET Nat, 0 \in T, \A n \in T : n + 1 \in T
    PROVE  \A n \in Nat : n \in T
  <1> SUFFICES ASSUME Nat \ T # {} PROVE FALSE
    OBVIOUS
  <1>1. PICK x \in Nat \ T : \A y \in Nat \ T : x <= y
    BY LeastNumber
  <1>2. x # 0 /\ x - 1 \in Nat
    BY <1>1
  <1>3. x - 1 \in T
    BY <1>1, <1>2
  <1>4. x - 1 + 1 \in T
    BY <1>3
  <1> QED BY <1>1, <1>4

\* The same for the numbers of a range.
LEMMA RangeInduction ==
    ASSUME NEW b \in Nat, NEW e \in Nat, NEW T, b \in T,
           \A i \in T : i \in b..(e - 1) => i + 1 \in T
    PROVE  \A i \in b..e : i \in T
  <1> DEFINE U == { n \in Nat : b + n <= e => b + n \in T }
  <1>1. U \in SUBSET Nat /\ 0 \in U
    OBVIOUS
  <1>2. ASSUME NEW n \in U PROVE n + 1 \in U
    <2>1. n \in Nat /\ (b + n <= e => b + n \in T)
      OBVIOUS
    <2>2. ASSUME b + (n + 1) <= e PROVE b + (n + 1) \in T
      <3>1. b + n <= e /\ b + n \in b..(e - 1) /\ b + (n + 1) = (b + n) + 1
        BY <2>1, <2>2
      <3> QED BY <2>1, <3>1
    <2> QED BY <2>1, <2>2
  <1>3. \A n \in Nat : n \in U
    <2> HIDE DEF U
    <2> QED BY <1>1, <1>2, SetInduction
  <1> SUFFICES ASSUME NEW i \in b..e PROVE i \in T
    OBVIOUS
  <1>4. i - b \in Nat /\ b + (i - b) = i /\ i <= e
    OBVIOUS
  <1> QED BY <1>3, <1>4

\* The rounds b+1..e of a loop, given by a function, stay in a set of values.
Rounds(F, V, b, e) == \A v \in V, i \in (b + 1)..e : F[<<v, i>>] \in V

\* g has the value before the loop and the values after its rounds.
Loop(g, s, F, V, b, e) ==
    /\ g \in [b..e -> V]
    /\ g[b] = s
    /\ \A i \in (b + 1)..e : g[i] = F[<<g[i - 1], i>>]

\* Every such loop has its values.
LEMMA Iterates ==
    ASSUME NEW V, NEW s \in V, NEW b \in Nat, NEW e \in Nat, b <= e,
           NEW F, Rounds(F, V, b, e)
    PROVE  \E g : Loop(g, s, F, V, b, e)
  <1> USE DEF Rounds, Loop
  <1> DEFINE T == { m \in b..e : \E g : Loop(g, s, F, V, b, m) }
  <1>1. b \in T
    <2> DEFINE g == [i \in b..b |-> s]
    <2>1. Loop(g, s, F, V, b, b)
      OBVIOUS
    <2> QED BY <2>1
  <1>2. ASSUME NEW m \in T, m \in b..(e - 1) PROVE m + 1 \in T
    <2>1. PICK g : Loop(g, s, F, V, b, m)
      OBVIOUS
    <2> DEFINE new == F[<<g[m], m + 1>>]
               h == [i \in b..(m + 1) |-> IF i = m + 1 THEN new ELSE g[i]]
    <2>2. m \in b..m /\ m + 1 \in (b + 1)..e /\ m + 1 \in b..e
      BY <1>2
    <2>3. new \in V
      BY <2>1, <2>2
    <2> HIDE DEF new
    <2>4. /\ h \in [b..(m + 1) -> V] /\ h[m + 1] = new
          /\ \A i \in b..m : h[i] = g[i]
      BY <1>2, <2>1, <2>3
    <2> HIDE DEF h
    <2>5. h[b] = s
      BY <1>2, <2>1, <2>4
    <2>6. ASSUME NEW i \in (b + 1)..(m + 1) PROVE h[i] = F[<<h[i - 1], i>>]
      <3>1. i - 1 \in b..m /\ h[i - 1] = g[i - 1]
        BY <1>2, <2>4
      <3>2. CASE i = m + 1
        <4>1. i - 1 = m
          BY <1>2, <3>2
        <4> QED BY <2>4, <3>1, <3>2, <4>1 DEF new
      <3>3. CASE i # m + 1
        <4>1. i \in b..m /\ i \in (b + 1)..m
          BY <1>2, <3>3
        <4> QED BY <2>1, <2>4, <3>1, <4>1
      <3> QED BY <3>2, <3>3
    <2>7. Loop(h, s, F, V, b, m + 1)
      BY <2>4, <2>5, <2>6
    <2> QED BY <2>2, <2>7
  <1>3. e \in T
    <2>1. e \in b..e
      OBVIOUS
    <2> HIDE DEF T
    <2> QED BY <1>1, <1>2, <2>1, RangeInduction
  <1> QED BY <1>3
=============================================================================
