------------------------------ MODULE Induction ------------------------------
(***************************************************************************)
(* Induction over numbers in the form the proofs of this project use it:   *)
(* for a set that is given, as the library's theorems take a predicate as  *)
(* their parameter; and the least and greatest elements of sets.           *)
(***************************************************************************)
EXTENDS Integers, FiniteSetsExt, WellFoundedInduction, TLAPS

\* A set of natural numbers that is not empty has a least element.
LEMMA LeastNumber ==
  ASSUME NEW T, T \subseteq Nat, T # {}
  PROVE  \E n \in T : \A m \in T : n <= m
<1> DEFINE Less == {ss \in Nat \X Nat : ss[1] < ss[2]}
<1>1. IsWellFoundedOn(Less, Nat)
  BY NatLessThanWellFounded DEF OpToRel
<1>2. PICK n \in T : \A m \in T : ~ (<<m, n>> \in Less)
  <2> HIDE DEF Less
  <2> QED BY <1>1, WFMin
<1>3. ASSUME NEW m \in T PROVE n <= m
  <2>1. m \in Nat /\ n \in Nat /\ ~ (<<m, n>> \in Less)
    BY <1>2
  <2>2. m < n => <<m, n>> \in Less
    BY <2>1
  <2> QED BY <2>1, <2>2
<1> QED BY <1>2, <1>3

\* Induction up to n: the least number that is not in T would have a
\* predecessor that is.
LEMMA InductionUpTo ==
  ASSUME NEW n \in Nat, NEW T, 0 \in T, \A i \in 0 .. n - 1 : i \in T => i + 1 \in T
  PROVE  \A i \in 0 .. n : i \in T
<1> DEFINE Out == {i \in 0 .. n : i \notin T}
<1> SUFFICES ASSUME Out # {} PROVE FALSE
  OBVIOUS
<1>1. PICK i \in Out : \A j \in Out : i <= j
  <2>1. Out \subseteq Nat
    OBVIOUS
  <2> HIDE DEF Out
  <2> QED BY <2>1, LeastNumber
<1>2. i # 0 /\ i - 1 \in 0 .. n - 1
  BY <1>1
<1>3. i - 1 \in T
  BY <1>1, <1>2
<1>4. (i - 1) + 1 \in T
  BY <1>2, <1>3
<1> QED BY <1>1, <1>4

\* The greatest element, if there is one.
LEMMA MaxIs ==
  ASSUME NEW T, T \subseteq Nat, NEW m \in T, \A n \in T : m >= n
  PROVE  Max(T) = m
<1>1. Max(T) \in T /\ \A n \in T : Max(T) >= n
  BY DEF Max
<1>2. Max(T) >= m /\ m >= Max(T) /\ m \in Nat /\ Max(T) \in Nat
  BY <1>1
<1> QED BY <1>2

\* The least element, if there is one.
LEMMA MinIs ==
  ASSUME NEW T, T \subseteq Nat, NEW m \in T, \A n \in T : m <= n
  PROVE  Min(T) = m
<1>1. Min(T) \in T /\ \A n \in T : Min(T) <= n
  BY DEF Min
<1>2. Min(T) <= m /\ m <= Min(T) /\ m \in Nat /\ Min(T) \in Nat
  BY <1>1
<1> QED BY <1>2

\* A set of numbers with an upper bound has a greatest element.
LEMMA MaxExists ==
  ASSUME NEW T, NEW b \in Nat, T \subseteq 0 .. b, T # {}
  PROVE  Max(T) \in T /\ \A n \in T : Max(T) >= n
<1> DEFINE U == {b - n : n \in T}
<1>1. U \subseteq Nat /\ U # {}
  <2>1. ASSUME NEW n \in T PROVE b - n \in Nat
    <3>1. n \in 0 .. b
      OBVIOUS
    <3> QED BY <3>1
  <2> QED BY <2>1
<1>2. PICK u \in U : \A v \in U : u <= v
  <2> HIDE DEF U
  <2> QED BY <1>1, LeastNumber
<1>3. PICK m \in T : u = b - m
  BY <1>2
<1>4. ASSUME NEW n \in T PROVE m >= n
  <2>1. b - n \in U /\ n \in Nat /\ m \in Nat
    OBVIOUS
  <2> HIDE DEF U
  <2> QED BY <1>2, <1>3, <2>1
<1> QED BY <1>3, <1>4 DEF Max

\* The values of a recursion up to n that starts with a and goes on with G.
StepsOn(G, n, S) == G \in [1 .. n -> [S -> S]]
RecursiveUpTo(F, n, S, a, G) ==
    F \in [0 .. n -> S] /\ F[0] = a /\ \A k \in 1 .. n : F[k] = G[k][F[k - 1]]

\* They exist.
LEMMA Recursion ==
  ASSUME NEW n \in Nat, NEW S, NEW a \in S, NEW G, StepsOn(G, n, S)
  PROVE  \E F : RecursiveUpTo(F, n, S, a, G)
<1>0. G \in [1 .. n -> [S -> S]]
  BY DEF StepsOn
<1> DEFINE P(F, m) == F[0] = a /\ \A k \in 1 .. m : F[k] = G[k][F[k - 1]]
           T == {m \in 0 .. n : \E F \in [0 .. m -> S] : P(F, m)}
<1>1. 0 \in T
  <2>1. [k \in 0 .. 0 |-> a] \in [0 .. 0 -> S] /\ P([k \in 0 .. 0 |-> a], 0)
    OBVIOUS
  <2> HIDE DEF P
  <2> QED BY <2>1
<1>2. ASSUME NEW m \in 0 .. n - 1, m \in T PROVE m + 1 \in T
  <2>1. PICK F \in [0 .. m -> S] : P(F, m)
    <3> HIDE DEF P
    <3> QED BY <1>2
  <2> DEFINE H == [k \in 0 .. m + 1 |-> IF k <= m THEN F[k] ELSE G[m + 1][F[m]]]
  <2>2. m + 1 \in 0 .. n /\ m + 1 \in 1 .. n /\ m \in 0 .. m /\ 0 \in 0 .. m + 1 /\ 0 <= m
    OBVIOUS
  <2>3. H \in [0 .. m + 1 -> S]
    <3>1. F[m] \in S /\ G[m + 1] \in [S -> S]
      BY <1>0, <2>2
    <3>2. G[m + 1][F[m]] \in S
      BY <3>1
    <3>3. ASSUME NEW k \in 0 .. m + 1 PROVE (IF k <= m THEN F[k] ELSE G[m + 1][F[m]]) \in S
      <4>1. k <= m => k \in 0 .. m
        OBVIOUS
      <4> QED BY <3>2, <4>1
    <3> QED BY <3>3
  <2>4. H[0] = a
    BY <2>1, <2>2
  <2>5. ASSUME NEW k \in 1 .. m + 1 PROVE H[k] = G[k][H[k - 1]]
    <3>1. k \in 0 .. m + 1 /\ k - 1 \in 0 .. m + 1 /\ k - 1 <= m
      OBVIOUS
    <3>2. H[k - 1] = F[k - 1]
      BY <3>1
    <3>3. CASE k <= m
      <4>1. k \in 1 .. m
        BY <3>3
      <4>2. F[k] = G[k][F[k - 1]]
        BY <2>1, <4>1
      <4>3. H[k] = F[k]
        BY <3>1, <3>3
      <4> QED BY <3>2, <4>2, <4>3
    <3>4. CASE ~ (k <= m)
      <4>1. k = m + 1 /\ k - 1 = m
        BY <3>4
      <4>2. H[k] = G[m + 1][F[m]]
        BY <3>1, <3>4
      <4> QED BY <3>2, <4>1, <4>2
    <3> QED BY <3>3, <3>4
  <2>6. P(H, m + 1)
    <3> HIDE DEF H
    <3> QED BY <2>4, <2>5
  <2> HIDE DEF H, P
  <2> QED BY <2>2, <2>3, <2>6
<1>3. n \in T
  <2> HIDE DEF T
  <2>1. \A m \in 0 .. n : m \in T
    BY <1>1, <1>2, InductionUpTo
  <2> QED BY <2>1
<1>4. PICK F \in [0 .. n -> S] : P(F, n)
  <2> HIDE DEF P
  <2> QED BY <1>3
<1> QED BY <1>4 DEF RecursiveUpTo
=============================================================================
