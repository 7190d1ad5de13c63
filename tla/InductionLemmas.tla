--------------------------- MODULE InductionLemmas ---------------------------
(***************************************************************************)
(* Induction and recursion over the natural numbers, stated for sets and   *)
(* functions, so that the proofs of the other modules can cite them.       *)
(***************************************************************************)
EXTENDS Naturals, WellFoundedInduction, TLAPS

\* A set of natural numbers that is not empty has a least element.
LEMMA LeastExists ==
    ASSUME NEW S, S \subseteq Nat, S # {}
    PROVE  \E m \in S : \A n \in S : m <= n
<1> DEFINE R == OpToRel(<, Nat)
<1>1. \A x, y \in Nat : <<x, y>> \in R <=> x < y
  BY Zenon DEF OpToRel
<1>2. IsWellFoundedOn(R, Nat)
  BY NatLessThanWellFounded, Zenon
<1> HIDE DEF R
<1>3. PICK m \in S : \A n \in S : <<n, m>> \notin R
  BY <1>2, WFMin
<1>4. \A n \in S : ~(n < m) /\ n \in Nat /\ m \in Nat
  BY <1>1, <1>3
<1> QED  BY <1>4

\* A bounded one has a last element.
LEMMA LastExists ==
    ASSUME NEW n \in Nat, NEW S, S \subseteq 1..n, S # {}
    PROVE  \E m \in S : \A i \in S : i <= m
<1> DEFINE T == {n - i : i \in S}
<1>1. T \subseteq Nat /\ T # {}
  <2>1. \A i \in S : n - i \in Nat
    OBVIOUS
  <2> QED  BY <2>1
<1>2. PICK k \in T : \A j \in T : k <= j
  BY <1>1, LeastExists
<1>3. PICK m \in S : k = n - m
  BY <1>2
<1>4. \A i \in S : n - m <= n - i
  BY <1>2, <1>3
<1> QED  BY <1>4

\* Induction, for the set of the numbers that have the property.
LEMMA InductionOverNat ==
    ASSUME NEW S, 0 \in S, \A n \in Nat : n \in S => n + 1 \in S
    PROVE  \A n \in Nat : n \in S
<1> DEFINE T == {n \in Nat : n \notin S}
<1>1. SUFFICES ASSUME T # {} PROVE FALSE
  OBVIOUS
<1>2. PICK m \in T : \A n \in T : m <= n
  BY <1>1, LeastExists
<1>3. m # 0 /\ m \in Nat /\ m \notin S
  BY <1>2
<1>4. m - 1 \in Nat /\ m - 1 \notin T
  BY <1>2, <1>3
<1> QED  BY <1>3, <1>4

\* The same with the property of all lesser numbers at hand.
LEMMA StrongInduction ==
    ASSUME NEW S, \A n \in Nat : (\A m \in Nat : m < n => m \in S) => n \in S
    PROVE  \A n \in Nat : n \in S
<1> DEFINE T == {n \in Nat : n \notin S}
<1>1. SUFFICES ASSUME T # {} PROVE FALSE
  OBVIOUS
<1>2. PICK m \in T : \A n \in T : m <= n
  BY <1>1, LeastExists
<1>3. m \in Nat /\ m \notin S
  OBVIOUS
<1>4. \A n \in Nat : n < m => n \in S
  BY <1>2, <1>3
<1> QED  BY <1>3, <1>4

\* A value and a step for each number define a function.
IsRecursive(f, S, a, F) ==
    /\ f \in [Nat -> S]
    /\ f[0] = a
    /\ \A n \in Nat : f[n + 1] = F[n + 1][f[n]]

LEMMA RecursionOverNat ==
    ASSUME NEW S, NEW a \in S, NEW F \in [Nat -> [S -> S]]
    PROVE  \E f : IsRecursive(f, S, a, F)
<1> DEFINE Upto(h, n) == /\ h \in [Nat -> S]
                         /\ h[0] = a
                         /\ \A i \in Nat : i < n => h[i + 1] = F[i + 1][h[i]]
           Reached    == {n \in Nat : \E h \in [Nat -> S] : Upto(h, n)}
           Agreed     == {n \in Nat : \A g, h \in [Nat -> S], m \in Nat :
                                          n <= m /\ Upto(g, n) /\ Upto(h, m) => g[n] = h[n]}
<1>1. 0 \in Reached
  <2>1. Upto([i \in Nat |-> a], 0)
    OBVIOUS
  <2> QED  BY <2>1
<1>2. ASSUME NEW n \in Nat, n \in Reached PROVE n + 1 \in Reached
  <2>1. PICK h \in [Nat -> S] : Upto(h, n)
    BY <1>2
  <2> DEFINE g == [i \in Nat |-> IF i <= n THEN h[i] ELSE F[n + 1][h[n]]]
  <2>2. F[n + 1][h[n]] \in S
    OBVIOUS
  <2>3. g \in [Nat -> S] /\ g[0] = a
    BY <2>1, <2>2
  <2>4. ASSUME NEW i \in Nat, i < n + 1 PROVE g[i + 1] = F[i + 1][g[i]]
    <3>1. CASE i < n
      BY <2>1, <3>1
    <3>2. CASE i = n
      BY <3>2
    <3> QED  BY <2>4, <3>1, <3>2
  <2> HIDE DEF g
  <2>5. Upto(g, n + 1)
    BY <2>3, <2>4
  <2> QED  BY <2>3, <2>5
<1>3. \A n \in Nat : n \in Reached
  <2> HIDE DEF Reached
  <2> QED  BY <1>1, <1>2, InductionOverNat
<1>4. \A n \in Nat : n \in Agreed
  <2>1. 0 \in Agreed
    OBVIOUS
  <2>2. ASSUME NEW n \in Nat, n \in Agreed PROVE n + 1 \in Agreed
    <3>1. ASSUME NEW g \in [Nat -> S], NEW h \in [Nat -> S], NEW m \in Nat,
                 n + 1 <= m, Upto(g, n + 1), Upto(h, m)
          PROVE  g[n + 1] = h[n + 1]
      <4>1. Upto(g, n) /\ n <= m
        BY <3>1
      <4>2. g[n] = h[n]
        BY <2>2, <3>1, <4>1
      <4>3. g[n + 1] = F[n + 1][g[n]] /\ h[n + 1] = F[n + 1][h[n]]
        BY <3>1
      <4> QED  BY <4>2, <4>3
    <3> HIDE DEF Upto
    <3> QED  BY <3>1
  <2> HIDE DEF Agreed
  <2> QED  BY <2>1, <2>2, InductionOverNat
<1> DEFINE H(n) == CHOOSE h \in [Nat -> S] : Upto(h, n)
           f    == [n \in Nat |-> H(n)[n]]
<1>5. \A n \in Nat : H(n) \in [Nat -> S] /\ Upto(H(n), n)
  BY <1>3
<1> HIDE DEF H
<1>6. f \in [Nat -> S] /\ f[0] = a
  BY <1>5
<1>7. ASSUME NEW n \in Nat PROVE f[n + 1] = F[n + 1][f[n]]
  <2>1. H(n + 1)[n + 1] = F[n + 1][H(n + 1)[n]]
    BY <1>5
  <2>2. H(n)[n] = H(n + 1)[n]
    <3>1. n + 1 \in Nat /\ n <= n + 1
      OBVIOUS
    <3>2. /\ H(n) \in [Nat -> S] /\ H(n + 1) \in [Nat -> S]
          /\ Upto(H(n), n) /\ Upto(H(n + 1), n + 1)
      BY <1>5, <3>1
    <3>3. \A g, h \in [Nat -> S], m \in Nat : n <= m /\ Upto(g, n) /\ Upto(h, m) => g[n] = h[n]
      BY <1>4
    <3> HIDE DEF Upto
    <3> QED  BY <3>1, <3>2, <3>3
  <2> QED  BY <2>1, <2>2
<1> QED  BY <1>6, <1>7 DEF IsRecursive

\* The same up to a bound.
LEMMA InductionUpTo ==
    ASSUME NEW m \in Nat, NEW S, 0 \in S, \A n \in 1..m : n - 1 \in S => n \in S
    PROVE  \A n \in 0..m : n \in S
<1> DEFINE T == {n \in Nat : n <= m => n \in S}
<1>1. 0 \in T
  OBVIOUS
<1>2. ASSUME NEW n \in Nat, n \in T PROVE n + 1 \in T
  <2>1. CASE n + 1 \in 1..m
    <3>1. (n + 1) - 1 = n /\ n \in S
      BY <1>2, <2>1
    <3> QED  BY <2>1, <3>1
  <2>2. CASE n + 1 \notin 1..m
    BY <2>2
  <2> QED  BY <2>1, <2>2
<1> HIDE DEF T
<1>3. \A n \in Nat : n \in T
  BY <1>1, <1>2, InductionOverNat
<1> QED  BY <1>3 DEF T

IsRecursiveUpTo(m, f, S, a, F) ==
    /\ f \in [0..m -> S]
    /\ f[0] = a
    /\ \A n \in 1..m : f[n] = F[n][f[n - 1]]

LEMMA RecursionUpTo ==
    ASSUME NEW m \in Nat, NEW S, NEW a \in S, NEW F \in [1..m -> [S -> S]]
    PROVE  \E f : IsRecursiveUpTo(m, f, S, a, F)
<1> DEFINE G == [n \in Nat |-> [v \in S |-> IF n \in 1..m THEN F[n][v] ELSE v]]
<1>1. G \in [Nat -> [S -> S]]
  OBVIOUS
<1>2. \A n \in 1..m, v \in S : G[n][v] = F[n][v]
  OBVIOUS
<1> HIDE DEF G
<1>3. PICK h : IsRecursive(h, S, a, G)
  BY <1>1, RecursionOverNat
<1> DEFINE f == [n \in 0..m |-> h[n]]
<1>4. f \in [0..m -> S] /\ f[0] = a
  BY <1>3 DEF IsRecursive
<1>5. ASSUME NEW n \in 1..m PROVE f[n] = F[n][f[n - 1]]
  <2> DEFINE k == n - 1
  <2>1. k \in Nat /\ k \in 0..m /\ k + 1 = n
    OBVIOUS
  <2> HIDE DEF k
  <2>2. h[k + 1] = G[k + 1][h[k]] /\ h[k] \in S
    BY <1>3, <2>1 DEF IsRecursive
  <2>3. f[n] = F[n][f[k]]
    BY <1>2, <2>1, <2>2
  <2> QED  BY <2>3 DEF k
<1> QED  BY <1>4, <1>5 DEF IsRecursiveUpTo

\* Two functions that are recursive in the same way are equal.
StayEqual(m, f, g) ==
    /\ f[0] = g[0]
    /\ \A n \in 1..m : f[n - 1] = g[n - 1] => f[n] = g[n]

LEMMA RecursionIsUnique ==
    ASSUME NEW m \in Nat, NEW f, NEW g, StayEqual(m, f, g)
    PROVE  \A n \in 0..m : f[n] = g[n]
<1> DEFINE T == {n \in 0..m : f[n] = g[n]}
<1>1. 0 \in T
  BY DEF StayEqual
<1>2. \A n \in 1..m : n - 1 \in T => n \in T
  BY DEF StayEqual
<1> HIDE DEF T
<1>3. \A n \in 0..m : n \in T
  BY <1>1, <1>2, InductionUpTo
<1> QED  BY <1>3 DEF T

\* A function given on B, and elsewhere by its value at a lesser number.
IsDescent(f, S, B, a, down, F) ==
    /\ f \in [Nat -> S]
    /\ \A n \in Nat : f[n] = IF n \in B THEN a ELSE F[f[down[n]]]

LEMMA DescentDefined ==
    ASSUME NEW S, NEW B, NEW a \in S, NEW F \in [S -> S],
           NEW down \in [Nat -> Nat], \A n \in Nat : n \in B \/ down[n] < n
    PROVE  \E f : IsDescent(f, S, B, a, down, F)
<1> DEFINE T    == [Nat -> S]
           D(g) == [n \in Nat |-> IF n \in B THEN a ELSE F[g[down[n]]]]
           G    == [i \in Nat |-> [g \in T |-> D(g)]]
           start == [n \in Nat |-> a]
<1>1. start \in T
  OBVIOUS
<1>2. \A g \in T : D(g) \in T
  OBVIOUS
<1>3. \A g : \A n \in Nat : D(g)[n] = IF n \in B THEN a ELSE F[g[down[n]]]
  OBVIOUS
<1> HIDE DEF D, T, start
<1>4. G \in [Nat -> [T -> T]] /\ \A i \in Nat, g \in T : G[i][g] = D(g)
  BY <1>2
<1> HIDE DEF G
<1>5. PICK h : IsRecursive(h, T, start, G)
  BY <1>1, <1>4, RecursionOverNat
<1>6. /\ \A i \in Nat : h[i] \in T
      /\ \A i \in Nat : h[i + 1] = D(h[i])
  <2>1. \A i \in Nat : h[i] \in T /\ h[i + 1] = G[i + 1][h[i]]
    BY <1>5 DEF IsRecursive
  <2>2. \A i \in Nat : i + 1 \in Nat
    OBVIOUS
  <2> QED  BY <1>4, <2>1, <2>2
<1> DEFINE f == [n \in Nat |-> h[n + 1][n]]
           Stable == {n \in Nat : \A i \in Nat : n < i => h[i][n] = f[n]}
<1>7. ASSUME NEW n \in Nat, \A m \in Nat : m < n => m \in Stable
      PROVE  \A i \in Nat : n < i => h[i][n] = IF n \in B THEN a ELSE F[f[down[n]]]
  <2> SUFFICES ASSUME NEW i \in Nat, n < i
               PROVE  h[i][n] = IF n \in B THEN a ELSE F[f[down[n]]]
    OBVIOUS
  <2>1. i - 1 \in Nat /\ (i - 1) + 1 = i /\ n <= i - 1
    OBVIOUS
  <2>2. h[i] = D(h[i - 1])
    BY <1>6, <2>1
  <2>3. h[i][n] = IF n \in B THEN a ELSE F[h[i - 1][down[n]]]
    BY <1>3, <2>2
  <2>4. CASE n \notin B
    <3>1. down[n] \in Nat /\ down[n] < n
      BY <2>4
    <3>2. down[n] \in Stable /\ down[n] < i - 1
      BY <1>7, <2>1, <3>1
    <3>3. h[i - 1][down[n]] = f[down[n]]
      BY <2>1, <3>2
    <3> QED  BY <2>3, <3>3
  <2> QED  BY <2>3, <2>4
<1>8. ASSUME NEW n \in Nat, \A m \in Nat : m < n => m \in Stable
      PROVE  n \in Stable
  <2>1. f[n] = h[n + 1][n] /\ n + 1 \in Nat /\ n < n + 1
    OBVIOUS
  <2>2. \A i \in Nat : n < i => h[i][n] = f[n]
    <3> HIDE DEF f, Stable
    <3> QED  BY <1>7, <1>8, <2>1
  <2> QED  BY <2>2
<1>9. \A n \in Nat : n \in Stable
  <2> HIDE DEF Stable
  <2> QED  BY <1>8, StrongInduction
<1>10. ASSUME NEW n \in Nat PROVE f[n] = IF n \in B THEN a ELSE F[f[down[n]]]
  <2>1. f[n] = h[n + 1][n] /\ n + 1 \in Nat /\ n < n + 1
    OBVIOUS
  <2> HIDE DEF f, Stable
  <2> QED  BY <1>7, <1>9, <2>1
<1>11. f \in [Nat -> S]
  <2>1. \A n \in Nat : h[n + 1][n] \in S
    BY <1>6 DEF T
  <2> QED  BY <2>1
<1> HIDE DEF f
<1> QED  BY <1>10, <1>11 DEF IsDescent
=============================================================================
