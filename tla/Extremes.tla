------------------------------ MODULE Extremes ------------------------------
(***************************************************************************)
(* Least and greatest elements of sets of numbers, of which the library    *)
(* has the definitions (Min and Max of FiniteSetsExt) and no theorems; and *)
(* what follows from least elements: induction up to a bound, for a set    *)
(* instead of a predicate, and the existence of what a recursion defines.  *)
(***************************************************************************)
EXTENDS Integers, FiniteSetsExt, WellFoundedInduction, TLAPS

\* A nonempty set of natural numbers has a least one.
LEMMA MinExists ==
    ASSUME NEW S \in SUBSET Nat, S # {}
    PROVE  Min(S) \in S /\ \A i \in S : Min(S) <= i
<1>1. PICK x \in S : \A y \in S : ~ (<<y, x>> \in OpToRel(<, Nat))
  BY NatLessThanWellFounded, WFMin
<1>2. ASSUME NEW y \in S PROVE x <= y
  <2>1. ~ (y < x)
    BY <1>1 DEF OpToRel
  <2>2. QED
    BY <2>1
<1>3. QED
  BY <1>2 DEF Min

\* A nonempty set of natural numbers below a bound has a greatest one.
LEMMA MaxExists ==
    ASSUME NEW n \in Nat, NEW S \in SUBSET (0 .. n), S # {}
    PROVE  Max(S) \in S /\ \A i \in S : Max(S) >= i
<1> DEFINE T == {n - i : i \in S}
<1>1. T \in SUBSET Nat /\ T # {}
  <2>1. PICK i \in S : TRUE
    OBVIOUS
  <2>2. n - i \in T
    OBVIOUS
  <2>3. ASSUME NEW x \in T PROVE x \in Nat
    BY <2>3
  <2>4. QED
    BY <2>2, <2>3
<1>2. Min(T) \in T /\ \A x \in T : Min(T) <= x
  BY <1>1, MinExists
<1>3. PICK m \in S : Min(T) = n - m
  BY <1>2
<1>4. ASSUME NEW i \in S PROVE m >= i
  <2>1. n - m <= n - i
    BY <1>2, <1>3
  <2>2. QED
    BY <2>1
<1>5. QED
  BY <1>4 DEF Max

\* The largest element of a set is the one that none exceeds.
LEMMA MaxIs ==
    ASSUME NEW S \in SUBSET Int, NEW m \in S, \A x \in S : x <= m
    PROVE  Max(S) = m
<1>1. \E x \in S : \A y \in S : x >= y
  OBVIOUS
<1>2. Max(S) \in S /\ \A y \in S : Max(S) >= y
  BY <1>1, Zenon DEF Max
<1>3. ASSUME NEW M \in S, \A y \in S : M >= y PROVE M = m
  BY <1>3
<1>4. QED
  BY <1>2, <1>3

\* A set that holds 0, and each number whose predecessor it holds, holds all of them.
LEMMA UpTo ==
    ASSUME NEW N \in Nat, NEW S, 0 \in S, \A n \in 1 .. N : n - 1 \in S => n \in S
    PROVE  \A n \in 0 .. N : n \in S
<1> SUFFICES ASSUME NEW k \in 0 .. N, k \notin S PROVE FALSE
  OBVIOUS
<1> DEFINE Bad == (0 .. N) \ S
<1>1. Bad \in SUBSET Nat /\ Bad # {}
  OBVIOUS
<1>2. Min(Bad) \in Bad /\ \A i \in Bad : Min(Bad) <= i
  BY <1>1, MinExists
<1>3. PICK m \in Bad : \A i \in Bad : m <= i
  BY <1>2
<1>4. m \in 1 .. N /\ m - 1 \in 0 .. N /\ ~ (m <= m - 1)
  BY <1>3
<1>5. m - 1 \in S
  BY <1>3, <1>4
<1>6. QED
  BY <1>3, <1>4, <1>5

\* f goes from base, N steps on, always to a member of V.
Steps(N, V, step) == \A n \in 1 .. N : \A x \in V : step[n][x] \in V
Iterated(N, V, base, step, f) ==
    f \in [0 .. N -> V] /\ f[0] = base /\ \A n \in 1 .. N : f[n] = step[n][f[n - 1]]

LEMMA Iterates ==
    ASSUME NEW N \in Nat, NEW V, NEW base \in V, NEW step, Steps(N, V, step)
    PROVE  \E f : Iterated(N, V, base, step, f)
<1> USE DEF Steps, Iterated
<1> DEFINE Upto(n, f) == f[0] = base /\ \A i \in 1 .. n : f[i] = step[i][f[i - 1]]
           S == {n \in 0 .. N : \E f \in [0 .. n -> V] : Upto(n, f)}
<1>1. 0 \in S
  <2> DEFINE f == [i \in 0 .. 0 |-> base]
  <2>1. f \in [0 .. 0 -> V] /\ Upto(0, f)
    OBVIOUS
  <2> HIDE DEF f
  <2>2. 0 \in 0 .. N
    OBVIOUS
  <2>3. QED
    BY <2>1, <2>2
<1>2. ASSUME NEW n \in 1 .. N, n - 1 \in S PROVE n \in S
  <2>1. PICK f \in [0 .. n - 1 -> V] : Upto(n - 1, f)
    BY <1>2
  <2>2. n - 1 \in 0 .. n - 1 /\ f[n - 1] \in V
    OBVIOUS
  <2>3. step[n][f[n - 1]] \in V
    BY <2>2
  <2> DEFINE g == [i \in 0 .. n |-> IF i = n THEN step[n][f[n - 1]] ELSE f[i]]
  <2>4. g \in [0 .. n -> V]
    BY <2>3
  <2>5. \A i \in 0 .. n - 1 : g[i] = f[i]
    OBVIOUS
  <2>6. g[n] = step[n][g[n - 1]]
    BY <2>5
  <2> HIDE DEF g
  <2>7. ASSUME NEW i \in 1 .. n PROVE g[i] = step[i][g[i - 1]]
    <3>1. CASE i = n
      BY <2>6, <3>1
    <3>2. CASE i # n
      <4>1. i \in 1 .. n - 1 /\ i \in 0 .. n - 1 /\ i - 1 \in 0 .. n - 1
        BY <3>2
      <4>2. f[i] = step[i][f[i - 1]]
        BY <2>1, <4>1
      <4>3. QED
        BY <2>5, <4>1, <4>2
    <3>3. QED
      BY <3>1, <3>2
  <2>8. g[0] = base
    BY <2>1, <2>5
  <2>9. QED
    BY <2>4, <2>7, <2>8
<1> HIDE DEF S
<1>3. N \in S
  <2>1. \A n \in 1 .. N : n - 1 \in S => n \in S
    BY <1>2
  <2>2. \A n \in 0 .. N : n \in S
    BY <1>1, <2>1, UpTo
  <2>3. QED
    BY <2>2
<1>4. QED
  BY <1>3 DEF S

=============================================================================
