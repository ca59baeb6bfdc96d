--------------------------- MODULE IntegerLemmas ---------------------------
(***************************************************************************)
(* Induction and recursion over intervals of natural numbers, in a form    *)
(* that needs no operator parameter: what is to be shown of every number   *)
(* is membership in a set, and the step of a recursion is a function.  The *)
(* proofs about byte code use these facts for positions, for the lengths   *)
(* of injected pieces and for the offsets of frames.                       *)
(***************************************************************************)
EXTENDS Integers, WellFoundedInduction, TLAPS

\* A set of natural numbers that is not empty has a least element.
LEMMA LeastNumber ==
    ASSUME NEW T \in SUBSET Nat, T # {}
    PROVE  \E n \in T : \A m \in T : n <= m
<1> DEFINE Less == {pair \in Nat \X Nat : pair[1] < pair[2]}
<1>1. IsWellFoundedOn(Less, Nat)
  BY NatLessThanWellFounded DEF OpToRel
<1> HIDE DEF Less
<1>2. PICK n \in T : \A m \in T : ~ (<<m, n>> \in Less)
  BY <1>1, WFMin
<1>3. \A m \in T : ~ (m < n)
  BY <1>2 DEF Less
<1> QED  BY <1>3

\* Induction from lo to hi, or to the end of the natural numbers.
LEMMA IntervalInduction ==
    ASSUME NEW lo \in Nat, NEW hi \in Nat, NEW S,
           lo \in S, \A k \in lo .. hi - 1 : k \in S => k + 1 \in S
    PROVE  \A k \in lo .. hi : k \in S
<1> SUFFICES ASSUME {k \in lo .. hi : k \notin S} # {} PROVE FALSE
  OBVIOUS
<1>1. {k \in lo .. hi : k \notin S} \in SUBSET Nat
  OBVIOUS
<1>2. PICK n \in {k \in lo .. hi : k \notin S} : \A m \in {k \in lo .. hi : k \notin S} : n <= m
  BY <1>1, LeastNumber
<1>3. n \in lo .. hi /\ n # lo
  BY <1>2
<1>4. n - 1 \in lo .. hi - 1 /\ n - 1 \in S
  BY <1>2, <1>3
<1>5. n - 1 + 1 \in S
  BY <1>4
<1> QED  BY <1>2, <1>3, <1>5

\* g is defined by recursion from base at lo: step[k] makes g[k] of g[k-1].
Iterates(g, lo, hi, V, base, step) ==
    /\ g \in [lo .. hi -> V]
    /\ g[lo] = base
    /\ \A k \in lo + 1 .. hi : g[k] = step[k][g[k-1]]

\* There is such a function.
LEMMA IterationExists ==
    ASSUME NEW V, NEW base \in V, NEW lo \in Nat, NEW hi \in Nat, lo <= hi,
           NEW step \in [Nat -> [V -> V]]
    PROVE  \E g : Iterates(g, lo, hi, V, base, step)
<1> DEFINE S == {m \in Nat : \E g : Iterates(g, lo, m, V, base, step)}
<1>1. lo \in S
  <2>1. Iterates([k \in lo .. lo |-> base], lo, lo, V, base, step)
    BY DEF Iterates
  <2> QED  BY <2>1
<1>2. ASSUME NEW m \in lo .. hi - 1, m \in S PROVE m + 1 \in S
  <2>1. PICK g : Iterates(g, lo, m, V, base, step)
    BY <1>2
  <2> DEFINE h == [k \in lo .. m + 1 |-> IF k = m + 1 THEN step[m + 1][g[m]] ELSE g[k]]
  <2>2. h \in [lo .. m + 1 -> V]
    <3>1. step[m + 1] \in [V -> V] /\ g[m] \in V
      BY <2>1 DEF Iterates
    <3>2. step[m + 1][g[m]] \in V
      BY <3>1
    <3> QED  BY <3>2, <2>1 DEF Iterates
  <2>3. h[lo] = base
    BY <2>1 DEF Iterates
  <2>4. ASSUME NEW k \in lo + 1 .. m + 1 PROVE h[k] = step[k][h[k-1]]
    <3>1. CASE k = m + 1
      BY <3>1
    <3>2. CASE k # m + 1
      <4>1. h[k-1] = g[k-1] /\ h[k] = g[k]
        BY <3>2
      <4>2. g[k] = step[k][g[k-1]]
        BY <3>2, <2>1 DEF Iterates
      <4> QED  BY <4>1, <4>2
    <3> QED  BY <3>1, <3>2
  <2>5. Iterates(h, lo, m + 1, V, base, step)
    <3> HIDE DEF h
    <3> QED  BY <2>2, <2>3, <2>4 DEF Iterates
  <2>6. m + 1 \in Nat
    OBVIOUS
  <2> HIDE DEF h
  <2> QED  BY <2>5, <2>6
<1> HIDE DEF S
<1>3. \A k \in lo .. hi : k \in S
  BY <1>1, <1>2, IntervalInduction
<1>4. hi \in S
  BY <1>3
<1> QED  BY <1>4 DEF S

\* A sum: w[k] is added at k.
Sums(g, n, w) ==
    /\ g \in [0 .. n -> Int]
    /\ g[0] = 0
    /\ \A k \in 1 .. n : g[k] = g[k-1] + w[k]

\* The function that adds up w exists.
LEMMA SumExists ==
    ASSUME NEW n \in Nat, NEW w \in [1 .. n -> Int]
    PROVE  \E g : Sums(g, n, w) /\ g = [k \in 0 .. n |-> IF k = 0 THEN 0 ELSE g[k-1] + w[k]]
<1> DEFINE step == [k \in Nat |-> [v \in Int |-> IF k \in 1 .. n THEN v + w[k] ELSE 0]]
<1>1. step \in [Nat -> [Int -> Int]]
  OBVIOUS
<1>2. PICK g : Iterates(g, 0, n, Int, 0, step)
  <2> HIDE DEF step
  <2>1. 0 \in Int /\ 0 \in Nat /\ 0 <= n
    OBVIOUS
  <2> QED  BY <1>1, <2>1, IterationExists
<1>3. ASSUME NEW k \in 1 .. n PROVE g[k] = g[k-1] + w[k]
  <2>1. g[k] = step[k][g[k-1]] /\ g[k-1] \in Int
    <3> HIDE DEF step
    <3>1. k \in 0 + 1 .. n /\ k - 1 \in 0 .. n
      OBVIOUS
    <3> QED  BY <1>2, <3>1 DEF Iterates
  <2> QED  BY <2>1
<1>4. DOMAIN g = 0 .. n /\ g[0] = 0 /\ g \in [0 .. n -> Int]
  BY <1>2 DEF Iterates
<1> HIDE DEF step
<1>5. Sums(g, n, w)
  BY <1>3, <1>4 DEF Sums
<1>6. g = [k \in 0 .. n |-> IF k = 0 THEN 0 ELSE g[k-1] + w[k]]
  BY <1>4, <1>3
<1> QED  BY <1>5, <1>6

\* Sums over sequences that agree up to n agree up to n.
LEMMA SumsAgree ==
    ASSUME NEW n \in Nat, NEW m \in Nat, n <= m, NEW g, NEW h, NEW v, NEW w,
           Sums(g, n, v), Sums(h, m, w), \A k \in 1 .. n : v[k] = w[k]
    PROVE  g[n] = h[n]
<1> DEFINE S == {k \in Nat : k <= n => g[k] = h[k]}
<1>1. 0 \in S
  BY DEF Sums
<1>2. ASSUME NEW k \in 0 .. n - 1, k \in S PROVE k + 1 \in S
  <2>1. k + 1 \in 1 .. n /\ k + 1 \in 1 .. m /\ (k + 1) - 1 = k
    OBVIOUS
  <2>2. g[k + 1] = g[k] + v[k + 1] /\ h[k + 1] = h[k] + w[k + 1]
    BY <2>1 DEF Sums
  <2>3. g[k] = h[k]
    BY <1>2
  <2> QED  BY <2>1, <2>2, <2>3
<1> HIDE DEF S
<1>3. \A k \in 0 .. n : k \in S
  BY <1>1, <1>2, IntervalInduction
<1>4. n \in S
  BY <1>3
<1> QED  BY <1>4 DEF S

\* What grows with every step grows from any place to any later one.
LEMMA StepsIncrease ==
    ASSUME NEW n \in Nat, NEW f \in [1 .. n -> Int], \A k \in 1 .. n - 1 : f[k] < f[k + 1]
    PROVE  \A j, k \in 1 .. n : j < k => f[j] < f[k]
<1> SUFFICES ASSUME NEW j \in 1 .. n, j < n PROVE \A k \in j + 1 .. n : f[j] < f[k]
  OBVIOUS
<1> DEFINE S == {k \in 1 .. n : f[j] < f[k]}
<1>1. j + 1 \in S
  OBVIOUS
<1>2. ASSUME NEW k \in j + 1 .. n - 1, k \in S PROVE k + 1 \in S
  <2>1. f[j] < f[k] /\ f[k] < f[k + 1] /\ k \in 1 .. n /\ k + 1 \in 1 .. n
    BY <1>2
  <2> QED  BY <2>1
<1>3. j + 1 \in Nat
  OBVIOUS
<1> HIDE DEF S
<1>4. \A k \in j + 1 .. n : k \in S
  BY <1>1, <1>2, <1>3, IntervalInduction
<1> QED  BY <1>4 DEF S

\* The intervals between the values of f, from place to place, leave no gap.
LEMMA StepsCover ==
    ASSUME NEW n \in Nat, NEW f \in [1 .. n -> Int], NEW i \in 1 .. n, NEW j \in 1 .. n, i < j,
           NEW x \in Int, f[i] <= x, x < f[j]
    PROVE  \E k \in i .. j - 1 : f[k] <= x /\ x < f[k + 1]
<1> DEFINE T == {k \in i .. j : x < f[k]}
<1>1. T \in SUBSET Nat /\ T # {}
  OBVIOUS
<1>2. PICK k \in T : \A m \in T : k <= m
  <2> HIDE DEF T
  <2> QED  BY <1>1, LeastNumber
<1>3. k # i /\ k \in i .. j /\ x < f[k]
  OBVIOUS
<1>4. k - 1 \in i .. j - 1 /\ k - 1 \notin T /\ k - 1 \in 1 .. n
  BY <1>2, <1>3
<1>5. f[k - 1] <= x /\ x < f[k - 1 + 1]
  BY <1>3, <1>4
<1> QED  BY <1>4, <1>5
=============================================================================
