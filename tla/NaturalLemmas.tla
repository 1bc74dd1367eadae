--------------------------- MODULE NaturalLemmas ---------------------------
(***************************************************************************)
(* Facts about sets of natural numbers that the proofs of several modules   *)
(* rest on.  The least element is what stands for induction in them: a      *)
(* property of all numbers is shown by looking at the least number without. *)
(***************************************************************************)
EXTENDS Integers, FiniteSetsExt, WellFoundedInduction, TLAPS

\* Every set of natural numbers that is not empty has a least element.
LEMMA LeastElement ==
    ASSUME NEW T \in SUBSET Nat, T # {}
    PROVE  \E x \in T : \A y \in T : x <= y
<1> DEFINE R == OpToRel(<, Nat)
<1>1. IsWellFoundedOn(R, Nat)
  BY NatLessThanWellFounded
<1> HIDE DEF R
<1>2. PICK x \in T : \A y \in T : ~(<<y, x>> \in R)
  BY <1>1, WFMin
<1>3. \A y \in T : ~(y < x)
  <2> TAKE y \in T
  <2>1. y < x => <<y, x>> \in R
    BY DEF R, OpToRel
  <2> QED
    BY <1>2, <2>1
<1> QED
  BY <1>3

\* Max returns the greatest element of a bounded set of natural numbers.
LEMMA MaxBounded ==
    ASSUME NEW S \in SUBSET Nat, S # {}, NEW b \in Nat, \A x \in S : x <= b
    PROVE  Max(S) \in S /\ \A y \in S : y <= Max(S)
<1> DEFINE U == {u \in Nat : \A x \in S : x <= u}
<1>1. PICK u \in U : \A y \in U : u <= y
  <2>1. U # {} /\ U \in SUBSET Nat
    OBVIOUS
  <2> QED
    BY <2>1, LeastElement
<1>2. u \in S
  <2> SUFFICES ASSUME u \notin S PROVE FALSE
    OBVIOUS
  <2>1. \A x \in S : x <= u - 1 /\ u - 1 \in Nat
    OBVIOUS
  <2>2. u - 1 \in U
    BY <2>1
  <2> QED
    BY <1>1, <2>2
<1>3. \E x \in S : \A y \in S : x >= y
  BY <1>2
<1> QED
  BY <1>3 DEF Max

\* Max is the only greatest element.
LEMMA MaxUnique ==
    ASSUME NEW S \in SUBSET Nat, NEW m \in S, \A x \in S : x <= m
    PROVE  Max(S) = m
<1>1. Max(S) \in S /\ \A y \in S : y <= Max(S)
  BY MaxBounded
<1>2. m \in Nat /\ Max(S) \in Nat /\ m <= Max(S) /\ Max(S) <= m
  BY <1>1
<1> QED
  BY <1>2

\* The values a and g[k, the value before] define a function of the natural numbers.
Iterated(a, g, f, n) ==
    \A k \in 0..n : f[k] = IF k = 0 THEN a ELSE g[<<k, f[k - 1]>>]

LEMMA IteratedOnce ==
    ASSUME NEW a, NEW g, NEW m \in Nat, NEW n \in Nat,
           NEW e, NEW f, Iterated(a, g, e, m), Iterated(a, g, f, n)
    PROVE  \A k \in Nat : k <= m /\ k <= n => e[k] = f[k]
<1> DEFINE T == {k \in Nat : k <= m /\ k <= n /\ e[k] # f[k]}
<1> SUFFICES ASSUME T # {} PROVE FALSE
  OBVIOUS
<1>1. PICK k \in T : \A i \in T : k <= i
  BY LeastElement
<1>2. CASE k = 0
  <2>1. 0 \in 0..m /\ 0 \in 0..n
    OBVIOUS
  <2>2. e[0] = a /\ f[0] = a
    BY <2>1 DEF Iterated
  <2> QED
    BY <1>2, <2>2
<1>3. CASE k # 0
  <2>1. k - 1 \in Nat /\ k - 1 \notin T
    BY <1>1, <1>3
  <2>2. e[k - 1] = f[k - 1]
    BY <2>1
  <2>3. e[k] = g[<<k, e[k - 1]>>] /\ f[k] = g[<<k, f[k - 1]>>]
    <3>1. k \in 0..m /\ k \in 0..n
      OBVIOUS
    <3> QED
      BY <1>3, <3>1 DEF Iterated
  <2>4. e[k] = f[k]
    BY <2>2, <2>3
  <2> QED
    BY <2>4
<1> QED
  BY <1>2, <1>3

IteratedAlways(S, a, g, f) ==
    f \in [Nat -> S] /\ f[0] = a /\ \A k \in Nat : k # 0 => f[k] = g[<<k, f[k - 1]>>]

LEMMA IterationExists ==
    ASSUME NEW S, NEW a \in S, NEW g \in [Nat \X S -> S]
    PROVE  \E f : IteratedAlways(S, a, g, f)
<1> DEFINE Upto(n) == {h \in [0..n -> S] : Iterated(a, g, h, n)}
<1>1. \A n \in Nat : Upto(n) # {}
  <2> DEFINE T == {n \in Nat : Upto(n) = {}}
  <2> SUFFICES ASSUME T # {} PROVE FALSE
    OBVIOUS
  <2>1. PICK n \in T : \A i \in T : n <= i
    BY LeastElement
  <2>2. CASE n = 0
    <3>1. [k \in 0..0 |-> a] \in Upto(0)
      BY DEF Iterated
    <3> QED
      BY <2>2, <3>1
  <2>3. CASE n # 0
    <3>1. n - 1 \in Nat /\ n - 1 \notin T
      BY <2>1, <2>3
    <3>2. PICK h \in [0..(n - 1) -> S] : Iterated(a, g, h, n - 1)
      BY <3>1
    <3> DEFINE e == [k \in 0..n |-> IF k = n THEN g[<<n, h[n - 1]>>] ELSE h[k]]
    <3>3. h[n - 1] \in S
      BY <3>1
    <3>4. g[<<n, h[n - 1]>>] \in S
      BY <3>3
    <3>5. e \in [0..n -> S]
      BY <3>4
    <3>6. \A k \in 0..(n - 1) : e[k] = h[k]
      BY <3>1
    <3>7. Iterated(a, g, e, n)
      <4> SUFFICES ASSUME NEW k \in 0..n
                   PROVE  e[k] = IF k = 0 THEN a ELSE g[<<k, e[k - 1]>>]
        BY DEF Iterated
      <4>1. CASE k = n
        <5>1. e[k] = g[<<k, h[k - 1]>>]
          BY <4>1
        <5>2. e[k - 1] = h[k - 1]
          BY <3>1, <3>6, <4>1
        <5> HIDE DEF e
        <5> QED
          BY <2>3, <4>1, <5>1, <5>2
      <4>2. CASE k # n
        <5>1. k \in 0..(n - 1) /\ (k # 0 => k - 1 \in 0..(n - 1))
          BY <4>2
        <5> HIDE DEF e
        <5> QED
          BY <3>2, <3>6, <5>1 DEF Iterated
      <4> QED
        BY <4>1, <4>2
    <3> QED
      BY <3>5, <3>7
  <2> QED
    BY <2>2, <2>3
<1> DEFINE u == [n \in Nat |-> CHOOSE h \in Upto(n) : TRUE]
           f == [n \in Nat |-> u[n][n]]
<1>2. \A n \in Nat : u[n] \in [0..n -> S] /\ Iterated(a, g, u[n], n)
  BY <1>1
<1> HIDE DEF u
<1>3. f \in [Nat -> S]
  BY <1>2
<1>4. \A n \in Nat : f[n] = IF n = 0 THEN a ELSE g[<<n, f[n - 1]>>]
  <2> TAKE n \in Nat
  <2>1. CASE n = 0
    <3>1. Iterated(a, g, u[0], 0) /\ 0 \in 0..0 /\ 0 \in Nat
      BY <1>2
    <3>2. u[0][0] = a
      BY <3>1 DEF Iterated
    <3>3. f[0] = u[0][0]
      OBVIOUS
    <3> HIDE DEF f
    <3> QED
      BY <2>1, <3>2, <3>3
  <2>2. CASE n # 0
    <3>1. n - 1 \in Nat /\ n - 1 <= n /\ n - 1 <= n - 1
      BY <2>2
    <3> DEFINE m == n - 1
    <3>2. Iterated(a, g, u[n], n) /\ Iterated(a, g, u[m], m) /\ m \in Nat /\ m <= n
      BY <1>2, <3>1
    <3> HIDE DEF m
    <3> DEFINE x == u[n]
               y == u[m]
    <3>3. Iterated(a, g, x, n) /\ Iterated(a, g, y, m)
      BY <3>2
    <3> HIDE DEF x, y
    <3>7. x[m] = y[m]
      BY <3>2, <3>3, IteratedOnce
    <3>4. u[n][n - 1] = u[n - 1][n - 1]
      BY <3>7 DEF m, x, y
    <3>5. u[n][n] = g[<<n, u[n][n - 1]>>]
      BY <1>2, <2>2 DEF Iterated
    <3>6. f[n] = u[n][n] /\ f[n - 1] = u[n - 1][n - 1]
      BY <3>1
    <3> HIDE DEF f
    <3> QED
      BY <2>2, <3>4, <3>5, <3>6
  <2> QED
    BY <2>1, <2>2
<1> HIDE DEF f
<1> QED
  BY <1>3, <1>4 DEF IteratedAlways
=============================================================================
