---------------------------- MODULE ShiftTheorems ----------------------------
(***************************************************************************)
(* Facts about the shifts of module Shifts, for every operand.  The        *)
(* installed provers cannot instantiate the library's induction schemes,   *)
(* so induction is done by contradiction on a least counterexample         *)
(* (LeastNat), which quantifies over a set and not over a predicate.       *)
(***************************************************************************)
EXTENDS Shifts, TLAPS, WellFoundedInduction

(* Every non-empty set of naturals has a least element.                    *)
LEMMA LeastNat ==
  ASSUME NEW T, T \subseteq Nat, T # {}
  PROVE  \E m \in T : \A n \in T : m <= n
<1> DEFINE R == {ss \in Nat \X Nat : ss[1] < ss[2]}
<1>1. IsWellFoundedOn(R, Nat)
  BY NatLessThanWellFounded DEF OpToRel
<1>2. PICK m \in T : \A n \in T : ~ (<<n, m>> \in R)
  <2> HIDE DEF R
  <2> QED BY <1>1, WFMin
<1>3. \A n \in T : ~ (n < m)
  BY <1>2
<1>4. QED
  BY <1>3

(* f solves the recursion over 0..n that starts with base and whose step   *)
(* from f[i - 1] to f[i] is g[i, f[i - 1]].                                *)
SolvesRecursion(f, n, X, base, g) ==
  /\ f \in [0..n -> X]
  /\ f[0] = base
  /\ \A i \in 1..n : f[i] = g[<<i, f[i - 1]>>]

(* A recursion over 0..n, with values in X, has a solution.                *)
LEMMA FiniteRecursion ==
  ASSUME NEW n \in Nat, NEW X, NEW base \in X, NEW g \in [(1..n) \X X -> X]
  PROVE  \E f : SolvesRecursion(f, n, X, base, g)
<1> USE DEF SolvesRecursion
<1> DEFINE Solves(f, m) == /\ f \in [0..m -> X]
                           /\ f[0] = base
                           /\ \A i \in 1..m : f[i] = g[<<i, f[i - 1]>>]
           T == {m \in 0..n : ~ \E f : Solves(f, m)}
<1>1. SUFFICES ASSUME T # {} PROVE FALSE
  <2>1. n \in 0..n
    OBVIOUS
  <2>2. (T = {}) => \E f : Solves(f, n)
    <3> HIDE DEF Solves
    <3> QED BY <2>1
  <2> QED BY <2>2
<1>2. PICK m \in T : \A k \in T : m <= k
  <2>1. T \subseteq Nat
    OBVIOUS
  <2> HIDE DEF T
  <2> QED BY <1>1, <2>1, LeastNat
<1>3. m \in 0..n /\ ~ \E f : Solves(f, m)
  <2> HIDE DEF Solves
  <2> QED OBVIOUS
<1>4. CASE m = 0
  <2>1. Solves([i \in 0..0 |-> base], 0)
    OBVIOUS
  <2> HIDE DEF Solves
  <2> QED BY <2>1, <1>3, <1>4
<1>5. CASE m # 0
  <2>1. m - 1 \in 0..n /\ m - 1 \notin T
    <3> HIDE DEF T
    <3> QED BY <1>2, <1>3, <1>5
  <2>2. PICK f : Solves(f, m - 1)
    <3> HIDE DEF Solves
    <3> QED BY <2>1
  <2>3. <<m, f[m - 1]>> \in (1..n) \X X
    BY <1>3, <1>5, <2>2
  <2> DEFINE h == [i \in 0..m |-> IF i = m THEN g[<<m, f[m - 1]>>] ELSE f[i]]
  <2>4. h \in [0..m -> X]
    BY <1>3, <1>5, <2>2, <2>3
  <2>5. h[0] = base
    BY <1>3, <1>5, <2>2
  <2>6. ASSUME NEW i \in 1..m PROVE h[i] = g[<<i, h[i - 1]>>]
    <3>1. m \in Nat /\ i \in 0..m /\ i - 1 \in 0..m /\ i - 1 # m
      BY <1>3
    <3>2. h[i - 1] = f[i - 1] /\ h[i] = IF i = m THEN g[<<m, f[m - 1]>>] ELSE f[i]
      BY <3>1
    <3>3. i # m => i \in 1..(m - 1)
      BY <3>1
    <3>4. i # m => f[i] = g[<<i, f[i - 1]>>]
      BY <2>2, <3>3
    <3> HIDE DEF h
    <3> QED BY <3>2, <3>4
  <2>7. Solves(h, m)
    BY <2>4, <2>5, <2>6
  <2> HIDE DEF Solves
  <2> QED BY <2>7, <1>3
<1> QED BY <1>4, <1>5

(* The recursive definition of Pow2 has a solution, so Pow2 satisfies it:  *)
(* approximations on 0..n exist, any two agree, and their diagonal solves  *)
(* the equation on all of Nat.                                             *)
LEMMA Pow2Unfold ==
  \A n \in Nat : Pow2[n] = IF n = 0 THEN 1 ELSE 2 * Pow2[n - 1]
<1> DEFINE Approx(f, n) == f = [i \in 0..n |-> IF i = 0 THEN 1 ELSE 2 * f[i - 1]]
<1>1. \A n \in Nat : \E f : Approx(f, n)
  <2> DEFINE T == {n \in Nat : ~ \E f : Approx(f, n)}
  <2>1. SUFFICES ASSUME T # {} PROVE FALSE
    OBVIOUS
  <2>2. PICK m \in T : \A n \in T : m <= n
    <3> HIDE DEF T
    <3>1. T \subseteq Nat
      BY DEF T
    <3> QED BY <2>1, <3>1, LeastNat
  <2>3. CASE m = 0
    <3>1. Approx([i \in 0..0 |-> 1], 0)
      OBVIOUS
    <3> QED BY <2>3, <3>1
  <2>4. CASE m # 0
    <3>1. /\ m \in Nat
          /\ m - 1 \in Nat
          /\ m - 1 \notin T
      <4>1. m \in Nat
        OBVIOUS
      <4> HIDE DEF T
      <4> QED BY <4>1, <2>2, <2>4
    <3>2. PICK f : Approx(f, m - 1)
      <4> HIDE DEF Approx
      <4> QED BY <3>1
    <3> DEFINE g == [i \in 0..m |-> IF i = m THEN 2 * f[m - 1] ELSE f[i]]
    <3>3. Approx(g, m)
      BY <3>1, <3>2, <2>4
    <3> QED BY <3>3
  <2> QED BY <2>3, <2>4
<1>2. ASSUME NEW n \in Nat, NEW m \in Nat, n <= m, NEW f, NEW g, Approx(f, n), Approx(g, m)
      PROVE  f[n] = g[n]
  <2> DEFINE T == {i \in 0..n : f[i] # g[i]}
  <2>1. SUFFICES ASSUME T # {} PROVE FALSE
    <3>1. n \in 0..n
      OBVIOUS
    <3> QED BY <3>1
  <2>2. PICK i \in T : \A j \in T : i <= j
    <3> HIDE DEF T
    <3>1. T \subseteq Nat
      BY DEF T
    <3> QED BY <2>1, <3>1, LeastNat
  <2>3. f[i] = IF i = 0 THEN 1 ELSE 2 * f[i - 1]
    BY <1>2
  <2>4. g[i] = IF i = 0 THEN 1 ELSE 2 * g[i - 1]
    BY <1>2
  <2>5. i # 0 => f[i - 1] = g[i - 1]
    BY <2>2
  <2> QED BY <2>3, <2>4, <2>5
<1> DEFINE F == [n \in Nat |-> (CHOOSE f : Approx(f, n))[n]]
<1>3. F = [n \in Nat |-> IF n = 0 THEN 1 ELSE 2 * F[n - 1]]
  <2> SUFFICES ASSUME NEW n \in Nat
               PROVE  F[n] = IF n = 0 THEN 1 ELSE 2 * F[n - 1]
    OBVIOUS
  <2> DEFINE f == CHOOSE f : Approx(f, n)
             g == CHOOSE g : Approx(g, n - 1)
  <2>1. Approx(f, n)
    <3> HIDE DEF Approx, F
    <3> QED BY <1>1
  <2>2. F[n] = IF n = 0 THEN 1 ELSE 2 * f[n - 1]
    <3>1. F[n] = f[n]
      <4> HIDE DEF Approx, f
      <4> QED BY DEF f
    <3>2. f[n] = IF n = 0 THEN 1 ELSE 2 * f[n - 1]
      <4> HIDE DEF f
      <4> QED BY <2>1
    <3> QED BY <3>1, <3>2
  <2>3. ASSUME n # 0
        PROVE  F[n - 1] = f[n - 1]
    <3>1. Approx(g, n - 1)
      <4>1. n - 1 \in Nat
        BY <2>3
      <4> HIDE DEF Approx
      <4> QED BY <1>1, <4>1
    <3>2. g[n - 1] = f[n - 1]
      <4> HIDE DEF f, g, Approx
      <4> QED BY <3>1, <2>1, <1>2, <2>3
    <3> QED BY <3>2, <2>3
  <2> QED BY <2>2, <2>3
<1>4. Pow2 = [n \in Nat |-> IF n = 0 THEN 1 ELSE 2 * Pow2[n - 1]]
  <2> HIDE DEF F
  <2> QED BY <1>3 DEF Pow2
<1> QED BY <1>4

(* Pow2[n] is a positive natural and Pow2[n + 1] is its double.            *)
LEMMA Pow2Facts ==
  /\ Pow2[0] = 1
  /\ \A n \in Nat : Pow2[n] \in Nat \ {0}
  /\ \A n \in Nat : Pow2[n + 1] = 2 * Pow2[n]
<1>1. Pow2[0] = 1
  BY Pow2Unfold
<1>2. \A n \in Nat : Pow2[n + 1] = 2 * Pow2[n]
  <2> SUFFICES ASSUME NEW n \in Nat PROVE Pow2[n + 1] = 2 * Pow2[n]
    OBVIOUS
  <2>1. n + 1 \in Nat /\ n + 1 # 0 /\ (n + 1) - 1 = n
    OBVIOUS
  <2> QED BY <2>1, Pow2Unfold
<1>3. \A n \in Nat : Pow2[n] \in Nat \ {0}
  <2> DEFINE T == {n \in Nat : Pow2[n] \notin Nat \ {0}}
  <2>1. SUFFICES ASSUME T # {} PROVE FALSE
    OBVIOUS
  <2>2. PICK m \in T : \A n \in T : m <= n
    <3>1. T \subseteq Nat
      OBVIOUS
    <3> HIDE DEF T
    <3> QED BY <2>1, <3>1, LeastNat
  <2>3. m # 0
    BY <1>1
  <2>4. m \in Nat /\ m - 1 \in Nat /\ m - 1 \notin T
    BY <2>2, <2>3
  <2>5. Pow2[m - 1] \in Nat \ {0}
    BY <2>4
  <2>6. Pow2[m] = 2 * Pow2[m - 1]
    BY <2>4, <2>3, Pow2Unfold
  <2>7. Pow2[m] \in Nat \ {0}
    <3> HIDE DEF T
    <3> QED BY <2>5, <2>6
  <2> QED BY <2>7
<1> QED BY <1>1, <1>2, <1>3

(* Pow2[m + n] = Pow2[m] * Pow2[n]: shifting twice adds the distances.     *)
LEMMA Pow2Add ==
  \A m, n \in Nat : Pow2[m + n] = Pow2[m] * Pow2[n]
<1> SUFFICES ASSUME NEW m \in Nat PROVE \A n \in Nat : Pow2[m + n] = Pow2[m] * Pow2[n]
  OBVIOUS
<1> DEFINE T == {n \in Nat : Pow2[m + n] # Pow2[m] * Pow2[n]}
<1>1. SUFFICES ASSUME T # {} PROVE FALSE
  OBVIOUS
<1>2. PICK k \in T : \A n \in T : k <= n
  <2>1. T \subseteq Nat
    OBVIOUS
  <2> HIDE DEF T
  <2> QED BY <1>1, <2>1, LeastNat
<1>3. k # 0
  BY Pow2Facts
<1>4. k \in Nat /\ k - 1 \in Nat /\ k - 1 \notin T
  BY <1>2, <1>3
<1>5. Pow2[m + (k - 1)] = Pow2[m] * Pow2[k - 1]
  BY <1>4
<1>6. Pow2[k] = 2 * Pow2[k - 1] /\ Pow2[m + k] = 2 * Pow2[m + (k - 1)]
  <2>1. k = (k - 1) + 1 /\ m + k = (m + (k - 1)) + 1 /\ m + (k - 1) \in Nat
    BY <1>4
  <2> QED BY <2>1, <1>4, Pow2Facts
<1>7. Pow2[m + k] = Pow2[m] * Pow2[k]
  <2>1. Pow2[m] \in Nat /\ Pow2[k - 1] \in Nat
    BY <1>4, Pow2Facts
  <2> HIDE DEF T
  <2> QED BY <2>1, <1>5, <1>6
<1> QED BY <1>7

(* Pow2[n] > n: some power of two is above any given size.                 *)
LEMMA Pow2Grows ==
  \A n \in Nat : n < Pow2[n]
<1> DEFINE T == {n \in Nat : ~ (n < Pow2[n])}
<1>1. SUFFICES ASSUME T # {} PROVE FALSE
  OBVIOUS
<1>2. PICK k \in T : \A n \in T : k <= n
  <2>1. T \subseteq Nat
    OBVIOUS
  <2> HIDE DEF T
  <2> QED BY <1>1, <2>1, LeastNat
<1>3. k # 0
  BY Pow2Facts
<1>4. k \in Nat /\ k - 1 \in Nat /\ k - 1 \notin T
  BY <1>2, <1>3
<1>5. k - 1 < Pow2[k - 1] /\ Pow2[k - 1] \in Nat
  BY <1>4, Pow2Facts
<1>6. Pow2[k] = 2 * Pow2[k - 1]
  BY <1>4, <1>3, Pow2Unfold
<1>7. k < Pow2[k]
  <2> HIDE DEF T
  <2> QED BY <1>4, <1>5, <1>6
<1> QED BY <1>7

(* Quotient and remainder are unique.                                      *)
LEMMA DivModUnique ==
  ASSUME NEW a \in Nat, NEW d \in Nat \ {0},
         NEW q \in Nat, NEW r \in Nat, r < d, a = d * q + r
  PROVE  q = a \div d /\ r = a % d
  OBVIOUS

(* A number is its quotient times the divisor plus its remainder.          *)
LEMMA DivModLaw ==
  ASSUME NEW a \in Nat, NEW d \in Nat \ {0}
  PROVE  /\ a \div d \in Nat
         /\ a % d \in 0..(d - 1)
         /\ a = d * (a \div d) + (a % d)
  OBVIOUS

(* Doubling a modulus keeps the remainder or adds the old modulus to it:   *)
(* the fact linear hashing's split rests on.                               *)
LEMMA ModDouble ==
  ASSUME NEW a \in Nat, NEW d \in Nat \ {0}
  PROVE  a % (2 * d) = a % d \/ a % (2 * d) = (a % d) + d
<1> DEFINE q == a \div d
           r == a % d
<1>1. q \in Nat /\ r \in Nat /\ r < d /\ a = d * q + r
  BY DivModLaw
<1>2. q \div 2 \in Nat /\ q % 2 \in {0, 1} /\ q = 2 * (q \div 2) + (q % 2)
  BY <1>1
<1> DEFINE dd == 2 * d
           h == q \div 2
<1>d. dd \in Nat \ {0}
  OBVIOUS
<1> HIDE DEF q, r
<1>3. CASE q % 2 = 0
  <2>1. a = dd * h + r /\ r < dd /\ h \in Nat /\ r \in Nat
    BY <1>1, <1>2, <1>3
  <2>2. r = a % dd
    <3> HIDE DEF dd, h
    <3> QED BY <2>1, <1>d, DivModUnique
  <2> QED BY <2>2 DEF r
<1>4. CASE q % 2 = 1
  <2>1. a = dd * h + (r + d) /\ r + d < dd /\ h \in Nat /\ r + d \in Nat
    BY <1>1, <1>2, <1>4
  <2>2. r + d = a % dd
    <3> HIDE DEF dd, h
    <3> QED BY <2>1, <1>d, DivModUnique
  <2> QED BY <2>2 DEF r
<1> QED BY <1>2, <1>3, <1>4

-----------------------------------------------------------------------------
(* Levels *)

(* For n below 2^d there is a least number k of levels of delta bits with  *)
(* 2^d <= n * 2^(k * delta), and it lies between 1 and d: the number k_ of *)
(* levels the constructor of the range filter computes.                    *)
LEMMA LevelsExist ==
  ASSUME NEW d \in Nat, NEW delta \in Nat \ {0}, NEW n \in Nat \ {0}, n < Pow2[d]
  PROVE  \E k \in 1..d :
           /\ Pow2[d] <= n * Pow2[k * delta]
           /\ \A j \in 0..(k - 1) : Pow2[d] > n * Pow2[j * delta]
<1> DEFINE T == {k \in Nat : Pow2[d] <= n * Pow2[k * delta]}
<1>1. d \in Nat /\ delta \in Nat \ {0} /\ n \in Nat \ {0} /\ n < Pow2[d]
  OBVIOUS
<1>2. d \in T
  <2>1. d * delta \in Nat /\ d <= d * delta
    BY <1>1
  <2>2. d * delta - d \in Nat
        /\ d * delta = d + (d * delta - d)
    BY <1>1, <2>1
  <2> DEFINE e == d * delta - d
  <2>3. Pow2[d * delta] = Pow2[d] * Pow2[e]
    BY <1>1, <2>2, Pow2Add
  <2>4. Pow2[d] \in Nat \ {0} /\ Pow2[e] \in Nat \ {0}
    BY <1>1, <2>2, Pow2Facts
  <2> HIDE DEF e
  <2>5. Pow2[d] <= Pow2[d] * Pow2[e]
    BY <2>4
  <2>6. \A x \in Nat : x <= n * x
    BY <1>1
  <2>7. Pow2[d] * Pow2[e] \in Nat
    BY <2>4
  <2>8. Pow2[d] <= n * Pow2[d * delta]
    <3> DEFINE x == Pow2[d]
               y == Pow2[d * delta]
    <3>1. x \in Nat /\ y \in Nat /\ x <= y /\ y <= n * y /\ n * y \in Nat
      BY <1>1, <2>3, <2>4, <2>5, <2>6, <2>7
    <3> HIDE DEF x, y
    <3>2. x <= n * y
      BY <3>1
    <3> QED BY <3>2 DEF x, y
  <2> QED BY <1>1, <2>8
<1>3. PICK k \in T : \A m \in T : k <= m
  <2>1. T \subseteq Nat /\ T # {}
    BY <1>2
  <2> HIDE DEF T
  <2> QED BY <2>1, LeastNat
<1>4. k \in Nat /\ k <= d
  BY <1>2, <1>3
<1>5. k # 0
  <2>1. 0 \notin T
    BY <1>1, Pow2Facts
  <2> QED BY <1>3, <2>1
<1>6. \A j \in 0..(k - 1) : Pow2[d] > n * Pow2[j * delta]
  <2> SUFFICES ASSUME NEW j \in 0..(k - 1) PROVE Pow2[d] > n * Pow2[j * delta]
    OBVIOUS
  <2>1. j \in Nat /\ j < k
    BY <1>4
  <2>2. j \notin T
    BY <1>3, <1>4, <2>1
  <2>3. j * delta \in Nat
    BY <1>1, <2>1
  <2>4. Pow2[d] \in Nat /\ Pow2[j * delta] \in Nat
    BY <1>1, <2>3, Pow2Facts
  <2> QED BY <1>1, <2>1, <2>2, <2>4
<1>7. k \in 1..d /\ Pow2[d] <= n * Pow2[k * delta]
  BY <1>1, <1>3, <1>4, <1>5
<1> QED BY <1>6, <1>7

(* A power of two is smaller than another only with a smaller exponent.    *)
LEMMA Pow2Smaller ==
  ASSUME NEW m \in Nat, NEW n \in Nat, Pow2[m] < Pow2[n]
  PROVE  m < n
<1> SUFFICES ASSUME n <= m PROVE FALSE
  OBVIOUS
<1> DEFINE e == m - n
<1>1. e \in Nat /\ m = n + e
  OBVIOUS
<1>2. Pow2[m] = Pow2[n] * Pow2[e]
  BY <1>1, Pow2Add
<1>3. Pow2[n] \in Nat \ {0} /\ Pow2[e] \in Nat \ {0}
  BY <1>1, Pow2Facts
<1> HIDE DEF e
<1> QED BY <1>2, <1>3

(* Clearing low bits does not change what is left after a longer shift.    *)
LEMMA ShiftAligned ==
  ASSUME NEW a \in Nat, NEW m \in Nat, NEW n \in Nat
  PROVE  /\ AlignDown(a, m) \in Nat
         /\ Shr(AlignDown(a, m), m + n) = Shr(a, m + n)
<1> DEFINE M == Pow2[m]
           N == Pow2[n]
           q == a \div M
           r == a % M
           q2 == q \div N
           r2 == q % N
<1>1. M \in Nat \ {0} /\ N \in Nat \ {0} /\ Pow2[m + n] = M * N
  BY Pow2Facts, Pow2Add
<1>2. q \in Nat /\ r \in 0..(M - 1) /\ a = M * q + r
  BY <1>1, DivModLaw
<1>3. q2 \in Nat /\ r2 \in 0..(N - 1) /\ q = N * q2 + r2
  BY <1>1, <1>2, DivModLaw
<1>4. Shr(a, m + n) = a \div (M * N) /\ AlignDown(a, m) = q * M
      /\ Shr(AlignDown(a, m), m + n) = AlignDown(a, m) \div (M * N)
  BY <1>1 DEF Shr, AlignDown, Shl
<1> HIDE DEF M, N, q, r, q2, r2
<1>5. M * N \in Nat \ {0}
  BY <1>1
<1>6. M * r2 <= M * (N - 1)
  BY <1>1, <1>3
<1>7. M * (N - 1) = M * N - M
  BY <1>1
<1>8. M * r2 \in Nat /\ M * r2 + r \in Nat /\ M * r2 + r < M * N
  BY <1>1, <1>2, <1>3, <1>6, <1>7, <1>5
<1>9. M * (N * q2 + r2) = (M * N) * q2 + M * r2
  BY <1>1, <1>3
<1>10. q2 = a \div (M * N)
  <2>1. a = (M * N) * q2 + (M * r2 + r)
    BY <1>1, <1>2, <1>3, <1>8, <1>9
  <2> QED BY <2>1, <1>3, <1>5, <1>8, DivModUnique
<1>11. q2 = (q * M) \div (M * N)
  <2>1. q * M \in Nat /\ q * M = (M * N) * q2 + M * r2
    BY <1>1, <1>2, <1>3, <1>9
  <2>2. M * r2 < M * N
    BY <1>1, <1>2, <1>3, <1>8
  <2> QED BY <2>1, <2>2, <1>3, <1>5, <1>8, DivModUnique
<1> QED BY <1>1, <1>2, <1>4, <1>10, <1>11

-----------------------------------------------------------------------------
(* Extreme elements *)

(* A bounded set of numbers that is not empty has a greatest one.          *)
LEMMA GreatestOf ==
  ASSUME NEW xs, xs \subseteq Nat, NEW n \in Nat, \A x \in xs : x <= n, xs # {}
  PROVE  LET g == CHOOSE x \in xs : \A y \in xs : y <= x
         IN  g \in xs /\ \A y \in xs : y <= g
<1> DEFINE T == {n - x : x \in xs}
<1>1. T \subseteq Nat /\ T # {}
  <2>1. \A x \in xs : n - x \in Nat
    OBVIOUS
  <2>2. PICK x \in xs : TRUE
    OBVIOUS
  <2>3. n - x \in T
    BY <2>2
  <2> QED BY <2>1, <2>3
<1>2. PICK m \in T : \A j \in T : m <= j
  <2> HIDE DEF T
  <2> QED BY <1>1, LeastNat
<1>3. PICK x \in xs : m = n - x
  OBVIOUS
<1>4. ASSUME NEW y \in xs PROVE y <= x
  <2>1. n - y \in T
    OBVIOUS
  <2>2. n - x <= n - y
    <3> HIDE DEF T
    <3> QED BY <1>2, <1>3, <2>1
  <2> QED BY <2>2
<1>5. \E z \in xs : \A y \in xs : y <= z
  BY <1>4
<1> QED BY <1>5

(* A set of numbers that is not empty has a least one.                     *)
LEMMA LeastOf ==
  ASSUME NEW xs, xs \subseteq Nat, xs # {}
  PROVE  LET g == CHOOSE x \in xs : \A y \in xs : x <= y
         IN  g \in xs /\ \A y \in xs : g <= y
<1>1. \E z \in xs : \A y \in xs : z <= y
  BY LeastNat
<1> QED BY <1>1

-----------------------------------------------------------------------------
(* The bits of a range filter *)

(* A size rounded up to a multiple of the word size w is a whole number of *)
(* words, at least one.                                                    *)
LEMMA WholeWords ==
  ASSUME NEW size \in Nat \ {0}, NEW w \in Nat \ {0}
  PROVE  LET c == (size + w - 1) \div w
         IN  c \in Nat \ {0} /\ (c * w) \div w = c
<1> DEFINE s == size + w - 1
           c == s \div w
<1>1. s \in Nat /\ s >= w
  OBVIOUS
<1> HIDE DEF s
<1>2. c \in Nat /\ s % w \in 0..(w - 1) /\ s = w * c + (s % w)
  BY <1>1, DivModLaw
<1>3. c # 0
  <2> SUFFICES ASSUME c = 0 PROVE FALSE
    OBVIOUS
  <2>1. s = s % w
    BY <1>1, <1>2
  <2> QED BY <1>1, <1>2, <2>1
<1> HIDE DEF c
<1>4. c * w \in Nat /\ c * w = w * c + 0
  BY <1>2
<1>5. c = (c * w) \div w
  BY <1>2, <1>4, DivModUnique
<1> QED BY <1>2, <1>3, <1>5 DEF c, s

(* Where the bit of key x lies at a level whose nodes have 2^l keys: in    *)
(* one of c words of 2^n bits, or just behind it.                          *)
HashedBit(a, b, c, n, l, x) ==
  ((a + b * Shr(x, l + n)) % c) * Pow2[n] + LowBits(Shr(x, l), n + 1)

(* The bit lies at most one word behind the last word, and is the bit of   *)
(* the first key of the node: hashing() uses no lower bits of the key.     *)
LEMMA HashedBitFacts ==
  ASSUME NEW a \in Nat, NEW b \in Nat, NEW c \in Nat \ {0}, NEW n \in Nat, NEW l \in Nat,
         NEW x \in Nat
  PROVE  /\ HashedBit(a, b, c, n, l, x) \in 0..(c * Pow2[n] + Pow2[n] - 1)
         /\ HashedBit(a, b, c, n, l, AlignDown(x, l)) = HashedBit(a, b, c, n, l, x)
<1> DEFINE W == Pow2[n]
           D == Pow2[n + 1]
           h == Shr(x, l + n)
           y == Shr(x, l)
           w == (a + b * h) % c
           o == y % D
<1>1. W \in Nat \ {0} /\ D \in Nat \ {0} /\ D = 2 * W
  BY Pow2Facts
<1>2. h \in Nat /\ y \in Nat
  <2>1. l + n \in Nat /\ Pow2[l + n] \in Nat \ {0} /\ Pow2[l] \in Nat \ {0}
    BY Pow2Facts
  <2> QED BY <2>1, DivModLaw DEF Shr
<1>3. HashedBit(a, b, c, n, l, x) = w * W + o
  BY DEF HashedBit, LowBits
<1> HIDE DEF W, D, h, y
<1>4. a + b * h \in Nat
  BY <1>2
<1>5. w \in 0..(c - 1)
  BY <1>4, DivModLaw
<1>6. o \in 0..(2 * W - 1)
  <2>1. o \in 0..(D - 1)
    BY <1>1, <1>2, DivModLaw
  <2> QED BY <1>1, <2>1
<1> HIDE DEF w, o
<1>7. w * W \in Nat /\ w * W <= (c - 1) * W
  BY <1>1, <1>5
<1>8. (c - 1) * W = c * W - W /\ c * W \in Nat
  BY <1>1
<1>9. w * W + o \in 0..(c * W + W - 1)
  BY <1>1, <1>6, <1>7, <1>8
<1>10. HashedBit(a, b, c, n, l, AlignDown(x, l)) = HashedBit(a, b, c, n, l, x)
  <2>1. Shr(AlignDown(x, l), l + n) = Shr(x, l + n)
    BY ShiftAligned
  <2>2. Shr(AlignDown(x, l), l + 0) = Shr(x, l + 0)
    BY ShiftAligned
  <2>3. l + 0 = l
    OBVIOUS
  <2>4. Shr(AlignDown(x, l), l) = Shr(x, l)
    BY <2>2, <2>3
  <2> QED BY <2>1, <2>4 DEF HashedBit
<1> QED BY <1>3, <1>9, <1>10 DEF W

=============================================================================
