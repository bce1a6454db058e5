------------------------------- MODULE Doubles -------------------------------
(***************************************************************************)
(* The doubles that class Storage aggregates its uint64_t keys in.  A      *)
(* double has Precision significant bits (53 in the code); what has more   *)
(* is rounded to the nearest number that has not, and to the one with an   *)
(* even last bit when two are as near, the rounding every conversion,      *)
(* addition and division does (IEEE 754, in its default mode).  Exponents  *)
(* are unbounded: keys are 64 bits long, so no sum is infinite and no      *)
(* average is subnormal.                                                   *)
(***************************************************************************)
EXTENDS Shifts

CONSTANT Precision

ASSUME DoublesAssumption == Precision \in Nat \ {0}

\* The integer nearest n / d, the even one if two are
ToNearest(n, d) ==
  LET q == n \div d
      r == 2 * (n % d)
  IN  IF r < d \/ (r = d /\ q % 2 = 0) THEN q ELSE q + 1

\* The bits that n / d has before the point in excess of Precision
Excess(n, d) ==
  CHOOSE e \in 0..n :
    /\ n < d * Pow2[Precision + e]
    /\ e = 0 \/ d * Pow2[Precision + e - 1] <= n

\* n / d to a multiple of 2^Excess: to Precision bits when it has that many
\* before the point
Rounded(n, d) == LET u == Pow2[Excess(n, d)] IN u * ToNearest(n, d * u)

\* A natural number, or the sum of two doubles that are integers, as a double
ToDouble(n) == Rounded(n, 1)

\* The double a divided by the integer b, which is not 0: a fraction whose
\* denominator is the least power of two that leaves Precision bits before the
\* point.  Integers of the code's 32 bits are doubles.
Quotient(a, b) ==
  LET abs == IF b < 0 THEN -b ELSE b
      f == CHOOSE i \in 0..(abs + Precision) :
             /\ abs * Pow2[Precision - 1] <= a * Pow2[i]
             /\ i = 0 \/ a * Pow2[i - 1] < abs * Pow2[Precision - 1]
      m == Rounded(a * Pow2[f], abs)
  IN  IF a = 0 THEN <<0, 1>> ELSE <<IF b < 0 THEN -m ELSE m, Pow2[f]>>

\* The loops "total += key" over the positions 1..m of a list, from 0.0, rounding
\* at each key and at each addition.  keys has the keys of the positions that the
\* loop does not skip.
RoundedSum(keys, m) ==
  LET total[n \in 0..m] ==
        IF n = 0 THEN 0
        ELSE IF n \in DOMAIN keys THEN ToDouble(total[n - 1] + ToDouble(keys[n]))
        ELSE total[n - 1]
  IN  total[m]

=============================================================================
