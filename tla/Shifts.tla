------------------------------- MODULE Shifts -------------------------------
(***************************************************************************)
(* The unsigned shifts and masks every index of the repository is built    *)
(* from: "initialBuckets << i" and "id & (size - 1)" in linear hashing,    *)
(* "key >> (li + delta_ - 1)" and "& word_mask_" in the range filter, and  *)
(* "~((1ULL << s) - 1)" in the adjacent-worker search.                     *)
(*                                                                         *)
(* Pow2 is a recursive function, not a RECURSIVE operator and not "^", so  *)
(* that the proofs can reason about it for every exponent.                 *)
(***************************************************************************)
EXTENDS Integers

\* 1ULL << n
Pow2[n \in Nat] == IF n = 0 THEN 1 ELSE 2 * Pow2[n - 1]

\* x << n, x >> n, and x & ((1 << n) - 1)
Shl(x, n) == x * Pow2[n]
Shr(x, n) == x \div Pow2[n]
LowBits(x, n) == x % Pow2[n]

\* x & ~((1 << n) - 1): x with its n low bits cleared
AlignDown(x, n) == Shl(Shr(x, n), n)

=============================================================================
