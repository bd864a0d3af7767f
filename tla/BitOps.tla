------------------------------- MODULE BitOps -------------------------------
(***************************************************************************)
(* The bitwise operators of the two languages on numbers that are not      *)
(* negative, as recursive functions: what a pair of numbers gives is its   *)
(* lowest bit and twice what the rest of them gives.  Powers of two, as    *)
(* such a function too.                                                    *)
(***************************************************************************)
EXTENDS Integers

\* 1 << n
Power[n \in Nat] == IF n = 0 THEN 1 ELSE 2 * Power[n - 1]

XorOf[p \in Nat \X Nat] ==
  IF p[1] = 0 THEN p[2]
  ELSE ((p[1] + p[2]) % 2) + 2 * XorOf[<<p[1] \div 2, p[2] \div 2>>]

AndOf[p \in Nat \X Nat] ==
  IF p[1] = 0 THEN 0
  ELSE (p[1] % 2) * (p[2] % 2) + 2 * AndOf[<<p[1] \div 2, p[2] \div 2>>]

a ^^ b == XorOf[<<a, b>>]

a & b == AndOf[<<a, b>>]

\* Each bit that is in one or in both of them.
a | b == XorOf[<<a, b>>] + AndOf[<<a, b>>]
=============================================================================
