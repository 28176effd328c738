----------------------------- MODULE MCHashtab -----------------------------
(***************************************************************************)
(* Instances of Hashtab: the first primes of prime_tab, and elements whose *)
(* hashes collide in the small table, in the larger one, or in both.       *)
(***************************************************************************)
EXTENDS Hashtab

CONSTANTS a, b, c, d

MCPrimes == [i \in 0..3 |-> CASE i = 0 -> 7 [] i = 1 -> 13 [] i = 2 -> 31 [] OTHER -> 61]
MCHash == [x \in Elements |->
             CASE x = a -> 0 [] x = b -> 7 [] x = c -> 35 [] OTHER -> 1]

=============================================================================
