------------------------------ MODULE Selection ------------------------------
(***************************************************************************)
(* Sorting and filtering, by counting: the n-th of a finite set of numbers *)
(* is the one with n of the set up to it.  Nothing here recurses, so what  *)
(* TLC computes a proof can reason about as well.                          *)
(***************************************************************************)
EXTENDS Integers, Sequences, FiniteSets

Rank(P, i) == Cardinality({j \in P : j <= i})

Nth(P, n) == CHOOSE i \in P : Rank(P, i) = n

\* A set of numbers in ascending order.
Sorted(P) == [n \in 1..Cardinality(P) |-> Nth(P, n)]

\* What a sequence holds at a set of positions, in its order.
Pick(s, P) == [n \in 1..Cardinality(P) |-> s[Nth(P, n)]]
=============================================================================
