---------------------------- MODULE Subsequences ----------------------------
(***************************************************************************)
(* What Vec::retain and an iterator's filter leave of a sequence, without  *)
(* recursion.                                                              *)
(***************************************************************************)
EXTENDS Integers, Sequences, FiniteSets

\* The k-th smallest of J.
Nth(J, k) == CHOOSE i \in J : Cardinality({j \in J : j < i}) = k - 1

\* The elements of s at the positions J, in their order.
Picked(s, J) == [k \in 1 .. Cardinality(J) |-> s[Nth(J, k)]]

\* The elements of s that satisfy Test, in their order.
Filtered(s, Test(_)) == Picked(s, {i \in DOMAIN s : Test(s[i])})
=============================================================================
