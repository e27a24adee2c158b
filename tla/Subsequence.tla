---------------------------- MODULE Subsequence ----------------------------
(***************************************************************************)
(* What std::erase_if, and a loop that pushes back under an `if', leave of *)
(* a list: the elements at some positions, in their order.                 *)
(***************************************************************************)
EXTENDS Naturals, Sequences, FiniteSets

\* How many positions of K are at i or before it.
Rank(K, i) == Cardinality({h \in K : h <= i})

\* The elements of s at the positions K.
Kept(s, K) == [j \in 1..Cardinality(K) |-> s[CHOOSE i \in K : Rank(K, i) = j]]
=============================================================================
