----------------------------- MODULE Selection -----------------------------
(***************************************************************************)
(* What is left of a sequence, and in which order, stated without a loop:  *)
(* an element stands where as many as its place are no greater than it.    *)
(***************************************************************************)
EXTENDS Integers, FiniteSets

\* The elements of a finite set in the order of their keys, which differ.
Ascending(S, key) ==
  [k \in 1 .. Cardinality(S) |->
     CHOOSE x \in S : Cardinality({y \in S : key[y] <= key[x]}) = k]

\* The elements of s at the positions P, in their order.
Selected(s, P) ==
  LET order == Ascending(P, [i \in P |-> i])
  IN  [k \in 1 .. Cardinality(P) |-> s[order[k]]]

=============================================================================
