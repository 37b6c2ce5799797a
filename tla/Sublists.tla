------------------------------- MODULE Sublists -------------------------------
(* The entries of a sequence that Array.filter keeps, without recursion. *)
EXTENDS Naturals, FiniteSets

\* The entries of s at the places in ks, in the order of s.
Picked(s, ks) ==
  [n \in 1 .. Cardinality(ks) |-> s[CHOOSE k \in ks : Cardinality({j \in ks : j <= k}) = n]]
=============================================================================
