------------------------------- MODULE Selections -------------------------------
(* What is left of a sequence when only some of its places are kept, in their  *)
(* order: std::remove or std::remove_if and an erase, or a copy that leaves    *)
(* elements out.                                                               *)
EXTENDS Integers, FiniteSets

(* The k-th of a set of places.                                                *)
Nth(at, k) == CHOOSE i \in at : Cardinality({j \in at : j <= i}) = k

Selection(s, at) == [k \in 1 .. Cardinality(at) |-> s[Nth(at, k)]]
=============================================================================
