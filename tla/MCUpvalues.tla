----------------------------- MODULE MCUpvalues -----------------------------
(* Instances of Upvalues for TLC. *)
EXTENDS Upvalues, FiniteSets, TLC

\* The values a program stores are interchangeable.
Symmetry == Permutations(Value)

\* Bound: at most two ways besides RETURN in one behaviour.
TwoWays == Cardinality(left) <= 2
=============================================================================
