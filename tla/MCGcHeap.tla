------------------------------ MODULE MCGcHeap ------------------------------
(* Instances of GcHeap for TLC. *)
EXTENDS GcHeap, TLC

\* Addresses are interchangeable.
Symmetry == Permutations(Obj)

Pairs(f) == {p \in Obj \X Obj : p[2] \in f[p[1]]}

\* Bounds: three Values inside objects, and one class that composes one trait.
SmallGraph == Cardinality(Pairs(vals)) <= 3 /\ Cardinality(Pairs(traits)) <= 1
=============================================================================
