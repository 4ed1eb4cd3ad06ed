------------------------------- MODULE MCJit -------------------------------
(* Jit for TLC: two functions that can be compiled and one with a handler.   *)
EXTENDS Jit, TLC

CONSTANTS f, g, h, main

MCFns == {f, g, h}
MCHasTry == {h}

\* The bound of the run: exploration stops where a second activation's object
\* is without its guard, and where one is lost.
OneExposed ==
    /\ Cardinality({d \in DOMAIN stack : stack[d].exposed}) < 2
    /\ \A d \in DOMAIN stack : ~stack[d].lost

MCSymmetry == Permutations({f, g})
=============================================================================
