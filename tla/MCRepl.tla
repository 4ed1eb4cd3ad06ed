------------------------------- MODULE MCRepl -------------------------------
(* The instance of Repl for TLC is given by its configuration. *)
EXTENDS Repl
=============================================================================
