------------------------------ MODULE MCWindow ------------------------------
(* The instance of Window for TLC is given by its configuration. *)
EXTENDS Window
=============================================================================
