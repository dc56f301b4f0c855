---------------------------- MODULE MCRunLength ----------------------------
(* Model-checking instance of RunLength. *)
EXTENDS RunLength
=============================================================================
