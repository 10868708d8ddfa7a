-------------------------------- MODULE MCExec ------------------------------
(* Finite instances of Exec: every constant is a number. *)
EXTENDS Exec
=============================================================================
