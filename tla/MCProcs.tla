------------------------------ MODULE MCProcs ------------------------------
(* Procs for TLC: the configurations give every constant its value.         *)
EXTENDS Procs, TLC

=============================================================================
