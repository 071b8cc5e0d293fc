------------------------------- MODULE MCChat -------------------------------
(* The conversation with a bounded number of jobs. *)
EXTENDS Chat

=============================================================================
