------------------------------ MODULE MCCloud -------------------------------
(* A small instance of Cloud. *)
EXTENDS Cloud
=============================================================================
