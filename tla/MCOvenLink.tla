----------------------------- MODULE MCOvenLink -----------------------------
(***************************************************************************)
(* OvenLink on a small instance: one start and two other commands.  The    *)
(* invariant its proofs rest on is checked here as well.                   *)
(***************************************************************************)
EXTENDS OvenLink_proofs
=============================================================================
