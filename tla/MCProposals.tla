----------------------------- MODULE MCProposals -----------------------------
(* Proposals on small instances. *)
EXTENDS Proposals
=============================================================================
