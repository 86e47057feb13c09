---------------------------- MODULE MCSessionChat ----------------------------
(* SessionChat on small instances, whose requests are interchangeable. *)
EXTENDS SessionChat, TLC

Symmetry == Permutations(Requests)
=============================================================================
