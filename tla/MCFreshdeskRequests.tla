------------------------ MODULE MCFreshdeskRequests ------------------------
(* FreshdeskRequests on small instances. *)
EXTENDS FreshdeskRequests, TLC

\* no header, and values below, between and above the bounds
MCHeaders == {0, 1, 3, 5}
=============================================================================
