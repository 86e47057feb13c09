---------------------------- MODULE MCTicketPages ----------------------------
(* TicketPages on small instances. *)
EXTENDS TicketPages
=============================================================================
