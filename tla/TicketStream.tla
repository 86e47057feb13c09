---------------------------- MODULE TicketStream ----------------------------
(***************************************************************************)
(* What the synchronisation may rely on when it iterates over the tickets  *)
(* of a help desk: batches come page by page, in order, none twice, each   *)
(* with one record per ticket of its page.  Pages may be left out, because *)
(* fetching them failed, and a record may lack its conversations.          *)
(***************************************************************************)
EXTENDS Naturals, Sequences

CONSTANTS
  NPages,     \* pages of tickets the help desk holds
  PerPage,    \* tickets on a full page
  LastSize    \* tickets on the last page

VARIABLES
  out,        \* the batches delivered so far
  ended       \* has the stream said that there is no more?

PageSize(p) == IF p < NPages THEN PerPage ELSE IF p = NPages THEN LastSize ELSE 0

\* a record holds the conversations of the ticket at its place, or none
Record(p) == [1 .. PageSize(p) -> {"conversations", "empty"}]

LastDelivered == IF out = <<>> THEN 0 ELSE out[Len(out)].page

Init == out = <<>> /\ ended = FALSE

Deliver ==
  /\ ~ended
  /\ \E p \in LastDelivered + 1 .. NPages : \E r \in Record(p) :
       out' = Append(out, [page |-> p, records |-> r])
  /\ UNCHANGED ended

End ==
  /\ ~ended
  /\ ended' = TRUE
  /\ UNCHANGED out

Next == Deliver \/ End

Spec == Init /\ [][Next]_<<out, ended>> /\ WF_<<out, ended>>(Next)
=============================================================================
