---------------------------- MODULE Conversation ----------------------------
(***************************************************************************)
(* What SessionRepository of app/services/session_repository.py promises   *)
(* of one session: a turn or a question that is appended stays, in the     *)
(* order of the appends, until MaxTurns newer turns have followed it or    *)
(* the whole session is forgotten.                                         *)
(***************************************************************************)
EXTENDS Naturals, Sequences

CONSTANTS
  Requests,   \* chat requests; a request's turn or question goes by its name
  MaxTurns    \* turns kept: five, ten entries of conversationHistory

VARIABLES turns, questions

LastTurns(s) ==
  IF Len(s) > MaxTurns THEN SubSeq(s, Len(s) - MaxTurns + 1, Len(s)) ELSE s

Init == turns = <<>> /\ questions = <<>>

AppendTurn(r) ==
  /\ turns' = LastTurns(Append(turns, r))
  /\ UNCHANGED questions

AppendQuestion(r) ==
  /\ questions' = Append(questions, r)
  /\ UNCHANGED turns

\* the session expires, or its process ends
Forget == turns' = <<>> /\ questions' = <<>>

Next == Forget \/ \E r \in Requests : AppendTurn(r) \/ AppendQuestion(r)

Spec == Init /\ [][Next]_<<turns, questions>>
=============================================================================
