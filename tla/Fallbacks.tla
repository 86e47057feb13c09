------------------------------ MODULE Fallbacks ------------------------------
(***************************************************************************)
(* Calls that try one candidate after the other: language models by        *)
(* LLMGateway.generate and GeminiClient.search, models with retries by     *)
(* search and stream_search of GeminiFileSearchClient, sources of the      *)
(* product catalogue by _load_products_best_effort, and the attempts of    *)
(* upload_document_to_store.  A try has one or two steps, each a request.  *)
(***************************************************************************)
EXTENDS Naturals, Sequences, FiniteSets

CONSTANTS
  Calls,
  MaxAttempts  \* max_attempts_per_model of a search, max_retries of an upload

ASSUME FallbacksAssumption == MaxAttempts \in Nat \ {0}

VARIABLES
  call,    \* per call: what it is and where it is
  tried,   \* per call, history: the tries that are over
  copies   \* per call: documents the store has from it

fallbackVars == <<call, tried, copies>>

CallKinds == {"generate", "search", "upload", "products"}
CallStages == {"idle", "asking", "backoff", "answered", "failed"}
TryOutcomes == {"retry", "refused", "empty", "answer", "unreadable"}

(* The model and its fallback; onboarding, public, curriculum; one store.  *)
Routes(kind) == CASE kind = "products" -> {3} [] kind = "upload" -> {1} [] OTHER -> {1, 2}

Tries(kind) == IF kind \in {"search", "upload"} THEN MaxAttempts ELSE 1

(* An upload is started and sent; modules and bundles are two tables.      *)
Steps(kind, at) == IF kind = "upload" \/ (kind = "products" /\ at < 3) THEN 2 ELSE 1

NoCall == [stage |-> "idle", kind |-> "generate", route |-> 1, at |-> 1, attempt |-> 1, step |-> 1, found |-> FALSE]

FallbacksTypeOK ==
  /\ call \in [Calls -> [stage : CallStages, kind : CallKinds, route : 1..3, at : 1..3,
                         attempt : 1..MaxAttempts, step : 1..2, found : BOOLEAN]]
  /\ \A c \in Calls : \A i \in 1..Len(tried[c]) :
       tried[c][i] \in [at : 1..3, outcome : TryOutcomes, lost : BOOLEAN, whole : BOOLEAN]
  /\ copies \in [Calls -> 0..MaxAttempts]

FallbacksInit ==
  /\ call = [c \in Calls |-> NoCall]
  /\ tried = [c \in Calls |-> <<>>]
  /\ copies = [c \in Calls |-> 0]

BeginCall(c, kind, route) ==
  /\ call[c].stage = "idle"
  /\ call' = [call EXCEPT ![c] = [stage |-> "asking", kind |-> kind, route |-> route, at |-> 1,
                                  attempt |-> 1, step |-> 1, found |-> FALSE]]
  /\ UNCHANGED <<tried, copies>>

Asking(c) == call[c].stage = "asking"
LastStep(c) == call[c].step = Steps(call[c].kind, call[c].at)

(* The try of c is over.                                                   *)
TryOver(c, outcome, lost) ==
  tried' = [tried EXCEPT ![c] = Append(@, [at |-> call[c].at, outcome |-> outcome, lost |-> lost,
                                           whole |-> LastStep(c)])]

(* After a try that failed for good comes the next candidate.  After the   *)
(* last one a call fails, and the catalogue is PRODUCTS_FALLBACK.          *)
NextCandidate(c) ==
  IF call[c].at < call[c].route
  THEN [call EXCEPT ![c] = [stage |-> "asking", kind |-> @.kind, route |-> @.route, at |-> @.at + 1,
                            attempt |-> 1, step |-> 1, found |-> FALSE]]
  ELSE [call EXCEPT ![c].stage = IF call[c].kind = "products" THEN "answered" ELSE "failed"]

(* The upload may be sent, the bundles may be read.                        *)
StepAnswered(c, rows) ==
  /\ Asking(c) /\ ~LastStep(c)
  /\ call' = [call EXCEPT ![c].step = @ + 1, ![c].found = rows]
  /\ UNCHANGED <<tried, copies>>

Stored(c) == IF call[c].kind = "upload" THEN [copies EXCEPT ![c] = @ + 1] ELSE copies

CallAnswered(c) ==
  /\ Asking(c) /\ LastStep(c)
  /\ TryOver(c, "answer", FALSE)
  /\ call' = [call EXCEPT ![c].stage = "answered"]
  /\ copies' = Stored(c)

(* Neither modules nor bundles: the next source.                           *)
NoProducts(c) ==
  /\ Asking(c) /\ LastStep(c) /\ call[c].kind = "products" /\ ~call[c].found
  /\ TryOver(c, "empty", FALSE)
  /\ call' = NextCandidate(c)
  /\ UNCHANGED copies

(* An error that trying again does not cure: a status of 400 or another    *)
(* one that is not retried, a time limit or an answer in JSON mode that is *)
(* no JSON object (generate), an unknown provider, a missing table.        *)
Refused(c) ==
  /\ Asking(c)
  /\ TryOver(c, "refused", FALSE)
  /\ call' = NextCandidate(c)
  /\ UNCHANGED copies

LastAttempt_OffByOne(c) == call[c].attempt + 1 = Tries(call[c].kind)

LastAttempt_OneMore(c) == call[c].attempt > Tries(call[c].kind)

LastAttempt(c) == call[c].attempt = Tries(call[c].kind)

(* A timeout, a network error or a status to retry.  What was sent may     *)
(* have been stored though its answer is lost.                             *)
Troubled(c, lost) ==
  /\ Asking(c) /\ call[c].kind \in {"search", "upload"}
  /\ lost => call[c].kind = "upload" /\ LastStep(c)
  /\ TryOver(c, "retry", lost)
  /\ call' = IF LastAttempt(c) THEN NextCandidate(c) ELSE [call EXCEPT ![c].stage = "backoff"]
  /\ copies' = IF lost THEN Stored(c) ELSE copies

RetryCall(c) ==
  /\ call[c].stage = "backoff"
  /\ call' = [call EXCEPT ![c].stage = "asking", ![c].attempt = @ + 1, ![c].step = 1]
  /\ UNCHANGED <<tried, copies>>

Unreadable_Retried(c) ==
  /\ Asking(c) /\ call[c].kind \in {"search", "upload"} /\ LastStep(c)
  /\ TryOver(c, "retry", FALSE)
  /\ call' = IF LastAttempt(c) THEN NextCandidate(c) ELSE [call EXCEPT ![c].stage = "backoff"]
  /\ copies' = Stored(c)

(* A status of success with a body that is no JSON raises past the retries *)
(* and past the other model.                                               *)
Unreadable(c) ==
  /\ Asking(c) /\ call[c].kind \in {"search", "upload"} /\ LastStep(c)
  /\ TryOver(c, "unreadable", FALSE)
  /\ call' = [call EXCEPT ![c].stage = "failed"]
  /\ copies' = Stored(c)

FallbacksNext ==
  \E c \in Calls :
    \/ \E kind \in CallKinds : \E route \in Routes(kind) : BeginCall(c, kind, route)
    \/ \E rows \in BOOLEAN : StepAnswered(c, rows)
    \/ CallAnswered(c) \/ NoProducts(c) \/ Refused(c)
    \/ \E lost \in BOOLEAN : Troubled(c, lost)
    \/ RetryCall(c) \/ Unreadable(c)

FallbacksSpec == FallbacksInit /\ [][FallbacksNext]_fallbackVars

-----------------------------------------------------------------------------
TriesOf(c, at, i) == Cardinality({j \in 1..i : tried[c][j].at = at})

(* The i-th try of c used up its candidate: it was refused or empty, or it *)
(* was the last one the candidate had.                                     *)
UsedUp(c, i) ==
  \/ tried[c][i].outcome \in {"refused", "empty"}
  \/ tried[c][i].outcome = "retry" /\ TriesOf(c, tried[c][i].at, i) = Tries(call[c].kind)

(* No candidate is skipped, given up early or tried too often: each try    *)
(* goes to the candidate of the one before, or to the next if that one is  *)
(* used up; a call that failed ends with its last candidate used up or     *)
(* with a body that cannot be read; and an answer is a whole one, never    *)
(* the first of two tables after the second could not be read.             *)
FailoverEarned ==
  \A c \in Calls :
    LET n == Len(tried[c]) IN
    /\ \A i \in 1..n-1 : tried[c][i+1].at = tried[c][i].at + IF UsedUp(c, i) THEN 1 ELSE 0
    /\ call[c].stage = "failed" =>
         tried[c][n].outcome = "unreadable" \/ (tried[c][n].at = call[c].route /\ UsedUp(c, n))
    /\ \A i \in 1..n : tried[c][i].outcome = "answer" => i = n /\ tried[c][i].whole

(* One call leaves the same document twice in a store only if the answer   *)
(* to an earlier try was lost: what the store acknowledged, readably or    *)
(* not, is never sent again by that call.                                  *)
DuplicatesAreLostAnswers ==
  \A c \in Calls : copies[c] > 1 => \E i \in 1..Len(tried[c]) - 1 : tried[c][i].lost

=============================================================================
