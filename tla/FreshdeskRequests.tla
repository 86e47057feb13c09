-------------------------- MODULE FreshdeskRequests --------------------------
(***************************************************************************)
(* FreshdeskClient._request of app/services/freshdesk_client.py: requests  *)
(* that run concurrently on one client, its rate-limit window and the      *)
(* retries.                                                                *)
(*                                                                         *)
(* Times are seconds from now.  Between its check of the window and the    *)
(* moment a request is on its way a coroutine does not suspend, so the     *)
(* check, or the end of a sleep, and the sending are one action.           *)
(***************************************************************************)
EXTENDS Integers

CONSTANTS
  Requests,   \* coroutines that use the client
  Attempts,   \* max_attempts
  Headers,    \* values of Retry-After; 0 if there is none, or none that parses
  Fallback, MinSeconds, MaxSeconds  \* RATE_LIMIT_*_SECONDS

ASSUME AttemptsAssumption == Attempts \in Nat \ {0}
ASSUME HeadersAssumption == Headers \subseteq Nat
ASSUME SecondsAssumption ==
  /\ Fallback \in Nat /\ MinSeconds \in Nat \ {0} /\ MaxSeconds \in Nat
  /\ MinSeconds <= Fallback /\ Fallback <= MaxSeconds

VARIABLES
  window,     \* _rate_limit_reset_at; 0 if it is None or has passed
  pc,         \* where a coroutine stands in _request
  attempt,    \* attempts it has used up
  sleep,      \* what is left of the sleep it is in
  hold        \* history: what is left of the Retry-After its request was last given

vars == <<window, pc, attempt, sleep, hold>>

LongestBackoff == 2 * Attempts
LongestSleep == IF MaxSeconds > LongestBackoff THEN MaxSeconds ELSE LongestBackoff

TypeOK ==
  /\ window \in 0 .. MaxSeconds
  /\ pc \in [Requests -> {"idle", "waiting", "inflight", "backoff"}]
  /\ attempt \in [Requests -> 0 .. Attempts - 1]
  /\ sleep \in [Requests -> 0 .. LongestSleep]
  /\ hold \in [Requests -> 0 .. MaxSeconds]

Init ==
  /\ window = 0
  /\ pc = [r \in Requests |-> "idle"]
  /\ attempt = [r \in Requests |-> 0]
  /\ sleep = [r \in Requests |-> 0]
  /\ hold = [r \in Requests |-> 0]

-----------------------------------------------------------------------------
\* _schedule_rate_limit_wait: the seconds to wait, and the window after them
WaitSeconds_Unbounded(h) == IF h = 0 THEN Fallback ELSE h
WaitSeconds(h) ==
  LET s == IF h = 0 THEN Fallback ELSE h
  IN  IF s < MinSeconds THEN MinSeconds ELSE IF s > MaxSeconds THEN MaxSeconds ELSE s

Extended_FirstWins(s) == IF window = 0 THEN s ELSE window
Extended(s) == IF s > window THEN s ELSE window

NextAttempt_Forgotten(r) == attempt[r]
NextAttempt(r) == attempt[r] + 1
LastAttempt(r) == NextAttempt(r) = Attempts

\* _wait_for_rate_limit with w the window it reads: go on at once if it has
\* passed, otherwise sleep for what is left of it.
WaitForWindow(r, w) ==
  /\ pc' = [pc EXCEPT ![r] = IF w = 0 THEN "inflight" ELSE "waiting"]
  /\ sleep' = [sleep EXCEPT ![r] = w]

Ends(r) ==
  /\ pc' = [pc EXCEPT ![r] = "idle"]
  /\ attempt' = [attempt EXCEPT ![r] = 0]
  /\ sleep' = [sleep EXCEPT ![r] = 0]

BeginRequest(r) ==
  /\ pc[r] = "idle"
  /\ WaitForWindow(r, window)
  /\ hold' = [hold EXCEPT ![r] = 0]
  /\ UNCHANGED <<window, attempt>>

\* The sleep is over: the window is cleared, whatever it has become since, and
\* the request is sent.
WindowOver(r) ==
  /\ pc[r] = "waiting" /\ sleep[r] = 0
  /\ window' = 0
  /\ pc' = [pc EXCEPT ![r] = "inflight"]
  /\ UNCHANGED <<attempt, sleep, hold>>

\* 429: the window is extended and the request goes straight into it, or is
\* given up.
RateLimited(r, h) ==
  /\ pc[r] = "inflight"
  /\ window' = Extended(WaitSeconds(h))
  /\ hold' = [hold EXCEPT ![r] = WaitSeconds(h)]
  /\ IF LastAttempt(r)
     THEN Ends(r)
     ELSE /\ WaitForWindow(r, window')
          /\ attempt' = [attempt EXCEPT ![r] = NextAttempt(r)]

\* 502 and 503 (2 s more with each attempt), or a timeout (1 s more): a retry
\* after a pause, except after the last attempt.
ServerTrouble(r, step) ==
  /\ pc[r] = "inflight"
  /\ IF LastAttempt(r)
     THEN Ends(r)
     ELSE /\ pc' = [pc EXCEPT ![r] = "backoff"]
          /\ sleep' = [sleep EXCEPT ![r] = step * (attempt[r] + 1)]
          /\ attempt' = [attempt EXCEPT ![r] = NextAttempt(r)]
  /\ UNCHANGED <<window, hold>>

BackoffOver(r) ==
  /\ pc[r] = "backoff" /\ sleep[r] = 0
  /\ WaitForWindow(r, window)
  /\ UNCHANGED <<window, attempt, hold>>

\* An answer, or an error that is not retried
Answered(r) ==
  /\ pc[r] = "inflight"
  /\ Ends(r)
  /\ UNCHANGED <<window, hold>>

Elapse(n) == IF n = 0 THEN 0 ELSE n - 1

\* A second passes.  A sleep may last longer than asked for.
Tick ==
  /\ window' = Elapse(window)
  /\ sleep' = [r \in Requests |-> Elapse(sleep[r])]
  /\ hold' = [r \in Requests |-> Elapse(hold[r])]
  /\ UNCHANGED <<pc, attempt>>

Respond(r) ==
  \/ \E h \in Headers : RateLimited(r, h)
  \/ \E step \in {1, 2} : ServerTrouble(r, step)
  \/ Answered(r)
Proceed(r) == WindowOver(r) \/ BackoffOver(r) \/ Respond(r)

Next == Tick \/ \E r \in Requests : BeginRequest(r) \/ Proceed(r)

\* Time passes, a sleep that is over is resumed, and a request is answered or
\* runs into the client's timeout.
Spec == Init /\ [][Next]_vars /\ WF_vars(Tick) /\ \A r \in Requests : WF_vars(Proceed(r))

-----------------------------------------------------------------------------
(* Properties *)

\* A request that was told how long to keep away is not sent again before
\* that time is over, whatever the others do to the window they share: its own
\* sleep covers its own Retry-After.
OwnRetryAfterHonoured ==
  [][\A r \in Requests : pc[r] # "inflight" /\ pc'[r] = "inflight" => hold'[r] = 0]_vars

\* A request ends: no answers of the server, and no windows that others open
\* while it sleeps, keep it going forever.
EveryRequestEnds == \A r \in Requests : pc[r] # "idle" ~> pc[r] = "idle"

\* "Waits for the rate limit window": no request is sent while the time a 429
\* asked for, of whichever request, is not over.
NoSendInWindow ==
  [][\A r \in Requests : pc[r] # "inflight" /\ pc'[r] = "inflight" =>
       \A q \in Requests : hold'[q] = 0]_vars
=============================================================================
