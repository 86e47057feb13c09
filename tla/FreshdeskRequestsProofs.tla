----------------------- MODULE FreshdeskRequestsProofs -----------------------
(* The safety of FreshdeskRequests, for any number of requests, attempts and *)
(* any bounds on the waits.                                                  *)
EXTENDS FreshdeskRequests, TLAPS

\* A request that waits for the window sleeps at least as long as it was told
\* to keep away, and one that is past its wait owes nothing any more.
SleepCoversHold ==
  \A r \in Requests :
    /\ pc[r] = "waiting" => hold[r] <= sleep[r]
    /\ pc[r] \in {"inflight", "backoff"} => hold[r] = 0

IInv == TypeOK /\ SleepCoversHold

-----------------------------------------------------------------------------
\* The wait computed from a Retry-After lies between the bounds of the client.
LEMMA WaitSecondsBounded ==
  ASSUME NEW h \in Headers
  PROVE  WaitSeconds(h) \in 1 .. MaxSeconds
BY HeadersAssumption, SecondsAssumption DEF WaitSeconds

\* What the sleeps are bounded by covers the window and every backoff.
LEMMA LongestSleepCovers ==
  /\ LongestSleep \in Nat
  /\ MaxSeconds <= LongestSleep
  /\ 2 * Attempts <= LongestSleep
BY AttemptsAssumption, SecondsAssumption DEF LongestSleep, LongestBackoff

\* A second that passes takes at most one from what is left.
LEMMA ElapseBounded ==
  ASSUME NEW n \in Nat
  PROVE  /\ Elapse(n) \in Nat /\ Elapse(n) <= n
         /\ \A m \in Nat : m <= n => Elapse(m) <= Elapse(n)
BY DEF Elapse

\* Initially no request is under way.
LEMMA InitInv == Init => IInv
BY AttemptsAssumption, SecondsAssumption, LongestSleepCovers
   DEF Init, IInv, TypeOK, SleepCoversHold

-----------------------------------------------------------------------------
\* Waiting for the window keeps the types and sleeps for all of the window.
LEMMA WaitingInv ==
  ASSUME IInv, NEW r \in Requests, NEW w \in 0 .. MaxSeconds,
         WaitForWindow(r, w)
  PROVE  /\ pc' \in [Requests -> {"idle", "waiting", "inflight", "backoff"}]
         /\ sleep' \in [Requests -> 0 .. LongestSleep]
         /\ sleep'[r] = w
         /\ pc'[r] = IF w = 0 THEN "inflight" ELSE "waiting"
         /\ \A q \in Requests \ {r} : pc'[q] = pc[q] /\ sleep'[q] = sleep[q]
BY LongestSleepCovers, SecondsAssumption DEF IInv, TypeOK, WaitForWindow

\* A request that ends disturbs no other.
LEMMA EndingInv ==
  ASSUME IInv, NEW r \in Requests, Ends(r)
  PROVE  /\ pc' \in [Requests -> {"idle", "waiting", "inflight", "backoff"}]
         /\ sleep' \in [Requests -> 0 .. LongestSleep]
         /\ attempt' \in [Requests -> 0 .. Attempts - 1]
         /\ pc'[r] = "idle"
         /\ \A q \in Requests \ {r} : pc'[q] = pc[q] /\ sleep'[q] = sleep[q]
BY LongestSleepCovers, AttemptsAssumption DEF IInv, TypeOK, Ends

\* An attempt that is not the last leaves another one.
LEMMA NextAttemptInRange ==
  ASSUME IInv, NEW r \in Requests, ~LastAttempt(r),
         attempt' = [attempt EXCEPT ![r] = NextAttempt(r)]
  PROVE  attempt' \in [Requests -> 0 .. Attempts - 1]
BY AttemptsAssumption DEF IInv, TypeOK, LastAttempt, NextAttempt

-----------------------------------------------------------------------------
LEMMA BeginRequestInv ==
  ASSUME IInv, NEW r \in Requests, BeginRequest(r)
  PROVE  IInv'
<1>1. window \in 0 .. MaxSeconds /\ WaitForWindow(r, window)
  BY DEF IInv, TypeOK, BeginRequest
<1>2. /\ pc' \in [Requests -> {"idle", "waiting", "inflight", "backoff"}]
      /\ sleep' \in [Requests -> 0 .. LongestSleep]
      /\ sleep'[r] = window
      /\ \A q \in Requests \ {r} : pc'[q] = pc[q] /\ sleep'[q] = sleep[q]
  BY <1>1, WaitingInv
<1>3. /\ hold' \in [Requests -> 0 .. MaxSeconds] /\ hold'[r] = 0
      /\ \A q \in Requests \ {r} : hold'[q] = hold[q]
  BY SecondsAssumption DEF IInv, TypeOK, BeginRequest
<1>4. TypeOK'
  BY <1>2, <1>3 DEF IInv, TypeOK, BeginRequest
<1>5. SleepCoversHold'
  BY <1>1, <1>2, <1>3 DEF IInv, SleepCoversHold
<1> QED BY <1>4, <1>5 DEF IInv

LEMMA WindowOverInv ==
  ASSUME IInv, NEW r \in Requests, WindowOver(r)
  PROVE  IInv'
<1>1. TypeOK'
  BY SecondsAssumption DEF IInv, TypeOK, WindowOver
<1>2. hold[r] = 0
  BY DEF IInv, TypeOK, SleepCoversHold, WindowOver
<1>3. SleepCoversHold'
  BY <1>2 DEF IInv, TypeOK, SleepCoversHold, WindowOver
<1> QED BY <1>1, <1>3 DEF IInv

LEMMA RateLimitedInv ==
  ASSUME IInv, NEW r \in Requests, NEW h \in Headers, RateLimited(r, h)
  PROVE  IInv'
<1> DEFINE s == WaitSeconds(h)
<1>1. s \in 1 .. MaxSeconds
  BY WaitSecondsBounded
<1> HIDE DEF s
<1>2. window' \in 0 .. MaxSeconds /\ window' >= s /\ window' # 0
  <2>1. window' = Extended(s) /\ window \in 0 .. MaxSeconds
    BY DEF RateLimited, IInv, TypeOK, s
  <2> QED BY <2>1, <1>1 DEF Extended
<1>3. /\ hold' \in [Requests -> 0 .. MaxSeconds] /\ hold'[r] = s
      /\ \A q \in Requests \ {r} : hold'[q] = hold[q]
  <2>1. hold' = [hold EXCEPT ![r] = s] /\ hold \in [Requests -> 0 .. MaxSeconds]
    BY DEF RateLimited, IInv, TypeOK, s
  <2> QED BY <2>1, <1>1
<1>4. CASE LastAttempt(r)
  <2>1. Ends(r)
    BY <1>4 DEF RateLimited
  <2>2. TypeOK'
    BY <1>2, <1>3, <2>1, EndingInv DEF TypeOK
  <2>3. SleepCoversHold'
    BY <1>3, <2>1, EndingInv DEF IInv, SleepCoversHold
  <2> QED BY <2>2, <2>3 DEF IInv
<1>5. CASE ~LastAttempt(r)
  <2>1. WaitForWindow(r, window') /\ attempt' = [attempt EXCEPT ![r] = NextAttempt(r)]
    BY <1>5 DEF RateLimited
  <2>2. /\ pc' \in [Requests -> {"idle", "waiting", "inflight", "backoff"}]
        /\ sleep' \in [Requests -> 0 .. LongestSleep]
        /\ sleep'[r] = window'
        /\ pc'[r] = IF window' = 0 THEN "inflight" ELSE "waiting"
        /\ \A q \in Requests \ {r} : pc'[q] = pc[q] /\ sleep'[q] = sleep[q]
    BY <1>2, <2>1, WaitingInv
  <2>3. TypeOK'
    BY <1>2, <1>3, <1>5, <2>1, <2>2, NextAttemptInRange DEF TypeOK
  <2>4. SleepCoversHold'
    BY <1>2, <1>3, <2>2 DEF IInv, SleepCoversHold
  <2> QED BY <2>3, <2>4 DEF IInv
<1> QED BY <1>4, <1>5

LEMMA ServerTroubleInv ==
  ASSUME IInv, NEW r \in Requests, NEW step \in {1, 2}, ServerTrouble(r, step)
  PROVE  IInv'
<1>1. hold' = hold /\ hold[r] = 0 /\ window' = window
  BY DEF IInv, SleepCoversHold, ServerTrouble
<1>2. CASE LastAttempt(r)
  <2>1. Ends(r)
    BY <1>2 DEF ServerTrouble
  <2>2. TypeOK'
    BY <1>1, <2>1, EndingInv DEF IInv, TypeOK
  <2>3. SleepCoversHold'
    BY <1>1, <2>1, EndingInv DEF IInv, SleepCoversHold
  <2> QED BY <2>2, <2>3 DEF IInv
<1>3. CASE ~LastAttempt(r)
  <2>1. attempt[r] + 1 \in 1 .. Attempts
    BY AttemptsAssumption DEF IInv, TypeOK
  <2>2. step * (attempt[r] + 1) \in 0 .. LongestSleep
    <3>1. CASE step = 1
      BY <3>1, <2>1, LongestSleepCovers, AttemptsAssumption
    <3>2. CASE step = 2
      BY <3>2, <2>1, LongestSleepCovers, AttemptsAssumption
    <3> QED BY <3>1, <3>2
  <2>3. /\ pc' = [pc EXCEPT ![r] = "backoff"]
        /\ sleep' = [sleep EXCEPT ![r] = step * (attempt[r] + 1)]
        /\ attempt' = [attempt EXCEPT ![r] = NextAttempt(r)]
    BY <1>3 DEF ServerTrouble
  <2>4. attempt' \in [Requests -> 0 .. Attempts - 1]
    BY <1>3, <2>3, NextAttemptInRange
  <2>5. sleep' \in [Requests -> 0 .. LongestSleep]
    BY <2>2, <2>3 DEF IInv, TypeOK
  <2>6. TypeOK'
    BY <1>1, <2>3, <2>4, <2>5 DEF IInv, TypeOK
  <2>7. SleepCoversHold'
    BY <1>1, <2>3 DEF IInv, TypeOK, SleepCoversHold
  <2> QED BY <2>6, <2>7 DEF IInv
<1> QED BY <1>2, <1>3

LEMMA BackoffOverInv ==
  ASSUME IInv, NEW r \in Requests, BackoffOver(r)
  PROVE  IInv'
<1>1. /\ window \in 0 .. MaxSeconds /\ WaitForWindow(r, window)
      /\ UNCHANGED <<window, attempt, hold>> /\ hold[r] = 0
  BY DEF IInv, TypeOK, SleepCoversHold, BackoffOver
<1>2. /\ pc' \in [Requests -> {"idle", "waiting", "inflight", "backoff"}]
      /\ sleep' \in [Requests -> 0 .. LongestSleep]
      /\ sleep'[r] = window
      /\ \A q \in Requests \ {r} : pc'[q] = pc[q] /\ sleep'[q] = sleep[q]
  BY <1>1, WaitingInv
<1>3. TypeOK'
  BY <1>1, <1>2 DEF IInv, TypeOK
<1>4. SleepCoversHold'
  BY <1>1, <1>2 DEF IInv, SleepCoversHold
<1> QED BY <1>3, <1>4 DEF IInv

LEMMA AnsweredInv ==
  ASSUME IInv, NEW r \in Requests, Answered(r)
  PROVE  IInv'
<1>1. Ends(r) /\ UNCHANGED <<window, hold>>
  BY DEF Answered
<1>2. TypeOK'
  BY <1>1, EndingInv DEF IInv, TypeOK
<1>3. SleepCoversHold'
  BY <1>1, EndingInv DEF IInv, SleepCoversHold
<1> QED BY <1>2, <1>3 DEF IInv

LEMMA TickInv ==
  ASSUME IInv, Tick
  PROVE  IInv'
<1>1. window' \in 0 .. MaxSeconds
  BY SecondsAssumption, ElapseBounded DEF IInv, TypeOK, Tick
<1>2. \A r \in Requests : /\ sleep[r] \in Nat /\ sleep[r] <= LongestSleep
                          /\ hold[r] \in Nat /\ hold[r] <= MaxSeconds
  BY LongestSleepCovers, SecondsAssumption DEF IInv, TypeOK
<1>3. \A r \in Requests : /\ Elapse(sleep[r]) \in 0 .. LongestSleep
                          /\ Elapse(hold[r]) \in 0 .. MaxSeconds
                          /\ hold[r] <= sleep[r] => Elapse(hold[r]) <= Elapse(sleep[r])
                          /\ hold[r] = 0 => Elapse(hold[r]) = 0
  <2> TAKE r \in Requests
  <2>1. Elapse(sleep[r]) \in Nat /\ Elapse(sleep[r]) <= sleep[r]
    BY <1>2, ElapseBounded
  <2>2. Elapse(hold[r]) \in Nat /\ Elapse(hold[r]) <= hold[r]
    BY <1>2, ElapseBounded
  <2>3. hold[r] <= sleep[r] => Elapse(hold[r]) <= Elapse(sleep[r])
    BY <1>2, ElapseBounded
  <2> QED BY <1>2, <2>1, <2>2, <2>3, LongestSleepCovers, SecondsAssumption
<1>4. /\ sleep' = [r \in Requests |-> Elapse(sleep[r])]
      /\ hold' = [r \in Requests |-> Elapse(hold[r])]
      /\ UNCHANGED <<pc, attempt>>
  BY DEF Tick
<1>5. TypeOK'
  BY <1>1, <1>3, <1>4 DEF IInv, TypeOK
<1>6. SleepCoversHold'
  BY <1>3, <1>4 DEF IInv, SleepCoversHold
<1> QED BY <1>5, <1>6 DEF IInv

-----------------------------------------------------------------------------
\* Every step keeps the invariant.
LEMMA NextInv ==
  ASSUME IInv, [Next]_vars
  PROVE  IInv'
<1>1. CASE Tick
  BY <1>1, TickInv
<1>2. ASSUME NEW r \in Requests, BeginRequest(r) PROVE IInv'
  BY <1>2, BeginRequestInv
<1>3. ASSUME NEW r \in Requests, Proceed(r) PROVE IInv'
  BY <1>3, WindowOverInv, RateLimitedInv, ServerTroubleInv, BackoffOverInv, AnsweredInv
     DEF Proceed, Respond
<1>4. CASE UNCHANGED vars
  BY <1>4 DEF IInv, TypeOK, SleepCoversHold, vars
<1> QED BY <1>1, <1>2, <1>3, <1>4 DEF Next

\* The waits and attempts of every request stay in their bounds, and its sleep
\* covers what it was told to wait.
THEOREM Invariance == Spec => []IInv
BY InitInv, NextInv, PTL DEF Spec

\* The state of the client and of its requests keeps its type.
THEOREM TypeCorrect == Spec => []TypeOK
<1>1. IInv => TypeOK
  BY DEF IInv
<1> QED BY <1>1, Invariance, PTL

\* No request is sent before the time its own Retry-After asked for is over.
THEOREM RetryAfterHonoured == Spec => OwnRetryAfterHonoured
<1>1. IInv' => \A r \in Requests : pc[r] # "inflight" /\ pc'[r] = "inflight" => hold'[r] = 0
  BY DEF IInv, SleepCoversHold
<1> QED BY <1>1, Invariance, PTL DEF OwnRetryAfterHonoured, Spec

-----------------------------------------------------------------------------
(* What the liveness of a request rests on: a rank its steps only lower.     *)

\* Seconds and steps until the request is sent, at most: a backoff may still
\* run into the longest window.
Pause(r) ==
  CASE pc[r] = "waiting" -> 1 + sleep[r]
    [] pc[r] = "backoff" -> 2 + LongestSleep + sleep[r]
    [] OTHER -> 0

Closer(r) ==
  \/ attempt'[r] > attempt[r]
  \/ (attempt'[r] = attempt[r] /\ Pause(r)' < Pause(r))
NoFurther(r) == Closer(r) \/ (attempt'[r] = attempt[r] /\ Pause(r)' = Pause(r))
Over(r) == pc'[r] = "idle"

\* No step, of whichever request, takes a request further from its end: not a
\* window that others open, nor one they clear.  Its own steps, and every
\* second of its sleep, take it closer.
RequestsAdvance ==
  [][\A r \in Requests : pc[r] # "idle" =>
       /\ Over(r) \/ NoFurther(r)
       /\ Proceed(r) => Over(r) \/ Closer(r)
       /\ Tick /\ sleep[r] > 0 /\ pc[r] # "inflight" => Closer(r)]_vars

\* The pause is a number, with a bound that depends on the constants alone.
LEMMA PauseBounded ==
  ASSUME IInv, NEW r \in Requests
  PROVE  /\ Pause(r) \in 0 .. 2 + 2 * LongestSleep
         /\ attempt[r] \in 0 .. Attempts - 1
<1>1. /\ sleep[r] \in 0 .. LongestSleep
      /\ attempt[r] \in 0 .. Attempts - 1
  BY DEF IInv, TypeOK
<1> QED BY <1>1, LongestSleepCovers DEF Pause

\* A request that is resumed gets closer to its end.
LEMMA ProceedAdvances ==
  ASSUME IInv, NEW r \in Requests, Proceed(r)
  PROVE  Over(r) \/ Closer(r)
<1>1. /\ attempt \in [Requests -> 0 .. Attempts - 1]
      /\ pc \in [Requests -> {"idle", "waiting", "inflight", "backoff"}]
      /\ sleep \in [Requests -> 0 .. LongestSleep]
      /\ window \in 0 .. MaxSeconds
  BY DEF IInv, TypeOK
<1>2. CASE WindowOver(r)
  <2>1. Pause(r) = 1 /\ Pause(r)' = 0 /\ attempt'[r] = attempt[r]
    BY <1>1, <1>2 DEF WindowOver, Pause
  <2> QED BY <2>1 DEF Closer
<1>3. CASE BackoffOver(r)
  <2>1. /\ sleep[r] = 0 /\ pc[r] = "backoff" /\ attempt' = attempt
        /\ sleep'[r] = window
        /\ pc'[r] = IF window = 0 THEN "inflight" ELSE "waiting"
    BY <1>1, <1>3, WaitingInv DEF BackoffOver
  <2>2. Pause(r) = 2 + LongestSleep
    BY <2>1, LongestSleepCovers DEF Pause
  <2>3. Pause(r)' = IF window = 0 THEN 0 ELSE 1 + window
    BY <2>1 DEF Pause
  <2>4. Pause(r)' < Pause(r)
    BY <1>1, <2>2, <2>3, LongestSleepCovers, SecondsAssumption
  <2> QED BY <2>1, <2>4 DEF Closer
<1>4. ASSUME Ends(r) PROVE Over(r)
  BY <1>4, EndingInv DEF Over
<1>5. ASSUME attempt' = [attempt EXCEPT ![r] = NextAttempt(r)] PROVE Closer(r)
  BY <1>1, <1>5, AttemptsAssumption DEF NextAttempt, Closer
<1>6. ASSUME NEW h \in Headers, RateLimited(r, h) PROVE Over(r) \/ Closer(r)
  BY <1>4, <1>5, <1>6 DEF RateLimited
<1>7. ASSUME NEW step \in {1, 2}, ServerTrouble(r, step) PROVE Over(r) \/ Closer(r)
  BY <1>4, <1>5, <1>7 DEF ServerTrouble
<1>8. CASE Answered(r)
  BY <1>4, <1>8 DEF Answered
<1> QED BY <1>2, <1>3, <1>6, <1>7, <1>8 DEF Proceed, Respond

\* A step of another request leaves a request where it is.
LEMMA OthersStandStill ==
  ASSUME IInv, NEW r \in Requests, NEW q \in Requests \ {r},
         BeginRequest(q) \/ Proceed(q)
  PROVE  pc'[r] = pc[r] /\ sleep'[r] = sleep[r] /\ attempt'[r] = attempt[r]
<1>1. /\ attempt \in [Requests -> 0 .. Attempts - 1]
      /\ pc \in [Requests -> {"idle", "waiting", "inflight", "backoff"}]
      /\ sleep \in [Requests -> 0 .. LongestSleep]
  BY DEF IInv, TypeOK
<1>2. ASSUME NEW w, WaitForWindow(q, w) PROVE pc'[r] = pc[r] /\ sleep'[r] = sleep[r]
  BY <1>1, <1>2 DEF WaitForWindow
<1>3. ASSUME Ends(q) PROVE pc'[r] = pc[r] /\ sleep'[r] = sleep[r] /\ attempt'[r] = attempt[r]
  BY <1>1, <1>3 DEF Ends
<1>4. CASE BeginRequest(q)
  BY <1>2, <1>4 DEF BeginRequest
<1>5. CASE WindowOver(q)
  BY <1>1, <1>5 DEF WindowOver
<1>6. CASE BackoffOver(q)
  BY <1>2, <1>6 DEF BackoffOver
<1>7. CASE Answered(q)
  BY <1>3, <1>7 DEF Answered
<1>8. ASSUME NEW h \in Headers, RateLimited(q, h)
      PROVE  pc'[r] = pc[r] /\ sleep'[r] = sleep[r] /\ attempt'[r] = attempt[r]
  BY <1>1, <1>2, <1>3, <1>8 DEF RateLimited
<1>9. ASSUME NEW step \in {1, 2}, ServerTrouble(q, step)
      PROVE  pc'[r] = pc[r] /\ sleep'[r] = sleep[r] /\ attempt'[r] = attempt[r]
  BY <1>1, <1>3, <1>9 DEF ServerTrouble
<1> QED BY <1>4, <1>5, <1>6, <1>7, <1>8, <1>9 DEF Proceed, Respond

\* A second that passes shortens the sleeps and lengthens none.
LEMMA TickAdvances ==
  ASSUME IInv, NEW r \in Requests, Tick, pc[r] # "idle"
  PROVE  /\ NoFurther(r)
         /\ sleep[r] > 0 /\ pc[r] # "inflight" => Closer(r)
<1>1. /\ sleep[r] \in Nat /\ LongestSleep \in Nat /\ attempt[r] \in Nat
      /\ sleep'[r] = Elapse(sleep[r]) /\ pc'[r] = pc[r] /\ attempt'[r] = attempt[r]
      /\ pc[r] \in {"waiting", "inflight", "backoff"}
  BY LongestSleepCovers, AttemptsAssumption DEF IInv, TypeOK, Tick
<1>2. sleep'[r] \in Nat /\ sleep'[r] <= sleep[r] /\ (sleep[r] > 0 => sleep'[r] < sleep[r])
  BY <1>1 DEF Elapse
<1>3. /\ Pause(r)' <= Pause(r) /\ Pause(r) \in Nat /\ Pause(r)' \in Nat
      /\ sleep[r] > 0 /\ pc[r] # "inflight" => Pause(r)' < Pause(r)
  BY <1>1, <1>2 DEF Pause
<1> QED BY <1>1, <1>3 DEF NoFurther, Closer

\* The rank of a request that is under way is never raised and is lowered by
\* its own steps and by the seconds of its sleeps: with the bounds of
\* PauseBounded this is the safety half of EveryRequestEnds.
THEOREM RequestsGetCloser == Spec => RequestsAdvance
<1>1. ASSUME IInv, [Next]_vars, NEW r \in Requests, pc[r] # "idle"
      PROVE  Over(r) \/ NoFurther(r)
  <2>1. CASE Tick
    BY <1>1, <2>1, TickAdvances
  <2>2. CASE Proceed(r)
    BY <1>1, <2>2, ProceedAdvances DEF NoFurther
  <2>3. ~BeginRequest(r)
    BY <1>1 DEF BeginRequest
  <2>4. ASSUME NEW q \in Requests \ {r}, BeginRequest(q) \/ Proceed(q)
        PROVE  NoFurther(r)
    BY <1>1, <2>4, OthersStandStill DEF NoFurther, Pause
  <2>5. CASE UNCHANGED vars
    BY <2>5 DEF vars, NoFurther, Pause
  <2> QED BY <1>1, <2>1, <2>2, <2>3, <2>4, <2>5 DEF Next
<1>2. ASSUME IInv, NEW r \in Requests, pc[r] # "idle"
      PROVE  /\ Proceed(r) => Over(r) \/ Closer(r)
             /\ Tick /\ sleep[r] > 0 /\ pc[r] # "inflight" => Closer(r)
  BY <1>2, ProceedAdvances, TickAdvances
<1>3. IInv /\ [Next]_vars =>
        \A r \in Requests : pc[r] # "idle" =>
          /\ Over(r) \/ NoFurther(r)
          /\ Proceed(r) => Over(r) \/ Closer(r)
          /\ Tick /\ sleep[r] > 0 /\ pc[r] # "inflight" => Closer(r)
  BY <1>1, <1>2
<1> QED BY <1>3, Invariance, PTL DEF RequestsAdvance, Spec
=============================================================================
