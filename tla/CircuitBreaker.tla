--------------------------- MODULE CircuitBreaker ---------------------------
(***************************************************************************)
(* The circuit breaker of one provider in one gateway process              *)
(* (services/llm_client.py: CircuitBreaker, _request_with_retry), shared   *)
(* by concurrent asyncio calls.  A call asks the breaker once, before its  *)
(* first attempt; it then sends up to llm_max_retries + 1 requests with a  *)
(* pause between them and reports one success or one failure.              *)
(***************************************************************************)
EXTENDS Integers, FiniteSets

CONSTANTS
  Calls,            \* concurrent callers of _request_with_retry
  FailureThreshold, \* failure_threshold
  RecoveryTimeout,  \* recovery_timeout, in ticks
  MaxRetries,       \* settings.llm_max_retries
  MaxFailures,      \* bound: failures without a success in between
  MaxCancels        \* bound: cancelled calls in one behaviour

ASSUME BreakerAssumption ==
  /\ IsFiniteSet(Calls)
  /\ FailureThreshold \in Nat \ {0}
  /\ RecoveryTimeout \in Nat
  /\ MaxRetries \in Nat
  /\ MaxFailures \in Nat
  /\ MaxCancels \in Nat

VARIABLES
  state,         \* CircuitBreaker.state
  failure_count, \* CircuitBreaker.failure_count
  since,         \* time.time() - last_failure_time, up to RecoveryTimeout + 1
  pc,            \* "idle", "sent" (awaiting request_fn), "paused" (between attempts)
  attempt,       \* attempts of the call so far
  cancels,       \* cancelled calls so far
  openSends      \* history: requests sent to the provider since the breaker opened

breakerVars == <<state, failure_count, since>>
vars == <<state, failure_count, since, pc, attempt, cancels, openSends>>

States == {"CLOSED", "OPEN", "HALF_OPEN"}

\* last_failure_time is 0.0, long ago.
Init ==
  /\ state = "CLOSED"
  /\ failure_count = 0
  /\ since = RecoveryTimeout + 1
  /\ pc = [c \in Calls |-> "idle"]
  /\ attempt = [c \in Calls |-> 0]
  /\ cancels = 0
  /\ openSends = 0

Tick ==
  /\ since <= RecoveryTimeout
  /\ since' = since + 1
  /\ UNCHANGED <<state, failure_count, pc, attempt, cancels, openSends>>

\* Mutant of IsAllowed: a half-open breaker waits for its only probe.
IsAllowedSingleProbe == state = "CLOSED" \/ (state = "OPEN" /\ since > RecoveryTimeout)

IsAllowed == state # "OPEN" \/ since > RecoveryTimeout

\* A request leaves for the provider.
Send(c, n) ==
  /\ pc' = [pc EXCEPT ![c] = "sent"]
  /\ attempt' = [attempt EXCEPT ![c] = n]
  /\ openSends' = IF state' = "OPEN" THEN openSends + 1 ELSE openSends

\* Mutant of Admit: the answer of is_allowed is ignored.
AdmitUnasked(c) ==
  /\ pc[c] = "idle"
  /\ state' = IF state = "OPEN" /\ IsAllowed THEN "HALF_OPEN" ELSE state
  /\ Send(c, 1)
  /\ UNCHANGED <<failure_count, since, cancels>>

\* _request_with_retry: is_allowed answers True, half-opening an open breaker,
\* and the first request is sent without an await in between.
Admit(c) ==
  /\ pc[c] = "idle"
  /\ IsAllowed
  /\ state' = IF state = "OPEN" THEN "HALF_OPEN" ELSE state
  /\ Send(c, 1)
  /\ UNCHANGED <<failure_count, since, cancels>>

\* CircuitBreakerOpenError is raised before the try: no failure is recorded.
Reject(c) ==
  /\ pc[c] = "idle"
  /\ ~IsAllowed
  /\ UNCHANGED vars

End(c) ==
  /\ pc' = [pc EXCEPT ![c] = "idle"]
  /\ attempt' = [attempt EXCEPT ![c] = 0]

\* A usable answer: record_success.
Succeed(c) ==
  /\ pc[c] = "sent"
  /\ state' = "CLOSED"
  /\ failure_count' = 0
  /\ openSends' = 0
  /\ End(c)
  /\ UNCHANGED <<since, cancels>>

\* A timeout, a 5xx or a network error with attempts left: tenacity waits.
Pause(c) ==
  /\ pc[c] = "sent"
  /\ attempt[c] <= MaxRetries
  /\ pc' = [pc EXCEPT ![c] = "paused"]
  /\ UNCHANGED <<breakerVars, attempt, cancels, openSends>>

\* The next attempt; the breaker is not asked again.
Resend(c) ==
  /\ pc[c] = "paused"
  /\ UNCHANGED <<breakerVars, cancels>>
  /\ Send(c, attempt[c] + 1)

\* Mutants of RecordFailure: the breaker opens one failure late, or
\* only when it was closed.
RecordFailureLate ==
  /\ failure_count' = failure_count + 1
  /\ since' = 0
  /\ state' = IF failure_count > FailureThreshold THEN "OPEN" ELSE state
  /\ openSends' = IF state' = "OPEN" /\ state # "OPEN" THEN 0 ELSE openSends

RecordFailureWhenClosed ==
  /\ failure_count' = failure_count + 1
  /\ since' = 0
  /\ state' = IF failure_count' >= FailureThreshold /\ state = "CLOSED" THEN "OPEN" ELSE state
  /\ openSends' = IF state' = "OPEN" /\ state # "OPEN" THEN 0 ELSE openSends

RecordFailure ==
  /\ failure_count' = failure_count + 1
  /\ since' = 0
  /\ state' = IF failure_count' >= FailureThreshold THEN "OPEN" ELSE state
  /\ openSends' = IF state' = "OPEN" /\ state # "OPEN" THEN 0 ELSE openSends

\* The last attempt failed, or an attempt failed with an error that is not
\* retried (a 4xx, an unusable payload): record_failure, once per call.
Fail(c) ==
  /\ pc[c] = "sent"
  /\ failure_count < MaxFailures
  /\ RecordFailure
  /\ End(c)
  /\ UNCHANGED cancels

\* CancelledError is not an Exception: nothing is recorded.
Cancel(c) ==
  /\ pc[c] # "idle"
  /\ cancels < MaxCancels
  /\ cancels' = cancels + 1
  /\ End(c)
  /\ UNCHANGED <<breakerVars, openSends>>

Answer(c) == Succeed(c) \/ Pause(c) \/ Fail(c)

Next ==
  \/ Tick
  \/ \E c \in Calls : Admit(c) \/ Reject(c) \/ Answer(c) \/ Resend(c) \/ Cancel(c)

Spec == Init /\ [][Next]_vars

\* The clock runs, callers keep calling, every attempt ends (httpx's timeout) and
\* every pause ends.
Fairness ==
  /\ WF_vars(Tick)
  /\ \A c \in Calls : WF_vars(Admit(c)) /\ WF_vars(Answer(c)) /\ WF_vars(Resend(c))

FairSpec == Spec /\ Fairness

-----------------------------------------------------------------------------
TypeOK ==
  /\ state \in States
  /\ failure_count \in Nat
  /\ since \in 0..(RecoveryTimeout + 1)
  /\ pc \in [Calls -> {"idle", "sent", "paused"}]
  /\ attempt \in [Calls -> 0..(MaxRetries + 1)]
  /\ cancels \in 0..MaxCancels
  /\ openSends \in Nat

\* The breaker admits freely exactly while fewer than failure_threshold calls
\* failed since the last success, whatever order concurrent calls end in.
OpenIffThresholdReached ==
  state = "CLOSED" <=> failure_count < FailureThreshold

\* A failure that ends while the breaker is not closed (a probe's, or that of a
\* call admitted before it opened) opens it and restarts the recovery timeout.
FailedProbeReopens ==
  [][state # "CLOSED" /\ failure_count' > failure_count
       => state' = "OPEN" /\ since' = 0]_vars

\* An open breaker sheds load: only the retries of calls admitted earlier still
\* reach the provider, at most llm_max_retries for each of them.
OpenShedsLoad ==
  state = "OPEN" => openSends <= (Cardinality(Calls) - 1) * MaxRetries

\* An open breaker closes again once the provider answers: rejected calls do not
\* extend the timeout and a cancelled probe does not block the next one.
Recovers == state = "OPEN" ~> state = "CLOSED"

-----------------------------------------------------------------------------
\* The inductive invariant behind OpenIffThresholdReached and FailedProbeReopens.
BreakerInv ==
  /\ TypeOK
  /\ OpenIffThresholdReached
  /\ \A c \in Calls : pc[c] = "paused" => attempt[c] <= MaxRetries

\* The retries that the calls under way may still make.
Remaining ==
  {x \in Calls \X (1..MaxRetries) : pc[x[1]] # "idle" /\ attempt[x[1]] <= x[2]}

\* Behind OpenShedsLoad: what was sent since the breaker opened and what may still
\* be sent are retries of calls other than the one whose failure opened it.
LoadInv ==
  /\ BreakerInv
  /\ \A c \in Calls : pc[c] # "idle" => attempt[c] >= 1
  /\ state = "OPEN"
       => openSends + Cardinality(Remaining) <= (Cardinality(Calls) - 1) * MaxRetries
=============================================================================
