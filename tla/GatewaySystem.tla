---------------------------- MODULE GatewaySystem ----------------------------
(***************************************************************************)
(* One gateway process from the limits to the provider and back: the       *)
(* handler (Gateway), the counters in Redis (RateLimiter) and the breaker  *)
(* of the provider (CircuitBreaker), each with its own module, take their  *)
(* steps together.  Every client sends one request.  The provider answers, *)
(* or fails for reasons of its own, or never answers at all, or refuses    *)
(* the key that goes with the request.                                     *)
(***************************************************************************)
EXTENDS Gateway, FiniteSets

CONSTANTS
  Scopes, IdOf, Limit, WindowSeconds, TicksPerSecond,  \* of RateLimiter
  FailureThreshold, RecoveryTimeout, MaxRetries,  \* of CircuitBreaker
  KeysOf,      \* what a client's key for the provider (its own provider_api_key, or
               \* openrouter_api_key) may be: "good", "refused" (with a 4xx), "missing"
  MaxTime,     \* bound: the clock of the limiter stops here
  MaxOutages   \* bound: attempts that fail for reasons of the provider

VARIABLES
  now, counter, deadline, check, bucket, ttl, at, counted, limiterFaults,
  state, failure_count, since, call, attempt, cancels, openSends,
  key,      \* the key that goes with a client's request
  silent,   \* requests whose attempt under way the provider leaves unanswered
  asked,    \* history: the models the provider was asked for a request
  sends,    \* history: requests sent to the provider for it
  outages   \* attempts that failed for reasons of the provider

limiterVars == <<now, counter, deadline, check, bucket, ttl, at, counted, limiterFaults>>
breakerVars == <<state, failure_count, since, call, attempt, cancels, openSends>>
providerVars == <<key, silent, asked, sends, outages>>
systemVars == <<vars, limiterVars, breakerVars, providerVars>>

Limiter == INSTANCE RateLimiter WITH
  Requests <- Clients, pc <- check, faults <- limiterFaults

Breaker == INSTANCE CircuitBreaker WITH
  Calls <- Clients, pc <- call, MaxFailures <- MaxOutages + Cardinality(Clients), MaxCancels <- 0

\* Both parts have what they assume, and at least one limit is enforced.
ASSUME SystemAssumption ==
  /\ Limiter!LimiterAssumption
  /\ Breaker!BreakerAssumption
  /\ Scopes # {}
  /\ KeysOf \in [Clients -> SUBSET {"good", "refused", "missing"}]
  /\ MaxOutages \in Nat

\* generate_completion: the override, or openrouter_cheap_model for either tier.
ExactModel(c) == IF RequestOf[c].override # None THEN RequestOf[c].override ELSE <<"cheap">>

SystemInit ==
  /\ Init
  /\ Limiter!Init
  /\ Breaker!Init
  /\ key \in [Clients -> {"good", "refused", "missing"}]
  /\ \A c \in Clients : key[c] \in KeysOf[c]
  /\ silent = {}
  /\ asked = [c \in Clients |-> {}]
  /\ sends = [c \in Clients |-> 0]
  /\ outages = 0

\* Bound: what fails in the handler, in the limiter and with the process, together.
FaultsBounded == faults' + limiterFaults' <= MaxFaults

(* Time -------------------------------------------------------------------- *)

Time ==
  \/ Tick /\ UNCHANGED <<limiterVars, breakerVars, providerVars>>
  \/ Limiter!Tick /\ UNCHANGED <<vars, breakerVars, providerVars>>
  \/ Breaker!Tick /\ UNCHANGED <<vars, limiterVars, providerVars>>

(* The handler alone -------------------------------------------------------- *)

\* The request arrives, is authenticated, meets the response cache, and leaves its
\* background tasks.
HandlerStep(c) ==
  /\ \/ Submit(c) /\ \A s \in Scopes : check[<<c, s>>] = "new"
     \/ AuthDemo(c) \/ AuthHit(c) \/ AuthMiss(c) \/ AuthRead(c) \/ AuthReadFails(c)
     \/ AuthStore(c)
     \/ Hit(c) \/ Miss(c)
     \/ StoreResponse(c) \/ PersistLog(c) \/ Complete(c)
  /\ UNCHANGED <<limiterVars, breakerVars, providerVars>>
  /\ FaultsBounded

(* The limits ---------------------------------------------------------------- *)

\* Both checks start once the request is authenticated, and run on.
LimiterStep(c) ==
  /\ pc[c] = "authenticated"
  /\ \/ Limiter!Arrive(c)
     \/ \E s \in Scopes : \/ Limiter!Increment(<<c, s>>)
                          \/ Limiter!Expire(<<c, s>>)
                          \/ Limiter!FailOpen(<<c, s>>)
  /\ UNCHANGED <<vars, breakerVars, providerVars>>
  /\ FaultsBounded

\* Mutant of Admitted: the results of gather are not looked at.
AdmittedUnchecked(c) ==
  /\ Limiter!Outcome(c) # "pending"
  /\ Admit(c)
  /\ UNCHANGED <<limiterVars, breakerVars, providerVars>>

\* _enforce_rate_limits returns: no check was rejected.
Admitted(c) ==
  /\ Limiter!Outcome(c) = "admitted"
  /\ Admit(c)
  /\ UNCHANGED <<limiterVars, breakerVars, providerVars>>

\* _enforce_rate_limits raises 429.
Limited(c) ==
  /\ Limiter!Outcome(c) \in {"key_limit", "user_limit"}
  /\ OverLimit(c)
  /\ UNCHANGED <<limiterVars, breakerVars, providerVars>>

(* The provider --------------------------------------------------------------- *)

\* Bound: one more attempt fails for reasons of the provider.
Outage ==
  /\ outages < MaxOutages
  /\ outages' = outages + 1

\* A request leaves for the provider, which may never answer it.
Sent(c) ==
  /\ sends' = [sends EXCEPT ![c] = @ + 1]
  /\ \/ UNCHANGED <<silent, outages>>
     \/ Outage /\ silent' = silent \cup {c}

\* generate_completion has a key and finds the breaker closed or half-open: the first
\* attempt.
Ask(c) ==
  /\ pc[c] = "missed" /\ Implemented(c) /\ key[c] # "missing"
  /\ Breaker!Admit(c)
  /\ asked' = [asked EXCEPT ![c] = @ \cup {ExactModel(c)}]
  /\ Sent(c)
  /\ UNCHANGED <<vars, limiterVars, key>>

AskAgain(c) ==
  /\ Breaker!Resend(c)
  /\ Sent(c)
  /\ UNCHANGED <<vars, limiterVars, key, asked>>

\* A 5xx or a network error with attempts left.
AttemptFails(c) ==
  /\ c \notin silent
  /\ Outage
  /\ Breaker!Pause(c)
  /\ UNCHANGED <<vars, limiterVars, key, silent, asked, sends>>

\* Mutant of TimesOut: the shared client is made without a timeout.
TimesOutNever(c) == FALSE

\* llm_timeout_seconds are over and httpx gives up: the next attempt, or 502.
TimesOut(c) ==
  /\ c \in silent
  /\ silent' = silent \ {c}
  /\ \/ attempt[c] <= MaxRetries /\ Breaker!Pause(c) /\ UNCHANGED vars
     \/ attempt[c] > MaxRetries /\ Breaker!Fail(c) /\ GenerateFails(c)
  /\ UNCHANGED <<limiterVars, key, asked, sends, outages>>

Answered(c) ==
  /\ c \notin silent /\ key[c] = "good"
  /\ Breaker!Succeed(c)
  /\ Generate(c)
  /\ UNCHANGED <<limiterVars, providerVars>>

\* The call ends with an error: 502, without asking any other model.
CallFails(c) ==
  /\ c \notin silent
  /\ IF key[c] = "refused" THEN UNCHANGED outages ELSE Outage
  /\ Breaker!Fail(c)
  /\ GenerateFails(c)
  /\ UNCHANGED <<limiterVars, key, silent, asked, sends>>

\* Mutant of FailsUnasked: a missing key counts as a failure of the provider.
FailsUnaskedRecorded(c) ==
  /\ IF key[c] = "missing"
     THEN Breaker!RecordFailure /\ UNCHANGED <<call, attempt, cancels>>
     ELSE pc[c] = "missed" /\ Breaker!Reject(c)
  /\ GenerateFails(c)
  /\ UNCHANGED <<limiterVars, providerVars>>

\* 502 without an attempt and without a recorded failure: a provider that
\* generate_completion does not know or a missing key, in which case no breaker is
\* asked, or CircuitBreakerOpenError.
FailsUnasked(c) ==
  /\ IF Implemented(c) /\ key[c] # "missing"
     THEN pc[c] = "missed" /\ Breaker!Reject(c)
     ELSE UNCHANGED breakerVars
  /\ GenerateFails(c)
  /\ UNCHANGED <<limiterVars, providerVars>>

\* The process dies and a new one starts with closed breakers.
Restart ==
  /\ Crash
  /\ state' = "CLOSED" /\ failure_count' = 0 /\ since' = RecoveryTimeout + 1
  /\ call' = [c \in Clients |-> "idle"]
  /\ attempt' = [c \in Clients |-> 0]
  /\ openSends' = 0
  /\ silent' = {}
  /\ UNCHANGED <<limiterVars, cancels, key, asked, sends, outages>>
  /\ FaultsBounded

-----------------------------------------------------------------------------
ProviderStep(c) ==
  \/ Ask(c) \/ AskAgain(c) \/ AttemptFails(c) \/ TimesOut(c) \/ Answered(c)
  \/ CallFails(c) \/ FailsUnasked(c)

RequestStep(c) == HandlerStep(c) \/ LimiterStep(c) \/ Admitted(c) \/ Limited(c) \/ ProviderStep(c)

\* The operator deactivates the key, if any request uses it.
Operator ==
  /\ \E c \in Clients : ~RequestOf[c].demo
  /\ Deactivate
  /\ UNCHANGED <<limiterVars, breakerVars, providerVars>>

SystemNext ==
  \/ Time
  \/ Operator
  \/ \E c \in Clients : RequestStep(c)
  \/ Restart

SystemSpec == SystemInit /\ [][SystemNext]_systemVars

\* Where a request waits for Redis: in the cache of keys, the limits, the response
\* cache, and the task that fills it.
AwaitsRedis(c) ==
  \/ pc[c] \in {"received", "valid_key", "authenticated", "admitted"}
  \/ tasks[c] # <<>> /\ Head(tasks[c]) = "cache"

\* Where it waits for the database.
AwaitsDatabase(c) ==
  \/ pc[c] = "unknown_key"
  \/ tasks[c] # <<>> /\ Head(tasks[c]) = "log"

\* The event loop runs every request, tenacity's pauses end, and so does every attempt:
\* with what the provider sends, or with httpx's timeout.
ProcessRuns ==
  \A c \in Clients :
    WF_systemVars(/\ pc[c] # "idle" /\ ~AwaitsRedis(c) /\ ~AwaitsDatabase(c)
                  /\ RequestStep(c))

\* Every call to Redis or the database ends, with an answer or an error.  No timeout of
\* the code bounds the calls to Redis (init_redis sets none): this is assumed of Redis
\* and the network.
RedisAnswers == \A c \in Clients : WF_systemVars(AwaitsRedis(c) /\ RequestStep(c))
DatabaseAnswers == \A c \in Clients : WF_systemVars(AwaitsDatabase(c) /\ RequestStep(c))

SystemFairness == ProcessRuns /\ RedisAnswers /\ DatabaseAnswers

FairSystemSpec == SystemSpec /\ SystemFairness

-----------------------------------------------------------------------------
\* The limit of a user or key bounds what reaches the provider too: the requests
\* of one bucket cause no more than limit times the attempts of one call, whatever
\* is cached, retried or refused (_enforce_rate_limits runs before the provider is
\* asked); only requests that Redis did not count come on top.
ProviderLoadBounded ==
  \A s \in Scopes, b \in Limiter!Buckets : \A i \in Limiter!Ids :
    LET inBucket == {c \in Clients :
                       /\ IdOf[s][c] = i
                       /\ counted[<<c, s>>] /\ bucket[<<c, s>>] = b
                       /\ Limiter!BucketAt(at[<<c, s>>]) = b}
    IN  Cardinality(UNION {{c} \X (1..sends[c]) : c \in inBucket})
          <= Limit[s] * (MaxRetries + 1)

\* Every request is answered, as long as Redis and the database answer or fail: whatever
\* the provider does or leaves undone, whatever the state of the breaker, and whoever
\* else is being served (httpx's timeout, tenacity's retries and the breaker are what
\* bounds a call of the provider).
EveryRequestAnswered ==
  \A c \in Clients : pc[c] = "received" ~> pc[c] \in {"answered", "idle"}

\* A request that has a key is refused without an attempt only after failure_threshold
\* requests of the same process failed upstream: neither their attempts, nor the limits,
\* nor what the cache answered, nor the requests that had no key count towards the
\* breaker.
RefusedOnlyAfterFailures ==
  \A c \in Clients :
    answer[c] = "bad_gateway" /\ Implemented(c) /\ key[c] # "missing" /\ sends[c] = 0
      => Cardinality({d \in Clients : sends[d] > 0 /\ answer[d] = "bad_gateway"})
           >= FailureThreshold

\* A request whose own key is good is only refused when the provider fails for
\* reasons of its own; the failed keys of other tenants do not matter.
NeighboursUnaffected ==
  \A c \in Clients :
    key[c] = "good" /\ outages = 0 /\ Implemented(c) => answer[c] # "bad_gateway"

\* 502 is answered after every other model was asked as well.
BadGatewayAfterFallbacks ==
  \A c \in Clients :
    answer[c] = "bad_gateway" /\ RequestOf[c].override = None /\ Implemented(c)
        /\ key[c] # "missing"
      => asked[c] = {<<"cheap">>, <<"premium">>}

-----------------------------------------------------------------------------
\* What links the request's place in the handler to its checks and to its call of the
\* provider: it is asked for only after the limits let the request pass, and what was
\* sent for it is what its call counted.
ProviderInv ==
  /\ sends \in [Clients -> 0..(MaxRetries + 1)]
  /\ silent \subseteq Clients
  /\ \A c \in Clients :
       /\ pc[c] \in {"received", "unknown_key", "valid_key"} =>
            \A s \in Scopes : check[<<c, s>>] = "new"
       /\ pc[c] \in {"admitted", "missed", "answered"} \/ sends[c] > 0 =>
            Limiter!Outcome(c) = "admitted"
       /\ pc[c] \in Steps \ {"idle", "missed", "answered"} => sends[c] = 0
       /\ call[c] # "idle" =>
            /\ pc[c] = "missed" /\ Implemented(c) /\ key[c] # "missing"
            /\ sends[c] = attempt[c] /\ sends[c] > 0
       /\ c \in silent => call[c] = "sent"
       /\ call[c] = "idle" /\ pc[c] = "missed" => sends[c] = 0

\* The requests that were asked for and failed upstream.
Failed == {c \in Clients : sends[c] > 0 /\ answer[c] = "bad_gateway"}

\* Behind RefusedOnlyAfterFailures: every failure the breaker counts is one of these.
FailedInv == failure_count <= Cardinality(Failed) /\ RefusedOnlyAfterFailures
=============================================================================
