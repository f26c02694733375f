----------------------------- MODULE RateLimiter -----------------------------
(***************************************************************************)
(* The request limits of the gateway (services/rate_limiter.py             *)
(* check_rate_limit, services/inference.py _enforce_rate_limits): every    *)
(* request is checked concurrently against the counter of its API key and  *)
(* the counter of its user, kept in Redis per bucket of window_seconds.    *)
(* A check computes its bucket, sends INCR and TTL in one MULTI, sends     *)
(* EXPIRE in a second round trip when it created the counter, and allows   *)
(* the request when Redis fails.  Time is in ticks, TicksPerSecond of them *)
(* to a second: the code counts whole seconds, Redis fractions of one.     *)
(***************************************************************************)
EXTENDS Integers, FiniteSets

CONSTANTS
  Scopes,         \* the limits that are enforced: "api_key", "user" or both
  Requests,       \* requests, each checked once
  IdOf,           \* IdOf[s][r]: the identifier request r is counted under
  Limit,          \* Limit[s]: rate_limit_per_minute, user_rate_limit_per_minute
  WindowSeconds,  \* rate_limit_window_seconds
  TicksPerSecond, \* how finely Redis counts time (milliseconds)
  MaxTime,        \* bound: the clock stops at this tick
  MaxFaults       \* bound: failed calls to Redis

Checks == Requests \X Scopes

Ids == {IdOf[s][r] : s \in Scopes, r \in Requests}

\* limit is at least 1 and the window at least one second (core/config.py).
ASSUME LimiterAssumption ==
  /\ Scopes \subseteq {"api_key", "user"}
  /\ IsFiniteSet(Requests)
  /\ IdOf \in [Scopes -> [Requests -> Ids]]
  /\ Limit \in [Scopes -> Nat \ {0}]
  /\ WindowSeconds \in Nat \ {0}
  /\ TicksPerSecond \in Nat \ {0}
  /\ MaxTime \in Nat
  /\ MaxFaults \in Nat

\* int(time.time()) // window_seconds, at tick t.
BucketAt(t) == (t \div TicksPerSecond) \div WindowSeconds

Buckets == 0..BucketAt(MaxTime)

\* The length of a bucket, and of the TTL that EXPIRE grants.
WindowTicks == WindowSeconds * TicksPerSecond

BucketEnd(b) == b * WindowTicks + WindowTicks

VARIABLES
  now,       \* the clock, of the process and of Redis
  counter,   \* Redis: value of a key
  deadline,  \* Redis: when the key expires, NoTtl if it has no TTL
  pc,        \* where each check is
  bucket,    \* the bucket in the key the check computed
  ttl,       \* what Redis answered to TTL, kept by a rejected check
  at,        \* history: when Redis executed the check's INCR and answered
  counted,   \* history: the INCR's answer was used
  faults     \* failed calls so far

redis == <<counter, deadline>>
vars == <<now, redis, pc, bucket, ttl, at, counted, faults>>

NoTtl == -1

\* Mutant of BucketKey: one counter for all buckets.
BucketKeyConstant(s, r, b) == <<s, IdOf[s][r], 0>>

\* _bucket_key, given its bucket.
BucketKey(s, r, b) == <<s, IdOf[s][r], b>>

Keys == Scopes \X Ids \X Buckets

Init ==
  /\ now = 0
  /\ counter = [k \in Keys |-> 0]
  /\ deadline = [k \in Keys |-> NoTtl]
  /\ pc = [x \in Checks |-> "new"]
  /\ bucket = [x \in Checks |-> 0]
  /\ ttl = [x \in Checks |-> 0]
  /\ at = [x \in Checks |-> 0]
  /\ counted = [x \in Checks |-> FALSE]
  /\ faults = 0

Expired(k, t) == deadline[k] # NoTtl /\ t >= deadline[k]

\* Time passes; Redis drops the keys whose TTL has run out.
Tick ==
  /\ now < MaxTime
  /\ now' = now + 1
  /\ counter' = [k \in Keys |-> IF Expired(k, now + 1) THEN 0 ELSE counter[k]]
  /\ deadline' = [k \in Keys |-> IF Expired(k, now + 1) THEN NoTtl ELSE deadline[k]]
  /\ UNCHANGED <<pc, bucket, ttl, at, counted, faults>>

\* gather starts both checks in one turn of the event loop; each computes its key
\* from the clock before it awaits Redis.
Arrive(r) ==
  /\ \A s \in Scopes : pc[<<r, s>>] = "new"
  /\ pc' = [x \in Checks |-> IF x[1] = r THEN "keyed" ELSE pc[x]]
  /\ bucket' = [x \in Checks |-> IF x[1] = r THEN BucketAt(now) ELSE bucket[x]]
  /\ UNCHANGED <<now, redis, ttl, at, counted, faults>>

Verdict(x, count) == IF count <= Limit[x[2]] THEN "allowed" ELSE "rejected"

\* Redis answers TTL in seconds, to the nearest one; -1 stands for a key without TTL.
TtlSeconds(k) ==
  IF deadline[k] = NoTtl THEN NoTtl
  ELSE (2 * (deadline[k] - now) + TicksPerSecond) \div (2 * TicksPerSecond)

\* retry_after_seconds of a rejected check: max(ttl, 1).
RetryAfter(x) == IF ttl[x] < 1 THEN 1 ELSE ttl[x]

\* MULTI: INCR and TTL are executed together; a check that created the counter
\* goes on to EXPIRE.
Increment(x) ==
  LET k == BucketKey(x[2], x[1], bucket[x])
      count == counter[k] + 1
  IN  /\ pc[x] = "keyed"
      /\ counter' = [counter EXCEPT ![k] = count]
      /\ pc' = [pc EXCEPT ![x] = IF count = 1 THEN "created" ELSE Verdict(x, count)]
      /\ ttl' = [ttl EXCEPT ![x] = IF pc'[x] = "rejected" THEN TtlSeconds(k) ELSE 0]
      /\ at' = [at EXCEPT ![x] = now]
      /\ counted' = [counted EXCEPT ![x] = TRUE]
      /\ UNCHANGED <<now, deadline, bucket, faults>>

\* Mutant of Expire: the key lives one second less than its bucket.
ExpireEarly(x) ==
  LET k == BucketKey(x[2], x[1], bucket[x])
  IN  /\ pc[x] = "created"
      /\ deadline' = [deadline EXCEPT ![k] =
                        IF counter[k] > 0 THEN now + WindowTicks - TicksPerSecond ELSE NoTtl]
      /\ pc' = [pc EXCEPT ![x] = Verdict(x, 1)]
      /\ UNCHANGED <<now, counter, bucket, ttl, at, counted, faults>>

\* EXPIRE, in a round trip of its own, then the verdict (count is 1).
Expire(x) ==
  LET k == BucketKey(x[2], x[1], bucket[x])
  IN  /\ pc[x] = "created"
      /\ deadline' = [deadline EXCEPT ![k] =
                        IF counter[k] > 0 THEN now + WindowTicks ELSE NoTtl]
      /\ pc' = [pc EXCEPT ![x] = Verdict(x, 1)]
      /\ UNCHANGED <<now, counter, bucket, ttl, at, counted, faults>>

\* Redis fails before or after it executed the command: the check allows.  When
\* EXPIRE is lost the key keeps no TTL.
FailOpen(x) ==
  LET k == BucketKey(x[2], x[1], bucket[x])
  IN  /\ faults < MaxFaults
      /\ faults' = faults + 1
      /\ \/ /\ pc[x] = "keyed"
            /\ counter' \in {counter, [counter EXCEPT ![k] = @ + 1]}
            /\ UNCHANGED deadline
         \/ /\ pc[x] = "created"
            /\ deadline' \in {deadline,
                 [deadline EXCEPT ![k] =
                    IF counter[k] > 0 THEN now + WindowTicks ELSE NoTtl]}
            /\ UNCHANGED counter
      /\ pc' = [pc EXCEPT ![x] = "allowed"]
      /\ counted' = [counted EXCEPT ![x] = FALSE]
      /\ UNCHANGED <<now, bucket, ttl, at>>

Rejected(r, s) == s \in Scopes /\ pc[<<r, s>>] = "rejected"

\* Mutant of Outcome: only the user's verdict is looked at.
OutcomeOfUser(r) ==
  IF \E s \in Scopes : pc[<<r, s>>] \notin {"allowed", "rejected"} THEN "pending"
  ELSE IF Rejected(r, "user") THEN "user_limit" ELSE "admitted"

\* _enforce_rate_limits: gather waits for both checks; the key's verdict is
\* looked at first.
Outcome(r) ==
  IF \E s \in Scopes : pc[<<r, s>>] \notin {"allowed", "rejected"} THEN "pending"
  ELSE IF Rejected(r, "api_key") THEN "key_limit"
  ELSE IF Rejected(r, "user") THEN "user_limit" ELSE "admitted"

Done ==
  /\ now = MaxTime
  /\ \A r \in Requests : Outcome(r) # "pending"
  /\ UNCHANGED vars

Next ==
  \/ Tick
  \/ \E r \in Requests : Arrive(r)
  \/ \E x \in Checks : Increment(x) \/ Expire(x) \/ FailOpen(x)
  \/ Done

Spec == Init /\ [][Next]_vars

-----------------------------------------------------------------------------
TypeOK ==
  /\ now \in 0..MaxTime
  /\ counter \in [Keys -> Nat]
  /\ deadline \in [Keys -> Int]
  /\ pc \in [Checks -> {"new", "keyed", "created", "allowed", "rejected"}]
  /\ bucket \in [Checks -> Buckets]
  /\ ttl \in [Checks -> Int]
  /\ at \in [Checks -> 0..MaxTime]
  /\ counted \in [Checks -> BOOLEAN]
  /\ faults \in 0..MaxFaults

\* Requests admitted under identifier i of scope s that were counted by Redis
\* in their own bucket b.
AdmittedIn(s, i, b) ==
  {r \in Requests :
     /\ Outcome(r) = "admitted" /\ IdOf[s][r] = i
     /\ counted[<<r, s>>] /\ bucket[<<r, s>>] = b
     /\ BucketAt(at[<<r, s>>]) = b}

\* No bucket admits more than the limit of the API key or of the user, however
\* the checks of concurrent requests interleave and whichever calls fail; the
\* requests that Redis did not count are the only surplus.
BucketLimit ==
  \A s \in Scopes, i \in Ids, b \in Buckets :
    Cardinality(AdmittedIn(s, i, b)) <= Limit[s]

\* A check is rejected only after limit other checks of the same identifier
\* incremented the same bucket's counter.
RejectedOnlyWhenFull ==
  \A x \in Checks :
    pc[x] = "rejected" =>
      Cardinality({y \in Checks \ {x} :
                     /\ y[2] = x[2] /\ IdOf[y[2]][y[1]] = IdOf[x[2]][x[1]]
                     /\ bucket[y] = bucket[x]
                     /\ pc[y] \notin {"new", "keyed"}}) >= Limit[x[2]]

\* A client that waits for Retry-After comes back at most half a second before the next
\* bucket, unless the check met the counter before its EXPIRE (or after EXPIRE was lost)
\* and found no TTL: the TTL that Redis rounds was set after the bucket had begun.
RetryAfterReachesBucketEnd ==
  \A x \in Checks :
    pc[x] = "rejected" /\ ttl[x] # NoTtl =>
      2 * (at[x] + RetryAfter(x) * TicksPerSecond) + TicksPerSecond >= 2 * BucketEnd(bucket[x])

\* The same without the half second: false, because Redis rounds the TTL.
RetryAfterLeavesBucket ==
  \A x \in Checks :
    pc[x] = "rejected" /\ ttl[x] # NoTtl =>
      at[x] + RetryAfter(x) * TicksPerSecond >= BucketEnd(bucket[x])

\* The limit as a sliding window: no window_seconds in a row admit more requests
\* that Redis counted than the limit.
SlidingWindowLimit ==
  \A s \in Scopes, i \in Ids, t \in 0..MaxTime :
    Cardinality({r \in Requests :
                   /\ Outcome(r) = "admitted" /\ IdOf[s][r] = i /\ counted[<<r, s>>]
                   /\ t <= at[<<r, s>>] /\ at[<<r, s>>] < t + WindowTicks}) <= Limit[s]

-----------------------------------------------------------------------------
\* Requests that Redis counted in their own bucket b and whose check passes.
Passing(s, i, b) ==
  {r \in Requests :
     /\ IdOf[s][r] = i /\ counted[<<r, s>>] /\ bucket[<<r, s>>] = b
     /\ BucketAt(at[<<r, s>>]) = b
     /\ pc[<<r, s>>] \in {"created", "allowed"}}

\* A check computed its bucket after the bucket had begun.
KeyedInv == \A x \in Checks : pc[x] # "new" => bucket[x] * WindowTicks <= now

\* No counter expires before the end of its bucket.
DeadlineInv ==
  \A s \in Scopes, i \in Ids, b \in Buckets :
    LET k == <<s, i, b>> IN deadline[k] # NoTtl => deadline[k] >= BucketEnd(b)

\* Until then it is at least the number of the checks it let pass.
CountInv ==
  \A s \in Scopes, i \in Ids, b \in Buckets :
    /\ Cardinality(Passing(s, i, b)) <= Limit[s]
    /\ now < BucketEnd(b) =>
         Cardinality(Passing(s, i, b)) <= counter[<<s, i, b>>]

LimitInv == KeyedInv /\ DeadlineInv /\ CountInv

\* The checks of key k that went through to Redis, or failed open.
Reached(k) ==
  {y \in Checks : BucketKey(y[2], y[1], bucket[y]) = k /\ pc[y] \notin {"new", "keyed"}}

\* Behind RejectedOnlyWhenFull: nothing but a check of its key increments a counter, and
\* a check is rejected only when more of them than the limit, itself included, did.
ReachedInv ==
  /\ \A k \in Keys : counter[k] <= Cardinality(Reached(k))
  /\ \A x \in Checks :
       pc[x] = "rejected" =>
         Cardinality(Reached(BucketKey(x[2], x[1], bucket[x]))) > Limit[x[2]]
=============================================================================
