-------------------------- MODULE RateLimiterProofs --------------------------
(***************************************************************************)
(* RateLimiter for any number of requests, identifiers, faults and any     *)
(* window: no bucket admits more requests that Redis counted than its      *)
(* limit.                                                                  *)
(*                                                                         *)
(* The argument: a counter can only expire after the end of its bucket,    *)
(* because EXPIRE is sent after the bucket has begun and grants a whole    *)
(* window.  So while its bucket lasts, the counter is at least the number  *)
(* of the checks it counted and let pass, and each of them was let pass at *)
(* a count within the limit.                                               *)
(***************************************************************************)
EXTENDS RateLimiter, FiniteSetTheorems, TLAPS

\* A larger factor makes a larger product.
LEMMA Times ==
  ASSUME NEW a \in Int, NEW b \in Int, NEW n \in Nat, a <= b
  PROVE  a * n <= b * n
<1>1. (b - a) * n >= 0
  BY Z3
<1>2. (b - a) * n = b * n - a * n
  BY Z3
<1>. QED
  BY <1>1, <1>2, Z3

\* The parameters are positive, and so is the length of a bucket.
LEMMA Lengths ==
  /\ WindowSeconds \in Nat \ {0} /\ TicksPerSecond \in Nat \ {0} /\ MaxTime \in Nat
  /\ WindowTicks \in Nat \ {0} /\ WindowTicks = WindowSeconds * TicksPerSecond
<1>1. WindowSeconds \in Nat \ {0} /\ TicksPerSecond \in Nat \ {0} /\ MaxTime \in Nat
  BY LimiterAssumption
<1>2. 1 * TicksPerSecond <= WindowSeconds * TicksPerSecond
  BY <1>1, Times
<1>3. WindowSeconds * TicksPerSecond \in Int
  BY <1>1
<1>. QED
  BY <1>1, <1>2, <1>3 DEF WindowTicks

\* Division of naturals.
LEMMA Division ==
  ASSUME NEW t \in Nat, NEW n \in Nat \ {0}
  PROVE  /\ t \div n \in Nat
         /\ (t \div n) * n <= t
         /\ t + 1 <= (t \div n + 1) * n
  BY Z3

\* The bucket of a time, and its ends.
LEMMA BucketOfTime ==
  ASSUME NEW t \in Nat
  PROVE  /\ BucketAt(t) \in Nat
         /\ BucketAt(t) * WindowTicks <= t
         /\ t < BucketAt(t) * WindowTicks + WindowTicks
<1>. DEFINE T == TicksPerSecond  W == WindowSeconds
            q == t \div T  b == q \div W
<1>0. T \in Nat \ {0} /\ W \in Nat \ {0}
  BY Lengths
<1>1. q \in Nat /\ q * T <= t /\ t + 1 <= (q + 1) * T
  BY <1>0, Division
<1>. HIDE DEF q
<1>2. b \in Nat /\ b * W <= q /\ q + 1 <= (b + 1) * W
  BY <1>0, <1>1, Division
<1>. HIDE DEF b
<1>3. (b * W) * T <= q * T /\ (q + 1) * T <= ((b + 1) * W) * T
  <2>1. b * W \in Int /\ (b + 1) * W \in Int
    BY <1>0, <1>2
  <2>. QED
    BY <1>0, <1>1, <1>2, <2>1, Times
<1>4. (b * W) * T = b * (W * T) /\ ((b + 1) * W) * T = b * (W * T) + W * T
  BY <1>0, <1>2, Z3
<1>5. /\ W * T \in Int /\ b * (W * T) \in Int
      /\ q * T \in Int /\ (q + 1) * T \in Int
  BY <1>0, <1>1, <1>2
<1>6. b * (W * T) <= t /\ t < b * (W * T) + W * T
  BY <1>1, <1>3, <1>4, <1>5
<1>. QED
  BY <1>2, <1>6 DEF BucketAt, WindowTicks, q, b

\* Every time of the clock lies in one of the buckets.
LEMMA BucketsOfClock ==
  ASSUME NEW t \in 0..MaxTime
  PROVE  BucketAt(t) \in Buckets
<1>. DEFINE b == BucketAt(t)  m == BucketAt(MaxTime)  L == WindowTicks
<1>0. MaxTime \in Nat /\ t \in Nat /\ t <= MaxTime /\ L \in Nat \ {0}
  BY Lengths
<1>1. b \in Nat /\ m \in Nat /\ b * L <= t /\ MaxTime < m * L + L
  BY <1>0, BucketOfTime
<1>. HIDE DEF b, m, L
<1>2. ASSUME m + 1 <= b
      PROVE  FALSE
  <2>1. (m + 1) * L <= b * L
    BY <1>0, <1>1, <1>2, Times
  <2>2. (m + 1) * L = m * L + L
    BY <1>0, <1>1, Z3
  <2>3. m * L \in Int /\ b * L \in Int
    BY <1>0, <1>1
  <2>. QED
    BY <1>0, <1>1, <2>1, <2>2, <2>3
<1>3. b <= m
  BY <1>1, <1>2
<1>. QED
  BY <1>1, <1>3 DEF Buckets, b, m

\* Redis rounds a TTL to the nearest second: it is less than half a second short.
LEMMA Rounding ==
  ASSUME NEW n \in Int
  PROVE  LET ttl0 == (2 * n + TicksPerSecond) \div (2 * TicksPerSecond)
         IN  ttl0 \in Int /\ 2 * (ttl0 * TicksPerSecond) + TicksPerSecond > 2 * n
<1>. DEFINE T == TicksPerSecond  c == 2 * T  m == 2 * n + T  z == m \div c
<1>0. T \in Nat \ {0} /\ c \in Nat \ {0} /\ m \in Int
  BY Lengths
<1>1. z \in Int /\ m < (z + 1) * c
  <2>. HIDE DEF c, m
  <2>. QED
    BY <1>0, Z3
<1>. HIDE DEF z
<1>2. (z + 1) * c = 2 * (z * T) + 2 * T
  BY <1>0, <1>1, Z3
<1>3. z * T \in Int
  BY <1>0, <1>1
<1>4. 2 * (z * T) + T > 2 * n
  BY <1>0, <1>1, <1>2, <1>3
<1>. QED
  BY <1>1, <1>4 DEF z

\* The key of a check is a key.
LEMMA KeyOfCheck ==
  ASSUME TypeOK, NEW x \in Checks
  PROVE  /\ x = <<x[1], x[2]>> /\ x[1] \in Requests /\ x[2] \in Scopes
         /\ IdOf[x[2]][x[1]] \in Ids /\ bucket[x] \in Buckets
         /\ BucketKey(x[2], x[1], bucket[x]) \in Keys
         /\ BucketKey(x[2], x[1], bucket[x]) = <<x[2], IdOf[x[2]][x[1]], bucket[x]>>
         /\ Limit[x[2]] \in Nat \ {0}
<1>1. x = <<x[1], x[2]>> /\ x[1] \in Requests /\ x[2] \in Scopes
  BY DEF Checks
<1>2. IdOf[x[2]][x[1]] \in Ids
  BY <1>1 DEF Ids
<1>3. bucket[x] \in Buckets
  BY DEF TypeOK
<1>4. Limit[x[2]] \in Nat \ {0}
  BY <1>1, LimiterAssumption
<1>. QED
  BY <1>1, <1>2, <1>3, <1>4 DEF BucketKey, Keys

-----------------------------------------------------------------------------
\* The variables keep their types: whatever the checks compute is a bucket, a key or
\* a count.
LEMMA TypeStep ==
  ASSUME TypeOK, [Next]_vars
  PROVE  TypeOK'
<1>. USE DEF TypeOK
<1>0. MaxTime \in Nat /\ WindowTicks \in Nat \ {0} /\ MaxFaults \in Nat
  BY LimiterAssumption, Lengths
<1>1. CASE UNCHANGED vars
  BY <1>1 DEF vars, redis
<1>2. CASE Tick
  <2>1. now' \in 0..MaxTime
    BY <1>0, <1>2 DEF Tick
  <2>2. counter' \in [Keys -> Nat]
    BY <1>2 DEF Tick
  <2>3. deadline' \in [Keys -> Int]
    BY <1>2 DEF Tick, NoTtl
  <2>. QED
    BY <1>2, <2>1, <2>2, <2>3 DEF Tick
<1>3. ASSUME NEW r \in Requests, Arrive(r)
      PROVE  TypeOK'
  <2>1. BucketAt(now) \in Buckets
    BY BucketsOfClock
  <2>2. bucket' \in [Checks -> Buckets]
    BY <1>3, <2>1 DEF Arrive
  <2>3. pc' \in [Checks -> {"new", "keyed", "created", "allowed", "rejected"}]
    BY <1>3 DEF Arrive
  <2>. QED
    BY <1>3, <2>2, <2>3 DEF Arrive, redis
<1>4. ASSUME NEW x \in Checks, Increment(x) \/ Expire(x) \/ FailOpen(x)
      PROVE  TypeOK'
  <2>. DEFINE k == BucketKey(x[2], x[1], bucket[x])
  <2>1. k \in Keys
    BY <1>4, KeyOfCheck
  <2>2. \A n \in Int : Verdict(x, n) \in {"allowed", "rejected"}
    BY DEF Verdict
  <2>3. counter[k] \in Nat /\ deadline[k] \in Int
    BY <2>1
  <2>. HIDE DEF k
  <2>7. (IF counter[k] > 0 THEN now + WindowTicks ELSE NoTtl) \in Int
    BY <1>0 DEF NoTtl
  <2>4. CASE Increment(x)
    <3>1. /\ counter' = [counter EXCEPT ![k] = counter[k] + 1]
          /\ pc' = [pc EXCEPT ![x] = IF counter[k] + 1 = 1 THEN "created"
                                     ELSE Verdict(x, counter[k] + 1)]
          /\ UNCHANGED <<now, deadline, bucket, faults>>
          /\ at' = [at EXCEPT ![x] = now]
          /\ counted' = [counted EXCEPT ![x] = TRUE]
      BY <2>4 DEF Increment, k
    <3>2. \E n \in Int : ttl' = [ttl EXCEPT ![x] = n]
      <4>0. now \in Int
        BY <1>0
      <4>1. TtlSeconds(k) \in Int
        <5>1. deadline[k] - now \in Int
          BY <2>3, <4>0
        <5>. QED
          BY <5>1, Rounding DEF TtlSeconds, NoTtl
      <4>3. (IF pc'[x] = "rejected" THEN TtlSeconds(k) ELSE 0) \in Int
        BY <4>1
      <4>2. ttl' = [ttl EXCEPT ![x] = IF pc'[x] = "rejected" THEN TtlSeconds(k) ELSE 0]
        BY <2>4 DEF Increment, k
      <4>. QED
        BY <4>2, <4>3
    <3>3. counter' \in [Keys -> Nat]
      <4>1. counter[k] + 1 \in Nat
        BY <2>3
      <4>. QED
        BY <3>1, <4>1
    <3>4. pc' \in [Checks -> {"new", "keyed", "created", "allowed", "rejected"}]
      <4>1. counter[k] + 1 \in Int
        BY <2>3
      <4>2. (IF counter[k] + 1 = 1 THEN "created" ELSE Verdict(x, counter[k] + 1))
              \in {"created", "allowed", "rejected"}
        BY <4>1, <2>2
      <4>. QED
        BY <3>1, <4>2
    <3>5. ttl' \in [Checks -> Int] /\ at' \in [Checks -> 0..MaxTime]
      BY <3>1, <3>2
    <3>. QED
      BY <3>1, <3>3, <3>4, <3>5
  <2>5. CASE Expire(x)
    <3>1. deadline' \in [Keys -> Int]
      <4>1. \E d \in Int : deadline' = [deadline EXCEPT ![k] = d]
        BY <2>5, <2>7 DEF Expire, k
      <4>. QED
        BY <4>1
    <3>2. pc' \in [Checks -> {"new", "keyed", "created", "allowed", "rejected"}]
      BY <2>5, <2>2 DEF Expire
    <3>. QED
      BY <2>5, <3>1, <3>2 DEF Expire
  <2>6. CASE FailOpen(x)
    <3>1. faults' \in 0..MaxFaults
      BY <2>6, <1>0 DEF FailOpen
    <3>2. counter' \in [Keys -> Nat]
      BY <2>6, <2>3 DEF FailOpen, k
    <3>3. deadline' \in [Keys -> Int]
      <4>1. deadline' = deadline \/ \E d \in Int : deadline' = [deadline EXCEPT ![k] = d]
        BY <2>6, <2>7 DEF FailOpen, k
      <4>. QED
        BY <4>1
    <3>4. at' \in [Checks -> 0..MaxTime]
      BY <2>6 DEF FailOpen
    <3>5. /\ pc' \in [Checks -> {"new", "keyed", "created", "allowed", "rejected"}]
          /\ counted' \in [Checks -> BOOLEAN]
      BY <2>6 DEF FailOpen
    <3>. QED
      BY <2>6, <3>1, <3>2, <3>3, <3>4, <3>5 DEF FailOpen
  <2>. QED
    BY <1>4, <2>4, <2>5, <2>6
<1>5. CASE Done
  BY <1>5 DEF Done, vars, redis
<1>. QED
  BY <1>1, <1>2, <1>3, <1>4, <1>5 DEF Next

\* Every variable keeps its type, for any number of requests and any window.
THEOREM TypeCorrect == Spec => []TypeOK
<1>1. Init => TypeOK
  <2>1. 0 \in Buckets
    BY BucketsOfClock, BucketOfTime, LimiterAssumption DEF Buckets
  <2>. QED
    BY <2>1, LimiterAssumption DEF Init, TypeOK, NoTtl
<1>. QED
  BY <1>1, TypeStep, PTL DEF Spec

-----------------------------------------------------------------------------
\* Sets of requests are finite, and one more request makes them larger by one at most.
LEMMA RequestSets ==
  ASSUME NEW S \in SUBSET Requests, NEW T \in SUBSET Requests, NEW r \in Requests
  PROVE  /\ Cardinality(S) \in Nat
         /\ T \subseteq S => Cardinality(T) <= Cardinality(S)
         /\ T \subseteq S \cup {r} => Cardinality(T) <= Cardinality(S) + 1
<1>1. IsFiniteSet(Requests)
  BY LimiterAssumption
<1>2. IsFiniteSet(S) /\ IsFiniteSet(T)
  BY <1>1, FS_Subset
<1>3. Cardinality(S) \in Nat
  BY <1>2, FS_CardinalityType
<1>4. IsFiniteSet(S \cup {r}) /\ Cardinality(S \cup {r}) <= Cardinality(S) + 1
  BY <1>2, <1>3, FS_AddElement
<1>5. T \subseteq S => Cardinality(T) <= Cardinality(S)
  BY <1>2, FS_Subset
<1>6. T \subseteq S \cup {r} => Cardinality(T) <= Cardinality(S) + 1
  <2>1. Cardinality(T) \in Nat /\ Cardinality(S \cup {r}) \in Nat
    BY <1>2, <1>4, FS_CardinalityType
  <2>2. T \subseteq S \cup {r} => Cardinality(T) <= Cardinality(S \cup {r})
    BY <1>4, FS_Subset
  <2>. QED
    BY <1>3, <1>4, <2>1, <2>2
<1>. QED
  BY <1>3, <1>5, <1>6

\* Sets that do not grow, under counters that do not shrink, keep the count.
LEMMA CountKept ==
  ASSUME TypeOK, TypeOK', CountInv, NEW s \in Scopes, NEW i \in Ids, NEW b \in Buckets,
         Passing(s, i, b)' \subseteq Passing(s, i, b),
         now' < BucketEnd(b) =>
           /\ now < BucketEnd(b)
           /\ counter[<<s, i, b>>] <= counter'[<<s, i, b>>]
  PROVE  /\ Cardinality(Passing(s, i, b)') <= Limit[s]
         /\ now' < BucketEnd(b) =>
              Cardinality(Passing(s, i, b)') <= counter'[<<s, i, b>>]
<1>1. PICK r : r \in Requests
  BY DEF Ids
<1>2. Passing(s, i, b) \in SUBSET Requests /\ Passing(s, i, b)' \in SUBSET Requests
  BY DEF Passing
<1>3. /\ Cardinality(Passing(s, i, b)) \in Nat /\ Cardinality(Passing(s, i, b)') \in Nat
      /\ Cardinality(Passing(s, i, b)') <= Cardinality(Passing(s, i, b))
  BY <1>1, <1>2, RequestSets
<1>4. <<s, i, b>> \in Keys /\ Limit[s] \in Nat
  BY LimiterAssumption DEF Keys
<1>5. counter[<<s, i, b>>] \in Nat /\ counter'[<<s, i, b>>] \in Nat
  BY <1>4 DEF TypeOK
<1>6. /\ Cardinality(Passing(s, i, b)) <= Limit[s]
      /\ now < BucketEnd(b) =>
           Cardinality(Passing(s, i, b)) <= counter[<<s, i, b>>]
  BY DEF CountInv
<1>. QED
  BY <1>3, <1>4, <1>5, <1>6

\* Times and the ends of buckets are numbers.
LEMMA Ends ==
  ASSUME TypeOK, NEW b \in Buckets
  PROVE  /\ b \in Nat /\ b * WindowTicks \in Nat /\ WindowTicks \in Nat \ {0}
         /\ BucketEnd(b) \in Nat /\ now \in Nat
<1>1. /\ WindowTicks \in Nat \ {0} /\ MaxTime \in Nat /\ b \in Nat /\ now \in Nat
  BY Lengths, BucketOfTime DEF Buckets, TypeOK
<1>. QED
  BY <1>1 DEF BucketEnd

\* Nothing but Arrive computes a bucket, and the clock only advances.
LEMMA KeyedStep ==
  ASSUME TypeOK, TypeOK', KeyedInv, [Next]_vars
  PROVE  KeyedInv'
<1>. SUFFICES ASSUME NEW x \in Checks, pc'[x] # "new"
              PROVE  bucket'[x] * WindowTicks <= now'
  BY DEF KeyedInv
<1>0. /\ bucket[x] \in Buckets /\ now \in 0..MaxTime
      /\ pc \in [Checks -> {"new", "keyed", "created", "allowed", "rejected"}]
      /\ bucket \in [Checks -> Buckets]
  BY DEF TypeOK
<1>1. CASE bucket'[x] = bucket[x] /\ pc[x] # "new" /\ now' = now
  BY <1>1 DEF KeyedInv
<1>2. CASE Tick
  <2>1. bucket[x] * WindowTicks <= now /\ now' = now + 1 /\ bucket' = bucket
    BY <1>2 DEF Tick, KeyedInv
  <2>2. bucket[x] * WindowTicks \in Nat /\ now \in Nat
    BY <1>0, Ends
  <2>. QED
    BY <2>1, <2>2
<1>3. ASSUME NEW r \in Requests, Arrive(r)
      PROVE  bucket'[x] * WindowTicks <= now'
  <2>1. CASE x[1] = r
    <3>1. bucket'[x] = BucketAt(now) /\ now' = now
      BY <1>0, <1>3, <2>1 DEF Arrive
    <3>2. now \in Nat
      BY <1>0, Ends
    <3>. QED
      BY <3>1, <3>2, BucketOfTime
  <2>2. CASE x[1] # r
    BY <1>0, <1>1, <1>3, <2>2 DEF Arrive
  <2>. QED
    BY <2>1, <2>2
<1>4. ASSUME NEW y \in Checks, Increment(y) \/ Expire(y) \/ FailOpen(y)
      PROVE  bucket'[x] * WindowTicks <= now'
  <2>1. bucket' = bucket /\ now' = now
    BY <1>4 DEF Increment, Expire, FailOpen
  <2>2. pc[y] # "new" /\ (x # y => pc'[x] = pc[x])
    BY <1>0, <1>4 DEF Increment, Expire, FailOpen
  <2>3. pc[x] # "new"
    BY <2>2
  <2>. QED
    BY <1>1, <2>1, <2>3
<1>5. CASE Done \/ UNCHANGED vars
  BY <1>1, <1>5 DEF Done, vars
<1>. QED
  BY <1>2, <1>3, <1>4, <1>5 DEF Next

\* A deadline is set to a whole window after a time in or after the bucket.
LEMMA DeadlineStep ==
  ASSUME TypeOK, KeyedInv, DeadlineInv, [Next]_vars
  PROVE  DeadlineInv'
<1>. SUFFICES ASSUME NEW s \in Scopes, NEW i \in Ids, NEW b \in Buckets,
                     deadline'[<<s, i, b>>] # NoTtl
              PROVE  deadline'[<<s, i, b>>] >= BucketEnd(b)
  BY DEF DeadlineInv
<1>. DEFINE k == <<s, i, b>>
<1>0. k \in Keys /\ deadline \in [Keys -> Int]
  BY DEF Keys, TypeOK
<1>1. CASE deadline'[k] = deadline[k]
  BY <1>1 DEF DeadlineInv
<1>2. CASE Tick
  BY <1>0, <1>1, <1>2 DEF Tick
<1>3. CASE \/ Done \/ UNCHANGED vars \/ (\E r \in Requests : Arrive(r))
           \/ (\E x \in Checks : Increment(x))
  BY <1>1, <1>3 DEF Done, vars, redis, Arrive, Increment
<1>4. ASSUME NEW x \in Checks, Expire(x) \/ FailOpen(x)
      PROVE  deadline'[k] >= BucketEnd(b)
  <2>. DEFINE kx == BucketKey(x[2], x[1], bucket[x])
  <2>1. \/ deadline' = deadline
        \/ /\ pc[x] = "created"
           /\ deadline' = [deadline EXCEPT ![kx] =
                             IF counter[kx] > 0 THEN now + WindowTicks ELSE NoTtl]
    BY <1>4 DEF Expire, FailOpen
  <2>2. CASE deadline' = deadline \/ kx # k
    BY <1>0, <1>1, <2>1, <2>2
  <2>3. CASE kx = k /\ deadline' # deadline
    <3>1. deadline'[k] = now + WindowTicks
      BY <1>0, <2>1, <2>3
    <3>2. bucket[x] = b
      BY <2>3, KeyOfCheck
    <3>3. b * WindowTicks <= now
      BY <2>1, <2>3, <3>2 DEF KeyedInv
    <3>. QED
      BY <3>1, <3>3, Ends DEF BucketEnd
  <2>. QED
    BY <2>2, <2>3
<1>. QED
  BY <1>2, <1>3, <1>4 DEF Next

\* An increment in its own bucket adds the check to those that pass only while the
\* count it was answered is within the limit.
LEMMA IncrementCounts ==
  ASSUME TypeOK, TypeOK', KeyedInv, CountInv, NEW x \in Checks, Increment(x),
         NEW s \in Scopes, NEW i \in Ids, NEW b \in Buckets
  PROVE  /\ Cardinality(Passing(s, i, b)') <= Limit[s]
         /\ now' < BucketEnd(b) =>
              Cardinality(Passing(s, i, b)') <= counter'[<<s, i, b>>]
<1>. DEFINE k == <<s, i, b>>
            kx == BucketKey(x[2], x[1], bucket[x])
            r == x[1]
<1>0. /\ x = <<r, x[2]>> /\ r \in Requests /\ kx \in Keys
      /\ kx = <<x[2], IdOf[x[2]][r], bucket[x]>>
  BY KeyOfCheck
<1>1. k \in Keys
  BY DEF Keys
<1>2. /\ pc[x] = "keyed" /\ now' = now /\ bucket' = bucket
      /\ counter' = [counter EXCEPT ![kx] = counter[kx] + 1]
      /\ pc' = [pc EXCEPT ![x] = IF counter[kx] + 1 = 1 THEN "created"
                                 ELSE Verdict(x, counter[kx] + 1)]
      /\ at' = [at EXCEPT ![x] = now]
      /\ counted' = [counted EXCEPT ![x] = TRUE]
  BY DEF Increment
<1>3. /\ pc \in [Checks -> {"new", "keyed", "created", "allowed", "rejected"}]
      /\ at \in [Checks -> 0..MaxTime] /\ counted \in [Checks -> BOOLEAN]
      /\ counter \in [Keys -> Nat]
  BY DEF TypeOK
<1>4. \A q \in Requests, z \in Scopes : <<q, z>> \in Checks
  BY DEF Checks
<1>5. Passing(s, i, b)' \subseteq Passing(s, i, b) \cup {r}
  <2>. SUFFICES ASSUME NEW q \in Passing(s, i, b)', q # r
                PROVE  q \in Passing(s, i, b)
    OBVIOUS
  <2>1. q \in Requests /\ <<q, s>> \in Checks /\ <<q, s>> # x
    BY <1>0, <1>4 DEF Passing
  <2>2. pc'[<<q, s>>] = pc[<<q, s>>] /\ at'[<<q, s>>] = at[<<q, s>>]
        /\ counted'[<<q, s>>] = counted[<<q, s>>]
    BY <1>2, <1>3, <2>1
  <2>. QED
    BY <1>2, <2>1, <2>2 DEF Passing
<1>6. CASE r \notin Passing(s, i, b)' \/ r \in Passing(s, i, b)
  <2>1. Passing(s, i, b)' \subseteq Passing(s, i, b)
    BY <1>5, <1>6
  <2>2. counter[k] <= counter'[k]
    <3>1. counter[k] \in Nat /\ counter[kx] \in Nat
      BY <1>0, <1>1, <1>3
    <3>. QED
      BY <1>0, <1>1, <1>2, <1>3, <3>1
  <2>. QED
    BY <1>2, <2>1, <2>2, CountKept
<1>7. CASE r \in Passing(s, i, b)' /\ r \notin Passing(s, i, b)
  <2>1. x = <<r, s>>
    <3>1. CASE x[2] = s
      BY <1>0, <3>1
    <3>2. CASE x[2] # s
      <4>1. <<r, s>> # x /\ <<r, s>> \in Checks
        BY <1>0, <1>4, <3>2
      <4>2. pc'[<<r, s>>] = pc[<<r, s>>] /\ at'[<<r, s>>] = at[<<r, s>>]
            /\ counted'[<<r, s>>] = counted[<<r, s>>]
        BY <1>2, <1>3, <4>1
      <4>. QED
        BY <1>2, <1>7, <4>2 DEF Passing
    <3>. QED
      BY <3>1, <3>2
  <2>2. IdOf[s][r] = i /\ bucket[x] = b /\ BucketAt(at'[x]) = b
        /\ pc'[x] \in {"created", "allowed"}
    BY <1>2, <1>7, <2>1 DEF Passing
  <2>3. kx = k
    BY <1>0, <2>1, <2>2
  <2>4. at'[x] = now
    BY <1>2, <1>3
  <2>5. now < BucketEnd(b)
    BY <2>2, <2>4, Ends, BucketOfTime DEF BucketEnd
  <2>6. Passing(s, i, b) \in SUBSET Requests /\ Passing(s, i, b)' \in SUBSET Requests
    BY DEF Passing
  <2>7. /\ Cardinality(Passing(s, i, b)) \in Nat /\ Cardinality(Passing(s, i, b)') \in Nat
        /\ Cardinality(Passing(s, i, b)') <= Cardinality(Passing(s, i, b)) + 1
    BY <1>0, <1>5, <2>6, RequestSets
  <2>8. Cardinality(Passing(s, i, b)) <= counter[k]
    BY <2>5 DEF CountInv
  <2>9. counter[k] \in Nat /\ counter'[k] = counter[k] + 1
    BY <1>1, <1>2, <1>3, <2>3
  <2>10. counter[k] + 1 <= Limit[s]
    <3>1. Limit[s] \in Nat \ {0}
      BY LimiterAssumption
    <3>2. CASE counter[k] + 1 = 1
      BY <2>9, <3>1, <3>2
    <3>3. CASE counter[k] + 1 # 1
      <4>1. pc'[x] = Verdict(x, counter[k] + 1)
        BY <1>2, <1>3, <2>3, <3>3
      <4>2. x[2] = s
        BY <2>1
      <4>. QED
        BY <2>2, <4>1, <4>2 DEF Verdict
    <3>. QED
      BY <3>2, <3>3
  <2>. QED
    BY <2>7, <2>8, <2>9, <2>10, LimiterAssumption
<1>. QED
  BY <1>6, <1>7

\* Every step keeps the counters above the checks they let pass.
LEMMA CountStep ==
  ASSUME TypeOK, TypeOK', LimitInv, [Next]_vars
  PROVE  CountInv'
<1>. SUFFICES ASSUME NEW s \in Scopes, NEW i \in Ids, NEW b \in Buckets
              PROVE  /\ Cardinality(Passing(s, i, b)') <= Limit[s]
                     /\ now' < BucketEnd(b) =>
                          Cardinality(Passing(s, i, b)') <= counter'[<<s, i, b>>]
  BY DEF CountInv
<1>. DEFINE k == <<s, i, b>>
            Goal == /\ Cardinality(Passing(s, i, b)') <= Limit[s]
                    /\ now' < BucketEnd(b) =>
                         Cardinality(Passing(s, i, b)') <= counter'[k]
<1>0. /\ k \in Keys /\ counter \in [Keys -> Nat]
      /\ pc \in [Checks -> {"new", "keyed", "created", "allowed", "rejected"}]
      /\ at \in [Checks -> 0..MaxTime] /\ counted \in [Checks -> BOOLEAN]
      /\ bucket \in [Checks -> Buckets]
  BY DEF Keys, TypeOK
<1>1. counter[k] \in Nat
  BY <1>0
<1>2. \A q \in Requests : <<q, s>> \in Checks
  BY DEF Checks
<1>3. KeyedInv /\ DeadlineInv /\ CountInv
  BY DEF LimitInv
<1>4. CASE UNCHANGED vars \/ Done
  <2>1. Passing(s, i, b)' = Passing(s, i, b) /\ now' = now /\ counter' = counter
    BY <1>4 DEF Done, vars, redis, Passing
  <2>. QED
    BY <1>1, <1>3, <2>1, CountKept
<1>5. CASE Tick
  <2>1. Passing(s, i, b)' = Passing(s, i, b)
    BY <1>5 DEF Tick, Passing
  <2>2. ASSUME now' < BucketEnd(b)
        PROVE  /\ now < BucketEnd(b)
               /\ counter[k] <= counter'[k]
    <3>1. now' = now + 1 /\ now \in Nat /\ BucketEnd(b) \in Nat
      BY <1>5, Ends DEF Tick
    <3>2. ~Expired(k, now + 1)
      <4>1. deadline[k] # NoTtl => deadline[k] >= BucketEnd(b)
        BY <1>3 DEF DeadlineInv
      <4>2. deadline[k] \in Int
        BY <1>0 DEF TypeOK
      <4>. QED
        BY <2>2, <3>1, <4>1, <4>2 DEF Expired
    <3>3. counter'[k] = counter[k]
      BY <1>0, <1>5, <3>2 DEF Tick
    <3>. QED
      BY <1>1, <2>2, <3>1, <3>3
  <2>. QED
    BY <1>3, <2>1, <2>2, CountKept
<1>6. ASSUME NEW r \in Requests, Arrive(r)
      PROVE  Goal
  <2>1. Passing(s, i, b)' \subseteq Passing(s, i, b)
    <3>. SUFFICES ASSUME NEW q \in Passing(s, i, b)'
                  PROVE  q \in Passing(s, i, b)
      OBVIOUS
    <3>1. q \in Requests /\ <<q, s>> \in Checks /\ <<q, s>>[1] = q
      BY <1>2 DEF Passing
    <3>2. q # r
      BY <1>0, <1>6, <3>1 DEF Arrive, Passing
    <3>. QED
      BY <1>0, <1>6, <3>1, <3>2 DEF Arrive, Passing
  <2>. QED
    BY <1>1, <1>3, <1>6, <2>1, CountKept DEF Arrive, redis
<1>7. ASSUME NEW x \in Checks, Increment(x)
      PROVE  Goal
  BY <1>3, <1>7, IncrementCounts
<1>8. ASSUME NEW x \in Checks, Expire(x)
      PROVE  Goal
  <2>1. Passing(s, i, b)' \subseteq Passing(s, i, b)
    <3>. SUFFICES ASSUME NEW q \in Passing(s, i, b)'
                  PROVE  q \in Passing(s, i, b)
      OBVIOUS
    <3>1. q \in Requests /\ <<q, s>> \in Checks
      BY <1>2 DEF Passing
    <3>2. pc[<<q, s>>] \in {"created", "allowed"}
      <4>1. CASE <<q, s>> = x
        BY <1>8, <4>1 DEF Expire
      <4>2. CASE <<q, s>> # x
        BY <1>0, <1>8, <3>1, <4>2 DEF Expire, Passing
      <4>. QED
        BY <4>1, <4>2
    <3>. QED
      BY <1>8, <3>1, <3>2 DEF Expire, Passing
  <2>. QED
    BY <1>1, <1>3, <1>8, <2>1, CountKept DEF Expire
<1>9. ASSUME NEW x \in Checks, FailOpen(x)
      PROVE  Goal
  <2>1. Passing(s, i, b)' \subseteq Passing(s, i, b)
    <3>. SUFFICES ASSUME NEW q \in Passing(s, i, b)'
                  PROVE  q \in Passing(s, i, b)
      OBVIOUS
    <3>1. q \in Requests /\ <<q, s>> \in Checks
      BY <1>2 DEF Passing
    <3>2. <<q, s>> # x
      BY <1>0, <1>9, <3>1 DEF FailOpen, Passing
    <3>3. /\ pc'[<<q, s>>] = pc[<<q, s>>] /\ at'[<<q, s>>] = at[<<q, s>>]
          /\ counted'[<<q, s>>] = counted[<<q, s>>] /\ bucket' = bucket
      BY <1>0, <1>9, <3>1, <3>2 DEF FailOpen
    <3>. QED
      BY <3>1, <3>3 DEF Passing
  <2>2. counter[k] <= counter'[k] /\ now' = now
    <3>. DEFINE kx == BucketKey(x[2], x[1], bucket[x])
    <3>1. counter' = counter \/ counter' = [counter EXCEPT ![kx] = counter[kx] + 1]
      BY <1>9 DEF FailOpen
    <3>2. kx \in Keys /\ counter[kx] \in Nat
      BY <1>0, KeyOfCheck
    <3>3. now' = now
      BY <1>9 DEF FailOpen
    <3>. QED
      BY <1>0, <1>1, <3>1, <3>2, <3>3
  <2>. QED
    BY <1>3, <2>1, <2>2, CountKept
<1>. QED
  BY <1>4, <1>5, <1>6, <1>7, <1>8, <1>9 DEF Next

\* The inductive invariant of the limiter: a counter lives as long as its bucket, and
\* counts at least the checks it let pass.
THEOREM LimitInvariant == Spec => []LimitInv
<1>1. Init => LimitInv
  <2>. SUFFICES ASSUME Init PROVE LimitInv
    OBVIOUS
  <2>1. KeyedInv
    BY DEF Init, KeyedInv
  <2>2. DeadlineInv
    BY DEF Init, DeadlineInv, Keys
  <2>3. CountInv
    <3>. SUFFICES ASSUME NEW s \in Scopes, NEW i \in Ids, NEW b \in Buckets
                  PROVE  /\ Cardinality(Passing(s, i, b)) <= Limit[s]
                         /\ Cardinality(Passing(s, i, b)) <= counter[<<s, i, b>>]
      BY DEF CountInv
    <3>1. Passing(s, i, b) = {}
      BY DEF Init, Passing, Checks
    <3>2. counter[<<s, i, b>>] = 0
      BY DEF Init, Keys
    <3>. QED
      BY <3>1, <3>2, FS_EmptySet, LimiterAssumption
  <2>. QED
    BY <2>1, <2>2, <2>3 DEF LimitInv
<1>2. TypeOK /\ LimitInv /\ [Next]_vars => LimitInv'
  <2>. SUFFICES ASSUME TypeOK, LimitInv, [Next]_vars PROVE LimitInv'
    OBVIOUS
  <2>1. TypeOK'
    BY TypeStep
  <2>. QED
    BY <2>1, KeyedStep, DeadlineStep, CountStep DEF LimitInv
<1>. QED
  BY <1>1, <1>2, TypeCorrect, PTL DEF Spec

\* No bucket admits more requests that Redis counted than the limit of the key or of
\* the user, for any number of concurrent requests, any window and any faults.
THEOREM LimitKept == Spec => []BucketLimit
<1>1. TypeOK /\ LimitInv => BucketLimit
  <2>. SUFFICES ASSUME TypeOK, LimitInv, NEW s \in Scopes, NEW i \in Ids, NEW b \in Buckets
                PROVE  Cardinality(AdmittedIn(s, i, b)) <= Limit[s]
    BY DEF BucketLimit
  <2>1. AdmittedIn(s, i, b) \subseteq Passing(s, i, b)
    <3>. SUFFICES ASSUME NEW r \in AdmittedIn(s, i, b)
                  PROVE  r \in Passing(s, i, b)
      OBVIOUS
    <3>1. r \in Requests /\ Outcome(r) = "admitted"
      BY DEF AdmittedIn
    <3>2. /\ pc[<<r, s>>] \in {"allowed", "rejected"}
          /\ ~Rejected(r, "api_key") /\ ~Rejected(r, "user")
      BY <3>1 DEF Outcome
    <3>3. s = "api_key" \/ s = "user"
      BY LimiterAssumption
    <3>4. pc[<<r, s>>] = "allowed"
      BY <3>2, <3>3 DEF Rejected
    <3>. QED
      BY <3>1, <3>4 DEF AdmittedIn, Passing
  <2>2. PICK r : r \in Requests
    BY DEF Ids
  <2>3. Passing(s, i, b) \in SUBSET Requests /\ AdmittedIn(s, i, b) \in SUBSET Requests
    BY DEF Passing, AdmittedIn
  <2>4. /\ Cardinality(Passing(s, i, b)) \in Nat /\ Cardinality(AdmittedIn(s, i, b)) \in Nat
        /\ Cardinality(AdmittedIn(s, i, b)) <= Cardinality(Passing(s, i, b))
    BY <2>1, <2>2, <2>3, RequestSets
  <2>5. Cardinality(Passing(s, i, b)) <= Limit[s] /\ Limit[s] \in Nat
    BY LimiterAssumption DEF LimitInv, CountInv
  <2>. QED
    BY <2>4, <2>5
<1>. QED
  BY <1>1, LimitInvariant, TypeCorrect, PTL

-----------------------------------------------------------------------------
\* Sets of checks are finite; a larger set has no fewer of them, and a check that was
\* not in a set makes it larger by one.
LEMMA CheckSets ==
  ASSUME NEW S \in SUBSET Checks, NEW T \in SUBSET Checks, NEW x
  PROVE  /\ IsFiniteSet(S) /\ Cardinality(S) \in Nat
         /\ S \subseteq T => Cardinality(S) <= Cardinality(T)
         /\ T = S \cup {x} /\ x \notin S => Cardinality(T) = Cardinality(S) + 1
<1>1. IsFiniteSet({"api_key", "user"})
  <2>1. IsFiniteSet({"api_key"}) /\ {"api_key", "user"} = {"api_key"} \cup {"user"}
    BY FS_Singleton
  <2>. QED
    BY <2>1, FS_AddElement
<1>2. IsFiniteSet(Scopes)
  BY <1>1, LimiterAssumption, FS_Subset
<1>3. IsFiniteSet(Checks)
  BY <1>2, LimiterAssumption, FS_Product DEF Checks
<1>4. IsFiniteSet(S) /\ IsFiniteSet(T)
  BY <1>3, FS_Subset
<1>. QED
  BY <1>4, FS_CardinalityType, FS_Subset, FS_AddElement

\* A check that has its bucket keeps it, so it never leaves the ones that reached Redis.
LEMMA ReachedGrows ==
  ASSUME TypeOK, [Next]_vars, NEW x \in Checks, pc[x] # "new"
  PROVE  /\ bucket'[x] = bucket[x] /\ pc'[x] # "new"
         /\ pc[x] # "keyed" => pc'[x] # "keyed"
<1>0. /\ pc \in [Checks -> {"new", "keyed", "created", "allowed", "rejected"}]
      /\ bucket \in [Checks -> Buckets]
  BY DEF TypeOK
<1>1. CASE UNCHANGED vars \/ Done \/ Tick
  BY <1>1 DEF Done, vars, Tick
<1>2. ASSUME NEW r \in Requests, Arrive(r)
      PROVE  bucket'[x] = bucket[x] /\ pc'[x] = pc[x]
  <2>1. x = <<x[1], x[2]>> /\ x[2] \in Scopes
    BY KeyOfCheck
  <2>2. x[1] # r
    BY <1>2, <2>1 DEF Arrive
  <2>. QED
    BY <1>0, <1>2, <2>2 DEF Arrive
<1>3. \A n \in Int : Verdict(x, n) \in {"allowed", "rejected"}
  BY DEF Verdict
<1>4. ASSUME NEW y \in Checks, Increment(y)
      PROVE  /\ bucket'[x] = bucket[x] /\ pc'[x] # "new"
             /\ pc[x] # "keyed" => pc'[x] # "keyed"
  <2>1. CASE x = y
    <3>. DEFINE k == BucketKey(x[2], x[1], bucket[x])
    <3>1. counter[k] + 1 \in Int
      BY KeyOfCheck DEF TypeOK
    <3>2. pc'[x] \in {"created", Verdict(x, counter[k] + 1)}
      BY <1>0, <1>4, <2>1 DEF Increment
    <3>3. pc'[x] \in {"created", "allowed", "rejected"}
      BY <1>3, <3>1, <3>2
    <3>. QED
      BY <1>4, <3>3 DEF Increment
  <2>2. CASE x # y
    BY <1>0, <1>4, <2>2 DEF Increment
  <2>. QED
    BY <2>1, <2>2
<1>5. ASSUME NEW y \in Checks, Expire(y) \/ FailOpen(y)
      PROVE  /\ bucket'[x] = bucket[x] /\ pc'[x] # "new"
             /\ pc[x] # "keyed" => pc'[x] # "keyed"
  <2>1. bucket' = bucket
    BY <1>5 DEF Expire, FailOpen
  <2>2. pc' = [pc EXCEPT ![y] = "allowed"] \/ pc' = [pc EXCEPT ![y] = Verdict(y, 1)]
    BY <1>5 DEF Expire, FailOpen
  <2>3. Verdict(y, 1) \in {"allowed", "rejected"}
    BY DEF Verdict
  <2>. QED
    BY <1>0, <2>1, <2>2, <2>3
<1>. QED
  BY <1>1, <1>2, <1>4, <1>5 DEF Next

\* A check becomes rejected only by its own INCR, at a count above the limit: the first
\* count is 1, and no limit is less.
LEMMA RejectedByIncrement ==
  ASSUME TypeOK, [Next]_vars, NEW x \in Checks, pc'[x] = "rejected", pc[x] # "rejected"
  PROVE  /\ Increment(x)
         /\ counter[BucketKey(x[2], x[1], bucket[x])] + 1 > Limit[x[2]]
<1>0. pc \in [Checks -> {"new", "keyed", "created", "allowed", "rejected"}]
  BY DEF TypeOK
<1>. DEFINE k == BucketKey(x[2], x[1], bucket[x])
<1>1. counter[k] \in Nat /\ Limit[x[2]] \in Nat \ {0}
  BY KeyOfCheck DEF TypeOK
<1>2. CASE UNCHANGED vars \/ Done \/ Tick \/ (\E r \in Requests : Arrive(r))
  BY <1>0, <1>2 DEF Done, vars, Tick, Arrive
<1>3. ASSUME NEW y \in Checks, Expire(y) \/ FailOpen(y)
      PROVE  FALSE
  <2>1. Verdict(y, 1) = "allowed"
    <3>1. Limit[y[2]] \in Nat \ {0}
      BY KeyOfCheck
    <3>. QED
      BY <3>1 DEF Verdict
  <2>. QED
    BY <1>0, <1>3, <2>1 DEF Expire, FailOpen
<1>4. ASSUME NEW y \in Checks, Increment(y)
      PROVE  Increment(x) /\ counter[k] + 1 > Limit[x[2]]
  <2>1. x = y
    BY <1>0, <1>4 DEF Increment
  <2>2. pc'[x] = IF counter[k] + 1 = 1 THEN "created" ELSE Verdict(x, counter[k] + 1)
    BY <1>0, <1>4, <2>1 DEF Increment
  <2>3. ~(counter[k] + 1 <= Limit[x[2]])
    BY <2>2 DEF Verdict
  <2>. QED
    BY <1>1, <1>4, <2>1, <2>3
<1>. QED
  BY <1>2, <1>3, <1>4 DEF Next

\* Whatever a step adds to a counter, it adds to the checks that reached Redis with it.
LEMMA ReachedStep ==
  ASSUME TypeOK, TypeOK', ReachedInv, [Next]_vars
  PROVE  ReachedInv'
<1>0. /\ pc \in [Checks -> {"new", "keyed", "created", "allowed", "rejected"}]
      /\ pc' \in [Checks -> {"new", "keyed", "created", "allowed", "rejected"}]
      /\ counter \in [Keys -> Nat] /\ counter' \in [Keys -> Nat]
  BY DEF TypeOK
<1>1. \A k : /\ Reached(k) \in SUBSET Checks /\ Reached(k)' \in SUBSET Checks
             /\ Reached(k) \subseteq Reached(k)'
  BY ReachedGrows DEF Reached
<1>2. \A k : /\ Cardinality(Reached(k)) \in Nat /\ Cardinality(Reached(k)') \in Nat
             /\ Cardinality(Reached(k)) <= Cardinality(Reached(k)')
  BY <1>1, CheckSets
<1>3. ASSUME NEW x \in Checks, pc[x] = "keyed", pc'[x] # "keyed",
             NEW k, k = BucketKey(x[2], x[1], bucket[x])
      PROVE  Cardinality(Reached(k)') >= Cardinality(Reached(k)) + 1
  <2>1. x \notin Reached(k)
    BY <1>3 DEF Reached
  <2>2. bucket'[x] = bucket[x] /\ pc'[x] # "new"
    BY <1>3, ReachedGrows
  <2>3. x \in Reached(k)'
    BY <1>3, <2>2 DEF Reached
  <2>4. Reached(k) \cup {x} \in SUBSET Checks
    BY <1>1
  <2>5. Cardinality(Reached(k) \cup {x}) = Cardinality(Reached(k)) + 1
    BY <1>1, <2>1, <2>4, CheckSets
  <2>6. Reached(k) \cup {x} \subseteq Reached(k)'
    BY <1>1, <2>3
  <2>7. Cardinality(Reached(k) \cup {x}) <= Cardinality(Reached(k)')
    BY <1>1, <2>4, <2>6, CheckSets
  <2>. QED
    BY <2>5, <2>7, <1>2
<1>4. ASSUME NEW k \in Keys
      PROVE  counter'[k] <= Cardinality(Reached(k)')
  <2>1. counter[k] <= Cardinality(Reached(k)) /\ counter[k] \in Nat /\ counter'[k] \in Nat
    BY <1>0 DEF ReachedInv
  <2>2. CASE counter'[k] <= counter[k]
    BY <1>2, <2>1, <2>2
  <2>3. CASE UNCHANGED vars \/ Done \/ Tick \/ (\E r \in Requests : Arrive(r))
    <3>1. counter'[k] = counter[k] \/ counter'[k] = 0
      BY <2>3 DEF Done, vars, redis, Tick, Arrive
    <3>. QED
      BY <2>1, <2>2, <3>1
  <2>4. ASSUME NEW x \in Checks, Increment(x) \/ Expire(x) \/ FailOpen(x)
        PROVE  counter'[k] <= Cardinality(Reached(k)')
    <3>. DEFINE kx == BucketKey(x[2], x[1], bucket[x])
    <3>1. \/ counter' = counter
          \/ /\ pc[x] = "keyed"
             /\ counter' = [counter EXCEPT ![kx] = counter[kx] + 1]
      BY <2>4 DEF Increment, Expire, FailOpen
    <3>2. CASE counter' = counter \/ kx # k
      <4>1. counter'[k] = counter[k]
        BY <1>0, <3>1, <3>2
      <4>. QED
        BY <2>1, <2>2, <4>1
    <3>3. CASE kx = k /\ counter' # counter
      <4>1. counter'[k] = counter[k] + 1 /\ pc[x] = "keyed"
        BY <1>0, <3>1, <3>3
      <4>2. pc'[x] # "keyed"
        <5>1. \A n \in Int : Verdict(x, n) \in {"allowed", "rejected"}
          BY DEF Verdict
        <5>2. counter[k] + 1 \in Int
          BY <2>1
        <5>3. Verdict(x, counter[k] + 1) \in {"allowed", "rejected"}
          BY <5>1, <5>2
        <5>4. pc'[x] \in {"created", "allowed", Verdict(x, counter[k] + 1)}
          BY <1>0, <2>4, <3>3, <4>1 DEF Increment, Expire, FailOpen
        <5>. QED
          BY <5>3, <5>4
      <4>3. Cardinality(Reached(k)') >= Cardinality(Reached(k)) + 1
        BY <1>3, <3>3, <4>1, <4>2
      <4>. QED
        BY <1>2, <2>1, <4>1, <4>3
    <3>. QED
      BY <3>2, <3>3
  <2>. QED
    BY <2>3, <2>4 DEF Next
<1>5. ASSUME NEW x \in Checks, pc'[x] = "rejected"
      PROVE  Cardinality(Reached(BucketKey(x[2], x[1], bucket[x])))' > Limit[x[2]]
  <2>0. PICK k \in Keys : k = BucketKey(x[2], x[1], bucket[x])
    BY KeyOfCheck
  <2>1. pc[x] # "new"
    <3>1. CASE pc[x] = "rejected"
      BY <3>1
    <3>2. CASE pc[x] # "rejected"
      BY <1>5, <3>2, RejectedByIncrement DEF Increment
    <3>. QED
      BY <3>1, <3>2
  <2>2. BucketKey(x[2], x[1], bucket[x])' = k /\ Limit[x[2]] \in Nat
    BY <2>0, <2>1, ReachedGrows, KeyOfCheck DEF BucketKey
  <2>3. CASE pc[x] = "rejected"
    <3>1. Cardinality(Reached(k)) > Limit[x[2]]
      BY <2>0, <2>3 DEF ReachedInv
    <3>. QED
      BY <1>2, <2>2, <3>1
  <2>4. CASE pc[x] # "rejected"
    <3>1. Increment(x) /\ counter[k] + 1 > Limit[x[2]]
      BY <1>5, <2>0, <2>4, RejectedByIncrement
    <3>2. pc[x] = "keyed"
      BY <3>1 DEF Increment
    <3>3. Cardinality(Reached(k)') >= Cardinality(Reached(k)) + 1
      BY <1>3, <1>5, <2>0, <3>2
    <3>4. counter[k] <= Cardinality(Reached(k)) /\ counter[k] \in Nat
      BY <1>0 DEF ReachedInv
    <3>. QED
      BY <1>2, <2>2, <3>1, <3>3, <3>4
  <2>. QED
    BY <2>3, <2>4
<1>. QED
  BY <1>4, <1>5 DEF ReachedInv

\* Counters never exceed the checks that reached Redis with their key, and a rejected
\* check is one of more than the limit.
LEMMA ReachedInvariant == Spec => []ReachedInv
<1>1. Init => ReachedInv
  <2>. SUFFICES ASSUME Init PROVE ReachedInv
    OBVIOUS
  <2>1. \A k : Reached(k) = {}
    BY DEF Init, Reached
  <2>2. \A k \in Keys : counter[k] = 0
    BY DEF Init
  <2>3. \A x \in Checks : pc[x] = "new"
    BY DEF Init
  <2>. QED
    BY <2>1, <2>2, <2>3, FS_EmptySet DEF ReachedInv
<1>2. TypeOK /\ ReachedInv /\ [Next]_vars => ReachedInv'
  BY TypeStep, ReachedStep
<1>. QED
  BY <1>1, <1>2, TypeCorrect, PTL DEF Spec

\* Nobody is rejected early: when a check is rejected at least limit other checks of the
\* same identifier and bucket went through to Redis, or failed open, before it.
THEOREM RejectedWhenFull == Spec => []RejectedOnlyWhenFull
<1>1. TypeOK /\ ReachedInv => RejectedOnlyWhenFull
  <2>. SUFFICES ASSUME TypeOK, ReachedInv, NEW x \in Checks, pc[x] = "rejected"
                PROVE  Cardinality({y \in Checks \ {x} :
                          /\ y[2] = x[2] /\ IdOf[y[2]][y[1]] = IdOf[x[2]][x[1]]
                          /\ bucket[y] = bucket[x]
                          /\ pc[y] \notin {"new", "keyed"}}) >= Limit[x[2]]
    BY DEF RejectedOnlyWhenFull
  <2>. DEFINE k == BucketKey(x[2], x[1], bucket[x])
              Others == {y \in Checks \ {x} :
                          /\ y[2] = x[2] /\ IdOf[y[2]][y[1]] = IdOf[x[2]][x[1]]
                          /\ bucket[y] = bucket[x]
                          /\ pc[y] \notin {"new", "keyed"}}
  <2>1. Reached(k) \in SUBSET Checks /\ Others \in SUBSET Checks
    BY DEF Reached
  <2>2. Reached(k) = Others \cup {x} /\ x \notin Others
    BY DEF Reached, BucketKey
  <2>3. Cardinality(Reached(k)) = Cardinality(Others) + 1 /\ Cardinality(Others) \in Nat
    BY <2>1, <2>2, CheckSets
  <2>4. Cardinality(Reached(k)) > Limit[x[2]]
    BY DEF ReachedInv
  <2>5. Limit[x[2]] \in Nat
    BY KeyOfCheck
  <2>. QED
    BY <2>3, <2>4, <2>5
<1>. QED
  BY <1>1, ReachedInvariant, TypeCorrect, PTL

-----------------------------------------------------------------------------
\* Retry-After is what is left of the counter's TTL, to the nearest second, and the TTL
\* ends after the bucket.
LEMMA RetryStep ==
  ASSUME TypeOK, DeadlineInv, RetryAfterReachesBucketEnd, [Next]_vars
  PROVE  RetryAfterReachesBucketEnd'
<1>. SUFFICES ASSUME NEW x \in Checks, pc'[x] = "rejected", ttl'[x] # NoTtl
              PROVE  2 * (at'[x] + RetryAfter(x)' * TicksPerSecond) + TicksPerSecond
                       >= 2 * BucketEnd(bucket'[x])
  BY DEF RetryAfterReachesBucketEnd
<1>0. /\ pc \in [Checks -> {"new", "keyed", "created", "allowed", "rejected"}]
      /\ at \in [Checks -> 0..MaxTime] /\ ttl \in [Checks -> Int]
      /\ bucket \in [Checks -> Buckets]
  BY DEF TypeOK
<1>1. CASE pc[x] = "rejected"
  <2>1. at'[x] = at[x] /\ ttl'[x] = ttl[x]
    <3>1. CASE UNCHANGED vars \/ Done \/ Tick \/ (\E r \in Requests : Arrive(r))
      BY <3>1 DEF Done, vars, Tick, Arrive
    <3>2. ASSUME NEW y \in Checks, Increment(y) \/ FailOpen(y)
          PROVE  at'[x] = at[x] /\ ttl'[x] = ttl[x]
      <4>1. x # y
        BY <1>1, <3>2 DEF Increment, FailOpen
      <4>. QED
        BY <1>0, <3>2, <4>1 DEF Increment, FailOpen
    <3>3. ASSUME NEW y \in Checks, Expire(y)
          PROVE  at'[x] = at[x] /\ ttl'[x] = ttl[x]
      BY <3>3 DEF Expire
    <3>. QED
      BY <3>1, <3>2, <3>3 DEF Next
  <2>2. bucket'[x] = bucket[x]
    BY <1>1, ReachedGrows
  <2>. QED
    BY <1>1, <2>1, <2>2 DEF RetryAfterReachesBucketEnd, RetryAfter
<1>2. CASE pc[x] # "rejected"
  <2>. DEFINE k == BucketKey(x[2], x[1], bucket[x])
              T == TicksPerSecond
              left == deadline[k] - now
              n == TtlSeconds(k)
  <2>1. Increment(x)
    BY <1>2, RejectedByIncrement
  <2>2. at'[x] = now /\ bucket'[x] = bucket[x] /\ ttl'[x] = n
    BY <1>0, <2>1 DEF Increment
  <2>3. /\ k \in Keys /\ k = <<x[2], IdOf[x[2]][x[1]], bucket[x]>>
        /\ x[2] \in Scopes /\ IdOf[x[2]][x[1]] \in Ids /\ bucket[x] \in Buckets
    BY KeyOfCheck
  <2>4. deadline[k] \in Int /\ now \in Nat /\ T \in Nat \ {0} /\ left \in Int
    BY <2>3, Ends, Lengths DEF TypeOK
  <2>5. deadline[k] # NoTtl /\ deadline[k] >= BucketEnd(bucket[x])
    <3>1. deadline[k] # NoTtl
      BY <2>2 DEF TtlSeconds
    <3>. QED
      BY <2>3, <3>1 DEF DeadlineInv
  <2>6. n \in Int /\ 2 * (n * T) + T > 2 * left
    BY <2>4, <2>5, Rounding DEF TtlSeconds
  <2>. DEFINE m == RetryAfter(x)'
  <2>. HIDE DEF n, left, T
  <2>7. m \in Int /\ n <= m
    BY <2>2, <2>6 DEF RetryAfter
  <2>. HIDE DEF m, k
  <2>8. n * T <= m * T /\ n * T \in Int /\ m * T \in Int
    BY <2>4, <2>6, <2>7, Times
  <2>9. BucketEnd(bucket[x]) \in Int
    BY <2>3, Ends DEF BucketEnd
  <2>10. 2 * (now + m * T) + T >= 2 * BucketEnd(bucket[x])
    BY <2>4, <2>5, <2>6, <2>8, <2>9 DEF left
  <2>. QED
    BY <2>2, <2>10 DEF m, T
<1>. QED
  BY <1>1, <1>2

\* A client that waits for Retry-After comes back in a later bucket or in the last half
\* second of its own, unless the check found a counter without TTL.
THEOREM RetryReachesBucketEnd == Spec => []RetryAfterReachesBucketEnd
<1>1. Init => RetryAfterReachesBucketEnd
  BY DEF Init, RetryAfterReachesBucketEnd
<1>2. LimitInv => DeadlineInv
  BY DEF LimitInv
<1>3. TypeOK /\ DeadlineInv /\ RetryAfterReachesBucketEnd /\ [Next]_vars
        => RetryAfterReachesBucketEnd'
  BY RetryStep
<1>. QED
  BY <1>1, <1>2, <1>3, LimitInvariant, TypeCorrect, PTL DEF Spec
=============================================================================
