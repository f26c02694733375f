------------------------ MODULE CircuitBreakerProofs ------------------------
(***************************************************************************)
(* Proofs about CircuitBreaker for any number of concurrent calls, any     *)
(* threshold, timeout and number of retries: when it opens, what is sent   *)
(* while it is open, and how often its timeout can be restarted.           *)
(***************************************************************************)
EXTENDS CircuitBreaker, FiniteSetTheorems, TLAPS

\* A new process's breaker is closed and has counted no failure.
LEMMA BreakerInitial == Init => BreakerInv
BY BreakerAssumption DEF Init, BreakerInv, TypeOK, OpenIffThresholdReached, States

\* The breaker and the calls keep their types, the breaker's state agrees with
\* its failure count, and only a call with attempts left waits for another one.
LEMMA BreakerStep == BreakerInv /\ [Next]_vars => BreakerInv'
<1>. USE BreakerAssumption
<1>. SUFFICES ASSUME BreakerInv, [Next]_vars PROVE BreakerInv'
  OBVIOUS
<1>. USE DEF BreakerInv, TypeOK, OpenIffThresholdReached, breakerVars, States
<1>1. CASE UNCHANGED vars
  BY <1>1 DEF vars
<1>2. CASE Tick
  BY <1>2 DEF Tick
<1>3. ASSUME NEW c \in Calls, Admit(c) PROVE BreakerInv'
  BY <1>3 DEF Admit, IsAllowed, Send
<1>4. ASSUME NEW c \in Calls, Reject(c) PROVE BreakerInv'
  BY <1>4, <1>1 DEF Reject
<1>5. ASSUME NEW c \in Calls, Succeed(c) PROVE BreakerInv'
  BY <1>5 DEF Succeed, End
<1>6. ASSUME NEW c \in Calls, Pause(c) PROVE BreakerInv'
  BY <1>6 DEF Pause
<1>7. ASSUME NEW c \in Calls, Fail(c) PROVE BreakerInv'
  BY <1>7 DEF Fail, RecordFailure, End
<1>8. ASSUME NEW c \in Calls, Resend(c) PROVE BreakerInv'
  BY <1>8 DEF Resend, Send
<1>9. ASSUME NEW c \in Calls, Cancel(c) PROVE BreakerInv'
  BY <1>9 DEF Cancel, End
<1>. QED
  BY <1>1, <1>2, <1>3, <1>4, <1>5, <1>6, <1>7, <1>8, <1>9 DEF Next, Answer

\* So in every state of the breaker.
LEMMA BreakerInvariant == Spec => []BreakerInv
BY BreakerInitial, BreakerStep, PTL DEF Spec

\* The breaker is closed exactly while fewer than failure_threshold calls failed
\* since the last success (record_failure and record_success under any
\* interleaving of calls).
THEOREM ThresholdExact == Spec => []OpenIffThresholdReached
<1>1. BreakerInv => OpenIffThresholdReached
  BY DEF BreakerInv
<1>. QED
  BY <1>1, BreakerInvariant, PTL

\* A failure recorded while the breaker is not closed opens it with a fresh
\* timeout (record_failure relies on the count that is_allowed keeps).
THEOREM ProbeFailure == Spec => FailedProbeReopens
<1>1. BreakerInv /\ [Next]_vars
        => [state # "CLOSED" /\ failure_count' > failure_count
              => state' = "OPEN" /\ since' = 0]_vars
  <2>. SUFFICES ASSUME BreakerInv, [Next]_vars, failure_count' > failure_count,
                       state # "CLOSED"
                PROVE  state' = "OPEN" /\ since' = 0
    OBVIOUS
  <2>1. PICK c \in Calls : Fail(c)
    BY DEF BreakerInv, TypeOK, Next, Answer, vars, breakerVars, Tick, Admit,
           Reject, Succeed, Pause, Resend, Cancel
  <2>. QED
    BY <2>1, BreakerAssumption
    DEF BreakerInv, TypeOK, OpenIffThresholdReached, Fail, RecordFailure
<1>. QED
  BY <1>1, BreakerInvariant, PTL DEF Spec, FailedProbeReopens

\* The retries that may still be made are finitely many; those of calls other than c
\* are at most llm_max_retries for each (what is left when the failure of c opens the
\* breaker).
LEMMA RemainingBounded ==
  ASSUME NEW c \in Calls, NEW R \in SUBSET (Calls \X (1..MaxRetries)),
         \A x \in R : x[1] # c
  PROVE  /\ IsFiniteSet(R)
         /\ Cardinality(R) <= (Cardinality(Calls) - 1) * MaxRetries
<1>. USE BreakerAssumption
<1>1. /\ IsFiniteSet(Calls \ {c})
      /\ Cardinality(Calls \ {c}) = Cardinality(Calls) - 1
  BY FS_RemoveElement
<1>2. IsFiniteSet(1..MaxRetries) /\ Cardinality(1..MaxRetries) = MaxRetries
  BY FS_Interval
<1>3. /\ IsFiniteSet((Calls \ {c}) \X (1..MaxRetries))
      /\ Cardinality((Calls \ {c}) \X (1..MaxRetries))
           = (Cardinality(Calls) - 1) * MaxRetries
  BY <1>1, <1>2, FS_Product
<1>4. R \in SUBSET ((Calls \ {c}) \X (1..MaxRetries))
  OBVIOUS
<1>. QED
  BY <1>3, <1>4, FS_Subset

\* The set itself is finite.
LEMMA RemainingFinite == IsFiniteSet(Remaining) /\ Cardinality(Remaining) \in Nat
<1>1. IsFiniteSet(1..MaxRetries)
  BY BreakerAssumption, FS_Interval
<1>2. IsFiniteSet(Calls \X (1..MaxRetries))
  BY <1>1, BreakerAssumption, FS_Product
<1>3. Remaining \in SUBSET (Calls \X (1..MaxRetries))
  BY DEF Remaining
<1>. QED
  BY <1>2, <1>3, FS_Subset, FS_CardinalityType

\* A step that leaves no call with more retries than it had leaves no more of them.
LEMMA RemainingShrinks ==
  ASSUME Remaining' \subseteq Remaining
  PROVE  Cardinality(Remaining)' \in Nat /\ Cardinality(Remaining)' <= Cardinality(Remaining)
<1>1. Remaining' \in SUBSET Remaining
  OBVIOUS
<1>2. IsFiniteSet(Remaining') /\ Cardinality(Remaining') <= Cardinality(Remaining)
  BY <1>1, RemainingFinite, FS_Subset
<1>. QED
  BY <1>2, FS_CardinalityType

\* From opening on, requests sent and retries still possible stay within the retries
\* of the other calls (_request_with_retry asks is_allowed before the first attempt
\* only).
LEMMA LoadInvariant == Spec => []LoadInv
<1>. USE BreakerAssumption
<1>1. Init => LoadInv
  BY BreakerInitial DEF Init, LoadInv
<1>2. LoadInv /\ [Next]_vars => LoadInv'
  <2>. SUFFICES ASSUME LoadInv, [Next]_vars PROVE LoadInv'
    OBVIOUS
  <2>0. BreakerInv'
    BY BreakerStep DEF LoadInv
  <2>. USE <2>0 DEF LoadInv, BreakerInv, TypeOK, OpenIffThresholdReached, breakerVars,
                    States
  <2>a. /\ Cardinality(Remaining) \in Nat
        /\ Cardinality(Calls) \in Nat
        /\ (Cardinality(Calls) - 1) * MaxRetries \in Int
    BY RemainingFinite, FS_CardinalityType
  <2>b. ASSUME Remaining' \subseteq Remaining, openSends' = openSends,
               state' = "OPEN" => state = "OPEN",
               \A c \in Calls : pc'[c] # "idle" => attempt'[c] >= 1
        PROVE  LoadInv'
    BY <2>a, <2>b, RemainingShrinks
  <2>c. ASSUME state' # "OPEN", \A c \in Calls : pc'[c] # "idle" => attempt'[c] >= 1
        PROVE  LoadInv'
    BY <2>c
  <2>1. CASE UNCHANGED vars
    BY <2>1, <2>b DEF vars, Remaining
  <2>2. CASE Tick
    BY <2>2, <2>b DEF Tick, Remaining
  <2>3. ASSUME NEW c \in Calls, Admit(c) PROVE LoadInv'
    BY <2>3, <2>c DEF Admit, IsAllowed, Send
  <2>4. ASSUME NEW c \in Calls, Reject(c) PROVE LoadInv'
    BY <2>4, <2>1 DEF Reject
  <2>5. ASSUME NEW c \in Calls, Succeed(c) PROVE LoadInv'
    BY <2>5, <2>c DEF Succeed, End
  <2>6. ASSUME NEW c \in Calls, Pause(c) PROVE LoadInv'
    BY <2>6, <2>b DEF Pause, Remaining
  <2>7. ASSUME NEW c \in Calls, Fail(c) PROVE LoadInv'
    <3>1. /\ Remaining' \subseteq Remaining
          /\ \A x \in Remaining' : x[1] # c
          /\ \A d \in Calls : pc'[d] # "idle" => attempt'[d] >= 1
      BY <2>7 DEF Fail, End, Remaining
    <3>2. CASE state' # "OPEN"
      BY <3>1, <3>2, <2>c
    <3>3. CASE state = "OPEN"
      BY <2>7, <3>1, <3>3, <2>b DEF Fail, RecordFailure
    <3>4. CASE state # "OPEN" /\ state' = "OPEN"
      <4>1. openSends' = 0
        BY <2>7, <3>4 DEF Fail, RecordFailure
      <4>2. Remaining' \in SUBSET (Calls \X (1..MaxRetries))
        BY <3>1 DEF Remaining
      <4>3. Cardinality(Remaining') <= (Cardinality(Calls) - 1) * MaxRetries
        BY <3>1, <4>2, RemainingBounded
      <4>. QED
        BY <3>1, <4>1, <4>3, <2>a, RemainingShrinks
    <3>. QED
      BY <3>2, <3>3, <3>4
  <2>8. ASSUME NEW c \in Calls, Resend(c) PROVE LoadInv'
    <3>1. attempt[c] \in 1..MaxRetries
      BY <2>8 DEF Resend
    <3>2. /\ Remaining' = Remaining \ {<<c, attempt[c]>>}
          /\ <<c, attempt[c]>> \in Remaining
      BY <2>8, <3>1 DEF Resend, Send, Remaining
    <3>3. Cardinality(Remaining') = Cardinality(Remaining) - 1
      BY <3>2, RemainingFinite, FS_RemoveElement
    <3>4. state' = state /\ (state = "OPEN" => openSends' = openSends + 1)
      BY <2>8 DEF Resend, Send
    <3>5. \A d \in Calls : pc'[d] # "idle" => attempt'[d] >= 1
      BY <2>8 DEF Resend, Send
    <3>. QED
      BY <3>3, <3>4, <3>5, <2>a
  <2>9. ASSUME NEW c \in Calls, Cancel(c) PROVE LoadInv'
    BY <2>9, <2>b DEF Cancel, End, Remaining
  <2>. QED
    BY <2>1, <2>2, <2>3, <2>4, <2>5, <2>6, <2>7, <2>8, <2>9 DEF Next, Answer
<1>. QED
  BY <1>1, <1>2, PTL DEF Spec

\* While the breaker is open the provider only gets the retries of calls admitted
\* earlier, at most llm_max_retries for each of the other calls.
THEOREM LoadShed == Spec => []OpenShedsLoad
<1>1. LoadInv => OpenShedsLoad
  BY RemainingFinite, FS_CardinalityType, BreakerAssumption
  DEF LoadInv, BreakerInv, TypeOK, OpenShedsLoad
<1>. QED
  BY <1>1, LoadInvariant, PTL

\* The calls under way.
Busy == {c \in Calls : pc[c] # "idle"}

\* No call joins them, and the timeout is restarted only by one that ends.
RestartsDwindle ==
  /\ Busy' \subseteq Busy
  /\ since' < since => Busy' # Busy

\* While an open breaker turns calls away, each restart of its timeout uses up one of the
\* calls that were under way: the late failures of concurrent calls can extend the
\* lock-out at most as often as there are such calls, and rejected calls never do.
THEOREM RestartsRunOut ==
  Spec => [][state = "OPEN" /\ since <= RecoveryTimeout => RestartsDwindle]_vars
<1>1. ASSUME TypeOK, [Next]_vars, state = "OPEN", since <= RecoveryTimeout
      PROVE  RestartsDwindle
  <2>1. /\ pc \in [Calls -> {"idle", "sent", "paused"}] /\ since \in Int
        /\ RecoveryTimeout \in Int
    BY <1>1, BreakerAssumption DEF TypeOK
  <2>2. ASSUME pc' = pc, ~(since' < since)
        PROVE  RestartsDwindle
    BY <2>1, <2>2 DEF RestartsDwindle, Busy
  <2>3. CASE UNCHANGED vars
    BY <2>1, <2>2, <2>3 DEF vars
  <2>4. CASE Tick
    BY <2>1, <2>2, <2>4 DEF Tick
  <2>5. ASSUME NEW c \in Calls, End(c), pc[c] # "idle"
        PROVE  RestartsDwindle
    <3>1. Busy' \subseteq Busy /\ c \in Busy /\ c \notin Busy'
      BY <2>1, <2>5 DEF End, Busy
    <3>. QED
      BY <3>1 DEF RestartsDwindle
  <2>6. ASSUME NEW c \in Calls, Admit(c)
        PROVE  FALSE
    BY <1>1, <2>1, <2>6 DEF Admit, IsAllowed
  <2>7. ASSUME NEW c \in Calls, Reject(c)
        PROVE  RestartsDwindle
    BY <2>1, <2>2, <2>7 DEF Reject, vars
  <2>8. ASSUME NEW c \in Calls, Answer(c)
        PROVE  RestartsDwindle
    <3>1. CASE Succeed(c) \/ Fail(c)
      BY <2>5, <3>1 DEF Succeed, Fail
    <3>2. CASE Pause(c)
      <4>1. Busy' = Busy /\ since' = since
        BY <2>1, <3>2 DEF Pause, breakerVars, Busy
      <4>. QED
        BY <2>1, <4>1 DEF RestartsDwindle
    <3>. QED
      BY <2>8, <3>1, <3>2 DEF Answer
  <2>9. ASSUME NEW c \in Calls, Resend(c)
        PROVE  RestartsDwindle
    <3>1. Busy' = Busy /\ since' = since
      BY <2>1, <2>9 DEF Resend, Send, breakerVars, Busy
    <3>. QED
      BY <2>1, <3>1 DEF RestartsDwindle
  <2>10. ASSUME NEW c \in Calls, Cancel(c)
         PROVE  RestartsDwindle
    BY <2>5, <2>10 DEF Cancel
  <2>. QED
    BY <1>1, <2>3, <2>4, <2>6, <2>7, <2>8, <2>9, <2>10 DEF Next
<1>2. TypeOK /\ [Next]_vars
        => [state = "OPEN" /\ since <= RecoveryTimeout => RestartsDwindle]_vars
  BY <1>1
<1>3. BreakerInv => TypeOK
  BY DEF BreakerInv
<1>. QED
  BY <1>2, <1>3, BreakerInvariant, PTL DEF Spec
=============================================================================
