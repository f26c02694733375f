--------------------------- MODULE DatabaseProofs ---------------------------
(***************************************************************************)
(* The gateway's database: ConnectionPool for every number of requests and *)
(* every pool size (the pool is never overdrawn and never given up on      *)
(* below the load that can exhaust it), and Reports for every number of    *)
(* rows (what the dashboard's statements may make of a growing log).       *)
(***************************************************************************)
EXTENDS ConnectionPool, Reports, FiniteSetTheorems, SequenceTheorems, TLAPS

-----------------------------------------------------------------------------
(* ConnectionPool                                                          *)

\* Sets of requests are finite.
LEMMA RequestSetsFinite ==
  ASSUME NEW S \in SUBSET Requests
  PROVE  IsFiniteSet(S) /\ Cardinality(S) \in Nat /\ Cardinality(S) <= Cardinality(Requests)
  BY PoolAssumption, FS_Subset, FS_CardinalityType

\* Taking a connection adds one holder at most, giving it back adds none.
LEMMA HoldersStep ==
  ASSUME NEW f \in [Requests -> BOOLEAN], NEW r \in Requests
  PROVE  /\ Cardinality(Holders([f EXCEPT ![r] = TRUE])) <= Cardinality(Holders(f)) + 1
         /\ \A b \in BOOLEAN :
              (b => f[r]) => Cardinality(Holders([f EXCEPT ![r] = b])) <= Cardinality(Holders(f))
<1>1. Holders(f) \in SUBSET Requests
  BY DEF Holders
<1>2. Holders([f EXCEPT ![r] = TRUE]) = Holders(f) \cup {r}
  BY DEF Holders
<1>3. Cardinality(Holders(f) \cup {r}) <= Cardinality(Holders(f)) + 1
  BY <1>1, RequestSetsFinite, FS_AddElement
<1>4. ASSUME NEW b \in BOOLEAN, b => f[r]
      PROVE  Cardinality(Holders([f EXCEPT ![r] = b])) <= Cardinality(Holders(f))
  <2>1. Holders([f EXCEPT ![r] = b]) \subseteq Holders(f)
    BY <1>4 DEF Holders
  <2>. QED
    BY <2>1, <1>1, RequestSetsFinite, FS_Subset
<1>. QED
  BY <1>2, <1>3, <1>4

\* The numbers the arithmetic of the other steps is about.
LEMMA Numbers ==
  ASSUME TypeOK
  PROVE  /\ Cardinality(Holders(session)) \in Nat
         /\ Cardinality(Holders(logger)) \in Nat
         /\ Cardinality(UnderWay) \in Nat
         /\ Cardinality(Requests) \in Nat
         /\ peak \in Nat
         /\ Capacity \in Nat
<1>1. /\ Holders(session) \in SUBSET Requests /\ Holders(logger) \in SUBSET Requests
      /\ UnderWay \in SUBSET Requests
  BY DEF Holders, UnderWay
<1>. QED
  BY <1>1, RequestSetsFinite, PoolAssumption DEF TypeOK

\* No step overdraws the pool (the requests' sessions and the log's session take
\* a connection only while one is free).
LEMMA PoolStep ==
  ASSUME TypeOK, session' \in [Requests -> BOOLEAN], logger' \in [Requests -> BOOLEAN], Next
  PROVE  InUse' <= Capacity
<1>1. PICK r \in Requests : Arrive(r) \/ Handle(r)
  BY DEF Next
<1>2. session \in [Requests -> BOOLEAN] /\ logger \in [Requests -> BOOLEAN] /\ InUse <= Capacity
  BY DEF TypeOK
<1>3. InUse \in Nat /\ Capacity \in Nat
  BY Numbers DEF InUse
<1>4. CASE UNCHANGED <<session, logger>>
  BY <1>2, <1>4 DEF InUse, Holders
<1>5. CASE /\ Free
           /\ \/ session' = [session EXCEPT ![r] = TRUE] /\ logger' = logger
              \/ logger' = [logger EXCEPT ![r] = TRUE] /\ session' = session
  <2>1. \/ /\ Cardinality(Holders(session')) <= Cardinality(Holders(session)) + 1
           /\ logger' = logger
        \/ /\ Cardinality(Holders(logger')) <= Cardinality(Holders(logger)) + 1
           /\ session' = session
    BY <1>2, <1>5, HoldersStep
  <2>2. Cardinality(Holders(session')) \in Nat /\ Cardinality(Holders(logger')) \in Nat
    BY RequestSetsFinite DEF Holders
  <2>3. InUse' = Cardinality(Holders(session')) + Cardinality(Holders(logger'))
    BY DEF InUse, Holders
  <2>4. InUse' <= InUse + 1
    BY <2>1, <2>2, <2>3, Numbers DEF InUse
  <2>. QED
    BY <1>3, <1>5, <2>2, <2>3, <2>4 DEF Free
<1>6. CASE \E b \in BOOLEAN :
             \/ (b => session[r]) /\ session' = [session EXCEPT ![r] = b] /\ logger' = logger
             \/ (b => logger[r]) /\ logger' = [logger EXCEPT ![r] = b] /\ session' = session
  <2>1. \/ /\ Cardinality(Holders(session')) <= Cardinality(Holders(session))
           /\ logger' = logger
        \/ /\ Cardinality(Holders(logger')) <= Cardinality(Holders(logger))
           /\ session' = session
    BY <1>2, <1>6, HoldersStep
  <2>2. Cardinality(Holders(session')) \in Nat /\ Cardinality(Holders(logger')) \in Nat
    BY RequestSetsFinite DEF Holders
  <2>3. InUse' = Cardinality(Holders(session')) + Cardinality(Holders(logger'))
    BY DEF InUse, Holders
  <2>. QED
    BY <1>2, <1>3, <2>1, <2>2, <2>3, Numbers DEF InUse
<1>7. CASE Arrive(r)
  BY <1>4, <1>7 DEF Arrive, connections
<1>8. CASE Handle(r)
  <2>1. CASE KeyLookup(r) \/ Log(r)
    BY <2>1, <1>5 DEF KeyLookup, Log
  <2>2. CASE Generate(r)
    <3>1. session' = [session EXCEPT ![r] = session[r] /\ HoldThroughTasks] /\ logger' = logger
      BY <2>2 DEF Generate
    <3>2. (session[r] /\ HoldThroughTasks) \in BOOLEAN
      BY <1>2, PoolAssumption
    <3>. QED
      BY <1>6, <3>1, <3>2
  <2>3. CASE Query(r)
    BY <2>3, <1>5, <1>6 DEF Query
  <2>4. CASE Written(r)
    BY <2>4, <1>6 DEF Written
  <2>5. CASE Close(r)
    BY <2>5, <1>6 DEF Close
  <2>6. CASE \/ KeyLookupTimeout(r) \/ Accept(r) \/ Refuse(r) \/ GenerateFails(r)
             \/ QueryTimeout(r) \/ Report(r) \/ StartTask(r) \/ LogTimeout(r)
    BY <2>6, <1>4 DEF KeyLookupTimeout, Accept, Refuse, GenerateFails, QueryTimeout,
       Report, StartTask, LogTimeout, connections
  <2>. QED
    BY <1>8, <2>1, <2>2, <2>3, <2>4, <2>5, <2>6 DEF Handle
<1>. QED
  BY <1>1, <1>7, <1>8

\* The requests under way: an arrival adds one, no other step adds any.
LEMMA UnderWayStep ==
  ASSUME TypeOK, NEW r \in Requests, Arrive(r) \/ Handle(r)
  PROVE  /\ Arrive(r) => /\ Cardinality(UnderWay') = Cardinality(UnderWay) + 1
                         /\ Cardinality(UnderWay) + 1 <= Cardinality(Requests)
         /\ Handle(r) => /\ UnderWay' \subseteq UnderWay
                         /\ Cardinality(UnderWay') <= Cardinality(UnderWay)
<1>1. pc \in [Requests -> Steps] /\ UnderWay \in SUBSET Requests /\ UnderWay' \in SUBSET Requests
  BY DEF TypeOK, UnderWay
<1>2. ASSUME Arrive(r)
      PROVE  /\ Cardinality(UnderWay') = Cardinality(UnderWay) + 1
             /\ Cardinality(UnderWay) + 1 <= Cardinality(Requests)
  <2>1. pc[r] = "new" /\ \E x \in {"authenticating", "handling", "querying"} : pc' = [pc EXCEPT ![r] = x]
    BY <1>2 DEF Arrive, Endpoint
  <2>2. UnderWay' = UnderWay \cup {r} /\ r \notin UnderWay
    BY <1>1, <2>1 DEF UnderWay
  <2>3. Cardinality(UnderWay \cup {r}) = Cardinality(UnderWay) + 1
    BY <1>1, <2>2, RequestSetsFinite, FS_AddElement
  <2>. QED
    BY <1>1, <2>2, <2>3, RequestSetsFinite
<1>3. ASSUME Handle(r)
      PROVE  UnderWay' \subseteq UnderWay /\ Cardinality(UnderWay') <= Cardinality(UnderWay)
  <2>1. UnderWay' \subseteq UnderWay
    BY <1>1, <1>3 DEF Handle, KeyLookup, KeyLookupTimeout, Accept, Refuse, Generate,
       GenerateFails, Query, QueryTimeout, Report, StartTask, Log, LogTimeout, Written,
       Close, Step, UnderWay, Endpoint
  <2>. QED
    BY <1>1, <2>1, RequestSetsFinite, FS_Subset
<1>. QED
  BY <1>2, <1>3

\* Every step of a request keeps the types, and the capacity of the pool.
LEMMA TypeStep ==
  ASSUME TypeOK, [Next]_vars
  PROVE  TypeOK'
<1>. USE DEF TypeOK
<1>1. CASE UNCHANGED vars
  BY <1>1 DEF vars, connections, InUse, Holders
<1>2. CASE Next
  <2>1. PICK r \in Requests : Arrive(r) \/ Handle(r)
    BY <1>2 DEF Next
  <2>2. /\ route' \in [Requests -> Routes \cup {"none"}]
        /\ pc' \in [Requests -> Steps]
        /\ session' \in [Requests -> BOOLEAN]
        /\ logger' \in [Requests -> BOOLEAN]
        /\ answer' \in [Requests -> Answers]
        /\ row' \in [Requests -> {"none", "stored", "failed", "timed_out"}]
    <3>1. CASE Arrive(r)
      BY <3>1 DEF Arrive, Endpoint, Steps, Waiting, Routes, connections
    <3>2. CASE Handle(r)
      <4>. USE DEF Step, Respond, Steps, Waiting, Answers, connections
      <4>1. CASE KeyLookup(r) \/ KeyLookupTimeout(r)
        BY <4>1 DEF KeyLookup, KeyLookupTimeout
      <4>2. CASE Accept(r)
        <5>1. Endpoint(route[r]) \in Steps
          BY DEF Endpoint
        <5>. QED
          BY <4>2, <5>1 DEF Accept
      <4>10. CASE Refuse(r)
        BY <4>10 DEF Refuse
      <4>3. CASE Generate(r)
        <5>1. (session[r] /\ HoldThroughTasks) \in BOOLEAN
          BY PoolAssumption
        <5>2. session' \in [Requests -> BOOLEAN]
          BY <4>3, <5>1 DEF Generate
        <5>. QED
          BY <4>3, <5>2 DEF Generate
      <4>4. CASE GenerateFails(r)
        BY <4>4 DEF GenerateFails
      <4>5. CASE Query(r) \/ Report(r)
        BY <4>5 DEF Query, Report
      <4>6. CASE QueryTimeout(r)
        BY <4>6 DEF QueryTimeout
      <4>7. CASE StartTask(r) \/ Log(r) \/ LogTimeout(r)
        BY <4>7 DEF StartTask, Log, LogTimeout
      <4>8. CASE Written(r)
        BY <4>8 DEF Written
      <4>9. CASE Close(r)
        BY <4>9 DEF Close
      <4>. QED
        BY <3>2, <4>1, <4>2, <4>3, <4>4, <4>5, <4>6, <4>7, <4>8, <4>9, <4>10 DEF Handle
    <3>. QED
      BY <2>1, <3>1, <3>2
  <2>3. InUse' <= Capacity
    BY <1>2, <2>2, PoolStep
  <2>4. peak' \in 0..Cardinality(Requests)
    <3>1. CASE Arrive(r)
      <4>1. peak' = IF Cardinality(UnderWay) + 1 > peak THEN Cardinality(UnderWay) + 1 ELSE peak
        BY <3>1 DEF Arrive
      <4>2. Cardinality(UnderWay) + 1 <= Cardinality(Requests)
        BY <3>1, UnderWayStep
      <4>. QED
        BY <4>1, <4>2, Numbers
    <3>2. CASE Handle(r)
      BY <3>2 DEF Handle, KeyLookup, KeyLookupTimeout, Accept, Refuse, Generate,
         GenerateFails, Query, QueryTimeout, Report, StartTask, Log, LogTimeout, Written, Close
    <3>. QED
      BY <2>1, <3>1, <3>2
  <2>. QED
    BY <2>2, <2>3, <2>4
<1>. QED
  BY <1>1, <1>2

\* The pool of db/session.py is never overdrawn, whatever the order in which the
\* requests and the background tasks take and return their connections.
THEOREM TypeCorrect == Spec => []TypeOK
<1>1. Init => TypeOK
  <2>. SUFFICES ASSUME Init PROVE TypeOK
    OBVIOUS
  <2>1. Holders(session) = {} /\ Holders(logger) = {}
    BY DEF Init, Holders
  <2>2. InUse = 0
    BY <2>1, FS_EmptySet DEF InUse
  <2>3. Cardinality(Requests) \in Nat
    BY PoolAssumption, FS_CardinalityType
  <2>. QED
    BY <2>2, <2>3, PoolAssumption DEF Init, TypeOK, Steps, Waiting, Answers
<1>. QED
  BY <1>1, TypeStep, PTL DEF Spec

\* A request that waits in vain: everyone under way holds two connections at most,
\* and the one that waits has none for its log.
LEMMA FullPool ==
  ASSUME TypeOK, PoolInv, NEW r \in Requests, pc[r] \in Waiting, ~Free
  PROVE  Capacity < 2 * peak
<1>1. UnderWay \in SUBSET Requests /\ r \in UnderWay
  BY DEF UnderWay, Waiting
<1>2. Holders(session) \subseteq UnderWay
  BY DEF PoolInv, Holders
<1>3. Holders(logger) \subseteq UnderWay \ {r}
  BY DEF PoolInv, Holders, UnderWay, Waiting
<1>4. Cardinality(UnderWay \ {r}) = Cardinality(UnderWay) - 1
  BY <1>1, RequestSetsFinite, FS_RemoveElement
<1>5. /\ Cardinality(Holders(session)) <= Cardinality(UnderWay)
      /\ Cardinality(Holders(logger)) <= Cardinality(UnderWay) - 1
  <2>1. UnderWay \ {r} \in SUBSET Requests
    BY <1>1
  <2>. QED
    BY <1>1, <1>2, <1>3, <1>4, <2>1, RequestSetsFinite, FS_Subset
<1>6. Cardinality(UnderWay) <= peak
  BY DEF PoolInv
<1>. QED
  BY <1>5, <1>6, Numbers DEF Free, InUse

\* The peak only grows, and whoever gave up did so in a full pool.
LEMMA LoadStep ==
  ASSUME TypeOK, PoolInv, Next
  PROVE  /\ peak <= peak'
         /\ Cardinality(UnderWay') <= peak'
         /\ ExhaustedOnlyUnderLoad'
<1>1. PICK r \in Requests : Arrive(r) \/ Handle(r)
  BY DEF Next
<1>2. peak <= peak' /\ Cardinality(UnderWay') <= peak' /\ peak' \in Nat
  <2>1. CASE Arrive(r)
    <3>1. peak' = IF Cardinality(UnderWay) + 1 > peak THEN Cardinality(UnderWay) + 1 ELSE peak
      BY <2>1 DEF Arrive
    <3>. QED
      BY <2>1, <3>1, UnderWayStep, Numbers
  <2>2. CASE Handle(r)
    <3>1. peak' = peak
      BY <2>2 DEF Handle, KeyLookup, KeyLookupTimeout, Accept, Refuse, Generate,
         GenerateFails, Query, QueryTimeout, Report, StartTask, Log, LogTimeout, Written, Close
    <3>2. UnderWay' \in SUBSET Requests
      BY DEF UnderWay
    <3>. QED
      BY <2>2, <3>1, <3>2, UnderWayStep, RequestSetsFinite, Numbers DEF PoolInv
  <2>. QED
    BY <1>1, <2>1, <2>2
<1>3. \/ /\ \A q \in Requests : GaveUp(q)' => GaveUp(q)
      \/ pc[r] \in Waiting /\ ~Free /\ peak' = peak
  <2>. USE DEF TypeOK, GaveUp, Step, Respond
  <2>1. CASE Arrive(r)
    BY <2>1 DEF Arrive
  <2>2. CASE Handle(r)
    <3>1. CASE KeyLookupTimeout(r) \/ QueryTimeout(r) \/ LogTimeout(r)
      BY <3>1 DEF KeyLookupTimeout, QueryTimeout, LogTimeout, Waiting
    <3>2. CASE KeyLookup(r) \/ Accept(r) \/ Query(r) \/ StartTask(r) \/ Log(r) \/ Close(r)
      BY <3>2 DEF KeyLookup, Accept, Query, StartTask, Log, Close
    <3>3. CASE Refuse(r) \/ Generate(r) \/ GenerateFails(r) \/ Report(r)
      BY <3>3 DEF Refuse, Generate, GenerateFails, Report
    <3>4. CASE Written(r)
      BY <3>4 DEF Written
    <3>. QED
      BY <2>2, <3>1, <3>2, <3>3, <3>4 DEF Handle
  <2>. QED
    BY <1>1, <2>1, <2>2
<1>4. Capacity < 2 * peak' \/ \A q \in Requests : GaveUp(q)' => GaveUp(q)
  BY <1>3, FullPool
<1>5. ExhaustedOnlyUnderLoad'
  <2>1. ASSUME NEW q \in Requests, GaveUp(q) PROVE Capacity < 2 * peak
    BY <2>1 DEF PoolInv, ExhaustedOnlyUnderLoad
  <2>2. ASSUME NEW q \in Requests, GaveUp(q)' PROVE Capacity < 2 * peak'
    BY <1>2, <1>4, <2>1, <2>2, Numbers
  <2>. QED
    BY <2>2 DEF ExhaustedOnlyUnderLoad, GaveUp
<1>. QED
  BY <1>2, <1>5

\* Who holds a connection: a request under way, a log being written.
LEMMA HoldersKept ==
  ASSUME TypeOK, PoolInv, Next
  PROVE  \A q \in Requests : /\ session'[q] => q \in UnderWay'
                             /\ logger'[q] => pc'[q] = "writing"
<1>. USE DEF TypeOK, PoolInv, UnderWay, Step, connections
<1>1. PICK r \in Requests : Arrive(r) \/ Handle(r)
  BY DEF Next
<1>2. CASE Arrive(r)
  BY <1>2 DEF Arrive, Endpoint
<1>3. CASE Handle(r)
  <2>1. CASE KeyLookup(r) \/ KeyLookupTimeout(r)
    BY <2>1 DEF KeyLookup, KeyLookupTimeout
  <2>2. CASE Accept(r) \/ Refuse(r)
    BY <2>2 DEF Accept, Refuse, Endpoint
  <2>3. CASE Generate(r)
    <3>1. \A q \in Requests : session'[q] => session[q] \/ q = r
      BY <2>3 DEF Generate
    <3>. QED
      BY <2>3, <3>1 DEF Generate
  <2>4. CASE GenerateFails(r) \/ Query(r) \/ Report(r)
    BY <2>4 DEF GenerateFails, Query, Report
  <2>5. CASE QueryTimeout(r) \/ StartTask(r) \/ LogTimeout(r)
    BY <2>5 DEF QueryTimeout, StartTask, LogTimeout
  <2>6. CASE Log(r)
    BY <2>6 DEF Log
  <2>7. CASE Written(r)
    BY <2>7 DEF Written
  <2>8. CASE Close(r)
    BY <2>8 DEF Close
  <2>. QED
    BY <1>3, <2>1, <2>2, <2>3, <2>4, <2>5, <2>6, <2>7, <2>8 DEF Handle
<1>. QED
  BY <1>1, <1>2, <1>3

\* A wait that is given up, with the row it loses or the error it answers, shows
\* that the requests under way could hold the whole pool (db/session.py).
THEOREM ExhaustionNeedsLoad == Spec => []ExhaustedOnlyUnderLoad
<1>1. Init => PoolInv
  <2>. SUFFICES ASSUME Init PROVE PoolInv
    OBVIOUS
  <2>1. Cardinality(UnderWay) = 0
    <3>1. UnderWay = {}
      BY DEF Init, UnderWay
    <3>. QED
      BY <3>1, FS_EmptySet
  <2>. QED
    BY <2>1 DEF Init, PoolInv, ExhaustedOnlyUnderLoad, GaveUp
<1>2. TypeOK /\ PoolInv /\ [Next]_vars => PoolInv'
  <2>1. CASE UNCHANGED vars
    BY <2>1 DEF vars, connections, PoolInv, UnderWay, ExhaustedOnlyUnderLoad, GaveUp
  <2>2. ASSUME TypeOK, PoolInv, Next PROVE PoolInv'
    BY <2>2, LoadStep, HoldersKept DEF PoolInv
  <2>. QED
    BY <2>1, <2>2
<1>3. PoolInv => ExhaustedOnlyUnderLoad
  BY DEF PoolInv
<1>. QED
  BY <1>1, <1>2, <1>3, TypeCorrect, PTL DEF Spec

-----------------------------------------------------------------------------
(* Reports                                                                 *)

\* The points up to which the four statements may have seen the log.
Points ==
  {x \in (0..Len(rows)) \X (0..Len(rows)) \X (0..Len(rows)) \X (0..Len(rows)) :
     known <= x[1] /\ x[1] <= x[2] /\ x[2] <= x[3] /\ x[3] <= x[4]}

\* The invariant in these terms.
LEMMA DayInvByPoints ==
  ASSUME known \in Nat, Len(rows) \in Nat
  PROVE  DayInv <=> \E x \in Points : \A f \in Shown :
                      figures[f] = FiguresAt(x[1], x[2], x[3], x[4])[f]
<1>1. ASSUME DayInv
      PROVE  \E x \in Points : \A f \in Shown :
               figures[f] = FiguresAt(x[1], x[2], x[3], x[4])[f]
  <2>1. PICK k \in known..Len(rows) :
              \E l \in k..Len(rows) : \E m \in l..Len(rows) : \E n \in m..Len(rows) :
                \A f \in Shown : figures[f] = FiguresAt(k, l, m, n)[f]
    BY <1>1 DEF DayInv
  <2>2. PICK l \in k..Len(rows) :
              \E m \in l..Len(rows) : \E n \in m..Len(rows) :
                \A f \in Shown : figures[f] = FiguresAt(k, l, m, n)[f]
    BY <2>1
  <2>3. PICK m \in l..Len(rows) :
              \E n \in m..Len(rows) :
                \A f \in Shown : figures[f] = FiguresAt(k, l, m, n)[f]
    BY <2>2
  <2>4. PICK n \in m..Len(rows) :
              \A f \in Shown : figures[f] = FiguresAt(k, l, m, n)[f]
    BY <2>3
  <2>5. <<k, l, m, n>> \in Points
    BY <2>1, <2>2, <2>3, <2>4 DEF Points
  <2>. QED
    BY <2>4, <2>5
<1>2. ASSUME NEW x \in Points,
             \A f \in Shown : figures[f] = FiguresAt(x[1], x[2], x[3], x[4])[f]
      PROVE  DayInv
  <2>1. /\ x[1] \in known..Len(rows) /\ x[2] \in x[1]..Len(rows)
        /\ x[3] \in x[2]..Len(rows) /\ x[4] \in x[3]..Len(rows)
    BY DEF Points
  <2>. QED
    BY <1>2, <2>1 DEF DayInv
<1>. QED
  BY <1>1, <1>2

\* A log that only grows keeps what its first rows say.
LEMMA PrefixKept ==
  ASSUME cutoff' = cutoff, NEW n \in Nat, \A i \in 1..n : rows'[i] = rows[i],
         NEW x \in (0..n) \X (0..n) \X (0..n) \X (0..n)
  PROVE  FiguresAt(x[1], x[2], x[3], x[4])' = FiguresAt(x[1], x[2], x[3], x[4])
<1>1. ASSUME NEW k \in 0..n
      PROVE  /\ Since(cutoff, k)' = Since(cutoff, k)
             /\ Cardinality(Since(cutoff, k))' = Cardinality(Since(cutoff, k))
             /\ Hits(Since(cutoff, k))' = Hits(Since(cutoff, k))
             /\ TotalCost(Since(cutoff, k))' = TotalCost(Since(cutoff, k))
             /\ TotalLatency(Since(cutoff, k))' = TotalLatency(Since(cutoff, k))
  <2>0. \A i \in 1..k : rows'[i] = rows[i]
    OBVIOUS
  <2>1. Since(cutoff, k)' = Since(cutoff, k)
    BY <2>0 DEF Since
  <2>2. \A i \in Since(cutoff, k) : rows'[i] = rows[i]
    BY <2>0 DEF Since
  <2>3. Hits(Since(cutoff, k))' = Hits(Since(cutoff, k))
    BY <2>1, <2>2 DEF Hits
  <2>4. [i \in Since(cutoff, k) |-> rows[i].cost]' = [i \in Since(cutoff, k) |-> rows[i].cost]
    BY <2>1, <2>2
  <2>5. [i \in Since(cutoff, k) |-> rows[i].latency]'
          = [i \in Since(cutoff, k) |-> rows[i].latency]
    BY <2>1, <2>2
  <2>. QED
    BY <2>1, <2>3, <2>4, <2>5 DEF TotalCost, TotalLatency
<1>2. x[1] \in 0..n /\ x[2] \in 0..n /\ x[3] \in 0..n /\ x[4] \in 0..n
  OBVIOUS
<1>. QED
  BY <1>1, <1>2 DEF FiguresAt, FiguresOf, Average, Ratio

\* A row that is added leaves what was read as it was read.
LEMMA AddRowStep ==
  ASSUME ReportsInv, NEW t \in Tenants, NEW u \in Users, NEW h \in BOOLEAN,
         NEW c \in Costs, NEW l \in Latencies, now \in Nat,
         AddRow(t, u, h, c, l)
  PROVE  ReportsInv'
<1>. DEFINE r == [tenant |-> t, user |-> u, at |-> now, hit |-> h, cost |-> c, latency |-> l]
            n == Len(rows)
<1>1. /\ rows \in Seq(Row) /\ n \in Nat /\ known \in 0..n
  BY DEF ReportsInv, ReportsTypeOK
<1>2. /\ rows' = Append(rows, r)
      /\ UNCHANGED <<statement, cutoff, figures, known>>
  BY DEF AddRow, dashboard
<1>3. r \in Row
  BY DEF Row
<1>. HIDE DEF r
<1>4. /\ rows' \in Seq(Row) /\ Len(rows') = n + 1
      /\ \A i \in 1..n : rows'[i] = rows[i]
  BY <1>1, <1>2, <1>3, AppendProperties
<1>5. ReportsTypeOK'
  <2>1. known' \in 0..Len(rows')
    BY <1>1, <1>2, <1>4
  <2>. QED
    BY <1>2, <1>4, <2>1 DEF ReportsInv, ReportsTypeOK
<1>6. PICK x \in Points : \A f \in Shown : figures[f] = FiguresAt(x[1], x[2], x[3], x[4])[f]
  BY <1>1, DayInvByPoints DEF ReportsInv
<1>7. x \in Points'
  BY <1>1, <1>2, <1>4 DEF Points
<1>8. FiguresAt(x[1], x[2], x[3], x[4])' = FiguresAt(x[1], x[2], x[3], x[4])
  BY <1>1, <1>2, <1>4, PrefixKept DEF Points
<1>9. Shown' = Shown
  BY <1>2 DEF Shown
<1>10. /\ known' \in Nat /\ Len(rows') \in Nat
       /\ \A f \in Shown' : figures'[f] = FiguresAt(x[1], x[2], x[3], x[4])'[f]
  BY <1>1, <1>2, <1>4, <1>6, <1>8, <1>9
<1>11. DayInv'
  <2>1. /\ x[1] \in known'..Len(rows') /\ x[2] \in x[1]..Len(rows')
        /\ x[3] \in x[2]..Len(rows') /\ x[4] \in x[3]..Len(rows')
    BY <1>7 DEF Points
  <2>. QED
    BY <1>10, <2>1 DEF DayInv
<1>. QED
  BY <1>5, <1>11 DEF ReportsInv

\* A statement reads the whole log, which is no shorter than what the one before it saw.
LEMMA ReadStep ==
  ASSUME ReportsInv,
         \/ ReadRequests \/ ReadCost
         \/ ReadHits \/ ReadLatency
  PROVE  ReportsInv'
<1>. DEFINE e == Len(rows)
<1>1. /\ rows \in Seq(Row) /\ e \in Nat /\ known \in 0..e /\ known \in Nat
      /\ DOMAIN figures = {"requests", "cost_per_1k", "cache_hit_ratio", "avg_latency"}
  BY DEF ReportsInv, ReportsTypeOK, NoFigures
<1>2. UNCHANGED <<rows, cutoff, known>>
  BY DEF ReadRequests, ReadCost, ReadHits, ReadLatency, Read
<1>3. ASSUME NEW k, NEW l, NEW m, NEW n
      PROVE  /\ FiguresAt(k, l, m, n)' = FiguresAt(k, l, m, n)
             /\ FiguresAt(k, l, m, n)["requests"] = Cardinality(Since(cutoff, k))
             /\ FiguresAt(k, l, m, n)["cost_per_1k"]
                  = Ratio(TotalCost(Since(cutoff, l)), Cardinality(Since(cutoff, k)))
             /\ FiguresAt(k, l, m, n)["cache_hit_ratio"]
                  = Ratio(Cardinality(Hits(Since(cutoff, m))), Cardinality(Since(cutoff, k)))
             /\ FiguresAt(k, l, m, n)["avg_latency"] = Average(Since(cutoff, n))
  BY <1>2 DEF FiguresAt, FiguresOf, Average, Hits, TotalCost, TotalLatency, Since
<1>4. PICK k, l, m, n :
        /\ k \in known..e /\ l \in k..e /\ m \in l..e /\ n \in m..e
        /\ \A f \in Shown : figures[f] = FiguresAt(k, l, m, n)[f]
  BY DEF ReportsInv, DayInv
<1>5. e \in known..e /\ e \in k..e /\ e \in l..e /\ e \in m..e
  BY <1>1, <1>4
<1>6. ASSUME NEW a \in known..e, NEW b \in a..e, NEW c \in b..e, NEW d \in c..e,
             \A f \in Shown' : figures'[f] = FiguresAt(a, b, c, d)[f]
      PROVE  DayInv'
  <2>1. FiguresAt(a, b, c, d)' = FiguresAt(a, b, c, d)
    BY <1>3
  <2>2. \A f \in Shown' : figures'[f] = FiguresAt(a, b, c, d)'[f]
    BY <1>6, <2>1
  <2>. QED
    BY <1>2, <2>2 DEF DayInv
<1>7. CASE ReadRequests
  <2>1. /\ statement' = "cost"
        /\ figures' = [figures EXCEPT !["requests"] = Cardinality(Since(cutoff, e))]
    BY <1>7 DEF ReadRequests, Read, Recent
  <2>2. figures'["requests"] = FiguresAt(e, e, e, e)["requests"] /\ Shown' = {"requests"}
    BY <1>1, <1>3, <2>1 DEF Shown
  <2>3. DayInv'
    BY <1>1, <1>5, <1>6, <2>2
  <2>. QED
    BY <1>2, <2>1, <2>3 DEF ReportsInv, ReportsTypeOK, Statements
<1>8. CASE ReadCost
  <2>1. /\ statement = "cost" /\ statement' = "hits"
        /\ figures' = [figures EXCEPT !["cost_per_1k"] =
                         Ratio(TotalCost(Since(cutoff, e)), figures["requests"])]
    BY <1>8 DEF ReadCost, Read, Recent
  <2>2. Shown = {"requests"} /\ Shown' = {"requests", "cost_per_1k"}
    BY <2>1 DEF Shown
  <2>3. figures["requests"] = Cardinality(Since(cutoff, k))
    BY <1>3, <1>4, <2>2
  <2>4. /\ figures'["requests"] = FiguresAt(k, e, e, e)["requests"]
        /\ figures'["cost_per_1k"] = FiguresAt(k, e, e, e)["cost_per_1k"]
    BY <1>1, <1>3, <2>1, <2>3
  <2>5. DayInv'
    BY <1>1, <1>4, <1>5, <1>6, <2>2, <2>4
  <2>. QED
    BY <1>2, <2>1, <2>5 DEF ReportsInv, ReportsTypeOK, Statements
<1>9. CASE ReadHits
  <2>1. /\ statement = "hits" /\ statement' = "latency"
        /\ figures' = [figures EXCEPT !["cache_hit_ratio"] =
                         Ratio(Cardinality(Hits(Since(cutoff, e))), figures["requests"])]
    BY <1>9 DEF ReadHits, Read, Recent
  <2>2. /\ Shown = {"requests", "cost_per_1k"}
        /\ Shown' = {"requests", "cost_per_1k", "cache_hit_ratio"}
    BY <2>1 DEF Shown
  <2>3. /\ figures["requests"] = Cardinality(Since(cutoff, k))
        /\ figures["cost_per_1k"] = Ratio(TotalCost(Since(cutoff, l)), Cardinality(Since(cutoff, k)))
    BY <1>3, <1>4, <2>2
  <2>4. /\ figures'["requests"] = FiguresAt(k, l, e, e)["requests"]
        /\ figures'["cost_per_1k"] = FiguresAt(k, l, e, e)["cost_per_1k"]
        /\ figures'["cache_hit_ratio"] = FiguresAt(k, l, e, e)["cache_hit_ratio"]
    BY <1>1, <1>3, <2>1, <2>3
  <2>5. DayInv'
    BY <1>1, <1>4, <1>5, <1>6, <2>2, <2>4
  <2>. QED
    BY <1>2, <2>1, <2>5 DEF ReportsInv, ReportsTypeOK, Statements
<1>10. CASE ReadLatency
  <2>1. /\ statement = "latency" /\ statement' = "done"
        /\ figures' = [figures EXCEPT !["avg_latency"] = Average(Since(cutoff, e))]
    BY <1>10 DEF ReadLatency, Read, Recent
  <2>2. /\ Shown = {"requests", "cost_per_1k", "cache_hit_ratio"}
        /\ Shown' = {"requests", "cost_per_1k", "cache_hit_ratio", "avg_latency"}
    BY <2>1 DEF Shown, NoFigures
  <2>3. /\ figures["requests"] = Cardinality(Since(cutoff, k))
        /\ figures["cost_per_1k"] = Ratio(TotalCost(Since(cutoff, l)), Cardinality(Since(cutoff, k)))
        /\ figures["cache_hit_ratio"]
             = Ratio(Cardinality(Hits(Since(cutoff, m))), Cardinality(Since(cutoff, k)))
    BY <1>3, <1>4, <2>2
  <2>4. /\ figures'["requests"] = FiguresAt(k, l, m, e)["requests"]
        /\ figures'["cost_per_1k"] = FiguresAt(k, l, m, e)["cost_per_1k"]
        /\ figures'["cache_hit_ratio"] = FiguresAt(k, l, m, e)["cache_hit_ratio"]
        /\ figures'["avg_latency"] = FiguresAt(k, l, m, e)["avg_latency"]
    BY <1>1, <1>3, <2>1, <2>3
  <2>5. DayInv'
    BY <1>1, <1>4, <1>5, <1>6, <2>2, <2>4
  <2>. QED
    BY <1>2, <2>1, <2>5 DEF ReportsInv, ReportsTypeOK, Statements
<1>. QED
  BY <1>7, <1>8, <1>9, <1>10

\* Every step of the log and the dashboard keeps the invariant.
LEMMA DashboardStep ==
  ASSUME ReportsInv, now \in Nat, [ReportsNext]_reportsVars
  PROVE  ReportsInv' /\ now' \in Nat
<1>1. CASE UNCHANGED reportsVars \/ Tick
  <2>1. /\ UNCHANGED <<rows, statement, cutoff, figures, known>>
        /\ now' = now \/ now' = now + 1
    BY <1>1 DEF reportsVars, dashboard, Tick
  <2>2. ReportsTypeOK'
    <3>1. ReportsTypeOK
      BY DEF ReportsInv
    <3>2. Row' = Row /\ (DOMAIN NoFigures)' = DOMAIN NoFigures
      BY DEF Row, NoFigures
    <3>3. /\ rows' = rows /\ statement' = statement /\ figures' = figures /\ known' = known
      BY <2>1
    <3>. QED
      BY <3>1, <3>2, <3>3, Zenon DEF ReportsTypeOK
  <2>3. DayInv'
    <3>1. ASSUME NEW k, NEW l, NEW m, NEW n
          PROVE  FiguresAt(k, l, m, n)' = FiguresAt(k, l, m, n)
      BY <2>1 DEF FiguresAt, FiguresOf, Average, Hits, TotalCost, TotalLatency, Since
    <3>2. Shown' = Shown
      BY <2>1 DEF Shown
    <3>3. DayInv
      BY DEF ReportsInv
    <3>. QED
      BY <2>1, <3>1, <3>2, <3>3 DEF DayInv
  <2>. QED
    BY <2>1, <2>2, <2>3 DEF ReportsInv
<1>2. CASE \E t \in Tenants, u \in Users, h \in BOOLEAN, c \in Costs, l \in Latencies :
             AddRow(t, u, h, c, l)
  BY <1>2, AddRowStep DEF AddRow
<1>3. CASE StartDashboard \/ DashboardFails
  <2>1. /\ statement' \in {"requests", "idle"} /\ figures' = NoFigures
        /\ UNCHANGED <<now, rows>>
        /\ known' = Len(rows) \/ known' = known
    BY <1>3 DEF StartDashboard, DashboardFails
  <2>2. Len(rows) \in Nat /\ known \in 0..Len(rows)
    BY DEF ReportsInv, ReportsTypeOK
  <2>3. ReportsTypeOK'
    BY <2>1, <2>2 DEF ReportsInv, ReportsTypeOK, Statements, NoFigures
  <2>4. Shown' = {}
    BY <2>1 DEF Shown
  <2>5. Len(rows) \in known'..Len(rows') /\ Len(rows) \in Len(rows)..Len(rows')
    BY <2>1, <2>2
  <2>6. DayInv'
    BY <2>4, <2>5 DEF DayInv
  <2>. QED
    BY <2>1, <2>3, <2>6 DEF ReportsInv
<1>4. CASE \/ ReadRequests \/ ReadCost
           \/ ReadHits \/ ReadLatency
  BY <1>4, ReadStep DEF ReadRequests, ReadCost, ReadHits, ReadLatency, Read
<1>. QED
  BY <1>1, <1>2, <1>3, <1>4 DEF ReportsNext

\* However the rows of the log and the dashboard's four statements interleave, over any
\* number of rows, costs and latencies, the figures are those of the rows since one
\* cutoff, each up to some point between the request for the dashboard and now, in the
\* order of the statements (get_dashboard_metrics fixes yesterday once).
THEOREM DashboardOfOneDay == ReportsSpec => []FiguresOfOneDay
<1>. DEFINE IInv == ReportsInv /\ now \in Nat
<1>1. ReportsInit => IInv
  <2>. SUFFICES ASSUME ReportsInit PROVE ReportsInv /\ now \in Nat
    OBVIOUS
  <2>1. rows = <<>> /\ rows \in Seq(Row) /\ Len(rows) = 0
    BY EmptySeq DEF ReportsInit
  <2>2. ReportsTypeOK
    BY <2>1 DEF ReportsInit, ReportsTypeOK, Statements, NoFigures
  <2>3. Shown = {} /\ known = 0
    BY DEF ReportsInit, Shown
  <2>4. 0 \in known..Len(rows) /\ 0 \in 0..Len(rows)
    BY <2>1, <2>3
  <2>5. \A f \in Shown : figures[f] = FiguresAt(0, 0, 0, 0)[f]
    BY <2>3
  <2>6. DayInv
    BY <2>4, <2>5 DEF DayInv
  <2>. QED
    BY <2>2, <2>6, ReportsAssumption DEF ReportsInv, ReportsInit
<1>2. IInv /\ [ReportsNext]_reportsVars => IInv'
  BY DashboardStep
<1>3. IInv => FiguresOfOneDay
  <2>. SUFFICES ASSUME ReportsInv, statement = "done"
                PROVE  \E k \in known..Len(rows) : \E l \in k..Len(rows) :
                         \E m \in l..Len(rows) : \E n \in m..Len(rows) :
                           figures = FiguresAt(k, l, m, n)
    BY DEF FiguresOfOneDay
  <2>1. known \in Nat /\ Len(rows) \in Nat
    BY DEF ReportsInv, ReportsTypeOK
  <2>2. PICK x \in Points : \A f \in Shown : figures[f] = FiguresAt(x[1], x[2], x[3], x[4])[f]
    BY <2>1, DayInvByPoints DEF ReportsInv
  <2>3. /\ x[1] \in known..Len(rows) /\ x[2] \in x[1]..Len(rows)
        /\ x[3] \in x[2]..Len(rows) /\ x[4] \in x[3]..Len(rows)
    BY <2>1 DEF Points
  <2>4. DEFINE at == FiguresAt(x[1], x[2], x[3], x[4])
  <2>5. Shown = DOMAIN NoFigures
    BY DEF Shown
  <2>6. figures = [f \in DOMAIN NoFigures |-> figures[f]]
    BY DEF ReportsInv, ReportsTypeOK
  <2>7. at = [f \in DOMAIN NoFigures |-> at[f]]
    BY DEF FiguresAt, FiguresOf, NoFigures
  <2>. HIDE DEF at
  <2>8. figures = at
    <3>1. \A f \in DOMAIN NoFigures : figures[f] = at[f]
      BY <2>2, <2>5 DEF at
    <3>2. [f \in DOMAIN NoFigures |-> figures[f]] = [f \in DOMAIN NoFigures |-> at[f]]
      BY <3>1
    <3>. QED
      BY <2>6, <2>7, <3>2
  <2>9. figures = FiguresAt(x[1], x[2], x[3], x[4])
    BY <2>8 DEF at
  <2>. QED
    BY <2>3, <2>9, Zenon
<1>. HIDE DEF IInv
<1>. QED
  BY <1>1, <1>2, <1>3, PTL DEF ReportsSpec
=============================================================================
