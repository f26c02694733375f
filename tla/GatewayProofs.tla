---------------------------- MODULE GatewayProofs ----------------------------
(***************************************************************************)
(* Gateway for any number of clients, keys, faults and crashes: what is    *)
(* logged for a request, whose completion a client is sent, and how often  *)
(* a deactivated key can be cached again.  Then GatewaySystem, the whole   *)
(* process, which takes only steps that Gateway and RateLimiter allow:     *)
(* what reaches the provider, and when a request is refused without asking *)
(* it.                                                                     *)
(***************************************************************************)
EXTENDS GatewaySystem, FiniteSetTheorems, SequenceTheorems, TLAPS

\* The steps that touch nothing but the request's place in the handler.
Moves(c) ==
  \/ AuthDemo(c) \/ AuthHit(c) \/ AuthMiss(c) \/ Admit(c) \/ Miss(c) \/ Complete(c)
  \/ AuthRead(c) /\ active

\* The steps that refuse the request.
Refusals(c) ==
  \/ AuthRead(c) /\ ~active
  \/ AuthReadFails(c) \/ OverLimit(c) \/ GenerateFails(c)

\* The steps of a request, one by one.
LEMMA HandleSplit ==
  ASSUME NEW c \in Clients, Handle(c)
  PROVE  \/ Moves(c) \/ Refusals(c) \/ AuthStore(c) \/ Hit(c) \/ Generate(c)
         \/ StoreResponse(c) \/ PersistLog(c)
  BY DEF Handle, Moves, Refusals

\* A step moves the request from a step before the answer, or to idle after it.
LEMMA MovesFrom ==
  ASSUME TypeOK, NEW c \in Clients, Moves(c)
  PROVE  /\ pc' = [pc EXCEPT ![c] = pc'[c]] /\ pc'[c] \in Steps
         /\ \/ pc[c] \notin {"idle", "answered"} /\ pc'[c] \notin {"idle", "answered"}
            \/ pc[c] = "answered" /\ pc'[c] = "idle" /\ tasks[c] = <<>>
         /\ UNCHANGED <<active, redis, answer, served, tasks, rows>>
         /\ faults' = faults \/ (faults' = faults + 1 /\ faults < MaxFaults)
<1>1. pc \in [Clients -> Steps]
  BY DEF TypeOK
<1>2. CASE AuthDemo(c) \/ AuthHit(c) \/ AuthMiss(c)
  BY <1>1, <1>2 DEF AuthDemo, AuthHit, AuthMiss, Step, Steps, Fault
<1>3. CASE Admit(c) \/ Miss(c) \/ Complete(c)
  BY <1>1, <1>3 DEF Admit, Miss, Complete, Step, Steps, Fault
<1>4. CASE AuthRead(c) /\ active
  BY <1>1, <1>4 DEF AuthRead, Step, Steps
<1>. QED
  BY <1>2, <1>3, <1>4 DEF Moves

\* The refusals, by the step of the request that gives them.
LEMMA RefusalsFrom ==
  ASSUME TypeOK, NEW c \in Clients, Refusals(c)
  PROVE  /\ pc[c] \notin {"idle", "answered"}
         /\ pc' = [pc EXCEPT ![c] = "idle"]
         /\ \E a \in Answers \ Success : answer' = [answer EXCEPT ![c] = a]
         /\ UNCHANGED <<active, redis, served, tasks, rows>>
         /\ faults' = faults \/ (faults' = faults + 1 /\ faults < MaxFaults)
<1>1. CASE AuthRead(c) /\ ~active
  BY <1>1 DEF AuthRead, Refuse, Step, Answers, Success
<1>2. CASE AuthReadFails(c)
  BY <1>2 DEF AuthReadFails, Fault, Refuse, Step, Answers, Success
<1>3. CASE OverLimit(c) \/ GenerateFails(c)
  BY <1>3 DEF OverLimit, GenerateFails, Refuse, Step, Answers, Success
<1>. QED
  BY <1>1, <1>2, <1>3 DEF Refusals

-----------------------------------------------------------------------------
\* The constants are numbers.
LEMMA Numbers == MaxFaults \in Nat /\ AuthTtl \in Nat \ {0} /\ CacheTtl \in Nat \ {0}
  BY GatewayAssumption

\* The variables keep their types; that a request has one row at most is what the
\* invariant of the log says.
LEMMA TypeStep ==
  ASSUME TypeOK, LogInv, [Next]_vars
  PROVE  TypeOK'
<1>. USE DEF TypeOK
<1>0. /\ MaxFaults \in Nat /\ AuthTtl \in Nat \ {0} /\ CacheTtl \in Nat \ {0}
      /\ faults \in 0..MaxFaults
  BY Numbers
<1>1. CASE UNCHANGED vars
  BY <1>1 DEF vars, redis, request
<1>2. CASE Tick
  <2>1. authTtl' \in 0..AuthTtl
    BY <1>0, <1>2 DEF Tick
  <2>2. cacheTtl' \in [Keys -> 0..CacheTtl]
    <3>1. ASSUME NEW n \in 0..CacheTtl
          PROVE  (IF n > 0 THEN n - 1 ELSE 0) \in 0..CacheTtl
      BY <1>0
    <3>2. cacheTtl' = [k \in Keys |-> IF cacheTtl[k] > 0 THEN cacheTtl[k] - 1 ELSE 0]
      BY <1>2 DEF Tick
    <3>3. \A k \in Keys : cacheTtl[k] \in 0..CacheTtl
      OBVIOUS
    <3>. QED
      BY <3>1, <3>2, <3>3
  <2>3. source' \in [Keys -> Clients \cup {None}]
    BY <1>2 DEF Tick
  <2>. QED
    BY <1>2, <2>1, <2>2, <2>3 DEF Tick, request
<1>3. CASE Deactivate
  BY <1>3 DEF Deactivate, redis, request
<1>4. CASE Crash
  <2>1. faults' \in 0..MaxFaults
    BY <1>0, <1>4 DEF Crash, Fault
  <2>2. pc' \in [Clients -> Steps]
    BY <1>4 DEF Crash, Steps
  <2>3. tasks' \in [Clients -> {<<>>, <<"log">>, <<"cache", "log">>}]
    BY <1>4 DEF Crash
  <2>. QED
    BY <1>4, <2>1, <2>2, <2>3 DEF Crash, redis
<1>5. ASSUME NEW c \in Clients, Submit(c)
      PROVE  TypeOK'
  <2>1. pc' \in [Clients -> Steps] /\ answer' \in [Clients -> Answers]
    BY <1>5 DEF Submit, Step, Steps, Answers
  <2>2. served' \in [Clients -> Clients \cup {None}] /\ rows' \in [Clients -> 0..1]
    BY <1>5 DEF Submit
  <2>. QED
    BY <1>5, <2>1, <2>2 DEF Submit, redis
<1>6. ASSUME NEW c \in Clients, Handle(c)
      PROVE  TypeOK'
  <2>1. CASE Moves(c)
    <3>1. pc' \in [Clients -> Steps] /\ faults' \in 0..MaxFaults
      <4>1. pc' = [pc EXCEPT ![c] = pc'[c]] /\ pc'[c] \in Steps
        BY <2>1, MovesFrom
      <4>2. faults' = faults \/ (faults' = faults + 1 /\ faults < MaxFaults)
        BY <2>1, MovesFrom
      <4>3. faults' \in 0..MaxFaults
        BY <1>0, <4>2
      <4>4. pc' \in [Clients -> Steps]
        BY <4>1
      <4>. QED
        BY <4>3, <4>4
    <3>. QED
      BY <2>1, <3>1, MovesFrom DEF redis
  <2>2. CASE Refusals(c)
    <3>1. pc' \in [Clients -> Steps] /\ faults' \in 0..MaxFaults
      <4>1. pc' = [pc EXCEPT ![c] = "idle"] /\ "idle" \in Steps
        BY <2>2, RefusalsFrom DEF Steps
      <4>2. faults' = faults \/ (faults' = faults + 1 /\ faults < MaxFaults)
        BY <2>2, RefusalsFrom
      <4>3. faults' \in 0..MaxFaults
        BY <1>0, <4>2
      <4>4. pc' \in [Clients -> Steps]
        BY <4>1
      <4>. QED
        BY <4>3, <4>4
    <3>2. answer' \in [Clients -> Answers]
      BY <2>2, RefusalsFrom
    <3>. QED
      BY <2>2, <3>1, <3>2, RefusalsFrom DEF redis
  <2>3. CASE AuthStore(c)
    <3>1. pc' \in [Clients -> Steps]
      BY <2>3 DEF AuthStore, Step, Steps
    <3>2. faults' \in 0..MaxFaults /\ authTtl' \in 0..AuthTtl
      BY <1>0, <2>3 DEF AuthStore, Fault
    <3>. QED
      BY <2>3, <3>1, <3>2 DEF AuthStore
  <2>4. CASE Hit(c) \/ Generate(c)
    <3>1. pc' \in [Clients -> Steps] /\ answer' \in [Clients -> Answers]
      BY <2>4 DEF Hit, Generate, Step, Steps, Answers, Success
    <3>2. served' \in [Clients -> Clients \cup {None}]
      <4>1. CacheKey(c) \in Keys
        BY DEF Keys
      <4>2. source[CacheKey(c)] \in Clients \cup {None}
        BY <4>1
      <4>. QED
        BY <2>4, <4>2 DEF Hit, Generate
    <3>3. tasks' \in [Clients -> {<<>>, <<"log">>, <<"cache", "log">>}]
      BY <2>4 DEF Hit, Generate
    <3>. QED
      BY <2>4, <3>1, <3>2, <3>3 DEF Hit, Generate, redis
  <2>5. ASSUME tasks' = [tasks EXCEPT ![c] = Tail(tasks[c])], tasks[c] # <<>>
        PROVE  tasks' \in [Clients -> {<<>>, <<"log">>, <<"cache", "log">>}]
    <3>1. Tail(tasks[c]) \in {<<>>, <<"log">>}
      <4>1. tasks[c] = <<"log">> \/ tasks[c] = <<"cache", "log">>
        BY <2>5
      <4>2. CASE tasks[c] = <<"log">>
        BY <4>2
      <4>3. CASE tasks[c] = <<"cache", "log">>
        BY <4>3
      <4>. QED
        BY <4>1, <4>2, <4>3
    <3>. QED
      BY <2>5, <3>1
  <2>6. CASE StoreResponse(c)
    <3>1. faults' \in 0..MaxFaults
      BY <1>0, <2>6 DEF StoreResponse, Fault
    <3>2. /\ cacheTtl' \in [Keys -> 0..CacheTtl]
          /\ source' \in [Keys -> Clients \cup {None}]
      BY <1>0, <2>6 DEF StoreResponse
    <3>. QED
      BY <2>5, <2>6, <3>1, <3>2 DEF StoreResponse
  <2>7. CASE PersistLog(c)
    <3>1. faults' \in 0..MaxFaults
      BY <1>0, <2>7 DEF PersistLog, Fault
    <3>2. rows' \in [Clients -> 0..1]
      <4>1. rows[c] = 0
        BY <2>7 DEF PersistLog, LogInv
      <4>. QED
        BY <2>7, <4>1 DEF PersistLog
    <3>. QED
      BY <2>5, <2>7, <3>1, <3>2 DEF PersistLog, redis
  <2>. QED
    BY <1>6, <2>1, <2>2, <2>3, <2>4, <2>6, <2>7, HandleSplit
<1>. QED
  BY <1>1, <1>2, <1>3, <1>4, <1>5, <1>6 DEF Next

-----------------------------------------------------------------------------
\* What LogInv says of one client.
ClientInv(c) ==
  /\ pc[c] \notin {"idle", "answered"} =>
       answer[c] = "none" /\ rows[c] = 0 /\ tasks[c] = <<>>
  /\ pc[c] = "answered" =>
       /\ answer[c] \in Success
       /\ tasks[c] # <<>> => rows[c] = 0
       /\ tasks[c] = <<>> /\ faults = 0 => rows[c] = 1
  /\ pc[c] = "idle" =>
       /\ tasks[c] = <<>>
       /\ rows[c] = 1 => answer[c] \in Success
       /\ faults = 0 /\ answer[c] \in Success => rows[c] = 1

\* The invariant of the log speaks of one client at a time.
LEMMA LogInvByClient == LogInv <=> \A c \in Clients : ClientInv(c)
  BY DEF LogInv, ClientInv

\* A step of one client leaves the others alone, and no step takes a fault back.
LEMMA OthersUndisturbed ==
  ASSUME TypeOK, NEW c \in Clients, Submit(c) \/ Handle(c), NEW d \in Clients \ {c}
  PROVE  /\ pc'[d] = pc[d] /\ answer'[d] = answer[d] /\ rows'[d] = rows[d]
         /\ tasks'[d] = tasks[d]
         /\ faults' = 0 => faults = 0
<1>1. /\ pc \in [Clients -> Steps] /\ answer \in [Clients -> Answers]
      /\ rows \in [Clients -> 0..1] /\ faults \in 0..MaxFaults /\ MaxFaults \in Nat
      /\ tasks \in [Clients -> {<<>>, <<"log">>, <<"cache", "log">>}]
  BY Numbers DEF TypeOK
<1>2. CASE Submit(c)
  BY <1>1, <1>2 DEF Submit, Step
<1>3. CASE Moves(c) \/ Refusals(c)
  BY <1>1, <1>3, MovesFrom, RefusalsFrom
<1>4. CASE AuthStore(c)
  BY <1>1, <1>4 DEF AuthStore, Step, Fault
<1>5. CASE Hit(c) \/ Generate(c)
  BY <1>1, <1>5 DEF Hit, Generate, Step
<1>6. CASE StoreResponse(c) \/ PersistLog(c)
  BY <1>1, <1>6 DEF StoreResponse, PersistLog, Fault
<1>. QED
  BY <1>2, <1>3, <1>4, <1>5, <1>6, HandleSplit

\* Every step keeps the invariant of the log.
LEMMA LogStep ==
  ASSUME TypeOK, LogInv, [Next]_vars
  PROVE  LogInv'
<1>. SUFFICES ASSUME NEW d \in Clients
              PROVE  ClientInv(d)'
  BY DEF LogInv, ClientInv
<1>0. /\ pc \in [Clients -> Steps] /\ answer \in [Clients -> Answers]
      /\ rows \in [Clients -> 0..1] /\ faults \in 0..MaxFaults /\ MaxFaults \in Nat
      /\ tasks \in [Clients -> {<<>>, <<"log">>, <<"cache", "log">>}]
  BY Numbers DEF TypeOK
<1>1. ClientInv(d)
  BY LogInvByClient
<1>2. CASE UNCHANGED vars \/ Tick \/ Deactivate
  BY <1>1, <1>2 DEF vars, request, Tick, Deactivate, ClientInv
<1>3. CASE Crash
  <2>1. pc'[d] = "idle" /\ tasks'[d] = <<>> /\ faults' # 0
    BY <1>0, <1>3 DEF Crash, Fault
  <2>2. answer' = answer /\ rows' = rows
    BY <1>3 DEF Crash
  <2>3. rows[d] = 1 => answer[d] \in Success
    BY <1>1 DEF ClientInv
  <2>. QED
    BY <2>1, <2>2, <2>3 DEF ClientInv
<1>4. ASSUME NEW c \in Clients, Submit(c) \/ Handle(c), c # d
      PROVE  ClientInv(d)'
  BY <1>1, <1>4, OthersUndisturbed DEF ClientInv
<1>5. CASE Submit(d)
  BY <1>0, <1>1, <1>5 DEF Submit, Step, ClientInv
<1>6. CASE Handle(d)
  <2>1. CASE Moves(d)
    <3>1. /\ pc'[d] \in Steps
          /\ \/ pc[d] \notin {"idle", "answered"} /\ pc'[d] \notin {"idle", "answered"}
             \/ pc[d] = "answered" /\ pc'[d] = "idle" /\ tasks[d] = <<>>
          /\ UNCHANGED <<answer, tasks, rows>>
      BY <2>1, MovesFrom
    <3>2. faults' = 0 => faults = 0
      BY <1>0, <2>1, MovesFrom
    <3>. QED
      BY <1>1, <3>1, <3>2 DEF ClientInv
  <2>2. CASE Refusals(d)
    <3>1. /\ pc[d] \notin {"idle", "answered"} /\ pc'[d] = "idle"
          /\ answer'[d] \notin Success /\ UNCHANGED <<tasks, rows>>
      BY <1>0, <2>2, RefusalsFrom
    <3>. QED
      BY <1>1, <3>1 DEF ClientInv
  <2>3. CASE AuthStore(d)
    BY <1>0, <1>1, <2>3 DEF AuthStore, Step, ClientInv
  <2>4. CASE Hit(d) \/ Generate(d)
    <3>1. /\ pc[d] \notin {"idle", "answered"} /\ pc'[d] = "answered"
          /\ answer'[d] \in Success /\ rows' = rows
      BY <1>0, <2>4 DEF Hit, Generate, Step, Success
    <3>2. tasks'[d] = <<"log">> \/ tasks'[d] = <<"cache", "log">>
      BY <1>0, <2>4 DEF Hit, Generate
    <3>3. tasks'[d] # <<>>
      BY <3>2
    <3>. QED
      BY <1>1, <3>1, <3>3 DEF ClientInv
  <2>5. CASE StoreResponse(d)
    <3>1. /\ pc'[d] = "answered" /\ tasks'[d] = <<"log">>
          /\ UNCHANGED <<answer, rows>> /\ pc[d] = "answered" /\ tasks[d] # <<>>
      <4>1. tasks[d] = <<"cache", "log">>
        <5>1. tasks[d] # <<>> /\ Head(tasks[d]) = "cache"
          BY <2>5 DEF StoreResponse
        <5>2. tasks[d] \in {<<>>, <<"log">>, <<"cache", "log">>}
          BY <1>0
        <5>3. Head(<<"log">>) # "cache"
          OBVIOUS
        <5>. QED
          BY <5>1, <5>2, <5>3
      <4>2. Tail(<<"cache", "log">>) = <<"log">>
        OBVIOUS
      <4>3. tasks'[d] = <<"log">>
        BY <1>0, <2>5, <4>1, <4>2 DEF StoreResponse
      <4>. QED
        BY <2>5, <4>3 DEF StoreResponse
    <3>2. <<"log">> # <<>>
      OBVIOUS
    <3>. QED
      BY <1>1, <3>1, <3>2 DEF ClientInv
  <2>6. CASE PersistLog(d)
    <3>1. /\ pc'[d] = "answered" /\ tasks'[d] = <<>> /\ answer' = answer
          /\ pc[d] = "answered" /\ tasks[d] # <<>>
      BY <1>0, <2>6 DEF PersistLog
    <3>2. rows'[d] = 1 \/ faults' # 0
      BY <1>0, <1>1, <2>6, <3>1 DEF PersistLog, Fault, ClientInv
    <3>. QED
      BY <1>1, <3>1, <3>2 DEF ClientInv
  <2>. QED
    BY <1>6, <2>1, <2>2, <2>3, <2>4, <2>5, <2>6, HandleSplit
<1>. QED
  BY <1>2, <1>3, <1>4, <1>5, <1>6 DEF Next

\* The inductive invariant of the request log, with the types it needs.
THEOREM LogInvariant == Spec => [](TypeOK /\ LogInv)
<1>1. Init => TypeOK /\ LogInv
  BY Numbers DEF Init, TypeOK, LogInv, Steps, Answers, Success
<1>. QED
  BY <1>1, TypeStep, LogStep, PTL DEF Spec

\* Every variable keeps its type, for any number of clients and faults.
THEOREM TypeCorrect == Spec => []TypeOK
  BY LogInvariant, PTL

\* While nothing fails, an answered request leaves exactly one row for a success, and
\* never one for a refusal, however requests, background tasks and crashes interleave.
THEOREM LoggedOnce == Spec => []SuccessesLoggedOnce
<1>1. TypeOK /\ LogInv => SuccessesLoggedOnce
  <2>. SUFFICES ASSUME TypeOK, LogInv, NEW c \in Clients
                PROVE  /\ rows[c] >= 1 => rows[c] = 1 /\ answer[c] \in Success
                       /\ pc[c] = "idle" /\ faults = 0 /\ answer[c] \in Success => rows[c] = 1
    BY DEF SuccessesLoggedOnce
  <2>1. rows[c] \in 0..1 /\ ClientInv(c)
    BY LogInvByClient DEF TypeOK
  <2>2. CASE rows[c] = 0
    BY <2>1, <2>2 DEF ClientInv
  <2>3. CASE rows[c] = 1
    BY <2>1, <2>3 DEF ClientInv
  <2>. QED
    BY <2>1, <2>2, <2>3
<1>. QED
  BY <1>1, LogInvariant, PTL

-----------------------------------------------------------------------------
\* A text without a colon.
Plain(a) == \A i \in 1..Len(a) : a[i] # ":"

\* Two texts with a colon between.
Joined(a, x) == a \o <<":">> \o x

\* Where the parts of two texts are, one after the other.
LEMMA TextsJoined ==
  \A u, v \in Seq(Words) :
    /\ u \o v \in Seq(Words)
    /\ Len(u \o v) = Len(u) + Len(v)
    /\ \A i \in 1..(Len(u) + Len(v)) : (u \o v)[i] = IF i <= Len(u) THEN u[i] ELSE v[i - Len(u)]
BY ConcatProperties

\* Where the parts of a joined text are.
LEMMA JoinedParts ==
  ASSUME NEW a \in Seq(Words), NEW x \in Seq(Words)
  PROVE  /\ Len(a) \in Nat /\ Len(x) \in Nat
         /\ Joined(a, x) \in Seq(Words)
         /\ Len(Joined(a, x)) = Len(a) + 1 + Len(x)
         /\ \A i \in 1..Len(a) : Joined(a, x)[i] = a[i]
         /\ Joined(a, x)[Len(a) + 1] = ":"
         /\ \A i \in 1..Len(x) : Joined(a, x)[Len(a) + 1 + i] = x[i]
<1>. DEFINE C == <<":">>
            L == a \o C
<1>1. C \in Seq(Words) /\ Len(C) = 1 /\ C[1] = ":"
  BY GatewayAssumption
<1>2. Len(a) \in Nat /\ Len(x) \in Nat
  BY LenProperties
<1>. HIDE DEF C
<1>3. /\ L \in Seq(Words) /\ Len(L) = Len(a) + 1
      /\ \A i \in 1..(Len(a) + 1) : L[i] = IF i <= Len(a) THEN a[i] ELSE C[i - Len(a)]
  <2>1. /\ L \in Seq(Words) /\ Len(L) = Len(a) + Len(C)
        /\ \A i \in 1..(Len(a) + Len(C)) : L[i] = IF i <= Len(a) THEN a[i] ELSE C[i - Len(a)]
    BY <1>1, TextsJoined, Zenon
  <2>. HIDE DEF L
  <2>. QED
    BY <1>1, <2>1
<1>. HIDE DEF L
<1>4. /\ L \o x \in Seq(Words) /\ Len(L \o x) = Len(L) + Len(x)
      /\ \A i \in 1..(Len(L) + Len(x)) :
           (L \o x)[i] = IF i <= Len(L) THEN L[i] ELSE x[i - Len(L)]
  BY <1>3, TextsJoined, Zenon
<1>5. Joined(a, x) = L \o x
  BY DEF Joined, L, C
<1>6. \A i \in 1..Len(a) : Joined(a, x)[i] = a[i]
  BY <1>2, <1>3, <1>4, <1>5
<1>7. Joined(a, x)[Len(a) + 1] = ":"
  <2>1. Joined(a, x)[Len(a) + 1] = L[Len(a) + 1]
    BY <1>2, <1>3, <1>4, <1>5
  <2>2. L[Len(a) + 1] = C[1]
    BY <1>2, <1>3
  <2>. QED
    BY <1>1, <2>1, <2>2
<1>8. \A i \in 1..Len(x) : Joined(a, x)[Len(a) + 1 + i] = x[i]
  BY <1>2, <1>3, <1>4, <1>5
<1>. QED
  BY <1>2, <1>3, <1>4, <1>5, <1>6, <1>7, <1>8

\* The shorter of two texts without a colon would end where the other has none.
LEMMA ColonWithin ==
  ASSUME NEW a \in Seq(Words), NEW b \in Seq(Words), NEW x \in Seq(Words), NEW y \in Seq(Words),
         Plain(b), Joined(a, x) = Joined(b, y)
  PROVE  ~(Len(a) < Len(b))
<1>. SUFFICES ASSUME Len(a) < Len(b) PROVE FALSE
  OBVIOUS
<1>1. Len(a) \in Nat /\ Joined(a, x)[Len(a) + 1] = ":"
  BY JoinedParts
<1>2. Len(b) \in Nat /\ \A i \in 1..Len(b) : Joined(b, y)[i] = b[i]
  BY JoinedParts
<1>3. Len(a) + 1 \in 1..Len(b)
  BY <1>1, <1>2
<1>. QED
  BY <1>1, <1>2, <1>3 DEF Plain

\* Two texts that are joined with a colon can be told apart again, when the first has none.
LEMMA SplitAtColon ==
  ASSUME NEW a \in Seq(Words), NEW b \in Seq(Words), NEW x \in Seq(Words), NEW y \in Seq(Words),
         Plain(a), Plain(b), Joined(a, x) = Joined(b, y)
  PROVE  a = b /\ x = y
<1>1. /\ Len(a) \in Nat /\ Len(x) \in Nat
      /\ Len(Joined(a, x)) = Len(a) + 1 + Len(x)
      /\ \A i \in 1..Len(a) : Joined(a, x)[i] = a[i]
      /\ \A i \in 1..Len(x) : Joined(a, x)[Len(a) + 1 + i] = x[i]
  BY JoinedParts
<1>2. /\ Len(b) \in Nat /\ Len(y) \in Nat
      /\ Len(Joined(b, y)) = Len(b) + 1 + Len(y)
      /\ \A i \in 1..Len(b) : Joined(b, y)[i] = b[i]
      /\ \A i \in 1..Len(y) : Joined(b, y)[Len(b) + 1 + i] = y[i]
  BY JoinedParts
<1>3. ~(Len(a) < Len(b)) /\ ~(Len(b) < Len(a))
  BY ColonWithin
<1>4. Len(a) = Len(b) /\ Len(x) = Len(y)
  BY <1>1, <1>2, <1>3
<1>5. \A i \in 1..Len(a) : a[i] = b[i]
  BY <1>1, <1>2, <1>4
<1>6. \A i \in 1..Len(x) : x[i] = y[i]
  BY <1>1, <1>2, <1>4
<1>7. a = b
  BY <1>4, <1>5, SeqEqual
<1>8. x = y
  BY <1>4, <1>6, SeqEqual
<1>. QED
  BY <1>7, <1>8

\* What the clients ask is text.
LEMMA RequestTexts ==
  ASSUME NEW c \in Clients
  PROVE  /\ RequestOf[c].prompt \in Seq(Words) /\ RequestOf[c].tier \in Seq(Words)
         /\ RequestOf[c].override # None => RequestOf[c].override \in Seq(Words)
         /\ ProviderText(c) \in Seq(Words)
<1>1. <<"default">> \in Seq(Words)
  BY GatewayAssumption
<1>. QED
  BY <1>1, GatewayAssumption DEF ProviderText

\* The names that ToldApart asks for have no colon.
LEMMA NamesPlain ==
  ASSUME NEW c \in Clients, PlainNames(c)
  PROVE  /\ Plain(ProviderText(c)) /\ Plain(RequestOf[c].tier)
         /\ RequestOf[c].override # None => Plain(RequestOf[c].override)
<1>1. Plain(<<"default">>)
  BY DEF Plain
<1>2. /\ RequestOf[c].provider # None => Plain(RequestOf[c].provider)
      /\ RequestOf[c].tier # None => Plain(RequestOf[c].tier)
      /\ RequestOf[c].override # None => Plain(RequestOf[c].override)
  BY DEF PlainNames, Plain
<1>3. RequestOf[c].tier # None
  BY RequestTexts, GatewayAssumption
<1>. QED
  BY <1>1, <1>2, <1>3 DEF ProviderText

\* The key of a request that names a model, and of one that names none: provider, tier
\* and prompt.
LEMMA KeyOfRequest ==
  ASSUME NEW c \in Clients
  PROVE  /\ Joined(RequestOf[c].tier, RequestOf[c].prompt) \in Seq(Words)
         /\ CacheKey(c) =
              IF RequestOf[c].override # None THEN Joined(RequestOf[c].override, RequestOf[c].prompt)
              ELSE Joined(ProviderText(c), Joined(RequestOf[c].tier, RequestOf[c].prompt))
<1>. DEFINE C == <<":">>
            T == RequestOf[c].tier
            P == RequestOf[c].prompt
            V == ProviderText(c)
<1>1. T \in Seq(Words) /\ P \in Seq(Words) /\ V \in Seq(Words)
  BY RequestTexts
<1>2. C \in Seq(Words)
  BY GatewayAssumption
<1>3. Joined(T, P) \in Seq(Words)
  BY <1>1, JoinedParts
<1>4. CASE RequestOf[c].override # None
  BY <1>3, <1>4 DEF CacheKey, ModelKey, Joined
<1>5. CASE RequestOf[c].override = None
  <2>. DEFINE L == V \o C
              R == T \o C
  <2>1. CacheKey(c) = ((L \o T) \o C) \o P /\ Joined(V, Joined(T, P)) = L \o (R \o P)
    BY <1>5 DEF CacheKey, ModelKey, Joined
  <2>2. \A s, t, u \in Seq(Words) : (s \o t) \o u = s \o (t \o u)
    BY ConcatAssociative
  <2>. HIDE DEF C, T, P, V
  <2>3. L \in Seq(Words) /\ R \in Seq(Words)
    BY <1>1, <1>2, TextsJoined, Zenon
  <2>. HIDE DEF L
  <2>4. (L \o T) \o C = L \o R
    <3>1. \A t, u \in Seq(Words) : (L \o t) \o u = L \o (t \o u)
      BY <2>2, <2>3, Zenon
    <3>. QED
      BY <1>1, <1>2, <3>1, Zenon
  <2>. HIDE DEF R
  <2>5. (L \o R) \o P = L \o (R \o P)
    BY <1>1, <2>2, <2>3, Zenon
  <2>6. CacheKey(c) = Joined(V, Joined(T, P))
    BY <2>1, <2>4, <2>5, Zenon
  <2>. QED
    BY <1>3, <1>5, <2>6 DEF V, T, P
<1>. QED
  BY <1>4, <1>5

\* Equal cache keys are equal requests, of the requests that are told apart.
LEMMA EqualKeys ==
  ASSUME NEW c \in Clients, NEW d \in Clients, CacheKey(c) = CacheKey(d), ToldApart(c, d)
  PROVE  SameRequest(c, d)
<1>. DEFINE Rest(e) == Joined(RequestOf[e].tier, RequestOf[e].prompt)
<1>1. \A e \in {c, d} :
        /\ Plain(ProviderText(e)) /\ ProviderText(e) \in Seq(Words)
        /\ Plain(RequestOf[e].tier) /\ RequestOf[e].tier \in Seq(Words)
        /\ RequestOf[e].prompt \in Seq(Words) /\ Rest(e) \in Seq(Words)
        /\ RequestOf[e].override # None =>
             Plain(RequestOf[e].override) /\ RequestOf[e].override \in Seq(Words)
  BY NamesPlain, RequestTexts, KeyOfRequest DEF ToldApart
<1>2. CASE RequestOf[c].override # None /\ RequestOf[d].override # None
  <2>1. Joined(RequestOf[c].override, RequestOf[c].prompt)
          = Joined(RequestOf[d].override, RequestOf[d].prompt)
    BY <1>2, KeyOfRequest
  <2>2. RequestOf[c].override = RequestOf[d].override /\ RequestOf[c].prompt = RequestOf[d].prompt
    BY <1>1, <1>2, <2>1, SplitAtColon
  <2>. QED
    BY <1>2, <2>2 DEF ToldApart, SameRequest
<1>3. CASE RequestOf[c].override = None /\ RequestOf[d].override = None
  <2>1. Joined(ProviderText(c), Rest(c)) = Joined(ProviderText(d), Rest(d))
    BY <1>3, KeyOfRequest
  <2>2. ProviderText(c) = ProviderText(d) /\ Rest(c) = Rest(d)
    <3>. HIDE DEF Rest
    <3>. QED
      BY <1>1, <2>1, SplitAtColon
  <2>3. RequestOf[c].tier = RequestOf[d].tier /\ RequestOf[c].prompt = RequestOf[d].prompt
    BY <1>1, <2>2, SplitAtColon
  <2>. QED
    BY <1>3, <2>2, <2>3 DEF ToldApart, SameRequest
<1>4. ASSUME NEW e \in {c, d}, NEW f \in {c, d}, CacheKey(e) = CacheKey(f),
             RequestOf[e].override # None, RequestOf[f].override = None
      PROVE  RequestOf[e].override = ProviderText(f)
  <2>1. Joined(RequestOf[e].override, RequestOf[e].prompt) = Joined(ProviderText(f), Rest(f))
    BY <1>4, KeyOfRequest
  <2>. HIDE DEF Rest
  <2>. QED
    BY <1>1, <1>4, <2>1, SplitAtColon
<1>. QED
  BY <1>2, <1>3, <1>4 DEF ToldApart

\* Every step keeps the invariant of the response cache.
LEMMA CacheStep ==
  ASSUME TypeOK, CacheInv, [Next]_vars
  PROVE  CacheInv'
<1>0. /\ answer \in [Clients -> Answers] /\ served \in [Clients -> Clients \cup {None}]
      /\ cacheTtl \in [Keys -> 0..CacheTtl] /\ source \in [Keys -> Clients \cup {None}]
      /\ CacheTtl \in Nat
  BY Numbers DEF TypeOK
<1>1. CASE \/ UNCHANGED vars \/ Deactivate \/ Crash
           \/ (\E c \in Clients : Moves(c) \/ AuthStore(c) \/ PersistLog(c))
  BY <1>1, MovesFrom DEF vars, redis, request, Deactivate, Crash, AuthStore, PersistLog, CacheInv
<1>2. CASE Tick
  <2>1. \A k \in Keys : cacheTtl'[k] > 0 => cacheTtl[k] > 0 /\ source'[k] = source[k]
    BY <1>0, <1>2 DEF Tick
  <2>2. answer' = answer /\ served' = served
    BY <1>2 DEF Tick, request
  <2>. QED
    BY <2>1, <2>2 DEF CacheInv
<1>3. ASSUME NEW c \in Clients, Submit(c) \/ Refusals(c)
      PROVE  CacheInv'
  <2>1. /\ answer'[c] \notin Success
        /\ \A d \in Clients \ {c} : answer'[d] = answer[d] /\ served'[d] = served[d]
        /\ cacheTtl' = cacheTtl /\ source' = source
    BY <1>0, <1>3, RefusalsFrom DEF Submit, redis, Success
  <2>. QED
    BY <2>1 DEF CacheInv
<1>4. ASSUME NEW c \in Clients, Hit(c) \/ Generate(c)
      PROVE  CacheInv'
  <2>1. /\ \A d \in Clients \ {c} : answer'[d] = answer[d] /\ served'[d] = served[d]
        /\ cacheTtl' = cacheTtl /\ source' = source
    BY <1>0, <1>4 DEF Hit, Generate, redis
  <2>2. served'[c] \in Clients /\ CacheKey(served'[c]) = CacheKey(c)
    <3>1. CASE Generate(c)
      BY <1>0, <3>1 DEF Generate
    <3>2. CASE Hit(c)
      <4>1. CacheKey(c) \in Keys /\ cacheTtl[CacheKey(c)] > 0 /\ served'[c] = source[CacheKey(c)]
        BY <1>0, <3>2 DEF Hit, Keys
      <4>2. source[CacheKey(c)] \in Clients /\ CacheKey(source[CacheKey(c)]) = CacheKey(c)
        BY <4>1 DEF CacheInv
      <4>. QED
        BY <4>1, <4>2
    <3>. QED
      BY <1>4, <3>1, <3>2
  <2>. QED
    BY <2>1, <2>2 DEF CacheInv
<1>5. ASSUME NEW c \in Clients, StoreResponse(c)
      PROVE  CacheInv'
  <2>1. answer' = answer /\ served' = served
    BY <1>5 DEF StoreResponse
  <2>2. \A k \in Keys :
          \/ cacheTtl'[k] = cacheTtl[k] /\ source'[k] = source[k]
          \/ k = CacheKey(c) /\ source'[k] = c
    BY <1>0, <1>5 DEF StoreResponse
  <2>. QED
    BY <2>1, <2>2 DEF CacheInv
<1>. QED
  BY <1>1, <1>2, <1>3, <1>4, <1>5, HandleSplit DEF Next

\* A client is only sent a completion of its own prompt, model, provider and tier, or one
\* of a request with the same text in the cache key that names do not tell apart, for
\* every text that clients write and however requests interleave with cache writes,
\* expiry and crashes.
THEOREM ServedRight == Spec => []ServedSameRequest
<1>1. Init => CacheInv
  BY DEF Init, CacheInv, Success
<1>2. CacheInv => ServedSameRequest
  BY EqualKeys DEF CacheInv, ServedSameRequest
<1>3. TypeOK /\ CacheInv /\ [Next]_vars => CacheInv'
  BY CacheStep
<1>. QED
  BY <1>1, <1>2, <1>3, TypeCorrect, PTL DEF Spec

-----------------------------------------------------------------------------
\* The requests that have read the key and not yet stored what they read.
Holding == {c \in Clients : pc[c] = "valid_key"}

\* The key is inactive, not cached, and nobody is left to cache it again.
KeyGone == ~active /\ authTtl = 0 /\ Holding = {}

\* No request joins them, and the cached context is renewed only by one that leaves.
RenewalsDwindle ==
  /\ ~active'
  /\ Holding' \subseteq Holding
  /\ authTtl' > authTtl => Holding' # Holding

\* Only a request with the built-in key is authenticated.
OnlyDemoEnters ==
  \A c \in Clients :
    pc[c] # "authenticated" /\ pc'[c] = "authenticated" => RequestOf[c].demo

\* What a step does with an inactive key.
LEMMA InactiveStep ==
  ASSUME TypeOK, ~active, [Next]_vars
  PROVE  RenewalsDwindle /\ (KeyGone => OnlyDemoEnters /\ KeyGone')
<1>1. pc \in [Clients -> Steps] /\ authTtl \in Int
  BY Numbers DEF TypeOK
<1>2. ASSUME UNCHANGED <<active, authTtl, pc>>
      PROVE  RenewalsDwindle /\ (KeyGone => OnlyDemoEnters /\ KeyGone')
  BY <1>1, <1>2 DEF RenewalsDwindle, KeyGone, OnlyDemoEnters, Holding
<1>3. CASE UNCHANGED vars
  BY <1>2, <1>3 DEF vars, redis, request
<1>4. CASE Tick
  <2>1. ~active' /\ Holding' = Holding /\ pc' = pc
    BY <1>4 DEF Tick, request, Holding
  <2>2. ~(authTtl' > authTtl) /\ (authTtl = 0 => authTtl' = 0)
    <3>1. authTtl' = IF authTtl > 0 THEN authTtl - 1 ELSE 0
      BY <1>4 DEF Tick
    <3>2. authTtl \in Nat
      BY Numbers DEF TypeOK
    <3>. QED
      BY <3>1, <3>2
  <2>. QED
    BY <2>1, <2>2 DEF RenewalsDwindle, KeyGone, OnlyDemoEnters
<1>5. CASE Deactivate
  BY <1>5 DEF Deactivate
<1>6. CASE Crash
  <2>1. ~active' /\ Holding' = {} /\ authTtl' = authTtl
    BY <1>6 DEF Crash, redis, Holding
  <2>2. OnlyDemoEnters
    BY <1>6 DEF Crash, OnlyDemoEnters
  <2>. QED
    BY <1>1, <2>1, <2>2 DEF RenewalsDwindle, KeyGone
<1>7. ASSUME NEW c \in Clients, ~active', authTtl' = authTtl, pc' = [pc EXCEPT ![c] = pc'[c]],
             pc'[c] # "valid_key",
             KeyGone /\ pc[c] # "authenticated" /\ pc'[c] = "authenticated" => RequestOf[c].demo
      PROVE  RenewalsDwindle /\ (KeyGone => OnlyDemoEnters /\ KeyGone')
  <2>1. Holding' \subseteq Holding
    BY <1>1, <1>7 DEF Holding
  <2>2. KeyGone => OnlyDemoEnters
    BY <1>1, <1>7 DEF OnlyDemoEnters
  <2>. QED
    BY <1>1, <1>7, <2>1, <2>2 DEF RenewalsDwindle, KeyGone
<1>8. ASSUME NEW c \in Clients, Submit(c)
      PROVE  RenewalsDwindle /\ (KeyGone => OnlyDemoEnters /\ KeyGone')
  BY <1>1, <1>7, <1>8 DEF Submit, Step, redis
<1>9. ASSUME NEW c \in Clients, Handle(c)
      PROVE  RenewalsDwindle /\ (KeyGone => OnlyDemoEnters /\ KeyGone')
  <2>1. CASE AuthDemo(c)
    BY <1>1, <1>7, <2>1 DEF AuthDemo, Step, redis
  <2>2. CASE AuthHit(c)
    <3>1. ~KeyGone
      BY <1>1, <2>2 DEF AuthHit, KeyGone
    <3>. QED
      BY <1>1, <1>7, <2>2, <3>1 DEF AuthHit, Step, redis
  <2>3. CASE AuthMiss(c)
    BY <1>1, <1>7, <2>3 DEF AuthMiss, Step, redis
  <2>4. CASE AuthRead(c) \/ AuthReadFails(c) \/ OverLimit(c) \/ GenerateFails(c)
    BY <1>1, <1>7, <2>4 DEF AuthRead, AuthReadFails, OverLimit, GenerateFails, Refuse, Step, redis
  <2>5. CASE Admit(c) \/ Miss(c)
    BY <1>1, <1>7, <2>5 DEF Admit, Miss, Step, redis
  <2>6. CASE Hit(c) \/ Generate(c) \/ Complete(c)
    BY <1>1, <1>7, <2>6 DEF Hit, Generate, Complete, Step, redis
  <2>7. CASE StoreResponse(c) \/ PersistLog(c)
    BY <1>2, <2>7 DEF StoreResponse, PersistLog, redis
  <2>8. CASE AuthStore(c)
    <3>1. pc[c] = "valid_key" /\ pc' = [pc EXCEPT ![c] = "authenticated"] /\ ~active'
      BY <2>8 DEF AuthStore, Step
    <3>2. c \in Holding /\ c \notin Holding' /\ Holding' \subseteq Holding
      BY <1>1, <3>1 DEF Holding
    <3>. QED
      BY <3>1, <3>2 DEF RenewalsDwindle, KeyGone
  <2>. QED
    BY <1>9, <2>1, <2>2, <2>3, <2>4, <2>5, <2>6, <2>7, <2>8 DEF Handle
<1>. QED
  BY <1>3, <1>4, <1>5, <1>6, <1>8, <1>9 DEF Next

\* Once a key is inactive, each renewal of its cached context uses up one of the requests
\* that had read it before, and no other request reads it any more: validate_api_key can
\* revive it at most as often as there are such requests.
THEOREM RenewalsRunOut == Spec => [][~active => RenewalsDwindle]_vars
<1>1. TypeOK /\ [Next]_vars => [~active => RenewalsDwindle]_vars
  BY InactiveStep
<1>. QED
  BY <1>1, TypeCorrect, PTL DEF Spec

\* Once those are gone and the context has expired, the key is refused for good: from
\* then on only requests with the built-in key are authenticated.
THEOREM RefusedForGood ==
  Spec => /\ [](KeyGone => []KeyGone)
          /\ [][KeyGone => OnlyDemoEnters]_vars
<1>1. TypeOK /\ KeyGone /\ [Next]_vars => KeyGone'
  BY InactiveStep DEF KeyGone
<1>2. TypeOK /\ [Next]_vars => [KeyGone => OnlyDemoEnters]_vars
  BY InactiveStep DEF KeyGone
<1>. QED
  BY <1>1, <1>2, TypeCorrect, PTL DEF Spec

-----------------------------------------------------------------------------
\* What RateLimiter and CircuitBreaker were proved to do, for the parts of the process.
LimiterProofs == INSTANCE RateLimiterProofs WITH
  Requests <- Clients, pc <- check, faults <- limiterFaults

BreakerProofs == INSTANCE CircuitBreakerProofs WITH
  Calls <- Clients, pc <- call, MaxFailures <- MaxOutages + Cardinality(Clients), MaxCancels <- 0

\* A step of the process is one of these.
LEMMA SystemSplit ==
  ASSUME [SystemNext]_systemVars
  PROVE  \/ UNCHANGED systemVars
         \/ Time \/ Operator \/ Restart
         \/ \E c \in Clients : \/ HandlerStep(c) \/ LimiterStep(c) \/ Admitted(c) \/ Limited(c)
                               \/ ProviderStep(c)
BY DEF SystemNext, RequestStep

\* Every step of the process is a step of the handler, or leaves it alone.
LEMMA HandlerSteps == [SystemNext]_systemVars => [Next]_vars
<1>. SUFFICES ASSUME [SystemNext]_systemVars PROVE Next \/ UNCHANGED vars
  OBVIOUS
<1>1. CASE UNCHANGED systemVars
  BY <1>1 DEF systemVars
<1>2. CASE Time \/ Operator \/ Restart
  BY <1>2 DEF Time, Operator, Restart, Next
<1>3. ASSUME NEW c \in Clients, HandlerStep(c)
      PROVE  Next
  BY <1>3 DEF HandlerStep, Next, Handle
<1>4. ASSUME NEW c \in Clients, LimiterStep(c)
      PROVE  UNCHANGED vars
  BY <1>4 DEF LimiterStep
<1>5. ASSUME NEW c \in Clients, Admitted(c) \/ Limited(c)
      PROVE  Next
  BY <1>5 DEF Admitted, Limited, Next, Handle
<1>6. ASSUME NEW c \in Clients, Ask(c) \/ AskAgain(c) \/ AttemptFails(c)
      PROVE  UNCHANGED vars
  BY <1>6 DEF Ask, AskAgain, AttemptFails
<1>7. ASSUME NEW c \in Clients, Answered(c) \/ CallFails(c) \/ FailsUnasked(c)
      PROVE  Next
  BY <1>7 DEF Answered, CallFails, FailsUnasked, Next, Handle
<1>8. ASSUME NEW c \in Clients, TimesOut(c)
      PROVE  Next \/ UNCHANGED vars
  BY <1>8 DEF TimesOut, Next, Handle
<1>. QED
  BY <1>1, <1>2, <1>3, <1>4, <1>5, <1>6, <1>7, <1>8, SystemSplit DEF ProviderStep

\* The process does what the handler was shown to do.
THEOREM SystemRunsHandler == SystemSpec => Spec
<1>1. SystemInit => Init
  BY DEF SystemInit
<1>. QED
  BY <1>1, HandlerSteps, PTL DEF SystemSpec, Spec

\* Every step of the process is a step of the limits, or leaves them alone.
LEMMA LimiterSteps == [SystemNext]_systemVars => [Limiter!Next]_(Limiter!vars)
<1>. SUFFICES ASSUME [SystemNext]_systemVars PROVE Limiter!Next \/ UNCHANGED Limiter!vars
  OBVIOUS
<1>0. UNCHANGED limiterVars => UNCHANGED Limiter!vars
  BY DEF limiterVars, Limiter!vars, Limiter!redis
<1>1. CASE UNCHANGED systemVars
  BY <1>0, <1>1 DEF systemVars
<1>2. CASE Time \/ Operator \/ Restart
  BY <1>0, <1>2 DEF Time, Operator, Restart, Limiter!Next
<1>3. ASSUME NEW c \in Clients, HandlerStep(c)
      PROVE  UNCHANGED limiterVars
  BY <1>3 DEF HandlerStep
<1>4. ASSUME NEW c \in Clients, LimiterStep(c)
      PROVE  Limiter!Next
  <2>1. ASSUME NEW s \in Scopes
        PROVE  <<c, s>> \in Limiter!Checks
    BY DEF Limiter!Checks
  <2>. QED
    BY <1>4, <2>1 DEF LimiterStep, Limiter!Next
<1>5. ASSUME NEW c \in Clients, Admitted(c) \/ Limited(c) \/ ProviderStep(c)
      PROVE  UNCHANGED limiterVars
  <2>1. CASE Admitted(c) \/ Limited(c)
    BY <2>1 DEF Admitted, Limited
  <2>2. CASE ProviderStep(c)
    BY <2>2 DEF ProviderStep, Ask, AskAgain, AttemptFails, TimesOut, Answered, CallFails, FailsUnasked
  <2>. QED
    BY <1>5, <2>1, <2>2
<1>. QED
  BY <1>0, <1>1, <1>2, <1>3, <1>4, <1>5, SystemSplit

\* The process does what the limits were shown to do.
THEOREM SystemRunsLimiter == SystemSpec => Limiter!Spec
<1>1. SystemInit => Limiter!Init
  BY DEF SystemInit
<1>. QED
  BY <1>1, LimiterSteps, PTL DEF SystemSpec, Limiter!Spec

-----------------------------------------------------------------------------
\* The instances of FiniteSets say the same.
LEMMA SameSets ==
  \A S : /\ Limiter!IsFiniteSet(S) = IsFiniteSet(S)
         /\ LimiterProofs!IsFiniteSet(S) = IsFiniteSet(S)
         /\ Breaker!IsFiniteSet(S) = IsFiniteSet(S)
         /\ BreakerProofs!IsFiniteSet(S) = IsFiniteSet(S)
         /\ Limiter!Cardinality(S) = Cardinality(S)
         /\ LimiterProofs!Cardinality(S) = Cardinality(S)
<1>1. \A S : /\ Limiter!IsFiniteSet(S) = IsFiniteSet(S)
             /\ LimiterProofs!IsFiniteSet(S) = IsFiniteSet(S)
  BY DEF Limiter!IsFiniteSet, LimiterProofs!IsFiniteSet, IsFiniteSet
<1>2. \A S : /\ Breaker!IsFiniteSet(S) = IsFiniteSet(S)
             /\ BreakerProofs!IsFiniteSet(S) = IsFiniteSet(S)
  BY DEF Breaker!IsFiniteSet, BreakerProofs!IsFiniteSet, IsFiniteSet
<1>3. \A S : Limiter!Cardinality(S) = Cardinality(S)
  BY DEF Limiter!Cardinality, Cardinality
<1>4. \A S : LimiterProofs!Cardinality(S) = Cardinality(S)
  BY DEF LimiterProofs!Cardinality, Cardinality
<1>. QED
  BY <1>1, <1>2, <1>3, <1>4

\* The two instances of RateLimiter say the same.
LEMMA SameLimiter ==
  /\ Limiter!Init => LimiterProofs!Init
  /\ Limiter!Next => LimiterProofs!Next
  /\ UNCHANGED Limiter!vars => UNCHANGED LimiterProofs!vars
  /\ LimiterProofs!TypeOK => Limiter!TypeOK
  /\ LimiterProofs!BucketLimit => Limiter!BucketLimit
<1>1. Limiter!Checks = LimiterProofs!Checks /\ Limiter!Keys = LimiterProofs!Keys
      /\ Limiter!NoTtl = LimiterProofs!NoTtl /\ Limiter!Buckets = LimiterProofs!Buckets
      /\ Limiter!Ids = LimiterProofs!Ids /\ Limiter!WindowTicks = LimiterProofs!WindowTicks
      /\ \A t : Limiter!BucketAt(t) = LimiterProofs!BucketAt(t)
      /\ \A k : Limiter!TtlSeconds(k) = LimiterProofs!TtlSeconds(k)
  BY DEF Limiter!Checks, LimiterProofs!Checks, Limiter!Keys, LimiterProofs!Keys,
     Limiter!NoTtl, LimiterProofs!NoTtl, Limiter!Buckets, LimiterProofs!Buckets,
     Limiter!Ids, LimiterProofs!Ids, Limiter!WindowTicks, LimiterProofs!WindowTicks,
     Limiter!BucketAt, LimiterProofs!BucketAt, Limiter!TtlSeconds, LimiterProofs!TtlSeconds
<1>2. UNCHANGED Limiter!vars <=> UNCHANGED LimiterProofs!vars
  BY DEF Limiter!vars, LimiterProofs!vars, Limiter!redis, LimiterProofs!redis
<1>3. Limiter!Init => LimiterProofs!Init
  BY <1>1 DEF Limiter!Init, LimiterProofs!Init
<1>4. LimiterProofs!TypeOK => Limiter!TypeOK
  BY <1>1 DEF Limiter!TypeOK, LimiterProofs!TypeOK
<1>5. ASSUME NEW c \in Clients
      PROVE  Limiter!Outcome(c) = LimiterProofs!Outcome(c)
  BY DEF Limiter!Outcome, LimiterProofs!Outcome, Limiter!Rejected, LimiterProofs!Rejected
<1>6. ASSUME NEW s \in Scopes, NEW i \in Limiter!Ids, NEW b \in Limiter!Buckets
      PROVE  Limiter!AdmittedIn(s, i, b) = LimiterProofs!AdmittedIn(s, i, b)
  BY <1>1, <1>5 DEF Limiter!AdmittedIn, LimiterProofs!AdmittedIn
<1>7. LimiterProofs!BucketLimit => Limiter!BucketLimit
  BY <1>1, <1>6, SameSets DEF Limiter!BucketLimit, LimiterProofs!BucketLimit
<1>8. Limiter!Tick => LimiterProofs!Tick
  BY <1>1 DEF Limiter!Tick, LimiterProofs!Tick, Limiter!Expired, LimiterProofs!Expired
<1>9. ASSUME NEW c \in Clients, Limiter!Arrive(c)
      PROVE  LimiterProofs!Arrive(c)
  BY <1>1, <1>9 DEF Limiter!Arrive, LimiterProofs!Arrive, Limiter!redis, LimiterProofs!redis
<1>10. ASSUME NEW x \in Limiter!Checks, Limiter!Increment(x)
       PROVE  LimiterProofs!Increment(x)
  BY <1>1, <1>10 DEF Limiter!Increment, LimiterProofs!Increment, Limiter!BucketKey,
     LimiterProofs!BucketKey, Limiter!Verdict, LimiterProofs!Verdict
<1>11. ASSUME NEW x \in Limiter!Checks, Limiter!Expire(x)
       PROVE  LimiterProofs!Expire(x)
  BY <1>1, <1>11 DEF Limiter!Expire, LimiterProofs!Expire, Limiter!BucketKey,
     LimiterProofs!BucketKey, Limiter!Verdict, LimiterProofs!Verdict
<1>12. ASSUME NEW x \in Limiter!Checks, Limiter!FailOpen(x)
       PROVE  LimiterProofs!FailOpen(x)
  BY <1>1, <1>12 DEF Limiter!FailOpen, LimiterProofs!FailOpen, Limiter!BucketKey,
     LimiterProofs!BucketKey
<1>13. Limiter!Done => LimiterProofs!Done
  BY <1>2, <1>5 DEF Limiter!Done, LimiterProofs!Done
<1>14. Limiter!Next => LimiterProofs!Next
  BY <1>1, <1>8, <1>9, <1>10, <1>11, <1>12, <1>13 DEF Limiter!Next, LimiterProofs!Next
<1>. QED
  BY <1>2, <1>3, <1>4, <1>7, <1>14

\* The limits hold in the whole process.
LEMMA LimitsInSystem == SystemSpec => [](Limiter!TypeOK /\ Limiter!BucketLimit)
<1>1. LimiterProofs!LimiterAssumption
  BY SystemAssumption, SameSets DEF Limiter!LimiterAssumption, LimiterProofs!LimiterAssumption,
     Limiter!Ids, LimiterProofs!Ids
<1>2. LimiterProofs!Spec => []LimiterProofs!TypeOK
  BY <1>1, LimiterProofs!TypeCorrect
<1>3. LimiterProofs!Spec => []LimiterProofs!BucketLimit
  BY <1>1, LimiterProofs!LimitKept
<1>4. Limiter!Init => LimiterProofs!Init
  BY SameLimiter
<1>5. [Limiter!Next]_(Limiter!vars) => [LimiterProofs!Next]_(LimiterProofs!vars)
  BY SameLimiter
<1>6. LimiterProofs!TypeOK => Limiter!TypeOK
  BY SameLimiter
<1>7. LimiterProofs!BucketLimit => Limiter!BucketLimit
  BY SameLimiter
<1>8. Limiter!Spec => LimiterProofs!Spec
  BY <1>4, <1>5, PTL DEF Limiter!Spec, LimiterProofs!Spec
<1>. QED
  BY <1>2, <1>3, <1>6, <1>7, <1>8, SystemRunsLimiter, PTL

-----------------------------------------------------------------------------
\* The two instances of CircuitBreaker say the same.
LEMMA SameBreaker ==
  /\ BreakerProofs!BreakerInv <=> Breaker!BreakerInv
  /\ Breaker!Init => BreakerProofs!Init
  /\ Breaker!Next => BreakerProofs!Next
  /\ UNCHANGED Breaker!vars => UNCHANGED BreakerProofs!vars
  /\ BreakerProofs!BreakerAssumption
<1>1. BreakerProofs!BreakerInv <=> Breaker!BreakerInv
  BY DEF Breaker!BreakerInv, BreakerProofs!BreakerInv, Breaker!TypeOK, BreakerProofs!TypeOK,
     Breaker!States, BreakerProofs!States,
     Breaker!OpenIffThresholdReached, BreakerProofs!OpenIffThresholdReached
<1>2. Breaker!Init => BreakerProofs!Init
  BY DEF Breaker!Init, BreakerProofs!Init
<1>3. UNCHANGED Breaker!vars => UNCHANGED BreakerProofs!vars
  BY DEF Breaker!vars, BreakerProofs!vars
<1>4. BreakerProofs!BreakerAssumption
  BY SystemAssumption, SameSets DEF Breaker!BreakerAssumption, BreakerProofs!BreakerAssumption
<1>5. Breaker!Next => BreakerProofs!Next
  BY DEF Breaker!Next, BreakerProofs!Next, Breaker!Tick, BreakerProofs!Tick,
     Breaker!Admit, BreakerProofs!Admit, Breaker!Reject, BreakerProofs!Reject,
     Breaker!Answer, BreakerProofs!Answer, Breaker!Succeed, BreakerProofs!Succeed,
     Breaker!Pause, BreakerProofs!Pause, Breaker!Fail, BreakerProofs!Fail,
     Breaker!RecordFailure, BreakerProofs!RecordFailure, Breaker!End, BreakerProofs!End,
     Breaker!Resend, BreakerProofs!Resend, Breaker!Send, BreakerProofs!Send,
     Breaker!Cancel, BreakerProofs!Cancel, Breaker!IsAllowed, BreakerProofs!IsAllowed,
     Breaker!vars, BreakerProofs!vars, Breaker!breakerVars, BreakerProofs!breakerVars
<1>. QED
  BY <1>1, <1>2, <1>3, <1>4, <1>5

\* Every step of the process but a restart is a step of the breaker and its calls, or
\* leaves them alone.
LEMMA BreakerSteps == [SystemNext]_systemVars => [Breaker!Next]_(Breaker!vars) \/ Restart
<1>. SUFFICES ASSUME [SystemNext]_systemVars
              PROVE  Breaker!Next \/ UNCHANGED Breaker!vars \/ Restart
  OBVIOUS
<1>0. UNCHANGED breakerVars => UNCHANGED Breaker!vars
  BY DEF breakerVars, Breaker!vars
<1>1. CASE UNCHANGED systemVars
  BY <1>0, <1>1 DEF systemVars
<1>2. CASE Time \/ Operator
  BY <1>0, <1>2 DEF Time, Operator, Breaker!Next
<1>3. ASSUME NEW c \in Clients, HandlerStep(c) \/ LimiterStep(c) \/ Admitted(c) \/ Limited(c)
      PROVE  UNCHANGED breakerVars
  BY <1>3 DEF HandlerStep, LimiterStep, Admitted, Limited
<1>4. ASSUME NEW c \in Clients, ProviderStep(c)
      PROVE  Breaker!Next \/ UNCHANGED breakerVars
  BY <1>4 DEF ProviderStep, Ask, AskAgain, AttemptFails, TimesOut, Answered, CallFails, FailsUnasked,
     Breaker!Next, Breaker!Answer
<1>. QED
  BY <1>0, <1>1, <1>2, <1>3, <1>4, SystemSplit

\* The breaker keeps its invariant in the process, and every new process starts with it.
LEMMA BreakerInSystem == SystemSpec => []Breaker!BreakerInv
<1>1. SystemInit => Breaker!BreakerInv
  BY SameBreaker, BreakerProofs!BreakerInitial DEF SystemInit
<1>2. Breaker!BreakerInv /\ [SystemNext]_systemVars => Breaker!BreakerInv'
  <2>. SUFFICES ASSUME Breaker!BreakerInv, [SystemNext]_systemVars
                PROVE  Breaker!BreakerInv'
    OBVIOUS
  <2>1. CASE [Breaker!Next]_(Breaker!vars)
    <3>1. BreakerProofs!BreakerInv /\ [BreakerProofs!Next]_(BreakerProofs!vars)
      BY <2>1, SameBreaker
    <3>2. BreakerProofs!BreakerInv'
      BY <3>1, SameBreaker, BreakerProofs!BreakerStep
    <3>3. BreakerProofs!BreakerInv' => Breaker!BreakerInv'
      BY DEF Breaker!BreakerInv, BreakerProofs!BreakerInv, Breaker!TypeOK, BreakerProofs!TypeOK,
         Breaker!States, BreakerProofs!States,
         Breaker!OpenIffThresholdReached, BreakerProofs!OpenIffThresholdReached
    <3>. QED
      BY <3>2, <3>3
  <2>2. CASE Restart
    <3>. USE SystemAssumption DEF Breaker!BreakerAssumption
    <3>1. /\ state' = "CLOSED" /\ failure_count' = 0 /\ since' = RecoveryTimeout + 1
          /\ call' = [c \in Clients |-> "idle"] /\ attempt' = [c \in Clients |-> 0]
          /\ openSends' = 0 /\ cancels' = cancels
      BY <2>2 DEF Restart
    <3>2. Breaker!TypeOK'
      BY <3>1 DEF Breaker!BreakerInv, Breaker!TypeOK, Breaker!States
    <3>3. Breaker!OpenIffThresholdReached'
      BY <3>1 DEF Breaker!OpenIffThresholdReached
    <3>4. \A c \in Clients : call'[c] # "paused"
      BY <3>1
    <3>. QED
      BY <3>2, <3>3, <3>4 DEF Breaker!BreakerInv
  <2>. QED
    BY <2>1, <2>2, BreakerSteps
<1>. QED
  BY <1>1, <1>2, PTL DEF SystemSpec

-----------------------------------------------------------------------------
\* What ProviderInv says of one client.
ClientProvided(c) ==
  /\ pc[c] \in {"received", "unknown_key", "valid_key"} =>
       \A s \in Scopes : check[<<c, s>>] = "new"
  /\ pc[c] \in {"admitted", "missed", "answered"} \/ sends[c] > 0 =>
       Limiter!Outcome(c) = "admitted"
  /\ pc[c] \in Steps \ {"idle", "missed", "answered"} => sends[c] = 0
  /\ call[c] # "idle" =>
       /\ pc[c] = "missed" /\ Implemented(c) /\ key[c] # "missing"
       /\ sends[c] = attempt[c] /\ sends[c] > 0
  /\ c \in silent => call[c] = "sent"
  /\ call[c] = "idle" /\ pc[c] = "missed" => sends[c] = 0

\* The invariant speaks of one client at a time.
LEMMA ProviderInvByClient ==
  ProviderInv <=> /\ sends \in [Clients -> 0..(MaxRetries + 1)]
                  /\ silent \subseteq Clients
                  /\ \A c \in Clients : ClientProvided(c)
BY DEF ProviderInv, ClientProvided

\* The types of the parts, as ProviderInv needs them.
PartTypes ==
  /\ pc \in [Clients -> Steps]
  /\ answer \in [Clients -> Answers]
  /\ check \in [Limiter!Checks -> {"new", "keyed", "created", "allowed", "rejected"}]
  /\ call \in [Clients -> {"idle", "sent", "paused"}]
  /\ attempt \in [Clients -> 0..(MaxRetries + 1)]
  /\ failure_count \in Nat
  /\ sends \in [Clients -> 0..(MaxRetries + 1)]
  /\ silent \subseteq Clients
  /\ \A c \in Clients : call[c] = "paused" => attempt[c] <= MaxRetries

\* The parts keep their types.
LEMMA PartsTyped ==
  TypeOK /\ Limiter!TypeOK /\ Breaker!BreakerInv /\ ProviderInv => PartTypes
BY DEF TypeOK, Limiter!TypeOK, Breaker!BreakerInv, Breaker!TypeOK, ProviderInv, PartTypes

\* A step in which the request of client d takes no part.
Aside(d) ==
  /\ pc'[d] = pc[d] /\ answer'[d] = answer[d]
  /\ sends'[d] = sends[d] /\ call'[d] = call[d] /\ attempt'[d] = attempt[d]
  /\ key'[d] = key[d] /\ (d \in silent' <=> d \in silent)
  /\ \A s \in Scopes : check'[<<d, s>>] = check[<<d, s>>]

\* Time and the operator leave every request where it is.
LEMMA AllAside ==
  ASSUME UNCHANGED systemVars \/ Time \/ Operator, NEW d \in Clients
  PROVE  Aside(d)
<1>1. CASE UNCHANGED systemVars
  BY <1>1 DEF systemVars, vars, request, limiterVars, breakerVars, providerVars, Aside
<1>2. CASE Operator
  BY <1>2 DEF Operator, Deactivate, request, limiterVars, breakerVars, providerVars, Aside
<1>3. CASE Time
  BY <1>3 DEF Time, Tick, Limiter!Tick, Breaker!Tick, vars, request, limiterVars, breakerVars,
     providerVars, Aside
<1>. QED
  BY <1>1, <1>2, <1>3

\* The step of one request leaves the others where they are.
LEMMA OthersAside ==
  ASSUME TypeOK, PartTypes, NEW c \in Clients, NEW d \in Clients \ {c}, RequestStep(c)
  PROVE  Aside(d)
<1>. USE DEF Aside, PartTypes
<1>1. CASE HandlerStep(c)
  <2>1. Submit(c) \/ Handle(c)
    BY <1>1 DEF HandlerStep, Handle
  <2>. QED
    BY <1>1, <2>1, OthersUndisturbed DEF HandlerStep, limiterVars, breakerVars, providerVars
<1>2. CASE LimiterStep(c)
  <2>1. \A s \in Scopes : <<d, s>> \in Limiter!Checks /\ <<c, s>> \in Limiter!Checks
    BY DEF Limiter!Checks
  <2>2. \A s \in Scopes : check'[<<d, s>>] = check[<<d, s>>]
    <3>1. CASE Limiter!Arrive(c)
      BY <2>1, <3>1 DEF Limiter!Arrive
    <3>2. CASE \E s \in Scopes : \/ Limiter!Increment(<<c, s>>) \/ Limiter!Expire(<<c, s>>)
                                 \/ Limiter!FailOpen(<<c, s>>)
      BY <2>1, <3>2 DEF Limiter!Increment, Limiter!Expire, Limiter!FailOpen
    <3>. QED
      BY <1>2, <3>1, <3>2 DEF LimiterStep
  <2>. QED
    BY <1>2, <2>2 DEF LimiterStep, vars, request, breakerVars, providerVars
<1>3. CASE Admitted(c) \/ Limited(c)
  <2>1. Handle(c)
    BY <1>3 DEF Admitted, Limited, Handle
  <2>. QED
    BY <1>3, <2>1, OthersUndisturbed DEF Admitted, Limited, limiterVars, breakerVars, providerVars
<1>4. CASE Ask(c) \/ AskAgain(c)
  BY <1>4 DEF Ask, AskAgain, Breaker!Admit, Breaker!Resend, Breaker!Send, Sent, vars, request,
     limiterVars
<1>5. CASE AttemptFails(c)
  BY <1>5 DEF AttemptFails, Breaker!Pause, vars, request, limiterVars
<1>8. CASE TimesOut(c)
  <2>1. /\ \A s \in Scopes : check'[<<d, s>>] = check[<<d, s>>]
        /\ sends'[d] = sends[d] /\ key'[d] = key[d] /\ (d \in silent' <=> d \in silent)
    BY <1>8 DEF TimesOut, limiterVars
  <2>2. call'[d] = call[d] /\ attempt'[d] = attempt[d]
    BY <1>8 DEF TimesOut, Breaker!Pause, Breaker!Fail, Breaker!End
  <2>3. UNCHANGED vars \/ Handle(c)
    BY <1>8 DEF TimesOut, Handle
  <2>4. pc'[d] = pc[d] /\ answer'[d] = answer[d]
    BY <2>3, OthersUndisturbed DEF vars, request
  <2>. QED
    BY <2>1, <2>2, <2>4
<1>6. CASE Answered(c) \/ CallFails(c)
  <2>1. Handle(c)
    BY <1>6 DEF Answered, CallFails, Handle
  <2>. QED
    BY <1>6, <2>1, OthersUndisturbed DEF Answered, CallFails, Breaker!Succeed, Breaker!Fail, Breaker!End,
       limiterVars, providerVars
<1>7. CASE FailsUnasked(c)
  <2>1. Handle(c)
    BY <1>7 DEF FailsUnasked, Handle
  <2>2. UNCHANGED <<call, attempt>>
    BY <1>7 DEF FailsUnasked, Breaker!Reject, Breaker!vars, breakerVars
  <2>. QED
    BY <1>7, <2>1, <2>2, OthersUndisturbed DEF FailsUnasked, limiterVars, providerVars
<1>. QED
  BY <1>1, <1>2, <1>3, <1>4, <1>5, <1>6, <1>7, <1>8 DEF RequestStep, ProviderStep

\* The verdict on the checks of a request depends on them alone.
LEMMA OutcomeOfChecks ==
  ASSUME NEW c \in Clients, \A s \in Scopes : check'[<<c, s>>] = check[<<c, s>>]
  PROVE  Limiter!Outcome(c)' = Limiter!Outcome(c)
BY DEF Limiter!Outcome, Limiter!Rejected

\* A request that was admitted is not a new one for the limits.
LEMMA AdmittedNotNew ==
  ASSUME NEW c \in Clients, Limiter!Outcome(c) = "admitted", PartTypes
  PROVE  \A s \in Scopes : check[<<c, s>>] # "new"
BY DEF Limiter!Outcome

\* The steps of the handler alone: the request arrives with new checks, and goes to the
\* provider without having been sent.
LEMMA HandlerProvided ==
  ASSUME TypeOK, PartTypes, NEW c \in Clients, ClientProvided(c), HandlerStep(c)
  PROVE  ClientProvided(c)'
<1>. USE DEF ClientProvided, PartTypes, Step, Steps
<1>0. /\ UNCHANGED <<sends, call, attempt, check, key, silent>>
      /\ Limiter!Outcome(c)' = Limiter!Outcome(c)
  BY OutcomeOfChecks DEF HandlerStep, limiterVars, breakerVars, providerVars
<1>1. CASE Submit(c) /\ \A s \in Scopes : check[<<c, s>>] = "new"
  <2>1. Limiter!Outcome(c) # "admitted"
    BY <1>1, AdmittedNotNew, SystemAssumption
  <2>. QED
    BY <1>0, <1>1, <2>1 DEF Submit
<1>2. CASE AuthDemo(c) \/ AuthHit(c) \/ AuthMiss(c) \/ AuthStore(c)
  BY <1>0, <1>2 DEF AuthDemo, AuthHit, AuthMiss, AuthStore
<1>3. CASE AuthRead(c) \/ AuthReadFails(c)
  BY <1>0, <1>3 DEF AuthRead, AuthReadFails, Refuse
<1>4. CASE Hit(c) \/ Miss(c)
  BY <1>0, <1>4 DEF Hit, Miss
<1>5. CASE StoreResponse(c) \/ PersistLog(c) \/ Complete(c)
  BY <1>0, <1>5 DEF StoreResponse, PersistLog, Complete
<1>. QED
  BY <1>1, <1>2, <1>3, <1>4, <1>5 DEF HandlerStep

\* The steps of the provider: what was sent for a request is what its call counted.
LEMMA ProviderProvided ==
  ASSUME TypeOK, PartTypes, NEW c \in Clients, ClientProvided(c), ProviderStep(c)
  PROVE  ClientProvided(c)' /\ sends'[c] \in 0..(MaxRetries + 1)
<1>. USE SystemAssumption
     DEF ClientProvided, PartTypes, Step, Steps, Breaker!BreakerAssumption, Breaker!End
<1>0. /\ UNCHANGED check
      /\ Limiter!Outcome(c)' = Limiter!Outcome(c)
  <2>1. UNCHANGED check
    BY DEF ProviderStep, Ask, AskAgain, AttemptFails, TimesOut, Answered, CallFails, FailsUnasked, limiterVars
  <2>. QED
    BY <2>1, OutcomeOfChecks
<1>1. CASE Ask(c)
  <2>1. /\ pc' = pc /\ call' = [call EXCEPT ![c] = "sent"] /\ call[c] = "idle"
        /\ pc[c] = "missed" /\ Implemented(c) /\ key' = key /\ key[c] # "missing"
        /\ attempt' = [attempt EXCEPT ![c] = 1]
        /\ sends' = [sends EXCEPT ![c] = @ + 1]
    BY <1>1 DEF Ask, Breaker!Admit, Breaker!Send, Sent, vars, request
  <2>. QED
    BY <1>0, <2>1
<1>2. CASE AskAgain(c)
  <2>1. /\ pc' = pc /\ call' = [call EXCEPT ![c] = "sent"] /\ call[c] = "paused"
        /\ attempt' = [attempt EXCEPT ![c] = attempt[c] + 1] /\ key' = key
        /\ sends' = [sends EXCEPT ![c] = @ + 1]
    BY <1>2 DEF AskAgain, Breaker!Resend, Breaker!Send, Sent, vars, request
  <2>. QED
    BY <1>0, <2>1
<1>3. CASE AttemptFails(c)
  BY <1>0, <1>3 DEF AttemptFails, Breaker!Pause, vars, request
<1>7. CASE TimesOut(c)
  <2>1. /\ c \notin silent' /\ UNCHANGED <<sends, key>> /\ call[c] = "sent"
        /\ \/ pc' = pc /\ call' = [call EXCEPT ![c] = "paused"] /\ attempt' = attempt
           \/ pc' = [pc EXCEPT ![c] = "idle"] /\ call' = [call EXCEPT ![c] = "idle"]
    BY <1>7 DEF TimesOut, Breaker!Pause, Breaker!Fail, GenerateFails, Refuse, vars, request
  <2>. QED
    BY <1>0, <2>1
<1>4. CASE Answered(c)
  <2>1. /\ pc' = [pc EXCEPT ![c] = "answered"] /\ call' = [call EXCEPT ![c] = "idle"]
        /\ UNCHANGED <<sends, silent>> /\ pc[c] = "missed" /\ c \notin silent
    BY <1>4 DEF Answered, Breaker!Succeed, Generate, providerVars
  <2>. QED
    BY <1>0, <2>1
<1>5. CASE CallFails(c)
  <2>1. /\ pc' = [pc EXCEPT ![c] = "idle"] /\ call' = [call EXCEPT ![c] = "idle"]
        /\ UNCHANGED <<sends, silent>> /\ pc[c] = "missed" /\ c \notin silent
    BY <1>5 DEF CallFails, Breaker!Fail, GenerateFails, Refuse
  <2>. QED
    BY <1>0, <2>1
<1>6. CASE FailsUnasked(c)
  <2>1. /\ pc' = [pc EXCEPT ![c] = "idle"] /\ call' = call /\ attempt' = attempt
        /\ UNCHANGED <<sends, silent, key>> /\ pc[c] = "missed"
        /\ (Implemented(c) /\ key[c] # "missing" => call[c] = "idle")
    BY <1>6 DEF FailsUnasked, GenerateFails, Refuse, providerVars, Breaker!Reject, Breaker!vars,
       breakerVars
  <2>2. call[c] = "idle" /\ c \notin silent
    BY <2>1
  <2>. QED
    BY <1>0, <2>1, <2>2
<1>. QED
  BY <1>1, <1>2, <1>3, <1>4, <1>5, <1>6, <1>7 DEF ProviderStep

\* Every step of the process keeps ProviderInv.
LEMMA ProviderInvStep ==
  ASSUME TypeOK, PartTypes, ProviderInv, [SystemNext]_systemVars
  PROVE  ProviderInv'
<1>0. \A d \in Clients : ClientProvided(d)
  BY ProviderInvByClient
<1>1. ASSUME NEW d \in Clients, Aside(d)
      PROVE  ClientProvided(d)'
  <2>1. ClientProvided(d) /\ Limiter!Outcome(d)' = Limiter!Outcome(d)
    BY <1>0, <1>1, OutcomeOfChecks DEF Aside
  <2>. QED
    BY <1>1, <2>1 DEF Aside, ClientProvided
<1>2. ASSUME NEW c \in Clients, RequestStep(c)
      PROVE  ClientProvided(c)' /\ sends'[c] \in 0..(MaxRetries + 1)
  <2>0. ClientProvided(c) /\ sends[c] \in 0..(MaxRetries + 1)
    BY <1>0 DEF PartTypes
  <2>1. CASE HandlerStep(c)
    BY <2>0, <2>1, HandlerProvided DEF HandlerStep, providerVars
  <2>2. CASE LimiterStep(c)
    <3>1. /\ UNCHANGED <<pc, sends, call, attempt, key, silent>> /\ pc[c] = "authenticated"
      BY <2>2 DEF LimiterStep, vars, request, breakerVars, providerVars
    <3>. QED
      BY <2>0, <3>1 DEF ClientProvided, Steps
  <2>3. CASE Admitted(c) \/ Limited(c)
    <3>1. /\ UNCHANGED <<sends, call, attempt, check, key, silent>> /\ pc[c] = "authenticated"
          /\ \/ pc'[c] = "admitted" /\ Limiter!Outcome(c) = "admitted"
             \/ pc'[c] = "idle"
      BY <2>3 DEF Admitted, Limited, Admit, OverLimit, Refuse, Step, PartTypes,
         limiterVars, breakerVars, providerVars
    <3>2. Limiter!Outcome(c)' = Limiter!Outcome(c)
      BY <3>1, OutcomeOfChecks
    <3>. QED
      BY <2>0, <3>1, <3>2 DEF ClientProvided, Steps
  <2>4. CASE ProviderStep(c)
    BY <2>0, <2>4, ProviderProvided
  <2>. QED
    BY <1>2, <2>1, <2>2, <2>3, <2>4 DEF RequestStep
<1>3. CASE UNCHANGED systemVars \/ Time \/ Operator
  <2>1. sends' = sends /\ silent' = silent
    BY <1>3 DEF systemVars, Time, Operator, providerVars
  <2>. QED
    BY <1>1, <1>3, <2>1, AllAside DEF ProviderInv, ClientProvided
<1>4. CASE Restart
  <2>1. /\ UNCHANGED <<sends, check>> /\ silent' = {}
        /\ \A d \in Clients : pc'[d] = "idle" /\ call'[d] = "idle"
    BY <1>4 DEF Restart, Crash, limiterVars
  <2>2. ASSUME NEW d \in Clients
        PROVE  Limiter!Outcome(d)' = Limiter!Outcome(d)
    BY <2>1, OutcomeOfChecks
  <2>. QED
    BY <1>0, <2>1, <2>2 DEF ProviderInv, ClientProvided, Steps
<1>5. ASSUME NEW c \in Clients, RequestStep(c)
      PROVE  ProviderInv'
  <2>1. \A d \in Clients : ClientProvided(d)'
    <3>1. \A d \in Clients \ {c} : Aside(d)
      BY <1>5, OthersAside
    <3>. QED
      BY <1>1, <1>2, <1>5, <3>1
  <2>2. sends' = sends \/ sends' = [sends EXCEPT ![c] = @ + 1]
    BY <1>5 DEF RequestStep, HandlerStep, LimiterStep, Admitted, Limited, ProviderStep, Ask,
       AskAgain, AttemptFails, TimesOut, Answered, CallFails, FailsUnasked, Sent, providerVars
  <2>3. sends' \in [Clients -> 0..(MaxRetries + 1)]
    BY <1>2, <1>5, <2>2 DEF PartTypes
  <2>4. silent' \subseteq Clients
    BY <1>5 DEF PartTypes, RequestStep, HandlerStep, LimiterStep, Admitted, Limited, ProviderStep,
       Ask, AskAgain, AttemptFails, TimesOut, Answered, CallFails, FailsUnasked, Sent, providerVars
  <2>. QED
    BY <2>1, <2>3, <2>4 DEF ProviderInv, ClientProvided
<1>. QED
  BY <1>3, <1>4, <1>5, SystemSplit DEF RequestStep

\* The inductive invariant of the whole process: the parts keep theirs, and ProviderInv
\* links them.
SystemInv ==
  TypeOK /\ LogInv /\ Limiter!TypeOK /\ Breaker!BreakerInv /\ ProviderInv

LEMMA SystemInvariant == SystemSpec => []SystemInv
<1>1. SystemInit => ProviderInv
  <2>. SUFFICES ASSUME SystemInit PROVE ProviderInv
    OBVIOUS
  <2>1. \A c \in Clients, s \in Scopes : check[<<c, s>>] = "new"
    BY DEF SystemInit, Limiter!Init, Limiter!Checks
  <2>. QED
    BY <2>1, SystemAssumption
    DEF SystemInit, Init, Breaker!Init, Breaker!BreakerAssumption, ProviderInv, Steps
<1>2. TypeOK /\ Limiter!TypeOK /\ Breaker!BreakerInv /\ ProviderInv /\ [SystemNext]_systemVars
        => ProviderInv'
  BY PartsTyped, ProviderInvStep
<1>3. SystemSpec => [](TypeOK /\ LogInv)
  BY SystemRunsHandler, LogInvariant, PTL
<1>4. SystemSpec => []Limiter!TypeOK
  BY LimitsInSystem, PTL
<1>5. SystemSpec => []ProviderInv
  BY <1>1, <1>2, <1>3, <1>4, BreakerInSystem, PTL DEF SystemSpec
<1>. QED
  BY <1>3, <1>4, <1>5, BreakerInSystem, PTL DEF SystemInv

-----------------------------------------------------------------------------
\* The products of a bounded number of requests and the attempts of one call.
LEMMA Attempts ==
  ASSUME NEW A \in SUBSET Clients, NEW l \in Nat, Cardinality(A) <= l,
         NEW U \in SUBSET (A \X (1..(MaxRetries + 1)))
  PROVE  Cardinality(U) <= l * (MaxRetries + 1)
<1>. DEFINE n == MaxRetries + 1
<1>1. n \in Nat /\ IsFiniteSet(Clients)
  BY SystemAssumption, SameSets DEF Breaker!BreakerAssumption
<1>2. IsFiniteSet(A) /\ Cardinality(A) \in Nat
  BY <1>1, FS_Subset, FS_CardinalityType
<1>3. IsFiniteSet(1..n) /\ Cardinality(1..n) = n
  BY <1>1, FS_Interval
<1>4. IsFiniteSet(A \X (1..n)) /\ Cardinality(A \X (1..n)) = Cardinality(A) * n
  BY <1>2, <1>3, FS_Product
<1>5. IsFiniteSet(U) /\ Cardinality(U) <= Cardinality(A) * n
  BY <1>4, FS_Subset
<1>6. Cardinality(U) \in Nat
  BY <1>5, FS_CardinalityType
<1>7. \A a \in Nat : a <= l => a * n <= l * n
  BY <1>1, Z3
<1>8. Cardinality(A) * n <= l * n /\ Cardinality(A) * n \in Nat /\ l * n \in Nat
  BY <1>1, <1>2, <1>7
<1>. QED
  BY <1>5, <1>6, <1>8

\* The limit of a user or key bounds what reaches the provider: the requests of one
\* bucket cause no more than limit times the attempts of one call, for any number of
\* requests, restarts and failures.
THEOREM ProviderLoad == SystemSpec => []ProviderLoadBounded
<1>1. SystemInv /\ Limiter!BucketLimit => ProviderLoadBounded
  <2>. SUFFICES ASSUME SystemInv, Limiter!BucketLimit,
                       NEW s \in Scopes, NEW b \in Limiter!Buckets, NEW i \in Limiter!Ids
                PROVE  LET inBucket == {c \in Clients :
                                          /\ IdOf[s][c] = i
                                          /\ counted[<<c, s>>] /\ bucket[<<c, s>>] = b
                                          /\ Limiter!BucketAt(at[<<c, s>>]) = b}
                       IN  Cardinality(UNION {{c} \X (1..sends[c]) : c \in inBucket})
                             <= Limit[s] * (MaxRetries + 1)
    BY DEF ProviderLoadBounded
  <2>. DEFINE inBucket == {c \in Clients :
                             /\ IdOf[s][c] = i
                             /\ counted[<<c, s>>] /\ bucket[<<c, s>>] = b
                             /\ Limiter!BucketAt(at[<<c, s>>]) = b}
              A == Limiter!AdmittedIn(s, i, b)
              U == UNION {{c} \X (1..sends[c]) : c \in inBucket}
  <2>1. A \in SUBSET Clients /\ Limit[s] \in Nat
    BY SystemAssumption DEF Limiter!AdmittedIn, Limiter!LimiterAssumption
  <2>2. Cardinality(A) <= Limit[s]
    BY SameSets DEF Limiter!BucketLimit
  <2>3. ASSUME NEW u \in U
        PROVE  u \in A \X (1..(MaxRetries + 1))
    <3>1. PICK c \in inBucket : u \in {c} \X (1..sends[c])
      OBVIOUS
    <3>2. /\ c \in Clients /\ sends[c] \in 0..(MaxRetries + 1) /\ MaxRetries \in Nat
          /\ sends[c] > 0 => Limiter!Outcome(c) = "admitted"
      BY SystemAssumption DEF SystemInv, ProviderInv, Breaker!BreakerAssumption
    <3>3. u = <<c, u[2]>> /\ u[2] \in 1..sends[c]
      BY <3>1
    <3>4. c \in A
      BY <3>2, <3>3 DEF Limiter!AdmittedIn
    <3>. QED
      BY <3>2, <3>3, <3>4
  <2>. HIDE DEF A, U
  <2>4. U \in SUBSET (A \X (1..(MaxRetries + 1)))
    BY <2>3
  <2>5. Cardinality(U) <= Limit[s] * (MaxRetries + 1)
    BY <2>1, <2>2, <2>4, Attempts
  <2>. QED
    BY <2>5 DEF U
<1>. QED
  BY <1>1, SystemInvariant, LimitsInSystem, PTL

-----------------------------------------------------------------------------
\* Sets of requests are finite.
LEMMA ClientSets ==
  ASSUME NEW S \in SUBSET Clients, NEW T \in SUBSET Clients, NEW c
  PROVE  /\ Cardinality(S) \in Nat
         /\ S \subseteq T => Cardinality(S) <= Cardinality(T)
         /\ c \notin S => Cardinality(S \cup {c}) = Cardinality(S) + 1
<1>1. IsFiniteSet(S) /\ IsFiniteSet(T)
  BY SystemAssumption, SameSets, FS_Subset DEF Breaker!BreakerAssumption
<1>2. S \subseteq T => Cardinality(S) <= Cardinality(T)
  BY <1>1, FS_Subset
<1>. QED
  BY <1>1, <1>2, FS_CardinalityType, FS_AddElement

\* A request that failed upstream stays so: it is over, and its checks are spent, so
\* it is not sent again.
LEMMA FailedGrows ==
  ASSUME SystemInv, PartTypes, [SystemNext]_systemVars
  PROVE  Failed \subseteq Failed'
<1>. SUFFICES ASSUME NEW d \in Clients, sends[d] > 0, answer[d] = "bad_gateway"
              PROVE  sends'[d] > 0 /\ answer'[d] = "bad_gateway"
  BY DEF Failed
<1>1. pc[d] = "idle" /\ call[d] = "idle"
  BY LogInvByClient DEF SystemInv, ClientInv, Success, ProviderInv
<1>2. \A s \in Scopes : check[<<d, s>>] # "new"
  BY AdmittedNotNew DEF SystemInv, ProviderInv
<1>3. CASE Aside(d)
  BY <1>3 DEF Aside
<1>4. CASE Restart
  BY <1>4 DEF Restart, Crash
<1>5. ASSUME RequestStep(d)
      PROVE  FALSE
  <2>1. CASE HandlerStep(d)
    <3>1. ~Submit(d) \/ ~(\A s \in Scopes : check[<<d, s>>] = "new")
      BY <1>2, SystemAssumption
    <3>. QED
      BY <1>1, <2>1, <3>1 DEF HandlerStep, AuthDemo, AuthHit, AuthMiss, AuthRead, AuthReadFails,
         AuthStore, Hit, Miss, StoreResponse, PersistLog, Complete, Step, Refuse
  <2>2. CASE LimiterStep(d) \/ Admitted(d) \/ Limited(d)
    BY <1>1, <2>2 DEF LimiterStep, Admitted, Limited, Admit, OverLimit, Step, Refuse
  <2>3. CASE ProviderStep(d)
    BY <1>1, <2>3 DEF ProviderStep, Ask, AskAgain, AttemptFails, TimesOut, Answered, CallFails, FailsUnasked,
       Breaker!Resend, Breaker!Pause, Breaker!Succeed, Breaker!Fail, GenerateFails, Refuse, Step
  <2>. QED
    BY <1>5, <2>1, <2>2, <2>3 DEF RequestStep
<1>6. ASSUME NEW c \in Clients, RequestStep(c), c # d
      PROVE  Aside(d)
  BY <1>6, OthersAside DEF SystemInv
<1>. QED
  BY <1>3, <1>4, <1>5, <1>6, SystemSplit, AllAside DEF RequestStep

\* The breaker counts a failure only for a request that fails upstream.
LEMMA FailureCounted ==
  ASSUME SystemInv, PartTypes, failure_count <= Cardinality(Failed), [SystemNext]_systemVars
  PROVE  failure_count' <= Cardinality(Failed)'
<1>0. /\ Failed \in SUBSET Clients /\ Failed' \in SUBSET Clients /\ Failed \subseteq Failed'
      /\ failure_count \in Nat
  BY FailedGrows DEF Failed, PartTypes
<1>1. /\ Cardinality(Failed) \in Nat /\ Cardinality(Failed') \in Nat
      /\ Cardinality(Failed) <= Cardinality(Failed')
  BY <1>0, ClientSets
<1>2. CASE failure_count' = failure_count
  BY <1>0, <1>1, <1>2
<1>3. ASSUME NEW c \in Clients,
             CallFails(c) \/ (TimesOut(c) /\ Breaker!Fail(c) /\ GenerateFails(c))
      PROVE  failure_count' <= Cardinality(Failed')
  <2>1. /\ failure_count' = failure_count + 1
        /\ pc[c] = "missed" /\ answer' = [answer EXCEPT ![c] = "bad_gateway"]
        /\ sends' = sends /\ call[c] = "sent"
    BY <1>3 DEF CallFails, TimesOut, Breaker!Fail, Breaker!RecordFailure, GenerateFails, Refuse,
       Step
  <2>2. answer[c] = "none" /\ sends[c] > 0
    BY <2>1, LogInvByClient DEF SystemInv, ClientInv, ProviderInv
  <2>3. c \notin Failed /\ c \in Failed'
    BY <2>1, <2>2 DEF Failed, PartTypes
  <2>4. /\ Failed \cup {c} \in SUBSET Clients /\ Failed \cup {c} \subseteq Failed'
    BY <1>0, <2>3
  <2>5. Cardinality(Failed \cup {c}) = Cardinality(Failed) + 1
    BY <1>0, <2>3, ClientSets
  <2>6. Cardinality(Failed \cup {c}) <= Cardinality(Failed')
    BY <1>0, <2>4, ClientSets
  <2>. QED
    BY <1>0, <1>1, <2>1, <2>5, <2>6
<1>4. CASE failure_count' = 0
  BY <1>1, <1>4
<1>5. CASE UNCHANGED systemVars \/ Time \/ Operator
  <2>1. failure_count' = failure_count
    BY <1>5 DEF systemVars, Time, Operator, breakerVars, Breaker!Tick
  <2>. QED
    BY <1>2, <2>1
<1>6. CASE Restart
  BY <1>4, <1>6 DEF Restart
<1>7. ASSUME NEW c \in Clients, RequestStep(c)
      PROVE  \/ failure_count' = failure_count \/ failure_count' = 0 \/ CallFails(c)
             \/ TimesOut(c) /\ Breaker!Fail(c) /\ GenerateFails(c)
  <2>1. CASE HandlerStep(c) \/ LimiterStep(c) \/ Admitted(c) \/ Limited(c)
    BY <2>1 DEF HandlerStep, LimiterStep, Admitted, Limited, breakerVars
  <2>2. CASE ProviderStep(c)
    BY <2>2 DEF ProviderStep, Ask, AskAgain, AttemptFails, TimesOut, Answered, FailsUnasked, Breaker!Admit,
       Breaker!Resend, Breaker!Pause, Breaker!Succeed, Breaker!Reject, Breaker!vars,
       Breaker!breakerVars, breakerVars
  <2>. QED
    BY <1>7, <2>1, <2>2 DEF RequestStep
<1>. QED
  BY <1>2, <1>3, <1>4, <1>5, <1>6, <1>7, SystemSplit DEF RequestStep

\* A request that has a key is answered 502 without having been sent only by a breaker
\* that is open.
LEMMA RefusedByBreaker ==
  ASSUME SystemInv, PartTypes, NEW c \in Clients, RequestStep(c), Implemented(c),
         key[c] # "missing", answer'[c] = "bad_gateway", sends'[c] = 0
  PROVE  \/ answer[c] = "bad_gateway" /\ sends[c] = 0
         \/ failure_count >= FailureThreshold
<1>. USE DEF PartTypes
<1>1. CASE HandlerStep(c)
  <2>1. sends' = sends
    BY <1>1 DEF HandlerStep, providerVars
  <2>2. answer'[c] # "bad_gateway" \/ answer'[c] = answer[c]
    BY <1>1 DEF HandlerStep, Submit, AuthDemo, AuthHit, AuthMiss, AuthRead, AuthReadFails,
       AuthStore, Hit, Miss, StoreResponse, PersistLog, Complete, Refuse
  <2>. QED
    BY <2>1, <2>2
<1>2. CASE LimiterStep(c)
  BY <1>2 DEF LimiterStep, vars, request, providerVars
<1>3. CASE Admitted(c) \/ Limited(c)
  BY <1>3 DEF Admitted, Limited, Admit, OverLimit, Refuse, providerVars
<1>4. CASE Ask(c) \/ AskAgain(c)
  <2>1. sends' = [sends EXCEPT ![c] = @ + 1] /\ sends[c] \in Nat
    BY <1>4, SystemAssumption DEF Ask, AskAgain, Sent, Breaker!BreakerAssumption
  <2>. QED
    BY <2>1
<1>5. CASE AttemptFails(c)
  BY <1>5 DEF AttemptFails, vars, request
<1>9. CASE TimesOut(c)
  <2>1. sends' = sends /\ call[c] = "sent"
    BY <1>9 DEF TimesOut, Breaker!Pause, Breaker!Fail
  <2>2. sends[c] > 0
    BY <2>1 DEF SystemInv, ProviderInv
  <2>. QED
    BY <2>1, <2>2
<1>6. CASE Answered(c)
  BY <1>6 DEF Answered, Generate
<1>7. CASE CallFails(c)
  <2>1. sends' = sends /\ call[c] = "sent"
    BY <1>7 DEF CallFails, Breaker!Fail
  <2>2. sends[c] > 0
    BY <2>1 DEF SystemInv, ProviderInv
  <2>. QED
    BY <2>1, <2>2
<1>8. CASE FailsUnasked(c)
  <2>1. ~Breaker!IsAllowed
    BY <1>8 DEF FailsUnasked, Breaker!Reject
  <2>2. state # "CLOSED"
    BY <2>1 DEF Breaker!IsAllowed
  <2>3. ~(failure_count < FailureThreshold)
    BY <2>2 DEF SystemInv, Breaker!BreakerInv, Breaker!OpenIffThresholdReached
  <2>. QED
    BY <2>3, SystemAssumption DEF Breaker!BreakerAssumption
<1>. QED
  BY <1>1, <1>2, <1>3, <1>4, <1>5, <1>6, <1>7, <1>8, <1>9 DEF RequestStep, ProviderStep

\* Every step keeps FailedInv.
LEMMA FailedStep ==
  ASSUME SystemInv, PartTypes, FailedInv, [SystemNext]_systemVars
  PROVE  FailedInv'
<1>0. failure_count' <= Cardinality(Failed')
  BY FailureCounted DEF FailedInv
<1>1. /\ Failed \in SUBSET Clients /\ Failed' \in SUBSET Clients /\ Failed \subseteq Failed'
      /\ failure_count \in Nat /\ FailureThreshold \in Nat
  BY FailedGrows, SystemAssumption DEF Failed, PartTypes, Breaker!BreakerAssumption
<1>2. /\ Cardinality(Failed) \in Nat /\ Cardinality(Failed') \in Nat
      /\ Cardinality(Failed) <= Cardinality(Failed')
  BY <1>1, ClientSets
<1>3. ASSUME NEW c \in Clients, Implemented(c), key'[c] # "missing",
             answer'[c] = "bad_gateway", sends'[c] = 0
      PROVE  Cardinality(Failed') >= FailureThreshold
  <2>0. key' = key
    BY DEF SystemNext, systemVars, Time, Operator, Restart, RequestStep, HandlerStep, LimiterStep,
       Admitted, Limited, ProviderStep, Ask, AskAgain, AttemptFails, TimesOut, Answered, CallFails,
       FailsUnasked, providerVars
  <2>1. CASE answer[c] = "bad_gateway" /\ sends[c] = 0
    <3>1. Cardinality(Failed) >= FailureThreshold
      BY <1>3, <2>0, <2>1 DEF FailedInv, RefusedOnlyAfterFailures, Failed
    <3>. QED
      BY <1>1, <1>2, <3>1
  <2>2. CASE failure_count >= FailureThreshold
    BY <1>1, <1>2, <2>2 DEF FailedInv
  <2>3. CASE Aside(c)
    BY <1>3, <2>1, <2>3 DEF Aside
  <2>4. CASE Restart
    BY <1>3, <2>1, <2>4 DEF Restart, Crash
  <2>5. CASE RequestStep(c)
    BY <1>3, <2>0, <2>1, <2>2, <2>5, RefusedByBreaker
  <2>6. ASSUME NEW d \in Clients, RequestStep(d), d # c
        PROVE  Aside(c)
    BY <2>6, OthersAside DEF SystemInv
  <2>. QED
    BY <2>3, <2>4, <2>5, <2>6, SystemSplit, AllAside DEF RequestStep
<1>. QED
  BY <1>0, <1>3 DEF FailedInv, RefusedOnlyAfterFailures, Failed

\* A request that has a key is refused without an attempt only after failure_threshold
\* requests failed upstream, for any number of requests, restarts and failures of Redis: the breaker
\* counts calls, and each failed call is a request of its own that was answered 502.
THEOREM RefusedAfterFailures == SystemSpec => []RefusedOnlyAfterFailures
<1>1. SystemInit => FailedInv
  <2>. SUFFICES ASSUME SystemInit PROVE FailedInv
    OBVIOUS
  <2>1. Failed \in SUBSET Clients /\ failure_count = 0
    BY DEF SystemInit, Breaker!Init, Failed
  <2>2. \A c \in Clients : answer[c] # "bad_gateway"
    BY DEF SystemInit, Init
  <2>3. Cardinality(Failed) \in Nat
    BY <2>1, ClientSets
  <2>4. RefusedOnlyAfterFailures
    BY <2>2 DEF RefusedOnlyAfterFailures
  <2>. QED
    BY <2>1, <2>3, <2>4 DEF FailedInv
<1>2. SystemInv => PartTypes
  BY PartsTyped DEF SystemInv
<1>3. SystemInv /\ FailedInv /\ [SystemNext]_systemVars => FailedInv'
  BY <1>2, FailedStep
<1>4. FailedInv => RefusedOnlyAfterFailures
  BY DEF FailedInv
<1>. QED
  BY <1>1, <1>3, <1>4, SystemInvariant, PTL DEF SystemSpec
=============================================================================
