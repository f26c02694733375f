--------------------------- MODULE ConnectionPool ---------------------------
(***************************************************************************)
(* The database connections of one gateway process (db/session.py) and the *)
(* requests that compete for them: a request's session takes a connection  *)
(* with its first statement and keeps it until the request's dependencies  *)
(* are closed; the background task that writes the request log takes one   *)
(* of its own (services/inference.py _persist_request_log).                *)
(*                                                                         *)
(* FastAPI closes a dependency with yield after the response and its       *)
(* background tasks (HoldThroughTasks; before 0.118 it closed it before    *)
(* the response was sent).  uv.lock pins a version that holds.             *)
(***************************************************************************)
EXTENDS Integers, FiniteSets

CONSTANTS
  Requests,         \* requests, each sent once
  Capacity,         \* database_pool_size + database_max_overflow
  HoldThroughTasks  \* does the session outlive the background tasks?

\* pool_size is at least 1, max_overflow at least 0 (core/config.py).
ASSUME PoolAssumption ==
  /\ IsFiniteSet(Requests)
  /\ Capacity \in Nat \ {0}
  /\ HoldThroughTasks \in BOOLEAN

VARIABLES
  route,    \* which endpoint a request asks
  pc,       \* where it is
  session,  \* does the request's session hold a connection?
  logger,   \* does the session of its background task hold one?
  answer,   \* what the client was answered
  row,      \* what became of its row in request_logs
  peak      \* history: the largest number of requests under way at once

connections == <<session, logger>>
vars == <<route, pc, connections, answer, row, peak>>

Routes == {"generate", "usage", "dashboard", "ready"}

\* Steps at which a request waits for a connection of the pool.
Waiting == {"authenticating", "querying", "logging"}

Steps == Waiting \cup {"new", "key_read", "handling", "reading", "closing",
                       "answered", "writing", "done"}

\* What a client is answered: what the endpoint or its refusal says, or what a
\* statement that got no connection turns into.
Answers == {"none", "own", "zeros", "not_ready", "server_error"}

Holders(f) == {r \in Requests : f[r]}

InUse == Cardinality(Holders(session)) + Cardinality(Holders(logger))

Free == InUse < Capacity

UnderWay == {r \in Requests : pc[r] \notin {"new", "done"}}

Step(r, from, to) == pc[r] = from /\ pc' = [pc EXCEPT ![r] = to]

Respond(r, a) == answer' = [answer EXCEPT ![r] = a]

Init ==
  /\ route = [r \in Requests |-> "none"]
  /\ pc = [r \in Requests |-> "new"]
  /\ session = [r \in Requests |-> FALSE]
  /\ logger = [r \in Requests |-> FALSE]
  /\ answer = [r \in Requests |-> "none"]
  /\ row = [r \in Requests |-> "none"]
  /\ peak = 0

\* What follows authentication on a route.
Endpoint(k) == IF k = "generate" THEN "handling" ELSE "querying"

\* A request arrives.  The session object is made without a connection.  A cached
\* (or the built-in) key is accepted without a statement, any other is looked up;
\* the readiness probe has no authentication.
Arrive(r) ==
  /\ pc[r] = "new"
  /\ \E k \in Routes :
       /\ route' = [route EXCEPT ![r] = k]
       /\ \/ pc' = [pc EXCEPT ![r] = Endpoint(k)]
          \/ k # "ready" /\ pc' = [pc EXCEPT ![r] = "authenticating"]
  /\ peak' = LET n == Cardinality(UnderWay) + 1 IN IF n > peak THEN n ELSE peak
  /\ UNCHANGED <<connections, answer, row>>

(* The request's session -------------------------------------------------- *)

\* validate_api_key: the first statement takes a connection.
KeyLookup(r) ==
  /\ Free
  /\ Step(r, "authenticating", "key_read")
  /\ session' = [session EXCEPT ![r] = TRUE]
  /\ UNCHANGED <<route, logger, answer, row, peak>>

\* No connection came back in time: the exception becomes a 500.
KeyLookupTimeout(r) ==
  /\ ~Free
  /\ Step(r, "authenticating", "closing")
  /\ Respond(r, "server_error")
  /\ UNCHANGED <<route, connections, row, peak>>

Accept(r) ==
  /\ pc[r] = "key_read"
  /\ pc' = [pc EXCEPT ![r] = Endpoint(route[r])]
  /\ UNCHANGED <<route, connections, answer, row, peak>>

\* An unknown key, or (a cached key too) no administrator: 401 or 403.
Refuse(r) ==
  /\ \/ pc[r] = "key_read"
     \/ pc[r] = "querying" /\ route[r] # "ready" /\ ~session[r]
  /\ pc' = [pc EXCEPT ![r] = "closing"]
  /\ Respond(r, "own")
  /\ UNCHANGED <<route, connections, row, peak>>

\* handle_generate_request succeeds and the client has its response; the log is
\* the background task.  Redis and the provider need no connection of this pool.
Generate(r) ==
  /\ Step(r, "handling", "answered")
  /\ Respond(r, "own")
  /\ session' = [session EXCEPT ![r] = @ /\ HoldThroughTasks]
  /\ UNCHANGED <<route, logger, row, peak>>

\* It raises: the response is built by the handlers and has no background task.
GenerateFails(r) ==
  /\ Step(r, "handling", "closing")
  /\ Respond(r, "own")
  /\ UNCHANGED <<route, connections, row, peak>>

\* The queries of the reports and of the readiness probe use the same session.
Query(r) ==
  /\ session[r] \/ Free
  /\ Step(r, "querying", "reading")
  /\ session' = [session EXCEPT ![r] = TRUE]
  /\ UNCHANGED <<route, logger, answer, row, peak>>

\* usage.py answers zeros, routes.py 503 for the probe, the dashboard a 500.
QueryTimeout(r) ==
  /\ ~session[r] /\ ~Free
  /\ Step(r, "querying", "closing")
  /\ Respond(r, CASE route[r] = "usage" -> "zeros"
                  [] route[r] = "ready" -> "not_ready"
                  [] OTHER -> "server_error")
  /\ UNCHANGED <<route, connections, row, peak>>

\* The result is returned, or the statement (for the probe also Redis) failed.
Report(r) ==
  /\ Step(r, "reading", "closing")
  /\ Respond(r, "own")
  /\ UNCHANGED <<route, connections, row, peak>>

(* The background task ----------------------------------------------------- *)

\* The response is complete, _persist_request_log starts.
StartTask(r) ==
  /\ Step(r, "answered", "logging")
  /\ UNCHANGED <<route, connections, answer, row, peak>>

\* session.commit takes a connection for the insert.
Log(r) ==
  /\ Free
  /\ Step(r, "logging", "writing")
  /\ logger' = [logger EXCEPT ![r] = TRUE]
  /\ UNCHANGED <<route, session, answer, row, peak>>

\* Mutant of LogTimeout: the pool waits without a limit.
LogTimeoutNever(r) == FALSE

\* No connection came back in time: the exception is logged, the row is lost.
LogTimeout(r) ==
  /\ ~Free
  /\ Step(r, "logging", "closing")
  /\ row' = [row EXCEPT ![r] = "timed_out"]
  /\ UNCHANGED <<route, connections, answer, peak>>

\* The insert is committed, or fails and is rolled back; async with closes.
Written(r) ==
  /\ Step(r, "writing", "closing")
  /\ row' \in {[row EXCEPT ![r] = x] : x \in {"stored", "failed"}}
  /\ logger' = [logger EXCEPT ![r] = FALSE]
  /\ UNCHANGED <<route, session, answer, peak>>

\* Mutant of Close: a report keeps its connection.
CloseLeaky(r) ==
  /\ Step(r, "closing", "done")
  /\ session' = [session EXCEPT ![r] = @ /\ route[r] = "usage"]
  /\ UNCHANGED <<route, logger, answer, row, peak>>

\* get_db_session: async with closes the session, its connection goes back.
Close(r) ==
  /\ Step(r, "closing", "done")
  /\ session' = [session EXCEPT ![r] = FALSE]
  /\ UNCHANGED <<route, logger, answer, row, peak>>

-----------------------------------------------------------------------------
Handle(r) ==
  \/ KeyLookup(r) \/ KeyLookupTimeout(r) \/ Accept(r) \/ Refuse(r)
  \/ Generate(r) \/ GenerateFails(r)
  \/ Query(r) \/ QueryTimeout(r) \/ Report(r)
  \/ StartTask(r) \/ Log(r) \/ LogTimeout(r) \/ Written(r) \/ Close(r)

Next == \E r \in Requests : Arrive(r) \/ Handle(r)

Spec == Init /\ [][Next]_vars

\* The event loop runs what can run, the provider's timeouts end every call, and
\* QueuePool ends every wait.
Fairness == \A r \in Requests : WF_vars(Handle(r))

FairSpec == Spec /\ Fairness

-----------------------------------------------------------------------------
TypeOK ==
  /\ route \in [Requests -> Routes \cup {"none"}]
  /\ pc \in [Requests -> Steps]
  /\ session \in [Requests -> BOOLEAN]
  /\ logger \in [Requests -> BOOLEAN]
  /\ InUse <= Capacity
  /\ answer \in [Requests -> Answers]
  /\ row \in [Requests -> {"none", "stored", "failed", "timed_out"}]
  /\ peak \in 0..Cardinality(Requests)

\* Requests that wait for a second connection while they keep the first cannot
\* block each other for ever: every request that arrived ends, because the pool
\* gives up on a wait (get_db_session and _persist_request_log share one pool).
EveryRequestEnds ==
  \A r \in Requests : pc[r] # "new" ~> pc[r] = "done"

\* A wait for a connection is given up, and a row lost or a client refused by it,
\* only when the requests under way could hold the whole pool: two connections
\* each, and one for the request that waits.
GaveUp(r) ==
  \/ row[r] = "timed_out"
  \/ answer[r] \in {"zeros", "not_ready", "server_error"}

ExhaustedOnlyUnderLoad ==
  \A r \in Requests : GaveUp(r) => Capacity < 2 * peak

\* Who may hold a connection, and what the peak bounds.
PoolInv ==
  /\ \A r \in Requests :
       /\ session[r] => r \in UnderWay
       /\ logger[r] => pc[r] = "writing"
  /\ Cardinality(UnderWay) <= peak
  /\ ExhaustedOnlyUnderLoad
=============================================================================
