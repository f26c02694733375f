------------------------------- MODULE Reports -------------------------------
(***************************************************************************)
(* What the administrators' reports say of the gateway's request log       *)
(* (services/usage.py, services/dashboard.py) while background tasks keep  *)
(* adding rows: the usage report of a user is one statement, the dashboard *)
(* sends four, each with a snapshot of its own (PostgreSQL's READ          *)
(* COMMITTED), against one cutoff, and divides what one statement said by  *)
(* what another did.  Only successes are logged (Gateway,                  *)
(* AllRequestsLogged).                                                     *)
(***************************************************************************)
EXTENDS Integers, Sequences, FiniteSets, FiniteSetsExt, Functions

CONSTANTS
  Tenants,     \* tenant_id of an API key
  Users,       \* user_id of a request; two tenants may use the same
  Costs,       \* cost of a completion, in the smallest unit
  Latencies,   \* latency_ms of a request
  Day,         \* timedelta(days=1), in ticks
  MaxRows,     \* bound: rows
  MaxTime,     \* bound: the clock
  MaxFaults    \* bound: failed statements

ASSUME ReportsAssumption ==
  /\ IsFiniteSet(Tenants) /\ IsFiniteSet(Users)
  /\ Costs \subseteq Nat /\ Latencies \subseteq Nat
  /\ Day \in Nat \ {0}
  /\ MaxRows \in Nat /\ MaxTime \in Nat /\ MaxFaults \in Nat

VARIABLES
  now,       \* the clock
  rows,      \* request_logs: [tenant, user, at, hit, cost, latency], in the order
             \* of their commits
  spent,     \* history: what the provider charged for
  statement, \* the dashboard's next statement
  cutoff,    \* yesterday
  figures,   \* what the dashboard shows so far
  known,     \* history: rows that were committed when the dashboard started
  faults

dashboard == <<statement, cutoff, figures, known>>
reportsVars == <<now, rows, spent, dashboard, faults>>

Statements == {"idle", "requests", "cost", "hits", "latency", "done"}

\* A quotient, kept as its two parts; 0 where the code does not divide.
Ratio(n, d) == IF d > 0 THEN <<n, d>> ELSE <<0, 1>>

NoFigures ==
  [requests |-> 0, cost_per_1k |-> <<0, 1>>, cache_hit_ratio |-> <<0, 1>>, avg_latency |-> <<0, 1>>]

ReportsInit ==
  /\ now = Day
  /\ rows = <<>>
  /\ spent = 0
  /\ statement = "idle"
  /\ cutoff = 0
  /\ figures = NoFigures
  /\ known = 0
  /\ faults = 0

Tick ==
  /\ now < MaxTime
  /\ now' = now + 1
  /\ UNCHANGED <<rows, spent, dashboard, faults>>

\* A background task commits the row of a completion, or of a cache hit, which
\* carries the cost of the completion it repeats.
AddRow(t, u, h, c, l) ==
  /\ Len(rows) < MaxRows
  /\ h => \E i \in DOMAIN rows : ~rows[i].hit /\ rows[i].cost = c
  /\ rows' = Append(rows, [tenant |-> t, user |-> u, at |-> now, hit |-> h,
                           cost |-> c, latency |-> l])
  /\ spent' = IF h THEN spent ELSE spent + c
  /\ UNCHANGED <<now, dashboard, faults>>

\* func.sum, of a column over some rows.
Total(column) == FoldFunction(+, 0, column)

TotalCost(S) == Total([i \in S |-> rows[i].cost])
TotalLatency(S) == Total([i \in S |-> rows[i].latency])

(* services/usage.py ------------------------------------------------------- *)

\* The rows of a usage report: of the caller's tenant and the user asked for.
OwnRows(t, u) == {i \in DOMAIN rows : rows[i].tenant = t /\ rows[i].user = u}

\* get_usage_summary: count(id) and sum(cost), one statement.
Summary(t, u) == [requests |-> Cardinality(OwnRows(t, u)), cost |-> TotalCost(OwnRows(t, u))]

(* services/dashboard.py ----------------------------------------------------- *)

\* The rows since c, among the first n.
Since(c, n) == {i \in 1..n : rows[i].at >= c}

\* Mutant of Recent: each statement has a cutoff of its own.
RecentNow(n) == Since(now - Day, n)

\* created_at >= yesterday, among the first n rows.
Recent(n) == Since(cutoff, n)

\* now and yesterday are fixed, then the statements follow each other.
StartDashboard ==
  /\ statement \in {"idle", "done"}
  /\ statement' = "requests"
  /\ cutoff' = now - Day
  /\ figures' = NoFigures
  /\ known' = Len(rows)
  /\ UNCHANGED <<now, rows, spent, faults>>

Hits(S) == {i \in S : rows[i].hit}

\* func.avg, NULL of no rows.
Average(S) == Ratio(TotalLatency(S), Cardinality(S))

\* A statement sees every row that is committed, and its figure is shown.
Read(from, to, f, figure) ==
  /\ statement = from
  /\ statement' = to
  /\ figures' = [figures EXCEPT ![f] = figure]
  /\ UNCHANGED <<now, rows, spent, cutoff, known, faults>>

ReadRequests == Read("requests", "cost", "requests", Cardinality(Recent(Len(rows))))
ReadCost ==
  Read("cost", "hits", "cost_per_1k", Ratio(TotalCost(Recent(Len(rows))), figures.requests))
ReadHits ==
  Read("hits", "latency", "cache_hit_ratio",
       Ratio(Cardinality(Hits(Recent(Len(rows)))), figures.requests))
ReadLatency == Read("latency", "done", "avg_latency", Average(Recent(Len(rows))))

\* A statement fails: 500, the dashboard shows nothing.
DashboardFails ==
  /\ statement \notin {"idle", "done"}
  /\ faults < MaxFaults
  /\ faults' = faults + 1
  /\ statement' = "idle"
  /\ figures' = NoFigures
  /\ UNCHANGED <<now, rows, spent, cutoff, known>>

-----------------------------------------------------------------------------
ReportsNext ==
  \/ Tick
  \/ \E t \in Tenants, u \in Users, h \in BOOLEAN, c \in Costs, l \in Latencies :
       AddRow(t, u, h, c, l)
  \/ StartDashboard \/ ReadRequests \/ ReadCost \/ ReadHits \/ ReadLatency
  \/ DashboardFails

ReportsSpec == ReportsInit /\ [][ReportsNext]_reportsVars

-----------------------------------------------------------------------------
\* The figures, when the four statements see the rows of K, L, M and N.
FiguresOf(K, L, M, N) ==
  [requests |-> Cardinality(K), cost_per_1k |-> Ratio(TotalCost(L), Cardinality(K)),
   cache_hit_ratio |-> Ratio(Cardinality(Hits(M)), Cardinality(K)), avg_latency |-> Average(N)]

FiguresAt(k, l, m, n) ==
  FiguresOf(Since(cutoff, k), Since(cutoff, l), Since(cutoff, m), Since(cutoff, n))

\* The dashboard shows one day: each of its figures is that of the rows since one and
\* the same cutoff, up to a point between what was committed when the dashboard was
\* asked for and now, and no statement sees less than the one before.  Ratios are off
\* by the rows that were committed in between; no row that the divisor counts ages out
\* of the dividend (get_dashboard_metrics fixes yesterday once).
FiguresOfOneDay ==
  statement = "done" =>
    \E k \in known..Len(rows) : \E l \in k..Len(rows) : \E m \in l..Len(rows) :
      \E n \in m..Len(rows) : figures = FiguresAt(k, l, m, n)

\* The cache hit ratio of the dashboard is a ratio: no more hits than requests.
HitRatioIsARatio ==
  statement = "done" => figures.cache_hit_ratio[1] <= figures.cache_hit_ratio[2]

\* The cost of the usage reports is what the provider charged.
UsageCostIsSpent ==
  MapThenSumSet(LAMBDA x : Summary(x[1], x[2]).cost, Tenants \X Users) <= spent

-----------------------------------------------------------------------------
(* Behind FiguresOfOneDay                                                  *)

Row == [tenant : Tenants, user : Users, at : Nat, hit : BOOLEAN, cost : Costs,
        latency : Latencies]

ReportsTypeOK ==
  /\ rows \in Seq(Row)
  /\ statement \in Statements
  /\ known \in 0..Len(rows)
  /\ figures = [f \in DOMAIN NoFigures |-> figures[f]]

\* The figures that have been read.
Shown == CASE statement = "cost"    -> {"requests"}
           [] statement = "hits"    -> {"requests", "cost_per_1k"}
           [] statement = "latency" -> {"requests", "cost_per_1k", "cache_hit_ratio"}
           [] statement = "done"    -> DOMAIN NoFigures
           [] OTHER -> {}

\* Each figure is of that day from its statement on.
DayInv ==
  \E k \in known..Len(rows) : \E l \in k..Len(rows) : \E m \in l..Len(rows) :
    \E n \in m..Len(rows) : \A f \in Shown : figures[f] = FiguresAt(k, l, m, n)[f]

ReportsInv == ReportsTypeOK /\ DayInv
=============================================================================
