# Verification of the Inference Control Plane

TLA+ models, TLC runs and TLAPS proofs for the two Python systems of this
repository:

* the **gateway** (`src/inference_control_plane`), a FastAPI service that puts
  authentication, rate limits, a response cache and a circuit breaker in front of
  LLM providers;
* the **SLI job** (`langfuse-sli-pipeline/src/gateway_sli`), a scheduled task that
  reads finished requests from Langfuse, aggregates them into metrics, exports
  those over OTLP and remembers in a checkpoint what it has counted.

The paths in this document are relative to the repository root; the exact lines
behind every definition are in `PROJECT.json` under `map`.

## 1. Inventory

### SLI job

| part | state it keeps | operations | what makes it correct |
|---|---|---|---|
| Orchestration (`cli.py`, `pipeline.py`) | none between runs; one run holds a window, a seen map and its flags | fix the window, load the checkpoint twice, read, export, heartbeat, save, final heartbeat, exit | no observation lost or counted twice across runs, whatever fails; exit status 0 means committed |
| Checkpoint store (`checkpoint.py`) | watermark, seen map, version | load, conditional put (DynamoDB) or replace (file), pruning | a commit never forgets an id inside the overlap and never moves backwards |
| Langfuse source (`sources/langfuse_api.py`) | cursor, page number, signatures of pages seen, request counters | paginated read with retries and limits | a read that ends normally is complete; it always ends |
| Record pass (`pipeline.py`) | counters, ids of the batch, seen map of the run | parse, reject, quarantine, de-duplicate, fold | streaming agrees with batch; every record is accounted for |
| Aggregator (`sli.py`) with parsing and normalisation (`models.py`, `normalize.py`) | histograms and counters per series | add, build | points conserve observations; percentiles are near the true ones |
| OTLP exporter (`emit/otlp_http.py`) | attempt counter | POST with retries | bounded duplication; health is reported truthfully |
| Quality accumulator (`quality.py`) | bounded sample of completion lengths per group, empty completions | add, score | samples are bounded; what is flagged is an outlier |
| Governance (`governance.py`, `emit/base.py`) | static tables | check a metric point | every point a run emits is accepted |
| Configuration, file source, console output | static tables | - | not modelled |

The job's parts call each other in one process. They share state with the outside
in three places: the store (shared by overlapping tasks), Langfuse (whose listing
changes during a read) and the metrics backend (which adds up whatever arrives).

### Gateway

| part | state it keeps | operations | what makes it correct |
|---|---|---|---|
| Authentication (`services/auth.py`) | cached AuthContext in Redis | look up, cache with a TTL | a deactivated key stops working |
| Rate limiter (`services/rate_limiter.py`) | one counter per identifier and bucket in Redis | INCR and TTL, EXPIRE, fail open | no bucket admits more than the limit, nobody is refused early |
| Response cache (`services/cache.py`) | completions in Redis with a TTL | get, set in a background task | a hit answers the request that was asked, as far as its key tells requests apart |
| Handler (`services/inference.py`, `api/routes.py`, `core/errors.py`) | per request; rows in `request_logs` | authenticate, limit, look up, generate, queue background tasks | a response and its row agree |
| LLM client (`services/llm_client.py`) | circuit breaker per provider and process | admit, send, retry, record | opens at the threshold, sheds load, recovers |
| Connection pool (`db/session.py`) | connections lent to sessions | take, give back, give up waiting | no leak, nobody waits for ever |
| Usage and dashboard (`services/usage.py`, `services/dashboard.py`) | none; read `request_logs` | one statement; four statements | every figure is about one and the same day |
| Start-up and seed (`main.py`, `db/seed.py`, `core/config.py`) | rows of `api_keys` | validate, find or insert the default key, serve, stop | one row per key, whoever races; no key comes back |
| Router, schemas, observability, frontend | none | - | an input of Gateway (router), or not modelled |

Requests interleave at every `await` of one event loop; several processes share
Redis and the database. Background tasks run after the response was sent, in
order, and only if the response was produced by the endpoint itself; the session of
the request stays open until they are done, so a request can hold two connections
of one pool.

### Hard behaviours

Two loads of one checkpoint; a window fixed before the loads; crashes and lost
answers between export and save; late and out-of-order visibility; paging over a
growing listing; retries of what was already accepted; buckets computed before an
await; two round trips to Redis; calls that end after the breaker has changed
state; cache writes after the response; exceptions that drop queued tasks; requests
that hold one connection and wait for another; several statements over a log that
grows in between; processes that race for the same row. Each is listed with its line under `hazards` in `PROJECT.json`, with the properties that
guard it.

## 2. Modules

```
Delivery                 what the job promises the backend (abstract)
  CheckpointedRun        the job and its checkpoint, for one or more tasks; Promise
    CheckpointedRunProofs  theorems, Delivery implemented  MCCheckpointedRun  instances
LangfuseSource           one paginated read                   MCLangfuseSource, SliClientsProofs
Observations             parsing and normalising a record     (operators)
  Aggregation            histograms, accumulators, points     (operators)
    Quality              samples of lengths and their scores  (operators)
      Governance         the contract on metric points        (operators)
        RecordLoop       the streaming pass over records      MCRecordLoop
          RecordLoopProofs
OtlpExport               the POSTs of one run                 SliClientsProofs
CircuitBreaker           breaker shared by concurrent calls   CircuitBreakerProofs
RateLimiter              both limits, over Redis              MCRateLimiter, RateLimiterProofs
Gateway                  POST /generate end to end            MCGateway, GatewayProofs
  GatewaySystem          Gateway, RateLimiter and CircuitBreaker composed  MCGatewaySystem, GatewayProofs
ConnectionPool           requests and tasks over one pool     MCConnectionPool, DatabaseProofs
Reports                  usage and dashboard over the log     DatabaseProofs
Startup                  processes start, seed, serve, stop   MCStartup, StartupProofs
```

**CheckpointedRun.** One worker per task. `pc` follows `main` and `run`:
`Launch` fixes `window_end` from the clock, `Resume` is the load in `main`
(`cli.py`), `Load` the one in `run` (which also refreshes the version the store
object will put conditionally), then `ReadWindow`/`ReadTruncated`/`SourceFails`,
`Export`/`ExportFails`/`ExportRepeated`/`SkipExport`, `Heartbeat`, `Save`/
`SaveConflict`/`SkipSave`/`SaveUnacknowledged`, `Finish`. `raised` holds the flags
of `AggregationStats` that are no longer clean: it guards the save and decides the
exit status. The two stores differ in `PutAccepted` only. `delivered`, `counted`,
`origin` and `base` are history variables: what the backend received, what committed runs
processed, where the chain of windows behind the stored checkpoint starts, and where the
chain starts that a task's own window continues (`Continue`: the stored chain if there
is a checkpoint at its load, else a chain that begins with this window). A commit makes
the chain of its task the stored one. With one task at a time the two are the same
after the first commit; two tasks that found no checkpoint each begin a chain of their
own. A tick of the clock stands for a
minute; `visible` grows as Langfuse ingests finished requests, at the latest
`MaxLag` after their start.

**Delivery.** The promise in three actions: the backend receives observations
(`Receive`, `ReceiveTwice`), and a `Commit` accounts for received observations that
no earlier commit accounted for and moves a frontier forward over received ones.
`CheckpointedRun` instantiates it as `Promise`: `received` and `committed` are its
histories `delivered` and `counted`, the frontier is the watermark minus the overlap,
`from` is `origin`, the start of the first committed window. `PromiseKept` is the refinement.

**LangfuseSource.** A record is its id and the listing a sequence of ids. The
client side is `iter_records`, `_iter_cursor_pages`, `_iter_numbered_pages`,
`_fetch_page` and `_get`; the server side (honest pages, and the malformed,
repeated, empty or mode-switching answers the client must survive) is external.

**Observations, Aggregation, Quality, Governance, RecordLoop.** The record pass of
`run` over raw records with the fields it and the accumulators look at.
`Observations` says when `parse_observation` rejects or blows up, which token count,
cost and time-to-first-token it takes, and which governed dimensions `normalize`
derives (accepted spellings are a table). `Aggregation` has the histogram
accumulator, `_hist_percentile` in exact fractions, `Aggregator.add` (`AddTo`) and
`build` (`Build`). `Quality` has the bounded sample of completion lengths with every
random index of algorithm R, the leave-one-out and cross-fitted scores as integer
comparisons (medians doubled, thresholds multiplied out), and the largest score of a
group in whole tenths (`OkScore`). `Governance` has the closed registry that the exporter
asserts: of every metric the type, the unit, the dimensions and their vocabularies.
`RecordLoop` folds the records and hands over `RunPoints(stats)`, everything one run
sends to the exporter: the points of the aggregator with the completion-ratio gauges,
those of the quality groups with the largest-score gauges, and the counters and gauges
of the run itself (read, processed, duplicate, quarantined, truncated, freshness, clock
skew, series emitted, and the source's counters where its `stats` have them,
`SourceStats`); `Heartbeats` are the points of the two heartbeats. `BatchResult` is an
independent definition of what should have been folded, from `_dedup` and the
checkpoint filter. A timestamp that cannot be converted to UTC (`Huge`) overflows like a
cost or a token count that is too large for a float, and is quarantined.

**OtlpExport.** The main flush, the health heartbeat and the final heartbeat, each
a POST with `max_retries` over a network that loses requests or answers, and what
a failure does to the flags of the run.

**CircuitBreaker.** `CircuitBreaker` and `_request_with_retry`: a call asks once,
sends up to `llm_max_retries + 1` requests, reports one success or failure, or is
cancelled and reports nothing. `since` is the age of `last_failure_time`, capped
just above the timeout, which is all `is_allowed` can tell apart.

**RateLimiter.** `check_rate_limit` in two round trips for each of the two scopes,
with Redis dropping expired keys, and `_enforce_rate_limits` on their verdicts. Both
scopes compute their bucket in one step because `gather` starts both coroutines in
one turn of the event loop. Time runs in ticks, `TicksPerSecond` of them to a second:
Redis counts time in milliseconds, the code computes its bucket from whole seconds, and
the TTL with which Redis answers is rounded to the nearest second (`TtlSeconds`).

**Gateway.** `validate_api_key`, the handler and its background tasks, for clients
whose requests are fixed by `RequestOf`. The limiter and the provider appear as
their outcomes. A cached response is represented by the client it was generated
for. The cache key is a text, as in the code: model, provider, tier and prompt are
sequences over `Words`, and `ModelKey` and `CacheKey` join them with colons, so two
requests can write the same key in different ways. `ToldApart` says when two requests
cannot. `redis_client = None` behaves as a Redis that fails on every call.

**GatewaySystem.** The same handler with `Limiter == INSTANCE RateLimiter` and
`Breaker == INSTANCE CircuitBreaker` in the place of these outcomes: a request's
`Admit` and `OverLimit` are those of its checks, its `Generate` and `GenerateFails`
the end of its call. Each client sends one request. The provider fails for reasons of
its own (`MaxOutages`): with an error, or by not answering at all (`silent`), which ends
with httpx's timeout (`TimesOut`; httpx bounds each read, so an answer that trickles in
without end is not among them). Or it refuses the key that goes with the request:
`key` is good, refused or missing, whichever of `KeysOf` holds. A missing key ends the
request before the breaker is asked (`FailsUnasked`). A `Restart` loses requests and the
breaker, but not Redis.

**ConnectionPool.** A request's session takes a connection with its first statement
and gives it back when the dependency is closed, after the background tasks
(`HoldThroughTasks`); the task that logs takes a second one. A wait that QueuePool
gives up becomes what the route makes of the exception: a 500, a 503, or zeros.

**Reports.** The rows of `request_logs` in the order of their commits, the usage
summary of a user, and the dashboard's four statements against one cutoff, each with
its own snapshot. A row has its cost, which a cache hit repeats, and its latency. The
figures are the code's: the number of requests, cost per thousand and hits in relation
to that number, and an average; quotients are kept as their two parts (`Ratio`; the
factors 1000 and 100 are left out). `created_at` is the time at which the transaction
starts and a row is visible from its commit; the model gives a row the time of its
commit, the single INSERT of a session of its own.

**Startup.** Any number of processes: `Start` validates the settings, the seed is a
SELECT and an INSERT under a unique constraint, the outcome of both is swallowed, the
process serves. Outages, crashes, new settings and deactivated keys come at any step.

## 3. Runs

All runs of `PROJECT.json` pass and enumerate the whole bounded state space.

| run | instance | what it shows |
|---|---|---|
| `checkpoint_serial` | file store, one task at a time, three observations (short, longer than the overlap, started during another), 6 ticks, 2 faults | `CountedOnce`, `DeliveredOnceWhenFaultless`, `PromiseKept` (the job implements Delivery), `EventuallyDelivered` |
| `checkpoint_overlap` | DynamoDB store, two overlapping tasks, two observations, windows of 2, no grace, `MaxRecords` 1 so that reads are truncated, 3 ticks, 1 fault (4.4M states) | `NothingSkipped`, `SeenRetained`, `CleanExitIsCommitted` |
| `source_read` | listings of 0 to 6 records, pages of 2, three server kinds, one late record, two faults of different kinds | `StableReadIsExact`, `TrustedReadIsWhole`, `RequestsBounded` |
| `record_loop` | every sequence of up to three of eight records, every series of six lengths that is four from {2, 40, 41} and then 3, 2, two longer inputs that hit `MaxRecords` 6, and one whose timestamps overflow; three prior seen maps, both groupings, with and without the provider dimension, source counters present or absent (80k states) | `StreamingMatchesBatch`, `EveryRecordAccounted`, `SeenCoversOverlap`, `PointsConserveObservations`, `PercentilesTrackRanks`, `PointsAccepted`, `SamplesAreBounded`, `AnomaliesAreOutliers` |
| `otlp_delivery` | 2 retries, all outcomes | `HealthIsTruthful`, `DuplicationBounded` |
| `circuit_breaker` | 3 calls, threshold 2, 1 retry, 1 cancellation | `OpenIffThresholdReached`, `OpenShedsLoad`, `FailedProbeReopens`, `Recovers` |
| `rate_limits` | two users of one API key, limit 1 in both scopes, buckets of 2 seconds of 3 ticks, 6 ticks, 1 fault (2.2M states) | `BucketLimit`, `RejectedOnlyWhenFull`, `RetryAfterReachesBucketEnd` |
| `gateway_requests` | 3 clients: a cheap request, a premium one with the demo key, and one for a model called "default" whose prompt begins with "cheap:", which writes the key text of the first; TTLs of 1 tick, 1 fault (230k states) | `ServedSameRequest`, `SuccessesLoggedOnce`, `DeactivatedKeyRefused` |
| `system_requests` | a demo request whose provider key is good or missing and one with an API key whose provider key is refused, one user with limit 1, threshold 1, 1 retry, 2 outages, 1 fault (210k states) | `ProviderLoadBounded`, `RefusedOnlyAfterFailures`, `EveryRequestAnswered` |
| `pool_requests` | three requests to any route over a pool of 3 | `ExhaustedOnlyUnderLoad`, `EveryRequestEnds` |
| `reports_snapshots` | one user, 3 rows of two costs and two latencies, 3 ticks, 1 fault (610k states) | `FiguresOfOneDay` |
| `startup_seeds` | two processes, two keys, 4 starts, 1 outage | `OneRowPerKey`, `ServingKeyIsSeeded`, `DeactivationStays`, `EveryStartServes` |

Type invariants that are theorems (section 5) are not checked again by a run.

### Bounds

* `MaxTime` (CheckpointedRun) leaves room for a run that fails, its retry, and two
  more windows; the windows follow each other by induction, so what can go wrong
  between windows already goes wrong between two of them. The theorems of section 5
  have no such bound. In the serial run `WindowMinutes` is 4, so that the first window
  reaches back over the start of the model. In the overlapping run it is 2 and the clock
  goes on to 3, so that a task can start more than a window minus the overlap after
  another one: both find no checkpoint, and the commit of the later leaves the gap of
  `CheckpointGap` (section 4), which `NothingSkipped` has to cope with.
* `MaxFaults` 2 covers a failure and a second one during its retry; with 1 in the
  overlapping run one task fails while the other commits.
* Three observations are the kinds the overlap distinguishes: those that end inside
  the horizon, those that outlive it, and those that start while another one is
  hidden. `MaxLag` = grace + overlap is the largest delay for which the job promises
  anything; it is counted from the *start* of a request because Langfuse filters by
  start time.
* Three ticks to a second let Redis round a TTL down (a third over) and up (two thirds);
  with two a TTL would never be rounded down.
* Listings of 0 to 6 with pages of 2 contain the empty listing, partial and exactly
  full last pages, and listings that need as many pages as `MaxPages` allows, and more.
* Six lengths with a sample of 5 overflow it, and with cross-fitting above 4 values
  both ways to build a baseline occur; 40 against 2 and 3 is an outlier, 3 against 2 is
  one only where the baseline is constant, and of 2, 3, 40 and 41 each is one.
* The bounds 2 and 4 of the histogram put the latencies of the records in the
  first, the middle and the overflow bucket.
* `MaxFailures` in CircuitBreaker stops the failure counter. Failures after it are
  not explored; the counter is only compared with the threshold 2, and the theorems
  hold for every value.
* One fault in RateLimiter, Gateway and GatewaySystem is a lost call at any place;
  every await has a failing alternative. In GatewaySystem the bound is on the faults of
  the handler, of the limiter and of the process together.
* GatewaySystem has two clients: one whose failures open the breaker and one that meets
  it open, or two that share a bucket. More clients are left to the theorems about its
  parts. Two outages make a call fail in both of its attempts, each in its own way.
* Three requests over three connections are enough for each to hold one and all to
  wait for the second. The theorem about the pool has no such bound.
* Two processes race for a row, and a third and fourth start (of either) come after it.
* With a day of one tick and three ticks rows age out while the dashboard reads.

### Fairness

`CheckpointedRun`: the clock, Langfuse's ingestion, the scheduler (EventBridge
launches the job again) and a process that was not killed make progress. Nothing is
assumed about failures, which `MaxFaults` makes finitely many; with infinitely many
no delivery can be promised. `CircuitBreaker`: the clock runs, callers keep calling,
every attempt ends (httpx timeouts), every pause ends; that the provider answers
in the end is `MaxFailures`: finitely many failures between successes.
`Gateway`: Redis ages its entries and the event loop runs each request; there is no
fairness on clients, operators or crashes. `GatewaySystem` has its fairness in three
parts. `ProcessRuns`: the event loop runs each request, httpx's timeout ends every
attempt, answered or not, and tenacity's pauses end. `RedisAnswers` and
`DatabaseAnswers`: their calls end, with an answer or an error. The code bounds no call
to Redis (`db/redis.py:13` sets no socket timeout), so that is an assumption about Redis
and the network, on which `EveryRequestAnswered` rests, as does
`DeactivatedKeyRefused`; neither says anything of a Redis that keeps a connection open
and is silent.
`ConnectionPool`: the event loop runs what can run and QueuePool's timeout ends every
wait; without that timeout `EveryRequestEnds` fails (its mutant). `Startup`: a process
that was started and not killed goes on; the database need not come back.

## 4. Where the code and its descriptions differ

The runs above check what the code does promise. The configurations below instantiate
the same modules with a property that a document, comment or test of the repository
states and the code does not keep; TLC ends each with a counterexample.

| configuration | property | what the code does | what is said |
|---|---|---|---|
| `CheckpointRegress` | `WatermarkMonotone` | a task that stalls before its load stores an older watermark: `window_end` is fixed first and the load refreshes the version (`pipeline.py:83`) | `DESIGN_APPENDIX.md:223` "delivery remains at-least-once, never a clobbered watermark" |
| `CheckpointStaleSeen` | `CountedOnce` | a commit between the two loads leaves an old window start with a newly pruned seen map (`cli.py:186`) | `checkpoint.py:9` "de-duplicated ACROSS runs rather than double-counted" |
| `CheckpointFirstWindow` | `RetriedFromSamePoint` | before the first commit a retry starts its window at a later time (`cli.py:179`) | `checkpoint.py:14-16` "a failed run is safely retried from the same point" |
| `CheckpointGap` | `CommitLeavesNoGap` | two tasks that found no checkpoint each read their own `--window-minutes`; the later of the two commits over the earlier one, though its window starts after the stored watermark, and what lies in between is never read (`cli.py:178-189`) | `DESIGN_APPENDIX.md:223` "delivery remains at-least-once, never a clobbered watermark" |
| `SourceShift` | `CompleteReadIsWhole` | a numbered read misses a record when the listing grows: `total_pages` is read once (`langfuse_api.py:199`) | `DESIGN.md:102` "An incomplete read is never checkpointed." |
| `GatewayLogs` | `AllRequestsLogged` | the row of a refused or failed request is queued on tasks that the exception leaves behind (`inference.py:331`) | `docs/security.md:38` "All requests are logged with a unique `request_id`." |
| `GatewayProvider` | `ServedWhatWasRequested` | with a model override the cache key has no provider (`inference.py:206`) | `inference.py:205` "a logical caching key based on what the user requested" |
| `RateSliding` | `SlidingWindowLimit` | twice the limit can pass across the boundary of fixed buckets (`rate_limiter.py:15`) | `docs/concepts.md:43` "Enforced via Redis sliding windows" |
| `SystemNeighbours` | `NeighboursUnaffected` | a refused provider key of one tenant opens the breaker of all (`llm_client.py:144`) | `docs/concepts.md:7` "strictly isolate traffic, quotas, and logs" |
| `SystemFallbacks` | `BadGatewayAfterFallbacks` | no fallback model is tried (`inference.py:182`) | `docs/api-reference.md:84` "The upstream provider failed and all fallbacks were exhausted." |
| `ReportsRatio` | `HitRatioIsARatio` | hits are counted after requests (`dashboard.py:34`) and can exceed them | `dashboard.py:15` "cache hit ratio" |
| `ReportsCost` | `UsageCostIsSpent` | a cache hit is logged with the cached cost (`inference.py:243`) | `docs/getting-started.md:88`: a hit saves "both latency and token costs" |
| `StartupAdmin` | `DefaultKeyIsAdmin` | the seed gives no role, the column's default is "tenant" (`seed.py:27`) | `docs/authentication.md:41` "This key has permissions to hit administrative endpoints" |
| `StartupBuiltin` | `ProductionRejectsBuiltin` | the built-in key is accepted in production (`config.py:138`) | `tests/test_settings.py:12-14`, which expects a `ValidationError` |

Further observations: a truncated window is exported again by every retry
(`pipeline.py:125`), so `DeliveredOnceWhenFaultless` is checked without truncation. Both
tiers are answered by the same OpenRouter model (`llm_client.py:292`). A request keeps its
session's connection while its log is written with a second one (`session.py:54`), so the
writes of finished requests can keep a client waiting. The cache key joins free texts with
colons (`inference.py:206`, `cache.py:17`): the model override "default:cheap", a provider
called "default", or the model "default" with a prompt that begins with "cheap:" write the
key of a plain cheap request, and are served its completion. `ServedSameRequest` therefore
promises a completion for the same key text, and for the same request only where names
tell the two apart (`ToldApart`). Retry-After may end up to half a second before the bucket
does, because Redis rounds the TTL (`rate_limiter.py:15,35-51`): `RetryAfterLeavesBucket`
is false, `RetryAfterReachesBucketEnd` is what remains. Without a provider key a request is
answered 502 without an attempt and without a recorded failure (`llm_client.py:172`), so
`RefusedOnlyAfterFailures` is about requests that have one. The dashboard divides what one
statement said by what an earlier one did (`dashboard.py:30-36`): both quotients are off by
the rows committed in between, and the hit ratio can pass 100%. An empty numbered page before the
last ends the read normally (`langfuse_api.py:205`), which `TrustedReadIsWhole` excludes.
The final heartbeat carries the conflict counter and is retried, so a conflict may be counted twice
(`otlp_http.py:86`). `AnomalyConfig` admits `min_sample` 1 (`config.py:58`), with which a
group of one is scored against an empty baseline and the median raises
(`QualityAssumption` excludes it; the command line always uses 30). In an even
group every length can be flagged: without any one of 2, 3, 40 and 41 the rest lies close
to the other side. `AnomaliesAreOutliers` therefore says of groups with a middle value only
that they are never flagged as a whole, and it asks for a threshold above 0.6745, the score
of the median deviation itself (`AnomalyConfig` accepts any positive one).

## 5. Theorems

All proofs are checked by tlapm with no unproved step.

`CheckpointedRunProofs`:

| theorem | assumes | establishes |
|---|---|---|
| `TypeCorrect` | - | `TypeOK` |
| `SeenSound` | - | the seen map suppresses only delivered observations inside the horizon |
| `SeenNeverForgotten` | `ConditionalPut` | no commit forgets an id inside its horizon |
| `CleanExit` | - | exit status 0 only after a commit of everything read |
| `NoRecount` | `~Overlapping` | no observation is counted by two committed runs |
| `WatermarkAdvances` | `~Overlapping` | the watermark never moves backwards |
| `NoSkip` | `MaxLag <= GraceMinutes + OverlapMinutes` | `NothingSkipped`: what starts between the origin of the stored chain and its watermark minus the overlap was delivered |
| `KeepsPromise` | `~Overlapping`, `MaxLag <= GraceMinutes + OverlapMinutes` | `PromiseKept`: the job implements Delivery |
| `DeliversOnce` | `~Overlapping`, no more observations than `MaxRecords` | nothing is delivered twice before the first fault |

`KeepsPromise` maps initial states to initial states and every step to a step of
Delivery or a stutter. An export is a `Receive`, a successful save a `Commit`; that the
commit is allowed is what `SeenInv` and `CountedInv` below say in the state before it and
`NothingSkipped` in the state after it.

They hold for any number of tasks and observations, any placement of these in
time, any window, grace, overlap and number of faults. None of the properties is
inductive. The argument goes in two layers.

`CommonInv` holds in every configuration. `VersionInv`: a task whose expected
version is still the stored one holds the stored seen map, so a put that passes the
condition is built from what it replaces. `SeenInv`: every id in a seen map,
stored or loaded, was delivered and counted. `OutcomeInv`: a clean `raised` stands
for a delivered read and, after the save, for a committed one.

`SerialInv` needs one task at a time. `WindowInv`: a running job's window starts at
the stored watermark minus the overlap and ends no earlier than the watermark.
`CountedInv`: a counted observation that a later window can still reach is in the
seen map; this is what makes `CountedOnce` inductive, and it rests on an
observation ending no earlier than it starts.

`NoSkip` does without `SerialInv`: it holds of overlapping tasks too. `CoverageInv`: a hidden
observation is younger than `MaxLag`, hence a complete read holds everything in its
window that is older than the overlap. `ChainInv`: everything that starts between the
`base` of a task's chain and the start of its window was delivered. So a commit, which
makes the chain of its task the stored one, covers everything from the new `origin` on.
What lies before it is not covered: where two tasks begin a chain each, that is the gap
of `CheckpointGap`. `DeliversOnce` adds `FaultlessInv`: what was
delivered was committed, or is what the running job has just exported, which `CountedInv`
keeps out of the next run. Its second assumption means that no read is truncated; the
retries of a truncated one do export it again (section 4).

`CircuitBreakerProofs`: `ThresholdExact` (closed exactly while fewer than
`failure_threshold` failures since the last success) and `ProbeFailure` (a failure
recorded while not closed opens the breaker and restarts its timeout), for any
number of calls, from the invariant `BreakerInv`. `LoadShed` (`OpenShedsLoad`) counts:
`LoadInv` says that what was sent while the breaker was open, together with the retries
that the calls under way have left (`Remaining`), never exceeds the retries of all calls
but the one that opened it. Every send moves one from the second to the first.
`RestartsRunOut` is the part of `Recovers` that needs no fairness: while an open breaker
turns calls away, no call joins those under way, and each restart of its timeout is the end
of one of them. So late failures extend the lock-out at most as often as there are such
calls; that they end and that the clock runs is what fairness adds.

`RateLimiterProofs`: `LimitKept` (`BucketLimit`), for any number of concurrent checks,
any limits, windows and faults. `LimitInv` says that no counter expires before the end
of its bucket (`DeadlineInv`, from `KeyedInv`), and that until then it is at least the
number of the checks it let pass, which are never more than the limit (`CountInv`).
`RejectedWhenFull` (`RejectedOnlyWhenFull`) is the other direction: in `ReachedInv` a
counter is at most the number of checks of its key that reached Redis, also where it was
dropped and started again. `RetryReachesBucketEnd` (`RetryAfterReachesBucketEnd`) follows
from `DeadlineInv`, for any number of ticks to a second: rounding takes off half a second
at most.

`GatewayProofs`, the handler: `LoggedOnce` (`SuccessesLoggedOnce`), from `LogInv`, which
says for each step of a request how many rows and tasks it has; and `ServedRight`
(`ServedSameRequest`), from `CacheInv`: what is stored under a key was generated for
a request with that key. The rest is about texts: where the names of two requests contain
no colon and `ToldApart` holds, equal key texts have their first colon in the same place,
hence equal models, tiers and prompts. `GatewayProvider` shows two requests that `ToldApart`
leaves out.
`RenewalsRunOut` and `RefusedForGood` are the part of `DeactivatedKeyRefused` that needs no
fairness. Once a key is inactive, its cached context is renewed only by a request that had
read it before (`Holding`), each at most once, and no other request reads it again. Once
those are gone and the context has expired (`KeyGone`), it stays so, and from then on only
requests with the built-in key are authenticated.

`GatewayProofs`, the composition: `SystemRunsHandler` and `SystemRunsLimiter` say that
every behaviour of GatewaySystem is one of Gateway's and one of RateLimiter's
specification, so that their theorems hold of it; every step of the process maps to a
step of each or leaves it alone. (It is not one of CircuitBreaker's: a restart closes the
breaker, and a call ends with its request.) `ProviderLoad` (`ProviderLoadBounded`) needs
`BucketLimit` of the limiter and `ProviderInv`, which ties the handler's step, the
checks and the call of one request together: what was sent was sent for an admitted
request, at most `llm_max_retries + 1` times. `RefusedAfterFailures`
(`RefusedOnlyAfterFailures`), for requests that have a key, adds `FailedInv`: each failure
that the breaker counts is a different request that was sent and answered with 502.

`DatabaseProofs`: `TypeCorrect`, which bounds the connections in use by the
capacity, and `ExhaustionNeedsLoad` (`ExhaustedOnlyUnderLoad`), for any number of
requests and any capacity. `PoolInv`: only a request under way holds a session's
connection and only one that writes its log a second one; so the connections in use
are at most twice the requests under way, whose largest number is `peak`.
`DashboardOfOneDay` (`FiguresOfOneDay`): there are four prefixes of the log, none shorter
than the one before, from which the four statements get exactly the figures shown, each
counting its rows from the same cutoff. Rows are only appended and the cutoff is fixed
once, so what a statement saw stays as it was (`DayInv`), for any rows, costs and latencies
and statements at any distance.

`StartupProofs`: `OneRow`, `ServingSeeded` and `NoReactivation`, for any number of
processes and starts, from `SeedInv`, which ties the step of a process to what its SELECT
saw: a process past the seed without a failed statement has its key in the table, and
rows are never removed.

`SliClientsProofs`, the reader: `Requests` (`RequestsBounded`), `ReadIsWhole`
(`TrustedReadIsWhole`) and `ReadIsExact` (`StableReadIsExact`), for listings of any
length, any page size and whatever the server answers, from `SourceInv`. `RequestsInv`:
each page allows for `max_retries + 1` requests. `PlaceInv`: a cursor is a record of the
listing, and the numbered pages announced reach over all that was listed at first.
`WholeInv`: unless a page was wrongly empty, what was listed at first up to the place of
the read was yielded; insertions in front only push that place back over records that
were yielded already. `ExactInv`: the read of a stable listing has yielded its prefix.

`SliClientsProofs`, the exporter: `HealthTruthful` and `Duplication` (`HealthIsTruthful`,
`DuplicationBounded`), for any number of retries and any losses, from `ExportInv`, which
says how often a document can have arrived at each stage and attempt (`CopiesInv`) and
which arrivals a flag that is still set stands for (`FlagsInv`).

`RecordLoopProofs`: `Accounted` (`EveryRecordAccounted`) and `SeenCovers`
(`SeenCoversOverlap`), for every input, prior seen set, cutoff and safety valve.
Furthermore:

* `MatchesBatch` (`StreamingMatchesBatch`): what was folded is what the batch rules keep
  of the records read so far. `BatchInv`: the batch of the run has exactly the ids of its
  usable records, and the newest end is one of theirs. The sequence of the kept records
  is defined by its increasing enumeration, so a record that is kept extends it at the
  end and one that is not leaves it alone.
* `SamplesBounded` (`SamplesAreBounded`), for every cap and every random index.
  `SampleInv`: algorithm R's counter of a group is the number of the lengths folded into
  it, hence the sample is the whole group until the counter passes the cap and from then
  on exchanges one of its members for the length that was just folded.
* `Outliers` (`AnomaliesAreOutliers`) follows from `SampleInv`, for every cap, every
  threshold and every group that is scored against all its other members. The score of a
  length depends on how often each value occurs and not on where: the nearest-rank value of
  a multiset is characterised by counting what lies below it. Removing a length from an odd
  group leaves an even one with two middle values; the middle value of the group is one of
  them or lies between them, and so it deviates by no more than the median deviation. A
  length alone among equal ones meets a constant baseline, the others a baseline that is
  constant but for one value. The largest score does not depend on the order of the sample
  either.
* `Conserved` (`PointsConserveObservations`): no two points are one time series, and each
  counter is what the observations folded with its dimensions add up to. `TallyInv`: the
  accumulators hold a series exactly for the dimensions that were folded, and under each
  the number of the folded observations that are reported there (`Reports`).
* `PercentilesTrack` (`PercentilesTrackRanks`), for every ascending list of bounds.
  `HistInv`: a histogram has in each bucket the number of the latencies that fall into it,
  and their extremes. Because buckets are monotone in the latency, the bucket in which the
  cumulated counts reach a rank is that of the latency of this rank, and the estimate,
  interpolated and clamped, stays in it; a higher rank gives a higher or the same bucket,
  and in one bucket a larger fraction.
* `Accepted` (`PointsAccepted`): no point of a run or of its heartbeats breaks the metric
  contract, neither by its dimensions nor by its type and unit. `GovernedInv`: every
  series that was opened has governed dimensions, whatever the record said; `Build`, the
  scores and the run's own points then add vocabulary of their own only, each with the
  type and unit of its metric.

SliClientsProofs and DatabaseProofs extend two components each; OtlpExport and Reports
have `ExportSpec`, `ReportsSpec` and the like for names because of that.

Each module also proves the type invariant it needs, except CircuitBreaker and
RecordLoop, whose invariants carry their own types. Every invariant named here was
checked by TLC on the instance of section 3 before it was proved; `TallyInv` and `HistInv`
are stated next to their proofs, the others in the module they are about.

The cumulated counts of a histogram and the mean deviation of a sample are folds, and what a
fold computes is proved by induction over the subsets of a finite set. tlapm's backends
cannot use the library's induction theorems, which take an operator as a parameter; the
lemma `SubsetInduction` says it of a set of sets instead: one that contains a subset of S
whenever it contains all that lack one of its elements contains every subset of S. It
follows from the well-foundedness of the natural numbers (`WFMin`, by way of `LeastNat`).

The assumptions on constants are the ones TLC evaluates on every run: counts and limits
are natural numbers, capacities and page sizes positive, sets of clients, requests or calls
finite; what clients write is a sequence over `Words`, which hold the colon and "default"
(`GatewayAssumption`); the source's counters are natural numbers (`SourceStats` in
`LoopAssumption`); the ids of a listing differ (`SourceAssumption`); the times, token counts and costs
of a raw record are integers or one of the markers for a missing or bad value (`Numeric` in
`LoopAssumption`); the bounds of a histogram are a non-empty ascending sequence
(`BoundsAssumption`), as `Config.__post_init__` demands, and here of integers; and what the
spelling tables normalise to is registered (`GovernanceAssumption`), which
`Config.__post_init__` demands of teams and routes and the maps of `normalize.py` do for the
rest.

Only model-checked are the liveness properties `EventuallyDelivered`, `Recovers`,
`DeactivatedKeyRefused`, `EveryRequestAnswered`, `EveryRequestEnds` and `EveryStartServes`:
fairness and ENABLED are out of the prover's reach. Every safety invariant and every action
property of a run is stated by a theorem.

## 6. Not modelled

* HTTP, JSON, header and timestamp syntax; formatting, logs, spans, Prometheus.
* Rounding of money and ratios; cardinality estimates of metrics; the validation of the
  job's configuration.
* The file source and the console and JSON exporters: input and output of whole files.
* The list of recent errors and the log listing (order and limit only), declarations
  of columns, URL rewriting and the operator's command line.
* Arithmetic of the router (token estimate and threshold): its decision is an input.
* The Azure and Anthropic request functions, which `generate_completion` never
  reaches, and `llm_mode = simulated`, which has no state.
* The frontend, the web site, migrations and deployment files.

## 7. Plan

Done: CheckpointedRun, its proofs and its refinement of Delivery; LangfuseSource;
Observations to RecordLoop and their proofs; OtlpExport; CircuitBreaker, RateLimiter and
Gateway with their proofs, and their composition; ConnectionPool, Reports and Startup.
What would come next:

1. A composition of LangfuseSource, RecordLoop and OtlpExport under the `ReadWindow` and
   `Export` of CheckpointedRun.
2. An abstract limiter (so many passes per bucket) and an abstract breaker, implemented by
   RateLimiter and CircuitBreaker, so that ProviderLoad can be stated about them alone;
   the part of `EventuallyDelivered` that needs no fairness, as for `Recovers` and
   `DeactivatedKeyRefused`: that a read which fails or is truncated leaves the window to be
   read again in full.
3. Several processes in GatewaySystem, each with a breaker, over one Redis.
