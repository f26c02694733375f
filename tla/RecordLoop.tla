------------------------------ MODULE RecordLoop ------------------------------
(***************************************************************************)
(* The streaming pass of gateway_sli.pipeline.run: raw records are pulled  *)
(* from a source that may fail at any point, rejected, de-duplicated       *)
(* against the batch and against the checkpoint's seen map, and folded     *)
(* into the aggregator, the length samples and the seen map of the run;    *)
(* then the metric points the run hands to its exporter.                   *)
(*                                                                         *)
(* The records are those of Observations; the aggregator is Aggregation,   *)
(* the length samples Quality, the contract on points Governance.          *)
(***************************************************************************)
EXTENDS Governance, SequencesExt

CONSTANTS
  Inputs,     \* sequences of raw records the source may yield
  Priors,     \* possible prior_seen sets
  SourceStats,\* possible source.stats: functions of the fields it keeps
  WindowEnd,  \* window_end
  Cutoff,     \* window_end - overlap
  MaxRecords  \* max_records

ASSUME LoopAssumption ==
  /\ MaxRecords \in Nat \ {0}
  /\ WindowEnd \in Int /\ Cutoff \in Int /\ Cutoff <= WindowEnd
  /\ \A s \in Inputs : Len(s) \in Nat /\ \A i \in 1..Len(s) : Numeric(s[i])
  /\ \A stats \in SourceStats : \A f \in DOMAIN stats : stats[f] \in Nat

VARIABLES
  input,      \* what the source has to give
  prior,      \* prior_seen
  byProvider, \* cfg.include_provider_region
  byModel,    \* cfg.anomaly.baseline_grouping is route_model
  pc,         \* "reading", "done"
  recordsRead, quarantined, duplicates, crossRun, processed,
  malformed,  \* stats.malformed: without the reason "unexpected_error"
  seenBatch,  \* seen_batch
  added,      \* history: observations passed to aggregator.add
  agg,        \* aggregator
  quality,    \* quality_acc
  currentSeen,\* keys of current_seen
  maxEnd,     \* max_end
  truncated,  \* read_truncated
  sourceOk    \* source_error is None

counters == <<recordsRead, malformed, quarantined, duplicates, crossRun, processed>>
folded == <<added, agg, quality, currentSeen, maxEnd>>
config == <<byProvider, byModel>>
vars == <<input, prior, config, pc, counters, seenBatch, folded, truncated, sourceOk>>

Init ==
  /\ input \in Inputs
  /\ prior \in Priors
  /\ byProvider \in BOOLEAN /\ byModel \in BOOLEAN
  /\ pc = "reading"
  /\ recordsRead = 0 /\ malformed = 0 /\ quarantined = 0
  /\ duplicates = 0 /\ crossRun = 0 /\ processed = 0
  /\ seenBatch = {}
  /\ added = <<>>
  /\ agg = NewAggregator
  /\ quality = NoLengths
  /\ currentSeen = {}
  /\ maxEnd = NoTime
  /\ truncated = FALSE
  /\ sourceOk = TRUE

\* parse_observation returns.
Parses(r) == ~Malformed(r) /\ ~Poison(r)

\* A well-formed record with an id.
Usable(r) == Parses(r) /\ r.id # ""

\* The record the source yields next.
Raw == input[recordsRead + 1]

\* A further record is pulled and the safety valve is not hit.
Pulled ==
  /\ pc = "reading"
  /\ recordsRead < Len(input)
  /\ recordsRead < MaxRecords
  /\ recordsRead' = recordsRead + 1
  /\ UNCHANGED <<input, prior, config, pc, truncated, sourceOk>>

\* A record that is only counted.
Untouched == UNCHANGED <<seenBatch, folded>>

\* MalformedObservation.
RejectMalformed ==
  /\ Pulled
  /\ Malformed(Raw)
  /\ malformed' = malformed + 1
  /\ UNCHANGED <<quarantined, duplicates, crossRun, processed>>
  /\ Untouched

\* Mutant of Quarantine: stats.malformed does not leave out quarantined records.
QuarantineTwice ==
  /\ Pulled
  /\ Poison(Raw)
  /\ quarantined' = quarantined + 1
  /\ malformed' = malformed + 1
  /\ UNCHANGED <<duplicates, crossRun, processed>>
  /\ Untouched

\* Any other exception of parse_observation: the poison record is contained.
Quarantine ==
  /\ Pulled
  /\ Poison(Raw)
  /\ quarantined' = quarantined + 1
  /\ UNCHANGED <<malformed, duplicates, crossRun, processed>>
  /\ Untouched

\* A blank id cannot be de-duplicated.
RejectBlankId ==
  /\ Pulled
  /\ Parses(Raw) /\ Raw.id = ""
  /\ malformed' = malformed + 1
  /\ UNCHANGED <<quarantined, duplicates, crossRun, processed>>
  /\ Untouched

Identified == Usable(Raw)

\* The id was already in this batch.
DropDuplicate ==
  /\ Pulled
  /\ Identified /\ Raw.id \in seenBatch
  /\ duplicates' = duplicates + 1
  /\ UNCHANGED <<malformed, quarantined, crossRun, processed>>
  /\ Untouched

\* Mutant of DropCrossRun: the id is not remembered for this batch.
DropCrossRunForget ==
  /\ Pulled
  /\ Identified /\ Raw.id \notin seenBatch /\ Raw.id \in prior
  /\ crossRun' = crossRun + 1
  /\ UNCHANGED <<seenBatch, malformed, quarantined, duplicates, processed, folded>>

\* The id was counted by an earlier run.
DropCrossRun ==
  /\ Pulled
  /\ Identified /\ Raw.id \notin seenBatch /\ Raw.id \in prior
  /\ seenBatch' = seenBatch \cup {Raw.id}
  /\ crossRun' = crossRun + 1
  /\ UNCHANGED <<malformed, quarantined, duplicates, processed, folded>>

\* Mutant of SeenAfter: only records past the window's end are remembered.
SeenAfterWindow(S, r) == IF r.end >= WindowEnd THEN S \cup {r.id} ELSE S

\* current_seen is bounded to the overlap horizon.
SeenAfter(S, r) == IF r.end >= Cutoff THEN S \cup {r.id} ELSE S

MaxEndAfter(t, r) == IF r.end > t THEN r.end ELSE t

\* The observation is folded in.
Process ==
  /\ Pulled
  /\ Identified /\ Raw.id \notin seenBatch /\ Raw.id \notin prior
  /\ seenBatch' = seenBatch \cup {Raw.id}
  /\ added' = Append(added, Parse(Raw))
  /\ agg' = AddTo(agg, Parse(Raw), byProvider)
  /\ quality' \in AddLength(quality, Parse(Raw), byModel)
  /\ processed' = processed + 1
  /\ maxEnd' = MaxEndAfter(maxEnd, Raw)
  /\ currentSeen' = SeenAfter(currentSeen, Raw)
  /\ UNCHANGED <<malformed, quarantined, duplicates, crossRun>>

Finish(ok, cut) ==
  /\ pc = "reading"
  /\ pc' = "done"
  /\ sourceOk' = ok
  /\ truncated' = cut
  /\ UNCHANGED <<input, prior, config, counters, seenBatch, folded>>

\* The source is exhausted.
EndOfInput == recordsRead = Len(input) /\ Finish(TRUE, FALSE)

\* max_records were read and the source yields another record.
Truncate ==
  /\ recordsRead < Len(input)
  /\ recordsRead >= MaxRecords
  /\ Finish(TRUE, TRUE)

\* guarded_records: the source raises instead of yielding.
SourceFails == Finish(FALSE, FALSE)

Over == pc = "done" /\ UNCHANGED vars

Next ==
  \/ RejectMalformed \/ Quarantine \/ RejectBlankId \/ DropDuplicate
  \/ DropCrossRun \/ Process \/ EndOfInput \/ Truncate \/ SourceFails \/ Over

Spec == Init /\ [][Next]_vars

-----------------------------------------------------------------------------
(* What the run hands to its exporter                                      *)

SelfPoints ==
  {Point(Count, "pipeline.records_read", <<>>, recordsRead),
   Point(Count, "pipeline.records_processed", <<>>, processed)}
  \cup {p \in {Point(Count, "pipeline.cross_run_duplicate_records", <<>>, crossRun),
               Point(Count, "pipeline.quarantined_records", <<>>, quarantined),
               Point(Gauge("1"), "pipeline.read_truncated", <<>>, One(truncated)),
               Point(Count, "pipeline.records_missing_cost", <<>>, agg.missing),
               Point(Count, "pipeline.records_invalid_cost", <<>>, agg.invalid)} : p.value > 0}

\* The counters of the source, where it keeps them.
SourcePoints(stats) ==
  {p \in {Point(Count, "pipeline.source_requests", <<>>, At(stats, "requests", 0)),
          Point(Count, "pipeline.source_retries", <<>>, At(stats, "retries", 0)),
          Point(Count, "pipeline.source_pages", <<>>, At(stats, "pages", 0)),
          Point(Gauge("s"), "pipeline.source_latency_seconds", <<>>,
                At(stats, "latency_seconds", 0))} : p.value > 0}

\* How old the newest observation is, or how far past the window.
FreshnessPoints ==
  LET behind == WindowEnd - maxEnd
      point(name, v) == Point(Gauge("s"), name, <<>>, v)
  IN  IF maxEnd = NoTime THEN {}
      ELSE {point("pipeline.freshness_seconds", Max({0, behind}))}
           \cup (IF behind < 0 THEN {point("pipeline.clock_skew_seconds", -behind)} ELSE {})

\* The points of the observations, and the number of their time series.
Workload == Build(agg, malformed, duplicates, byProvider) \cup QualityPoints(quality)

SeriesPoint ==
  Point(Gauge("1"), "pipeline.series_emitted", <<>>,
        Cardinality({p \in Workload : p.name \in RequestMetrics \cup CostMetrics}))

\* The points of export.
RunPoints(stats) ==
  Workload \cup SelfPoints \cup SourcePoints(stats) \cup FreshnessPoints \cup {SeriesPoint}

\* The points of the two heartbeats, the duration of the run a bare zero.
Heartbeats(exported, conflict) ==
  {Point(Gauge("1"), "pipeline.export_success", <<>>, One(exported)),
   Point(Gauge("s"), "pipeline.run_duration_seconds", <<>>, 0)}
  \cup (IF sourceOk THEN {} ELSE {Point(Gauge("1"), "pipeline.source_success", <<>>, 0)})
  \cup (IF conflict THEN {Point(Count, "pipeline.checkpoint_conflicts", <<>>, 1)} ELSE {})

-----------------------------------------------------------------------------
(* The batch rules the streaming pass must agree with                      *)

\* The k-th of a set of numbers, in ascending order.
Nth(S, k) == CHOOSE i \in S : Cardinality({j \in S : j <= i}) = k

\* The elements of a sequence at a set of places, in order.
ElementsAt(s, S) == [k \in 1..Cardinality(S) |-> s[Nth(S, k)]]

\* Where the part of the input that was consumed has usable records.
UsableAt == {i \in 1..recordsRead : Usable(input[i])}

UsableIds == {input[i].id : i \in UsableAt}

\* _dedup on the usable records, then the checkpoint filter: the first record of
\* every id, except the ids the checkpoint knows.
Kept == {i \in UsableAt : /\ \A j \in UsableAt : j < i => input[j].id # input[i].id
                          /\ input[i].id \notin prior}

BatchResult == ElementsAt([i \in 1..recordsRead |-> Parse(input[i])], Kept)

-----------------------------------------------------------------------------
(* Properties                                                              *)

\* The streaming pass folds exactly the observations of the batch rules, in order,
\* counts duplicates the same way (pipeline.py: "so counts match the batch
\* implementation"), and measures freshness from the newest of them.
StreamingMatchesBatch ==
  /\ added = BatchResult
  /\ duplicates = Cardinality(UsableAt) - Cardinality(UsableIds)
  /\ crossRun = Cardinality(UsableIds \cap prior)
  /\ maxEnd = Max({r.end : r \in ToSet(BatchResult)} \cup {NoTime})

\* Every record read is accounted for exactly once, and a clean pass (no truncation,
\* no source error), the only one that is checkpointed, has read the whole input.
EveryRecordAccounted ==
  /\ recordsRead = processed + malformed + quarantined + duplicates + crossRun
  /\ pc = "done" /\ sourceOk /\ ~truncated => recordsRead = Len(input)

\* The run's seen map covers every folded observation that a later window, which
\* starts at the cutoff, can read again, and holds no other id.
SeenCoversOverlap ==
  currentSeen = {r.id : r \in {x \in ToSet(added) : x.end >= Cutoff}}

\* The counters an observation adds one to, by name and dimensions.
Reported(o) ==
  LET cost == CostDims(CostKey(o, byProvider), byProvider)
      on(b, name, dims) == IF b THEN {<<name, dims>>} ELSE {}
  IN  {<<"request.duration", o.dims>>, <<"cost.request_count", cost>>,
       <<"request.count", Put(o.dims, "outcome", IF o.error THEN "error" ELSE "success")>>}
      \cup on(o.ttft # NoTime, "request.ttft", o.dims)
      \cup on(o.error, "request.errors", Put(o.dims, "error_category", o.category))
      \cup on(o.missing, "cost.records_missing", cost)
      \cup on(o.invalid, "cost.records_invalid", cost)
      \cup on(~o.error /\ o.out = 0, "quality.empty_completion_count", QualityKey(o, byModel))

Counters ==
  {"request.duration", "request.ttft", "request.count", "request.errors", "cost.request_count",
   "cost.records_missing", "cost.records_invalid", "quality.empty_completion_count"}

\* How many observations of a sequence report a counter.
Reports(s, series) == Cardinality({i \in DOMAIN s : series \in Reported(s[i])})

\* The points of a run lose and invent nothing: no two of them are the same time
\* series, each counter has the number of the observations that were folded with its
\* dimensions, and all they report is there (build and run turn the per-series
\* accumulators into points).
PointsConserveObservations ==
  pc = "done" => \A stats \in SourceStats :
    LET points == RunPoints(stats)
        series(p) == <<p.name, p.dims>>
    IN  /\ \A p, q \in points : p.name = q.name /\ p.dims = q.dims => p = q
        /\ \A p \in points : p.name \in Counters => p.value = Reports(added, series(p))
        /\ UNION {Reported(o) : o \in ToSet(added)} \subseteq {series(p) : p \in points}

\* The exporter takes every point of the run and of its heartbeats: none breaks the
\* metric contract in name, type, unit or dimensions, for which assert_allowed would
\* reject all of them, in this run and in every retry (governance.py: "exactly one
\* place to reason about what may be emitted").
PointsAccepted ==
  pc = "done" =>
    /\ \A stats \in SourceStats : \A p \in RunPoints(stats) : Allowed(p)
    /\ \A exported, conflict \in BOOLEAN : \A p \in Heartbeats(exported, conflict) : Allowed(p)

\* group_completion_lengths of observations: the lengths of one group.
LengthsIn(s, grouping, k) ==
  LET measured(o) == ~o.error /\ o.out > 0 /\ QualityKey(o, grouping) = k
  IN  ElementsAt([i \in DOMAIN s |-> s[i].out], {i \in DOMAIN s : measured(s[i])})

LengthsOf(k) == LengthsIn(added, byModel, k)

Occurrences(s, v) == Cardinality({i \in DOMAIN s : s[i] = v})

\* A bounded sample of some values: all of them while they are few.
SampleOf(all, kept) ==
  /\ Len(kept) = Min({Len(all), SampleCap})
  /\ \A v \in ToSet(kept) : Occurrences(kept, v) <= Occurrences(all, v)
  /\ Len(all) <= SampleCap => kept = all

\* The sample of a group is bounded and drawn from the lengths of that group; below
\* the bound it is all of them ("Below the cap every value is kept, so results match
\* group_completion_lengths").
SamplesAreBounded ==
  \A k \in {QualityKey(o, byModel) : o \in ToSet(added)} :
    SampleOf(LengthsOf(k), At(quality.groups, k, <<>>))

\* While values are scored against all the others, neither the anomalies of a group nor
\* its largest score depend on the order its records were read in; and with a threshold above the score
\* of the median itself, a value alone among equal ones is the only anomaly, and a
\* group with a middle value is never all anomalies ("Both paths remove
\* self-inclusion bias").
AnomaliesAreOutliers ==
  pc = "done" => \A k \in DOMAIN quality.groups :
    LET s == quality.groups[k]
        n == Len(s)
        flagged == ScoreGroup(s).anomalies
        alone(v) == Occurrences(s, v) = 1 /\ Cardinality(ToSet(s)) = 2
    IN  n \in Max({3, MinSample})..CrossFitAbove =>
          /\ \A order \in Bijection(1..n, 1..n) :
               ScoreGroup([i \in 1..n |-> s[order[i]]]) = ScoreGroup(s)
          /\ 1000 * Threshold > 6745 =>
               /\ (\E v \in ToSet(s) : alone(v)) => flagged = 1
               /\ n % 2 = 1 => flagged < n

\* A percentile estimated from the buckets lies in the bucket of the nearest-rank
\* percentile of the latencies themselves, between their extremes, and the
\* estimates are ordered (_hist_percentile interpolates "within the containing
\* bucket").
PercentilesTrackRanks ==
  \A k \in DOMAIN agg.dur :
    LET h    == agg.dur[k]
        mine == {i \in DOMAIN added : added[i].dims = k}
        latencies == [i \in mine |-> added[i].latency]
        rank(q) == Nearest(latencies, q * Cardinality(mine), 100)
        e(q) == Percentile(h, q)
        leq(x, y) == x[1] * y[2] <= y[1] * x[2]
    IN  /\ \A q \in {50, 95, 99} :
             LET b == BucketOf(rank(q))
             IN  /\ leq(<<h.min, 1>>, e(q)) /\ leq(e(q), <<h.max, 1>>)
                 /\ b > 1 => leq(<<Bounds[b - 1], 1>>, e(q))
                 /\ b < Overflow => leq(e(q), <<Bounds[b], 1>>)
        /\ leq(e(50), e(95)) /\ leq(e(95), e(99))

-----------------------------------------------------------------------------
(* Behind the properties                                                   *)

\* The batch of the run has the ids of its usable records, and the newest of the ends
\* is one of them.
BatchInv ==
  LET ends == {r.end : r \in ToSet(added)} \cup {NoTime}
  IN  /\ StreamingMatchesBatch
      /\ seenBatch = UsableIds
      /\ maxEnd \in ends /\ \A t \in ends : t <= maxEnd

\* Only groups of observations that were folded have a sample, and Algorithm R draws
\* from as many values as the group has lengths.
SampleInv ==
  LET keys == {QualityKey(o, byModel) : o \in ToSet(added)}
  IN  /\ SamplesAreBounded
      /\ DOMAIN quality.groups \subseteq keys /\ DOMAIN quality.seen \subseteq keys
      /\ \A k \in keys : /\ At(quality.groups, k, <<>>) \in Seq(Nat)
                         /\ At(quality.seen, k, 0) = Len(LengthsOf(k))

\* Every series that was opened has governed dimensions.
GovernedInv ==
  /\ \A k \in DOMAIN agg.dur \cup DOMAIN agg.ttft \cup DOMAIN agg.counts : Governed(k, Primary)
  /\ \A e \in DOMAIN agg.errcat :
       Governed(e[1], Primary) /\ e[2] \in Vocabulary("error_category")
  /\ \A c \in DOMAIN agg.cost : Governed(CostDims(c, byProvider), CostGroup)
  /\ DOMAIN agg.unknown \subseteq Vocabulary("dimension")
  /\ \A k \in DOMAIN quality.groups \cup DOMAIN quality.empty :
       Governed(k, {"route", "model_family"})
=============================================================================
