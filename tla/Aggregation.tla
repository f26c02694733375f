------------------------------ MODULE Aggregation ------------------------------
(***************************************************************************)
(* gateway_sli.sli: the streaming aggregator that folds observations into  *)
(* per-series accumulators, and the metric points built from them.         *)
(* An accumulator map is a function whose domain is the set of series seen.*)
(* Money and latencies are integers; rounding to six digits is left out.   *)
(***************************************************************************)
EXTENDS Observations, FiniteSetsExt, Functions, TLC

CONSTANT Bounds  \* latency_buckets_ms, a strictly ascending sequence

ASSUME BoundsAssumption ==
  Bounds \in Seq(Int) \ {<<>>} /\ \A i, j \in DOMAIN Bounds : i < j => Bounds[i] < Bounds[j]

(* Histograms ------------------------------------------------------------- *)

Overflow == Len(Bounds) + 1

\* The bucket of a value: the first bound it does not exceed.
BucketOf(v) == Min({i \in DOMAIN Bounds : v <= Bounds[i]} \cup {Overflow})

EmptyHist == [counts |-> [i \in 1..Overflow |-> 0], sum |-> 0, count |-> 0,
              min |-> NoTime, max |-> NoTime]

HistAdd(h, v) ==
  [counts |-> [h.counts EXCEPT ![BucketOf(v)] = @ + 1],
   sum |-> h.sum + v,
   count |-> h.count + 1,
   min |-> IF h.min = NoTime \/ v < h.min THEN v ELSE h.min,
   max |-> IF h.max = NoTime \/ v > h.max THEN v ELSE h.max]

\* Observations in the buckets below i.
Below(h, i) == FoldFunctionOnSet(+, 0, h.counts, 1..(i - 1))

\* Mutant of Reaches: the bucket must exceed the target.
ReachesStrict(h, q, i) == 100 * (Below(h, i) + h.counts[i]) > q * h.count

\* cum + c >= target, without the division by 100.
Reaches(h, q, i) == 100 * (Below(h, i) + h.counts[i]) >= q * h.count

\* lower and upper: the limits of the values in bucket i, tightened by the extremes.
Lower(h, i) ==
  LET prev == IF i = 1 THEN h.min ELSE Bounds[i - 1]
  IN  IF Below(h, i) = 0 THEN Max({prev, h.min}) ELSE prev

Upper(h, i) == Max({Lower(h, i), Min({Bounds[i], h.max})})

\* The value at the rank, part of the way from lower to upper, as a fraction <<num, den>>.
Interpolated(h, q, i) ==
  <<Lower(h, i) * (100 * h.counts[i])
      + (Upper(h, i) - Lower(h, i)) * (q * h.count - 100 * Below(h, i)),
    100 * h.counts[i]>>

\* _hist_percentile of a non-empty histogram: interpolated in the first non-empty
\* bounded bucket that reaches the rank.
Percentile(h, q) ==
  LET hits == {i \in DOMAIN Bounds : h.counts[i] > 0 /\ Reaches(h, q, i)}
  IN  IF h.count = 1 THEN <<h.min, 1>>
      ELSE IF hits = {} THEN <<h.max, 1>>
      ELSE Interpolated(h, q, Min(hits))

(* The aggregator --------------------------------------------------------- *)

NoCosts == [usd |-> 0, count |-> 0, missing |-> 0, invalid |-> 0,
            in |-> 0, out |-> 0, cached |-> 0, hits |-> 0]

NewAggregator ==
  [dur |-> <<>>, ttft |-> <<>>, counts |-> <<>>, errcat |-> <<>>, cost |-> <<>>,
   unknown |-> <<>>, observations |-> 0, errors |-> 0, eligible |-> 0,
   missing |-> 0, invalid |-> 0]

\* The value of f at k, or a default while k has no series.
At(f, k, default) == IF k \in DOMAIN f THEN f[k] ELSE default

Put(f, k, v) == [x \in DOMAIN f \cup {k} |-> IF x = k THEN v ELSE f[x]]

One(b) == IF b THEN 1 ELSE 0

\* Mutant of CostKey: the provider is kept whatever the configuration says.
CostKeyProvider(o, byProvider) ==
  <<o.dims.team, o.dims.route, o.dims.model_family, o.region>>

CostKey(o, byProvider) ==
  <<o.dims.team, o.dims.route, o.dims.model_family,
    IF byProvider THEN o.region ELSE "n/a">>

Costs(c, o) ==
  [usd |-> c.usd + (IF o.missing \/ o.invalid THEN 0 ELSE o.usd),
   count |-> c.count + 1,
   missing |-> c.missing + One(o.missing), invalid |-> c.invalid + One(o.invalid),
   in |-> c.in + o.in, out |-> c.out + o.out,
   cached |-> c.cached + o.cached, hits |-> c.hits + One(o.cached > 0)]

Outcomes(c, o) ==
  [success |-> c.success + One(~o.error), error |-> c.error + One(o.error)]

\* Aggregator.add.
AddTo(a, o, byProvider) ==
  LET k == o.dims
      e == <<k, o.category>>
      c == CostKey(o, byProvider)
  IN  [dur |-> Put(a.dur, k, HistAdd(At(a.dur, k, EmptyHist), o.latency)),
       ttft |-> IF o.ttft = NoTime THEN a.ttft
                ELSE Put(a.ttft, k, HistAdd(At(a.ttft, k, EmptyHist), o.ttft)),
       counts |-> Put(a.counts, k, Outcomes(At(a.counts, k, [success |-> 0, error |-> 0]), o)),
       errcat |-> IF ~o.error THEN a.errcat
                  ELSE Put(a.errcat, e, At(a.errcat, e, 0) + 1),
       cost |-> Put(a.cost, c, Costs(At(a.cost, c, NoCosts), o)),
       unknown |-> [d \in o.folded \cup DOMAIN a.unknown |->
                     At(a.unknown, d, 0) + One(d \in o.folded)],
       observations |-> a.observations + 1,
       errors |-> a.errors + One(o.error),
       eligible |-> a.eligible + One(o.ttft # NoTime),
       missing |-> a.missing + One(o.missing),
       invalid |-> a.invalid + One(o.invalid)]

(* Metric points ---------------------------------------------------------- *)

\* Type and unit of a metric.
Count == <<"counter", "1">>
Time == <<"histogram", "ms">>
Gauge(unit) == <<"gauge", unit>>

\* Points with equal name and dimensions are one time series to the backend.
Point(shape, name, dims, value) ==
  [shape |-> shape, name |-> name, dims |-> dims, value |-> value]

CostDims(k, byProvider) ==
  LET dims == [team |-> k[1], route |-> k[2], model_family |-> k[3]]
  IN  IF byProvider THEN Put(dims, "provider_region", k[4]) ELSE dims

\* The names of the totals of a cost series.
CostMetric ==
  [usd |-> "cost.usd", count |-> "cost.request_count", missing |-> "cost.records_missing",
   invalid |-> "cost.records_invalid", in |-> "tokens.input", out |-> "tokens.output",
   cached |-> "cache.read_tokens", hits |-> "cache.hit_count"]

CostShape(field) == IF field = "usd" THEN <<"counter", "USD">> ELSE Count

HistPoints(name, f) == {Point(Time, name, k, f[k].count) : k \in DOMAIN f}

CountPoints(a) ==
  UNION {{Point(Count, "request.count", Put(k, "outcome", out), a.counts[k][out]) :
            out \in {"success"} \cup (IF a.counts[k].error > 0 THEN {"error"} ELSE {})}
         : k \in DOMAIN a.counts}

ErrorPoints(a) ==
  {Point(Count, "request.errors", Put(e[1], "error_category", e[2]), a.errcat[e]) :
     e \in DOMAIN a.errcat}

\* The totals of a cost series: four always, the others only when there is
\* something to report.
CostPoints(a, byProvider) ==
  UNION {LET c == a.cost[k]
             rare  == {f \in {"missing", "invalid"} : c[f] > 0}
             cache == IF c.hits > 0 THEN {"cached", "hits"} ELSE {}
         IN  {Point(CostShape(f), CostMetric[f], CostDims(k, byProvider), c[f]) :
                f \in {"usd", "count", "in", "out"} \cup rare \cup cache}
         : k \in DOMAIN a.cost}

\* Its completion ratio, in whole ten-thousandths.
RatioPoints(a, byProvider) ==
  {Point(Gauge("ratio"), "tokens.completion_ratio", CostDims(k, byProvider),
         (10000 * a.cost[k].out) \div a.cost[k].in) : k \in {x \in DOMAIN a.cost : a.cost[x].in > 0}}

PipelinePoints(a, malformed, duplicates) ==
  {p \in {Point(Count, "pipeline.malformed_records", <<>>, malformed),
          Point(Count, "pipeline.duplicate_records", <<>>, duplicates)} : p.value > 0}
  \cup {Point(Count, "pipeline.unknown_dimension", [dimension |-> d], a.unknown[d]) :
          d \in DOMAIN a.unknown}

\* Aggregator.build.
Build(a, malformed, duplicates, byProvider) ==
  HistPoints("request.duration", a.dur) \cup HistPoints("request.ttft", a.ttft)
  \cup CountPoints(a) \cup ErrorPoints(a)
  \cup CostPoints(a, byProvider) \cup RatioPoints(a, byProvider)
  \cup PipelinePoints(a, malformed, duplicates)
=============================================================================
