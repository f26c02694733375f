------------------------------- MODULE Quality -------------------------------
(***************************************************************************)
(* gateway_sli.quality: the completion lengths of a run, collected per     *)
(* baseline group in a bounded sample, and their robust scores.            *)
(* Lengths are integers, so the scores are compared as integers: medians   *)
(* are doubled, and both sides of abs(z) >= threshold multiplied out.      *)
(***************************************************************************)
EXTENDS Aggregation

CONSTANTS
  MinSample,      \* cfg.anomaly.min_sample
  Threshold,      \* cfg.anomaly.threshold, in tenths
  SampleCap,      \* sample_cap
  CrossFitAbove   \* the group size up to which baselines leave one value out

\* With min_sample 1 the baseline of a group of one is empty and median raises.
ASSUME QualityAssumption ==
  /\ MinSample \in Nat \ {0, 1}
  /\ Threshold \in Nat \ {0}
  /\ SampleCap \in Nat \ {0}
  /\ CrossFitAbove \in Nat \ {0}

(* The accumulator ---------------------------------------------------------- *)

\* Mutant of QualityKey: the composite grouping is put into the route dimension.
QualityKeyJoined(o, byModel) ==
  [route |-> IF byModel THEN o.dims.route \o "|" \o o.dims.model_family ELSE o.dims.route]

\* _baseline_key, for the groupings "route" and "route_model".
QualityKey(o, byModel) ==
  [d \in {"route"} \cup (IF byModel THEN {"model_family"} ELSE {}) |-> o.dims[d]]

NoLengths == [groups |-> <<>>, empty |-> <<>>, seen |-> <<>>]

\* Mutant of Sampled: the sample is not bounded.
SampledAll(s, v, j) == Append(s, v)

\* Algorithm R, given the random index.
Sampled(s, v, j) ==
  IF Len(s) < SampleCap THEN Append(s, v)
  ELSE IF j < SampleCap THEN [s EXCEPT ![j + 1] = v] ELSE s

\* QualityAccumulator.add, for every random index.
AddLength(q, o, byModel) ==
  LET k    == QualityKey(o, byModel)
      seen == At(q.seen, k, 0)
      kept(j) == [groups |-> Put(q.groups, k, Sampled(At(q.groups, k, <<>>), o.out, j)),
                  empty |-> q.empty,
                  seen |-> Put(q.seen, k, seen + 1)]
  IN  IF o.error THEN {q}
      ELSE IF o.out = 0
        THEN {[groups |-> q.groups, empty |-> Put(q.empty, k, At(q.empty, k, 0) + 1),
               seen |-> q.seen]}
      ELSE {kept(j) : j \in 0..seen}

(* Scores --------------------------------------------------------------------- *)

Distance(x, y) == IF x < y THEN y - x ELSE x - y

\* The least value that num/den of the elements do not exceed: when they are sorted,
\* the one at the place num/den rounds up to.
Nearest(s, num, den) ==
  Min({v \in Range(s) : den * Cardinality({i \in DOMAIN s : s[i] <= v}) >= num})

\* Twice the median, the mean of the lower and the upper one, of a family of values.
TwiceMedian(s) ==
  LET n == Cardinality(DOMAIN s) IN Nearest(s, n, 2) + Nearest(s, n + 1, 2)

NoScore == -1  \* no finite score

\* The score num/den tenths, rounded down.
OkScore(num, den) == [status |-> "ok", z |-> num \div den, anomaly |-> num >= den * Threshold]

\* score: a value against a baseline, first by the median deviation, then by the mean
\* one, and against a constant baseline by equality.
Score(v, baseline) ==
  LET med == TwiceMedian(baseline)
      devs == [i \in DOMAIN baseline |-> Distance(2 * baseline[i], med)]
      mad == TwiceMedian(devs)
      total == FoldFunction(+, 0, devs)
  IN  IF mad > 0
        THEN OkScore(6745 * Distance(4 * v, 2 * med), 1000 * mad)
      ELSE IF total > 0
        THEN OkScore(100000 * Cardinality(DOMAIN baseline) * Distance(2 * v, med), 12533 * total)
      ELSE [status |-> "degenerate_constant_baseline",
            z |-> IF 2 * v = med THEN 0 ELSE NoScore, anomaly |-> 2 * v # med]

\* Mutant of Baseline: the value itself is part of its baseline.
BaselineOfAll(s, i) == s

\* Without the value; in a large group, the half it does not belong to.
Baseline(s, i) ==
  Restrict(s, {j \in DOMAIN s : IF Len(s) <= CrossFitAbove THEN j # i ELSE j % 2 # i % 2})

\* score_group.
ScoreGroup(s) ==
  LET scored == [i \in DOMAIN s |-> Score(s[i], Baseline(s, i))]
  IN  IF Len(s) < MinSample THEN [status |-> "cold_start", anomalies |-> 0, max |-> NoScore]
      ELSE [status |-> IF \E i \in DOMAIN s : scored[i].status = "ok" THEN "ok"
                       ELSE "degenerate_constant_baseline",
            anomalies |-> Cardinality({i \in DOMAIN s : scored[i].anomaly}),
            max |-> Max({scored[i].z : i \in DOMAIN s})]

\* The groups that have a baseline.
Scored(q) == {k \in DOMAIN q.groups : ScoreGroup(q.groups[k]).status # "cold_start"}

\* The points run makes of the results and of the empty completions.
QualityPoints(q) ==
  {Point(Count, "quality.completion_length_anomalies", k, ScoreGroup(q.groups[k]).anomalies) :
     k \in Scored(q)}
  \cup {Point(Gauge("score"), "quality.completion_length_max_zscore", k,
              ScoreGroup(q.groups[k]).max) :
          k \in {x \in Scored(q) : ScoreGroup(q.groups[x]).max # NoScore}}
  \cup {Point(Count, "quality.empty_completion_count", k, q.empty[k]) : k \in DOMAIN q.empty}
=============================================================================
