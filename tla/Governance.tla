------------------------------ MODULE Governance ------------------------------
(***************************************************************************)
(* gateway_sli.governance and emit/base.py: the closed contract every      *)
(* metric point must keep, or the exporter raises before it sends anything.*)
(* A metric is named without its prefix, as in Aggregation.                *)
(***************************************************************************)
EXTENDS Quality

CONSTANT
  Registered  \* per dimension, the vocabulary without its fold tokens

\* Config.__post_init__: teams and routes must be registered; the maps of normalize.py
\* give registered names only.
ASSUME GovernanceAssumption ==
  /\ \A d \in {"team", "route", "model_family", "env", "provider_region"} :
       Range(Known[d]) \subseteq Registered[d]
  /\ Range(Known["error"]) \subseteq Registered["error_category"]

FoldTokens(d) ==
  CASE d = "team" -> {"other", "unattributed"}
    [] d \in {"route", "model_family", "env", "provider_region"} -> {"other"}
    [] d = "error_category" -> {"unknown"}

\* REGISTRY.
Vocabulary(d) ==
  CASE d = "outcome" -> {"success", "error"}
    [] d = "dimension" -> {"team", "route", "model_family", "env", "provider_region"}
    [] OTHER -> Registered[d] \cup FoldTokens(d)

Primary == {"team", "route", "model_family", "env"}
CostGroup == {"team", "route", "model_family", "provider_region"}

RequestMetrics == {"request.duration", "request.ttft", "request.count", "request.errors"}
CostMetrics ==
  {"cost.usd", "cost.request_count", "cost.records_missing", "cost.records_invalid",
   "tokens.input", "tokens.output", "tokens.completion_ratio",
   "cache.read_tokens", "cache.hit_count"}
QualityMetrics ==
  {"quality.completion_length_anomalies", "quality.completion_length_max_zscore",
   "quality.empty_completion_count"}
PipelineMetrics ==
  {"pipeline.malformed_records", "pipeline.duplicate_records", "pipeline.records_read",
   "pipeline.records_processed", "pipeline.cross_run_duplicate_records",
   "pipeline.quarantined_records", "pipeline.read_truncated",
   "pipeline.records_missing_cost", "pipeline.records_invalid_cost",
   "pipeline.freshness_seconds", "pipeline.clock_skew_seconds", "pipeline.series_emitted",
   "pipeline.run_duration_seconds", "pipeline.source_requests", "pipeline.source_retries",
   "pipeline.source_pages", "pipeline.source_latency_seconds", "pipeline.export_success",
   "pipeline.source_success", "pipeline.checkpoint_conflicts"}

\* METRIC_REGISTRY: the type and unit of a metric, and its dimensions.
MetricShape(name) ==
  CASE name \in {"request.duration", "request.ttft"} -> Time
    [] name = "cost.usd" -> <<"counter", "USD">>
    [] name = "tokens.completion_ratio" -> Gauge("ratio")
    [] name = "quality.completion_length_max_zscore" -> Gauge("score")
    [] name \in {"pipeline.freshness_seconds", "pipeline.clock_skew_seconds",
                 "pipeline.run_duration_seconds", "pipeline.source_latency_seconds"} -> Gauge("s")
    [] name \in {"pipeline.read_truncated", "pipeline.series_emitted",
                 "pipeline.export_success", "pipeline.source_success"} -> Gauge("1")
    [] OTHER -> Count

AllowedDimensions(name) ==
  CASE name = "request.count" -> Primary \cup {"outcome"}
    [] name = "request.errors" -> Primary \cup {"error_category"}
    [] name \in {"request.duration", "request.ttft"} -> Primary
    [] name \in CostMetrics -> CostGroup
    [] name \in QualityMetrics -> {"route", "model_family"}
    [] name = "pipeline.unknown_dimension" -> {"dimension"}
    [] name \in PipelineMetrics -> {}

\* The dimensions are among the allowed ones, and their values governed.
Governed(dims, allowed) ==
  /\ DOMAIN dims \subseteq allowed
  /\ \A d \in DOMAIN dims : dims[d] \in Vocabulary(d)

\* assert_allowed lets a point pass.
Allowed(p) ==
  /\ p.name \in RequestMetrics \cup CostMetrics \cup QualityMetrics \cup PipelineMetrics
                 \cup {"pipeline.unknown_dimension"}
  /\ p.shape = MetricShape(p.name)
  /\ Governed(p.dims, AllowedDimensions(p.name))
=============================================================================
