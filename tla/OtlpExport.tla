------------------------------ MODULE OtlpExport ------------------------------
(***************************************************************************)
(* The transmissions of one run of the SLI job through                     *)
(* gateway_sli.emit.otlp_http.OtlpHttpExporter: the main flush, the health *)
(* heartbeat and the final heartbeat, each POSTed with a bounded retry     *)
(* loop over a network that may lose a request or only its answer.         *)
(***************************************************************************)
EXTENDS Integers, Sequences, FiniteSets

CONSTANTS
  ExportRetries, \* OtlpHttpExporter max_retries
  SourceOk,      \* {TRUE, FALSE}: did the read succeed?
  Conflicts      \* {TRUE, FALSE}: did the save meet a conflict?

ASSUME OtlpAssumption ==
  ExportRetries \in Nat /\ SourceOk \subseteq BOOLEAN /\ Conflicts \subseteq BOOLEAN

VARIABLES
  stage,         \* "flush", "health", "final", "returned"
  exportAttempt, \* attempt of the current POST
  sourceOk,      \* stats.source_ok
  exportOk,      \* stats.export_ok
  heartbeatOk,   \* stats.heartbeat_ok
  conflict,      \* stats.checkpoint_conflict
  received       \* history: documents the collector accepted, in order

exportVars == <<stage, exportAttempt, sourceOk, exportOk, heartbeatOk, conflict, received>>

\* The document POSTed in a stage: export_success of the health heartbeat, the
\* checkpoint_conflicts counter of the final one.
Document ==
  CASE stage = "flush"  -> [kind |-> "flush"]
    [] stage = "health" -> [kind |-> "health", success |-> exportOk]
    [] stage = "final"  -> [kind |-> "final", conflicts |-> IF conflict THEN 1 ELSE 0]

ExportInit ==
  /\ sourceOk \in SourceOk
  /\ exportOk = sourceOk
  /\ heartbeatOk = TRUE
  /\ conflict = FALSE
  /\ stage = IF sourceOk THEN "flush" ELSE "health"
  /\ exportAttempt = 0
  /\ received = <<>>

\* run: after the health heartbeat the checkpoint is saved, which may conflict.
NextStage ==
  /\ exportAttempt' = 0
  /\ CASE stage = "flush"  -> stage' = "health" /\ UNCHANGED conflict
       [] stage = "health" ->
            /\ stage' = "final"
            /\ conflict' \in IF exportOk' /\ heartbeatOk' THEN Conflicts ELSE {FALSE}
       [] stage = "final"  -> stage' = "returned" /\ UNCHANGED conflict

\* A 2xx answer: export returns.
Accepted ==
  /\ stage # "returned"
  /\ received' = Append(received, Document)
  /\ UNCHANGED <<sourceOk, exportOk, heartbeatOk>>
  /\ NextStage

\* Mutant of MayRetry: one attempt too many.
MayRetryOnce == exportAttempt <= ExportRetries

MayRetry == exportAttempt < ExportRetries

\* 429, 5xx, or a transport failure (599) in which the collector did not accept
\* the document, or accepted it and the answer was lost.
Retryable ==
  /\ stage # "returned"
  /\ received' \in {received, Append(received, Document)}
  /\ MayRetry
  /\ exportAttempt' = exportAttempt + 1
  /\ UNCHANGED <<stage, sourceOk, exportOk, heartbeatOk, conflict>>

\* Mutant of FlagsAfterFailure: a failed flush is not recorded.
FlagsIgnored ==
  /\ UNCHANGED exportOk
  /\ heartbeatOk' = (heartbeatOk /\ stage = "flush")

\* run: what OtlpExportError does to the statistics of the run.
FlagsAfterFailure ==
  /\ exportOk' = (exportOk /\ stage # "flush")
  /\ heartbeatOk' = (heartbeatOk /\ stage = "flush")

\* The last attempt fails (as above), or any other status: export raises.
Raised ==
  /\ stage # "returned"
  /\ received' \in IF MayRetry THEN {received} ELSE {received, Append(received, Document)}
  /\ UNCHANGED sourceOk
  /\ FlagsAfterFailure
  /\ NextStage

Returned == stage = "returned" /\ UNCHANGED exportVars

ExportNext == Accepted \/ Retryable \/ Raised \/ Returned

ExportSpec == ExportInit /\ [][ExportNext]_exportVars

-----------------------------------------------------------------------------
Copies(k) == Cardinality({i \in DOMAIN received : received[i].kind = k})

\* export_success = 1 reaches the collector only when the main flush did, and a
\* flag that is still set when run returns means its documents arrived.
HealthIsTruthful ==
  /\ \A i \in DOMAIN received :
       received[i].kind = "health" /\ received[i].success
         => \E j \in 1..(i - 1) : received[j].kind = "flush"
  /\ stage = "returned" /\ exportOk => Copies("flush") >= 1
  /\ stage = "returned" /\ heartbeatOk => Copies("health") >= 1 /\ Copies("final") >= 1

\* A document is duplicated at most max_retries times, and nothing is flushed
\* when the source failed.
DuplicationBounded ==
  /\ \A k \in {"flush", "health", "final"} : Copies(k) <= ExportRetries + 1
  /\ ~sourceOk => Copies("flush") = 0

-----------------------------------------------------------------------------
Kinds == {"flush", "health", "final"}

Documents ==
  [kind : {"flush"}] \cup [kind : {"health"}, success : BOOLEAN]
    \cup [kind : {"final"}, conflicts : {0, 1}]

\* The stages that are over.
Past ==
  CASE stage = "flush"    -> {}
    [] stage = "health"   -> {"flush"}
    [] stage = "final"    -> {"flush", "health"}
    [] stage = "returned" -> Kinds

ExportTypeOK ==
  /\ stage \in Kinds \cup {"returned"}
  /\ exportAttempt \in 0..ExportRetries
  /\ sourceOk \in BOOLEAN /\ exportOk \in BOOLEAN
  /\ heartbeatOk \in BOOLEAN /\ conflict \in BOOLEAN
  /\ received \in Seq(Documents)

\* Only the document of the stage is on its way, at most once for each attempt.
CopiesInv ==
  /\ \A k \in Kinds :
       /\ k = stage => Copies(k) <= exportAttempt
       /\ k \in Past => Copies(k) <= ExportRetries + 1
       /\ k \notin Past \cup {stage} => Copies(k) = 0
  /\ ~sourceOk => stage # "flush" /\ Copies("flush") = 0

\* A flag that is set says that the documents of the stages that are over arrived, and
\* so does every health heartbeat that reports success.
FlagsInv ==
  /\ exportOk => sourceOk
  /\ stage = "flush" => exportOk /\ heartbeatOk
  /\ exportOk /\ "flush" \in Past => Copies("flush") >= 1
  /\ heartbeatOk => \A k \in Past \ {"flush"} : Copies(k) >= 1
  /\ \A i \in DOMAIN received :
       received[i].kind = "health" /\ received[i].success
         => \E j \in 1..(i - 1) : received[j].kind = "flush"

ExportInv == ExportTypeOK /\ CopiesInv /\ FlagsInv
=============================================================================
