----------------------------- MODULE Observations -----------------------------
(***************************************************************************)
(* One record of the Langfuse API on its way into the aggregator: what     *)
(* gateway_sli.models.parse_observation makes of it and the governed       *)
(* dimensions gateway_sli.normalize derives from it.                       *)
(*                                                                         *)
(* A raw record is a function with the fields                              *)
(*   id, start, end, first (completionStartTime), stream, level, etype     *)
(*   (type of the error object, NoError when there is none), team, route,  *)
(*   model, env, internal, in, out, cached (candidate values for a token   *)
(*   count), cost.  Spellings stand for their stripped text, "" when blank.*)
(***************************************************************************)
EXTENDS Integers, Sequences, FiniteSets

CONSTANT
  Known  \* per dimension, a function from accepted spellings to governed names

NoTime == -1    \* an absent timestamp, cost or ttft
BadValue == -2  \* a value the field's type rejects
Huge == -3      \* a number too large for float(), a time too far for UTC: OverflowError
NoError == ""

\* The times, counts and costs of a raw record are numbers, or marked as absent or bad.
Numeric(r) ==
  /\ {r.start, r.end, r.first, r.cost} \subseteq Int
  /\ {r.in, r.out, r.cached} \subseteq Seq(Int)

\* MalformedObservation, unless a timestamp overflows before that is found.
Malformed(r) ==
  \/ r.start = BadValue \/ (r.end = BadValue /\ r.start # Huge)  \* unparseable_timestamp
  \/ /\ Huge \notin {r.start, r.end}
     /\ \/ NoTime \in {r.start, r.end}                           \* missing_timestamp
        \/ r.end < r.start                                       \* end_before_start

\* A token count: the first candidate that is a non-negative integer, else 0.
IntOf(candidates) ==
  LET valid == {i \in DOMAIN candidates : candidates[i] >= 0}
  IN  IF valid = {} THEN 0
      ELSE candidates[CHOOSE i \in valid : \A j \in valid : i <= j]

\* A candidate that raises before an earlier one is accepted.
Overflows(candidates) ==
  \E i \in DOMAIN candidates :
    candidates[i] = Huge /\ \A j \in 1..(i - 1) : candidates[j] < 0

\* parse_observation raises something else than MalformedObservation.
Poison(r) ==
  /\ ~Malformed(r)
  /\ \/ Huge \in {r.start, r.end, r.first, r.cost}
     \/ \E c \in {r.in, r.out, r.cached} : Overflows(c)

IsError(r) == r.level = "ERROR" \/ r.etype # NoError

\* Time to first token: only for successful streams with a plausible timestamp.
Ttft(r) ==
  IF ~IsError(r) /\ r.stream /\ r.first \in r.start..r.end
  THEN r.first - r.start
  ELSE NoTime

\* An allow-listed spelling, or "other".
Fold(dim, spelling) ==
  IF spelling \in DOMAIN Known[dim] THEN Known[dim][spelling] ELSE "other"

Team(r) == IF r.team = "" THEN "unattributed" ELSE Fold("team", r.team)

Route(r) == Fold("route", r.route)

ModelFamily(r) == Fold("model_family", r.model)

Env(r) == Fold("env", r.env)

ProviderRegion(r) == Fold("provider_region", r.internal)

PrimaryDims(r) ==
  [team |-> Team(r), route |-> Route(r), model_family |-> ModelFamily(r), env |-> Env(r)]

\* The dimensions whose non-blank spelling was folded to "other".
FoldedDimensions(r) ==
  {d \in {"team", "route", "model_family", "env", "provider_region"} :
     CASE d = "team" -> r.team # "" /\ Team(r) = "other"
       [] d = "route" -> r.route # "" /\ Route(r) = "other"
       [] d = "model_family" -> r.model # "" /\ ModelFamily(r) = "other"
       [] d = "env" -> r.env # "" /\ Env(r) = "other"
       [] d = "provider_region" -> r.internal # "" /\ ProviderRegion(r) = "other"}

ErrorCategory(r) ==
  IF r.etype \in DOMAIN Known["error"] THEN Known["error"][r.etype] ELSE "unknown"

\* The Observation of a record that is neither malformed nor poison.
Parse(r) ==
  [id |-> r.id, end |-> r.end, latency |-> r.end - r.start, ttft |-> Ttft(r),
   error |-> IsError(r), category |-> ErrorCategory(r),
   dims |-> PrimaryDims(r), region |-> ProviderRegion(r), folded |-> FoldedDimensions(r),
   in |-> IntOf(r.in), out |-> IntOf(r.out), cached |-> IntOf(r.cached),
   missing |-> r.cost = NoTime, invalid |-> r.cost = BadValue,
   usd |-> IF r.cost >= 0 THEN r.cost ELSE 0]
=============================================================================
