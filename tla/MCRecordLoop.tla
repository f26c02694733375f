----------------------------- MODULE MCRecordLoop -----------------------------
(* Small instances of RecordLoop.                                          *)
EXTENDS RecordLoop

MCKnown ==
  [team |-> ("search" :> "Search" @@ "SEARCH" :> "Search"),
   route |-> ("ask" :> "ask"),
   model_family |-> ("gpt-4o" :> "gpt-4o" @@ "gpt-4o-mini" :> "gpt-4o"
                      @@ "gpt-5" :> "gpt-5"),
   env |-> ("prod" :> "prod" @@ "production" :> "prod"),
   provider_region |-> ("eu" :> "bedrock_eu" @@ "us" :> "bedrock_us"),
   error |-> ("timeouterror" :> "timeout")]

\* The governed names these spellings have, and one more team.
MCRegistered ==
  [team |-> {"Search", "Research"}, route |-> {"ask"},
   model_family |-> {"gpt-4o", "gpt-5"}, env |-> {"prod"},
   provider_region |-> {"bedrock_eu", "bedrock_us"},
   error_category |-> {"timeout"}]

MCBounds == <<2, 4>>

\* A priced, successful, streamed request that took three units.
Usual ==
  [id |-> "x", start |-> 1, end |-> 4, first |-> 2, stream |-> TRUE,
   level |-> "DEFAULT", etype |-> NoError, team |-> "search", route |-> "ask",
   model |-> "gpt-4o", env |-> "prod", internal |-> "eu",
   in |-> <<3>>, out |-> <<2>>, cached |-> <<0>>, cost |-> 5]

\* Two ids, one of them read again with a later end; ends before, on and after the
\* cutoff and after the window; the same series under other spellings and from
\* another provider, and a series of unknown ones; records without id, malformed
\* and poison ones.
MCRecords ==
  {Usual,
   [Usual EXCEPT !.end = 7],
   [Usual EXCEPT !.id = "y", !.start = 4, !.end = 5, !.team = "SEARCH",
      !.model = "gpt-4o-mini", !.internal = "us", !.etype = "timeouterror",
      !.cost = BadValue, !.in = <<BadValue, 4>>, !.cached = <<1>>],
   [Usual EXCEPT !.id = "z", !.start = 2, !.end = 11, !.env = "production",
      !.first = NoTime, !.cost = NoTime, !.out = <<0>>],
   [Usual EXCEPT !.id = "w", !.start = 5, !.end = 7, !.first = 8, !.team = "",
      !.route = "new", !.env = "", !.internal = "moon", !.level = "ERROR"],
   [Usual EXCEPT !.id = ""],
   [Usual EXCEPT !.start = 5, !.cost = Huge],
   [Usual EXCEPT !.id = "y", !.in = <<Huge>>]}

\* Six requests that differ in their completion length; every third asks another model.
Lengths(l) ==
  [i \in 1..6 |-> [Usual EXCEPT !.id = <<"a", "b", "c", "d", "e", "f">>[i], !.out = <<l[i]>>,
                     !.model = IF i % 3 = 0 THEN "gpt-5" ELSE "gpt-4o"]]

MCInputs ==
  UNION {[1..n -> MCRecords] : n \in 0..3}
    \cup {Lengths(l \o <<3, 2>>) : l \in [1..4 -> {2, 40, 41}]}
    \cup {Lengths([i \in 1..6 |-> 2]) \o <<Usual>>,
          [i \in 1..8 |-> IF i % 2 = 1 THEN Usual ELSE [Usual EXCEPT !.id = ""]],
          <<[Usual EXCEPT !.start = Huge, !.end = BadValue], [Usual EXCEPT !.end = Huge],
            [Usual EXCEPT !.start = BadValue, !.end = Huge], [Usual EXCEPT !.first = Huge]>>}

MCPriors == {{}, {"x"}, {"y", "q"}}

\* A file keeps no counters; the API, after one page and a retry.
MCSourceStats ==
  {<<>>, [requests |-> 2, retries |-> 1, pages |-> 1, latency_seconds |-> 3]}
=============================================================================
