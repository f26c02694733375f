------------------------------- MODULE Startup -------------------------------
(***************************************************************************)
(* The processes of a gateway deployment start, serve and stop (main.py    *)
(* lifespan): each reads its settings (core/config.py), seeds the default  *)
(* API key into the database they share (db/seed.py: a SELECT, then an     *)
(* INSERT in the same session), opens its clients and serves.  The         *)
(* database may be away at any moment; the operator changes the settings   *)
(* of the next start and deactivates keys.                                 *)
(***************************************************************************)
EXTENDS Integers, FiniteSets

CONSTANTS
  Procs,       \* processes (uvicorn workers, replicas)
  Keys,        \* values of DEFAULT_API_KEY
  Builtin,     \* the value config.py and .env.example come with
  Production,  \* settings.environment is "production"
  MaxStarts,   \* bound: starts of processes
  MaxOutages   \* bound: outages of the database

ASSUME StartupAssumption ==
  /\ Builtin \in Keys
  /\ Production \in BOOLEAN
  /\ MaxStarts \in Nat /\ MaxOutages \in Nat

VARIABLES
  settings,   \* what the next process reads: [default_api_key, wildcard_cors]
  dbUp,       \* the database answers
  apiKeys,    \* rows of api_keys: [key, by, role, active]
  pc,         \* where a process is
  key,        \* settings.default_api_key of a running process
  disturbed,  \* history: a statement of this start failed
  starts, outages

deployment == <<settings, dbUp, starts, outages>>
vars == <<deployment, apiKeys, pc, key, disturbed>>

Steps == {"down", "selecting", "inserting", "opening", "serving", "stopping"}

Settings == [default_api_key : Keys, wildcard_cors : BOOLEAN]

\* Mutant of Unique: the column has an index only.
UniqueNever(k) == TRUE

\* models/api_key.py: key_hash is unique.
Unique(k) == \A r \in apiKeys : r.key # k

Step(p, from, to) == pc[p] = from /\ pc' = [pc EXCEPT ![p] = to]

Init ==
  /\ settings \in {s \in Settings : ~s.wildcard_cors}
  /\ dbUp = TRUE
  /\ apiKeys = {}
  /\ pc = [p \in Procs |-> "down"]
  /\ key = [p \in Procs |-> Builtin]
  /\ disturbed = [p \in Procs |-> FALSE]
  /\ starts = 0
  /\ outages = 0

(* The environment ----------------------------------------------------------- *)

Outage ==
  /\ dbUp /\ outages < MaxOutages
  /\ dbUp' = FALSE
  /\ outages' = outages + 1
  /\ UNCHANGED <<settings, starts, apiKeys, pc, key, disturbed>>

Recovery ==
  /\ ~dbUp
  /\ dbUp' = TRUE
  /\ UNCHANGED <<settings, starts, outages, apiKeys, pc, key, disturbed>>

Configure ==
  /\ settings' \in Settings
  /\ UNCHANGED <<dbUp, starts, outages, apiKeys, pc, key, disturbed>>

Deactivate ==
  /\ dbUp
  /\ \E r \in apiKeys : /\ r.active
                        /\ apiKeys' = (apiKeys \ {r}) \cup {[r EXCEPT !.active = FALSE]}
  /\ UNCHANGED <<deployment, pc, key, disturbed>>

(* A process starts ------------------------------------------------------------ *)

\* validate_runtime_security, as far as the settings vary here.
Valid(s) == Production => ~s.wildcard_cors

\* create_app and lifespan: with invalid settings the process does not come up.
\* init_engine opens no connection.
Start(p) ==
  /\ starts < MaxStarts
  /\ Valid(settings)
  /\ Step(p, "down", "selecting")
  /\ key' = [key EXCEPT ![p] = settings.default_api_key]
  /\ disturbed' = [disturbed EXCEPT ![p] = FALSE]
  /\ starts' = starts + 1
  /\ UNCHANGED <<settings, dbUp, outages, apiKeys>>

\* Mutant of Found: an existing key is brought up to date.
FoundReactivates(p) ==
  /\ dbUp
  /\ ~Unique(key[p])
  /\ Step(p, "selecting", "opening")
  /\ apiKeys' = {IF r.key = key[p] THEN [r EXCEPT !.active = TRUE] ELSE r : r \in apiKeys}
  /\ UNCHANGED <<deployment, key, disturbed>>

\* seed_default_api_key finds the key, active or not.
Found(p) ==
  /\ dbUp
  /\ ~Unique(key[p])
  /\ Step(p, "selecting", "opening")
  /\ UNCHANGED <<deployment, apiKeys, key, disturbed>>

NotFound(p) ==
  /\ dbUp
  /\ \A r \in apiKeys : r.key # key[p]
  /\ Step(p, "selecting", "inserting")
  /\ UNCHANGED <<deployment, apiKeys, key, disturbed>>

\* The row: no role is given, the column's default is "tenant".
DefaultRow(p) == [key |-> key[p], by |-> p, role |-> "tenant", active |-> TRUE]

\* Mutant of Insert: the session is closed without a commit.
InsertUncommitted(p) ==
  /\ dbUp
  /\ Unique(key[p])
  /\ Step(p, "inserting", "opening")
  /\ UNCHANGED <<deployment, apiKeys, key, disturbed>>

Insert(p) ==
  /\ dbUp
  /\ Unique(key[p])
  /\ Step(p, "inserting", "opening")
  /\ apiKeys' = apiKeys \cup {DefaultRow(p)}
  /\ UNCHANGED <<deployment, key, disturbed>>

\* Another process inserted the key since: the violated constraint is logged as a
\* connection error.
InsertConflicts(p) ==
  /\ dbUp
  /\ ~Unique(key[p])
  /\ Step(p, "inserting", "opening")
  /\ UNCHANGED <<deployment, apiKeys, key, disturbed>>

\* Mutant of SeedFails: the start waits until the database answers.
SeedFailsWaiting(p) ==
  /\ ~dbUp
  /\ pc[p] \in {"selecting", "inserting"}
  /\ disturbed' = [disturbed EXCEPT ![p] = TRUE]
  /\ UNCHANGED <<deployment, apiKeys, key, pc>>

\* The database is away: the exception is logged and the start goes on.
SeedFails(p) ==
  /\ ~dbUp
  /\ pc[p] \in {"selecting", "inserting"}
  /\ pc' = [pc EXCEPT ![p] = "opening"]
  /\ disturbed' = [disturbed EXCEPT ![p] = TRUE]
  /\ UNCHANGED <<deployment, apiKeys, key>>

\* init_redis, tracing, init_http_client: no connection is opened yet.
OpenClients(p) ==
  /\ Step(p, "opening", "serving")
  /\ UNCHANGED <<deployment, apiKeys, key, disturbed>>

Stop(p) ==
  /\ Step(p, "serving", "stopping")
  /\ UNCHANGED <<deployment, apiKeys, key, disturbed>>

\* The http client, Redis, the engine and tracing are closed.
Close(p) ==
  /\ Step(p, "stopping", "down")
  /\ UNCHANGED <<deployment, apiKeys, key, disturbed>>

\* The process is killed.  A row it inserted stays.
Crash(p) ==
  /\ pc[p] # "down"
  /\ pc' = [pc EXCEPT ![p] = "down"]
  /\ UNCHANGED <<deployment, apiKeys, key, disturbed>>

-----------------------------------------------------------------------------
Run(p) ==
  \/ Found(p) \/ NotFound(p) \/ Insert(p) \/ InsertConflicts(p) \/ SeedFails(p)
  \/ OpenClients(p) \/ Close(p)

Next ==
  \/ Outage \/ Recovery \/ Configure \/ Deactivate
  \/ \E p \in Procs : Start(p) \/ Run(p) \/ Stop(p) \/ Crash(p)

Spec == Init /\ [][Next]_vars

\* A process that runs goes on; nothing makes the database come back.
Fairness == \A p \in Procs : WF_vars(Run(p))

FairSpec == Spec /\ Fairness

-----------------------------------------------------------------------------
Rows == [key : Keys, by : Procs, role : {"tenant", "admin"}, active : BOOLEAN]

TypeOK ==
  /\ settings \in Settings
  /\ dbUp \in BOOLEAN
  /\ apiKeys \subseteq Rows
  /\ pc \in [Procs -> Steps]
  /\ key \in [Procs -> Keys]
  /\ disturbed \in [Procs -> BOOLEAN]
  /\ starts \in 0..MaxStarts
  /\ outages \in 0..MaxOutages

\* However many processes start together, a key has one row: with two,
\* scalar_one_or_none would raise for every request that brings the key.
OneRowPerKey == \A r, s \in apiKeys : r.key = s.key => r = s

\* A process that serves and met no failed statement finds its key in the database,
\* whoever won the race to insert it.
ServingKeyIsSeeded ==
  \A p \in Procs :
    pc[p] = "serving" /\ ~disturbed[p] => \E r \in apiKeys : r.key = key[p]

\* A key the operator deactivated stays so: no restart seeds it again.
DeactivationStays ==
  [][\A r \in apiKeys : ~r.active => \A s \in apiKeys' : s.key = r.key => ~s.active]_vars

\* A start ends with a process that serves, also while the database is away, unless
\* the process is killed.
EveryStartServes == \A p \in Procs : pc[p] = "selecting" ~> pc[p] \in {"serving", "down"}

\* The key set via DEFAULT_API_KEY has the permissions of an administrator.
DefaultKeyIsAdmin == \A r \in apiKeys : r.role = "admin"

\* No production process runs with the built-in default key.
ProductionRejectsBuiltin ==
  Production => \A p \in Procs : pc[p] = "serving" => key[p] # Builtin

-----------------------------------------------------------------------------
\* A process that is past the seed without a failed statement: its key is there.
SeedInv ==
  /\ OneRowPerKey
  /\ \A p \in Procs :
       pc[p] \in {"opening", "serving"} /\ ~disturbed[p] => \E r \in apiKeys : r.key = key[p]
=============================================================================
