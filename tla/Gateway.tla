------------------------------- MODULE Gateway -------------------------------
(***************************************************************************)
(* POST /generate of the gateway: validation of the API key through its    *)
(* Redis cache (services/auth.py), the limits, the response cache          *)
(* (services/cache.py), the provider, and the background tasks that run    *)
(* after a response was sent (services/inference.py).  Clients send one    *)
(* request after another; the requests of different clients interleave at  *)
(* every await.  The limiter and the provider are represented by their     *)
(* outcomes (see RateLimiter and CircuitBreaker).                          *)
(***************************************************************************)
EXTENDS Integers, Sequences

CONSTANTS
  Clients,    \* clients, each with at most one request under way
  RequestOf,  \* what a client asks: [prompt, override, provider, tier, demo];
              \* prompt stands for the redacted prompt, None for an absent or
              \* empty name of a model or a provider
  Words,      \* texts are sequences of words and colons: what the clients write
  None,
  AuthTtl,    \* auth_cache_ttl_seconds, in ticks
  CacheTtl,   \* cache_ttl_seconds, in ticks
  MaxFaults   \* bound: failed calls to Redis or the database, process crashes

ASSUME GatewayAssumption ==
  /\ \A c \in Clients :
       /\ DOMAIN RequestOf[c] = {"prompt", "override", "provider", "tier", "demo"}
       /\ RequestOf[c].prompt \in Seq(Words) /\ RequestOf[c].tier \in Seq(Words)
       /\ RequestOf[c].override \in Seq(Words) \cup {None}
       /\ RequestOf[c].provider \in Seq(Words) \cup {None}
  /\ {":", "default"} \subseteq Words
  /\ None \notin Clients \cup Seq(Words)
  /\ AuthTtl \in Nat \ {0}
  /\ CacheTtl \in Nat \ {0}
  /\ MaxFaults \in Nat

VARIABLES
  active,    \* database: is_active of the clients' API key
  authTtl,   \* Redis: life left of the cached AuthContext, 0 when absent
  cacheTtl,  \* Redis: life left of a cached response, 0 when absent
  source,    \* Redis: the client whose completion the cached response is
  pc,        \* where the client's request is
  answer,    \* what the client was answered
  served,    \* history: whose completion the client was sent
  tasks,     \* background tasks of the response
  rows,      \* history: request_logs rows of the request
  faults     \* failed calls and crashes so far

redis == <<authTtl, cacheTtl, source>>
request == <<pc, answer, served, tasks, rows>>
vars == <<active, redis, request, faults>>

Success == {"generated", "cached"}
Answers == Success \cup {"none", "unauthorized", "limited", "bad_gateway", "server_error"}
Steps == {"idle", "received", "unknown_key", "valid_key", "authenticated",
          "admitted", "missed", "answered"}

\* How a provider appears in the key of the cache.
ProviderText(c) ==
  IF RequestOf[c].provider = None THEN <<"default">> ELSE RequestOf[c].provider

\* Mutant of ModelKey: the tier is left out.
ModelKeyFlat(c) ==
  IF RequestOf[c].override # None THEN RequestOf[c].override ELSE ProviderText(c)

\* cache_model_key: the model override alone, or provider and tier with a colon between.
ModelKey(c) ==
  IF RequestOf[c].override # None THEN RequestOf[c].override
  ELSE ProviderText(c) \o <<":">> \o RequestOf[c].tier

\* _cache_key: the text that is hashed (equal hashes are taken for equal texts).
CacheKey(c) == ModelKey(c) \o <<":">> \o RequestOf[c].prompt

Keys == {CacheKey(c) : c \in Clients}

\* Only openrouter is implemented; any other provider raises.
Implemented(c) == RequestOf[c].provider \in {None, <<"openrouter">>}

Fault == faults < MaxFaults /\ faults' = faults + 1

Step(c, from, to) == pc[c] = from /\ pc' = [pc EXCEPT ![c] = to]

Init ==
  /\ active = TRUE
  /\ authTtl = 0
  /\ cacheTtl = [k \in Keys |-> 0]
  /\ source = [k \in Keys |-> None]
  /\ pc = [c \in Clients |-> "idle"]
  /\ answer = [c \in Clients |-> "none"]
  /\ served = [c \in Clients |-> None]
  /\ tasks = [c \in Clients |-> <<>>]
  /\ rows = [c \in Clients |-> 0]
  /\ faults = 0

(* The environment ------------------------------------------------------- *)

\* Redis ages and drops its entries.
Tick ==
  /\ authTtl > 0 \/ \E k \in Keys : cacheTtl[k] > 0
  /\ authTtl' = IF authTtl > 0 THEN authTtl - 1 ELSE 0
  /\ cacheTtl' = [k \in Keys |-> IF cacheTtl[k] > 0 THEN cacheTtl[k] - 1 ELSE 0]
  /\ source' = [k \in Keys |-> IF cacheTtl'[k] > 0 THEN source[k] ELSE None]
  /\ UNCHANGED <<active, request, faults>>

\* An operator deactivates the API key in the database.
Deactivate ==
  /\ active
  /\ active' = FALSE
  /\ UNCHANGED <<redis, request, faults>>

\* The client sends its (next) request.
Submit(c) ==
  /\ Step(c, "idle", "received")
  /\ answer' = [answer EXCEPT ![c] = "none"]
  /\ served' = [served EXCEPT ![c] = None]
  /\ rows' = [rows EXCEPT ![c] = 0]
  /\ UNCHANGED <<active, redis, tasks, faults>>

(* validate_api_key ------------------------------------------------------ *)

\* The built-in demo key is not looked up.
AuthDemo(c) ==
  /\ RequestOf[c].demo
  /\ Step(c, "received", "authenticated")
  /\ UNCHANGED <<active, redis, answer, served, tasks, rows, faults>>

AuthHit(c) ==
  /\ ~RequestOf[c].demo
  /\ authTtl > 0
  /\ Step(c, "received", "authenticated")
  /\ UNCHANGED <<active, redis, answer, served, tasks, rows, faults>>

\* The entry is absent, or Redis fails and the error is swallowed.
AuthMiss(c) ==
  /\ ~RequestOf[c].demo
  /\ \/ authTtl = 0 /\ UNCHANGED faults
     \/ authTtl > 0 /\ Fault
  /\ Step(c, "received", "unknown_key")
  /\ UNCHANGED <<active, redis, answer, served, tasks, rows>>

\* A response that carries no background task, because an exception produced it.
Refuse(c, from, a) ==
  /\ Step(c, from, "idle")
  /\ answer' = [answer EXCEPT ![c] = a]
  /\ UNCHANGED <<served, tasks, rows>>

\* Mutant of AuthRead: is_active is not checked.
AuthReadInactive(c) ==
  /\ Step(c, "unknown_key", "valid_key")
  /\ UNCHANGED <<active, redis, answer, served, tasks, rows, faults>>

\* The database is asked; a missing or inactive key is refused.
AuthRead(c) ==
  /\ \/ /\ active
        /\ Step(c, "unknown_key", "valid_key")
        /\ UNCHANGED <<answer, served, tasks, rows>>
     \/ /\ ~active
        /\ Refuse(c, "unknown_key", "unauthorized")
  /\ UNCHANGED <<active, redis, faults>>

\* The database fails: the exception reaches the unhandled-exception handler.
AuthReadFails(c) ==
  /\ Fault
  /\ Refuse(c, "unknown_key", "server_error")
  /\ UNCHANGED <<active, redis>>

\* The record read before is cached, or Redis fails and the error is swallowed.
AuthStore(c) ==
  /\ Step(c, "valid_key", "authenticated")
  /\ \/ authTtl' = AuthTtl /\ UNCHANGED faults
     \/ UNCHANGED authTtl /\ Fault
  /\ UNCHANGED <<active, cacheTtl, source, answer, served, tasks, rows>>

(* handle_generate_request ----------------------------------------------- *)

\* _enforce_rate_limits returns.
Admit(c) ==
  /\ Step(c, "authenticated", "admitted")
  /\ UNCHANGED <<active, redis, answer, served, tasks, rows, faults>>

\* _enforce_rate_limits raises 429: the log is queued on the background tasks,
\* which the raised exception leaves behind.
OverLimit(c) ==
  /\ Refuse(c, "authenticated", "limited")
  /\ UNCHANGED <<active, redis, faults>>

\* Mutant of Hit: the hit is not logged.
HitUnlogged(c) ==
  /\ cacheTtl[CacheKey(c)] > 0
  /\ Step(c, "admitted", "answered")
  /\ answer' = [answer EXCEPT ![c] = "cached"]
  /\ served' = [served EXCEPT ![c] = source[CacheKey(c)]]
  /\ tasks' = [tasks EXCEPT ![c] = <<>>]
  /\ UNCHANGED <<active, redis, rows, faults>>

\* The cached response is returned; its log carries the cached cost.
Hit(c) ==
  /\ cacheTtl[CacheKey(c)] > 0
  /\ Step(c, "admitted", "answered")
  /\ answer' = [answer EXCEPT ![c] = "cached"]
  /\ served' = [served EXCEPT ![c] = source[CacheKey(c)]]
  /\ tasks' = [tasks EXCEPT ![c] = <<"log">>]
  /\ UNCHANGED <<active, redis, rows, faults>>

\* No entry, or Redis fails and the error is swallowed: the provider is asked.
Miss(c) ==
  /\ \/ cacheTtl[CacheKey(c)] = 0 /\ UNCHANGED faults
     \/ cacheTtl[CacheKey(c)] > 0 /\ Fault
  /\ Step(c, "admitted", "missed")
  /\ UNCHANGED <<active, redis, answer, served, tasks, rows>>

\* The provider answers: the response is sent with both background tasks.
Generate(c) ==
  /\ Implemented(c)
  /\ Step(c, "missed", "answered")
  /\ answer' = [answer EXCEPT ![c] = "generated"]
  /\ served' = [served EXCEPT ![c] = c]
  /\ tasks' = [tasks EXCEPT ![c] = <<"cache", "log">>]
  /\ UNCHANGED <<active, redis, rows, faults>>

\* generate_completion raises (the breaker is open, the provider failed or is
\* not implemented): 502, and the queued log is left behind.
GenerateFails(c) ==
  /\ Refuse(c, "missed", "bad_gateway")
  /\ UNCHANGED <<active, redis, faults>>

(* Background tasks, one after the other, after the response was sent ----- *)

\* set_cached_response; an error of Redis is swallowed.
StoreResponse(c) ==
  /\ pc[c] = "answered"
  /\ tasks[c] # <<>>
  /\ Head(tasks[c]) = "cache"
  /\ tasks' = [tasks EXCEPT ![c] = Tail(@)]
  /\ \/ /\ cacheTtl' = [cacheTtl EXCEPT ![CacheKey(c)] = CacheTtl]
        /\ source' = [source EXCEPT ![CacheKey(c)] = c]
        /\ UNCHANGED faults
     \/ UNCHANGED <<cacheTtl, source>> /\ Fault
  /\ UNCHANGED <<active, authTtl, pc, answer, served, rows>>

\* _persist_request_log; an error of the database is logged and swallowed.
PersistLog(c) ==
  /\ pc[c] = "answered"
  /\ tasks[c] # <<>>
  /\ Head(tasks[c]) = "log"
  /\ tasks' = [tasks EXCEPT ![c] = Tail(@)]
  /\ \/ rows' = [rows EXCEPT ![c] = @ + 1] /\ UNCHANGED faults
     \/ UNCHANGED rows /\ Fault
  /\ UNCHANGED <<active, redis, pc, answer, served>>

Complete(c) ==
  /\ tasks[c] = <<>>
  /\ Step(c, "answered", "idle")
  /\ UNCHANGED <<active, redis, answer, served, tasks, rows, faults>>

\* The process dies: requests and background tasks are lost, Redis is not.
Crash ==
  /\ Fault
  /\ \E c \in Clients : pc[c] # "idle"
  /\ pc' = [c \in Clients |-> "idle"]
  /\ tasks' = [c \in Clients |-> <<>>]
  /\ UNCHANGED <<active, redis, answer, served, rows>>

-----------------------------------------------------------------------------
\* What the process does with a request it has received.
Handle(c) ==
  \/ AuthDemo(c) \/ AuthHit(c) \/ AuthMiss(c) \/ AuthRead(c) \/ AuthReadFails(c)
  \/ AuthStore(c) \/ Admit(c) \/ OverLimit(c) \/ Hit(c) \/ Miss(c)
  \/ Generate(c) \/ GenerateFails(c)
  \/ StoreResponse(c) \/ PersistLog(c) \/ Complete(c)

Next ==
  \/ Tick
  \/ Deactivate
  \/ Crash
  \/ \E c \in Clients : Submit(c) \/ Handle(c)

Spec == Init /\ [][Next]_vars

\* Redis ages its entries and the event loop runs every request it has received.
Fairness == WF_vars(Tick) /\ \A c \in Clients : WF_vars(Handle(c))

FairSpec == Spec /\ Fairness

-----------------------------------------------------------------------------
TypeOK ==
  /\ active \in BOOLEAN
  /\ authTtl \in 0..AuthTtl
  /\ cacheTtl \in [Keys -> 0..CacheTtl]
  /\ source \in [Keys -> Clients \cup {None}]
  /\ pc \in [Clients -> Steps]
  /\ answer \in [Clients -> Answers]
  /\ served \in [Clients -> Clients \cup {None}]
  /\ tasks \in [Clients -> {<<>>, <<"log">>, <<"cache", "log">>}]
  /\ rows \in [Clients -> 0..1]
  /\ faults \in 0..MaxFaults

SameRequest(c, d) ==
  \A f \in {"prompt", "override", "provider", "tier"} : RequestOf[c][f] = RequestOf[d][f]

\* No colon in the name of the model, of the provider or of the tier.
PlainNames(c) ==
  \A f \in {"override", "provider", "tier"} :
    RequestOf[c][f] = None \/ \A i \in 1..Len(RequestOf[c][f]) : RequestOf[c][f][i] # ":"

\* What a client may write without being taken for another: the names are plain, no
\* model is called like a provider of the other request ("default" where it names
\* none), no provider is called "default", and the same model is asked of the same
\* provider.
ToldApart(c, d) ==
  /\ PlainNames(c) /\ PlainNames(d)
  /\ RequestOf[c].override # ProviderText(d) /\ RequestOf[d].override # ProviderText(c)
  /\ ProviderText(c) = ProviderText(d) => RequestOf[c].provider = RequestOf[d].provider
  /\ RequestOf[c].override = RequestOf[d].override /\ RequestOf[c].override # None =>
       RequestOf[c].provider = RequestOf[d].provider /\ RequestOf[c].tier = RequestOf[d].tier

\* The completion a client is sent was produced for its own prompt, model, provider and
\* tier, or for a request that writes the same text into the cache key and that names
\* do not tell apart, however requests interleave with cache writes and expiry.
ServedSameRequest ==
  \A c \in Clients :
    answer[c] \in Success =>
      /\ served[c] \in Clients
      /\ CacheKey(served[c]) = CacheKey(c)
      /\ ToldApart(served[c], c) => SameRequest(served[c], c)

\* The same of all requests (cache_model_key is "a logical caching key based on what the
\* user requested").
ServedWhatWasRequested ==
  \A c \in Clients :
    answer[c] \in Success => served[c] \in Clients /\ SameRequest(served[c], c)

\* While nothing fails, every answered request leaves exactly one row for a
\* success, and never one for a refusal.
SuccessesLoggedOnce ==
  \A c \in Clients :
    /\ rows[c] >= 1 => rows[c] = 1 /\ answer[c] \in Success
    /\ pc[c] = "idle" /\ faults = 0 /\ answer[c] \in Success => rows[c] = 1

\* Every request that was handled is logged, refused ones included.
AllRequestsLogged ==
  \A c \in Clients :
    pc[c] = "idle" /\ faults = 0
      /\ answer[c] \in Success \cup {"limited", "bad_gateway"} => rows[c] = 1

\* A deactivated key is eventually refused for good, although its AuthContext is
\* cached and a request that read the key before may store it once more
\* (validate_api_key checks is_active in the database only on a cache miss).
DeactivatedKeyRefused == ~active ~> [](authTtl = 0)

-----------------------------------------------------------------------------
\* Where a request is decides what it has been answered and what is still to be
\* written for it.
LogInv ==
  \A c \in Clients :
    /\ pc[c] \notin {"idle", "answered"} =>
         answer[c] = "none" /\ rows[c] = 0 /\ tasks[c] = <<>>
    /\ pc[c] = "answered" =>
         /\ answer[c] \in Success
         /\ tasks[c] # <<>> => rows[c] = 0
         /\ tasks[c] = <<>> /\ faults = 0 => rows[c] = 1
    /\ pc[c] = "idle" =>
         /\ tasks[c] = <<>>
         /\ rows[c] = 1 => answer[c] \in Success
         /\ faults = 0 /\ answer[c] \in Success => rows[c] = 1

\* A cached response is the completion of a request with that key, and so is what a
\* client was sent.
CacheInv ==
  /\ \A k \in Keys : cacheTtl[k] > 0 => source[k] \in Clients /\ CacheKey(source[k]) = k
  /\ \A c \in Clients :
       answer[c] \in Success => served[c] \in Clients /\ CacheKey(served[c]) = CacheKey(c)
=============================================================================
