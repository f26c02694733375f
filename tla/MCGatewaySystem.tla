--------------------------- MODULE MCGatewaySystem ---------------------------
(* Requests with the same prompt: some with the demo key, some with an API   *)
(* key, and under the limit of one user or of two.                           *)
EXTENDS GatewaySystem, TLC

CONSTANTS c1, c2, c3

MCWords == {":", "default", "cheap", "premium", "openrouter", "p"}

Asking(tier, demo) ==
  [prompt |-> <<"p">>, override |-> None, provider |-> None, tier |-> <<tier>>, demo |-> demo]

\* The first client brings the demo key, the second an API key.
MCKeyRequestOf == [c \in Clients |-> Asking("cheap", c = c1)]

MCOneUser == [s \in Scopes |-> [c \in Clients |-> "first"]]

\* The key of the first is good or missing, the key of the second is refused.
MCMixedKeys == [c \in Clients |-> IF c = c1 THEN {"good", "missing"} ELSE {"refused"}]

\* Three demo requests, one of them premium.
MCDemoRequestOf == [c \in Clients |-> Asking(IF c = c3 THEN "premium" ELSE "cheap", TRUE)]

MCTwoUsers == [s \in Scopes |-> [c \in Clients |-> IF c = c3 THEN "second" ELSE "first"]]

MCGoodKeys == [c \in Clients |-> {"good"}]

\* The keys of the cheap requests are refused.
MCCheapRefused == [c \in Clients |-> IF c = c3 THEN {"good"} ELSE {"refused"}]

MCLimit == [s \in Scopes |-> 1]
MCLimitTwo == [s \in Scopes |-> 2]
=============================================================================
