---------------------------- MODULE MCRateLimiter ----------------------------
(* Two requests with one API key, each from a user of its own.               *)
EXTENDS RateLimiter, TLC

CONSTANTS k1, r1, r2

MCIdOf == [s \in Scopes |-> [r \in Requests |-> IF s = "user" THEN r ELSE k1]]
MCLimit == [s \in Scopes |-> 1]

\* The requests, and with them their users, are interchangeable.
MCSymmetry == Permutations(Requests)
=============================================================================
