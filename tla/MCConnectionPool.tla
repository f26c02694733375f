-------------------------- MODULE MCConnectionPool --------------------------
(* Requests of every endpoint over one small pool.                           *)
EXTENDS ConnectionPool

CONSTANTS r1, r2, r3
=============================================================================
