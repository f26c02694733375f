------------------------------ MODULE MCStartup ------------------------------
(* Two processes, two values of the default key.                             *)
EXTENDS Startup

CONSTANTS p1, p2, k1, k2
=============================================================================
