-------------------------- MODULE MCCheckpointedRun --------------------------
(* Small instances of CheckpointedRun.                                     *)
EXTENDS CheckpointedRun, TLC

CONSTANTS a, b, c, w1, w2

\* a is short and early; b runs longer than the overlap and is old when it
\* becomes visible; c starts while b is still running.
MCStartOf == [o \in Obs |-> CASE o = a -> 1 [] o = b -> 1 [] o = c -> 3]
MCEndOf == [o \in Obs |-> CASE o = a -> 1 [] o = b -> 2 [] o = c -> 4]

\* The same for the shorter horizon of the runs with overlapping tasks.
MCEarlyStartOf == [o \in Obs |-> IF o = a THEN 0 ELSE 1]
MCEarlyEndOf == [o \in Obs |-> IF o = a THEN 0 ELSE 2]

\* Tasks are interchangeable.
MCSymmetry == Permutations(Workers)
=============================================================================
