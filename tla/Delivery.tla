------------------------------ MODULE Delivery ------------------------------
(***************************************************************************)
(* What the SLI job promises the backend and its own ledger, whatever      *)
(* implements it: observations are received by the backend at least once,  *)
(* a commit accounts observations that were received and that no earlier   *)
(* commit accounted for, and the settled frontier only moves forward over  *)
(* observations that were received.  gateway_sli.checkpoint's module       *)
(* comment (lines 5-16) states the promise; CheckpointedRun implements it. *)
(***************************************************************************)
EXTENDS Integers

CONSTANTS
  Obs,       \* observations
  StartOf,   \* startTime of an observation
  Due        \* observations that must be received in the end

VARIABLES
  received,   \* how often the backend received an observation (2: more than once)
  committed,  \* how many commits accounted for it (2: more than one)
  started,    \* a first commit was made
  from,       \* the start of the first committed window
  frontier    \* every observation started in from .. frontier-1 is settled

dvars == <<received, committed, started, from, frontier>>

\* A history counter that distinguishes never, once and more than once.
Once(f, S) == [o \in Obs |-> IF o \in S THEN (IF f[o] = 0 THEN 1 ELSE 2) ELSE f[o]]

\* Everything that started before t, from the start of the first window on, was
\* received.
SettledUpTo(t) == \A o \in Obs : from' <= StartOf[o] /\ StartOf[o] < t => received[o] >= 1

Init ==
  /\ received = [o \in Obs |-> 0]
  /\ committed = [o \in Obs |-> 0]
  /\ started = FALSE
  /\ from = 0
  /\ frontier = 0

\* The backend receives a set of observations, some of them perhaps again.
Receive(S) ==
  /\ received' = Once(received, S)
  /\ UNCHANGED <<committed, started, from, frontier>>

\* A repeated request: the backend receives the whole set twice.
ReceiveTwice(S) ==
  /\ received' = Once(Once(received, S), S)
  /\ UNCHANGED <<committed, started, from, frontier>>

\* A commit accounts for received observations, each for the first time, and
\* moves the frontier forward over received observations only.
Commit(S) ==
  /\ \A o \in S : received[o] >= 1 /\ committed[o] = 0
  /\ committed' = Once(committed, S)
  /\ started' = TRUE
  /\ started => from' = from
  /\ started => frontier' >= frontier
  /\ SettledUpTo(frontier')
  /\ UNCHANGED received

Next ==
  \E S \in SUBSET Obs : Receive(S) \/ ReceiveTwice(S) \/ Commit(S)

Spec == Init /\ [][Next]_dvars

\* Every due observation reaches the backend.
Delivered == \A o \in Due : <>(received[o] >= 1)
=============================================================================
