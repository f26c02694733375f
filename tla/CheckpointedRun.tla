--------------------------- MODULE CheckpointedRun ---------------------------
(***************************************************************************)
(* The scheduled SLI job (gateway_sli.cli.main and gateway_sli.pipeline.   *)
(* run) with its cross-run checkpoint (gateway_sli.checkpoint), run by one *)
(* or more possibly overlapping tasks ("workers").                         *)
(*                                                                         *)
(* A run fixes its window from the clock, loads the checkpoint twice (once *)
(* in main to choose where the window starts, once in run to obtain the    *)
(* seen map and the store's version), reads the window, drops the          *)
(* observations already seen, exports the rest, sends a heartbeat, saves   *)
(* the checkpoint when everything so far was clean, sends a final          *)
(* heartbeat and exits.  Time is in abstract ticks (the code's minutes).   *)
(***************************************************************************)
EXTENDS Integers, FiniteSets

CONSTANTS
  Workers,        \* tasks that may execute the job
  Obs,            \* observations recorded by Langfuse
  StartOf,        \* startTime of an observation
  EndOf,          \* endTime of an observation
  WindowMinutes,  \* --window-minutes
  GraceMinutes,   \* --grace-minutes
  OverlapMinutes, \* --overlap-minutes
  MaxRecords,     \* --max-records
  ConditionalPut, \* TRUE: DynamoDbCheckpointStore, FALSE: FileCheckpointStore
  Overlapping,    \* may a task be launched while another one is running?
  MaxLag,         \* every observation is visible at most this long after its start
  MaxTime,        \* bound: the clock stops here
  MaxFaults       \* bound: crashes and failed calls in one behaviour

ASSUME TimesAssumption ==
  /\ StartOf \in [Obs -> Nat]
  /\ EndOf \in [Obs -> Nat]
  /\ MaxLag \in Nat
  /\ \A o \in Obs : StartOf[o] <= EndOf[o] /\ EndOf[o] <= StartOf[o] + MaxLag

\* The checks main makes on its arguments (cli.py 164-171).
ASSUME ArgumentsAssumption ==
  /\ WindowMinutes \in Nat \ {0}
  /\ GraceMinutes \in Nat
  /\ OverlapMinutes \in Nat
  /\ MaxRecords \in Nat \ {0}
  /\ ConditionalPut \in BOOLEAN
  /\ Overlapping \in BOOLEAN

ASSUME BoundsAssumption ==
  /\ MaxTime \in Nat
  /\ MaxFaults \in Nat

VARIABLES
  now,        \* the wall clock
  visible,    \* observations Langfuse returns with both timestamps set
  version,    \* version of the stored checkpoint item; 0: there is no item
  watermark,  \* its watermark (meaningful when version > 0)
  seen,       \* the keys of its seen map (id -> end; the end is EndOf[id])
  pc,         \* where each worker is in main/run
  wstart,     \* window_start
  wend,       \* window_end
  expect,     \* DynamoDbCheckpointStore._version of the worker's store object
  prior,      \* prior_seen / checkpoint.seen from the second load
  read,       \* observations read by the worker's streaming pass
  raised,     \* AggregationStats flags that are not "clean"
  exit,       \* how the worker's last run ended
  faults,     \* crashes and failed calls so far
  nextRun,    \* earliest time the scheduler launches the job again
  delivered,  \* history: deliveries of an observation to the backend (0, 1, 2 = more)
  counted,    \* history: committed runs that processed it (0, 1, 2 = more)
  origin,     \* history: where the chain of windows behind the stored checkpoint starts
  base        \* history: where the chain that the worker's window continues starts

storeVars == <<version, watermark, seen>>
windowVars == <<wstart, wend, base>>
runVars == <<pc, windowVars, expect, prior, read, raised>>
historyVars == <<delivered, counted, origin>>
vars == <<now, visible, storeVars, runVars, exit, faults, nextRun, historyVars>>

Steps == {"idle", "launched", "resumed", "loaded", "read", "flushed", "beaten",
          "settled"}

Flags == {"source", "export", "heartbeat", "truncated", "conflict"}

ExitStatus == {"none", "ok", "failed", "crashed"}

-----------------------------------------------------------------------------
(* Helpers                                                                 *)

\* Observations of the worker's window that Langfuse returns (fromStartTime <=
\* startTime < toStartTime).
Readable(w) == {o \in visible : wstart[w] <= StartOf[o] /\ StartOf[o] < wend[w]}

\* Mutant of Processed: the cross-run filter is missing.
ProcessedUnfiltered(w) == read[w]

\* Records that pass the cross-run filter and reach aggregator.add.
Processed(w) == read[w] \ prior[w]

\* Mutant of PruneSeen: an off-by-one at the horizon.
PruneSeenStrict(old, current, cutoff) == {o \in old \cup current : EndOf[o] > cutoff}

\* prune_seen: prior and current ids whose end is inside the overlap horizon.
PruneSeen(old, current, cutoff) == {o \in old \cup current : EndOf[o] >= cutoff}

Idle(w) == pc[w] = "idle"

\* A history counter that distinguishes never, once and more than once.
Bump(f, S) == [o \in Obs |-> IF o \in S THEN (IF f[o] = 0 THEN 1 ELSE 2) ELSE f[o]]

Fault == faults < MaxFaults /\ faults' = faults + 1

Step(w, from, to) == pc[w] = from /\ pc' = [pc EXCEPT ![w] = to]

Raise(w, F) == raised' = [raised EXCEPT ![w] = @ \cup F]

\* The process is gone: nothing of its memory survives.
Vanish(w, status) ==
  /\ pc' = [pc EXCEPT ![w] = "idle"]
  /\ wstart' = [wstart EXCEPT ![w] = 0]
  /\ wend' = [wend EXCEPT ![w] = 0]
  /\ base' = [base EXCEPT ![w] = 0]
  /\ expect' = [expect EXCEPT ![w] = 0]
  /\ prior' = [prior EXCEPT ![w] = {}]
  /\ read' = [read EXCEPT ![w] = {}]
  /\ raised' = [raised EXCEPT ![w] = {}]
  /\ exit' = [exit EXCEPT ![w] = status]

-----------------------------------------------------------------------------
Init ==
  /\ now = 0
  /\ visible = {}
  /\ version = 0
  /\ watermark = 0
  /\ seen = {}
  /\ pc = [w \in Workers |-> "idle"]
  /\ wstart = [w \in Workers |-> 0]
  /\ wend = [w \in Workers |-> 0]
  /\ base = [w \in Workers |-> 0]
  /\ expect = [w \in Workers |-> 0]
  /\ prior = [w \in Workers |-> {}]
  /\ read = [w \in Workers |-> {}]
  /\ raised = [w \in Workers |-> {}]
  /\ exit = [w \in Workers |-> "none"]
  /\ faults = 0
  /\ nextRun = 0
  /\ delivered = [o \in Obs |-> 0]
  /\ counted = [o \in Obs |-> 0]
  /\ origin = 0

(* The environment ------------------------------------------------------- *)

\* Time passes, but never beyond the latest moment a hidden observation may
\* become visible.
Tick ==
  /\ now < MaxTime
  /\ \A o \in Obs \ visible : now < StartOf[o] + MaxLag
  /\ now' = now + 1
  /\ UNCHANGED <<visible, storeVars, runVars, exit, faults, nextRun, historyVars>>

\* A finished request becomes visible in Langfuse.  Before that it is absent or
\* has no endTime, and parse_observation rejects it.
Ingest(o) ==
  /\ o \notin visible
  /\ now >= EndOf[o]
  /\ visible' = visible \cup {o}
  /\ UNCHANGED <<now, storeVars, runVars, exit, faults, nextRun, historyVars>>

(* One run of the job ---------------------------------------------------- *)

\* main: window_end is fixed from the clock before anything is loaded.
Launch(w) ==
  /\ Overlapping \/ \A v \in Workers : Idle(v)
  /\ now >= nextRun
  /\ Step(w, "idle", "launched")
  /\ wend' = [wend EXCEPT ![w] = now - GraceMinutes]
  /\ wstart' = [wstart EXCEPT ![w] = now - GraceMinutes - WindowMinutes]
  /\ exit' = [exit EXCEPT ![w] = "none"]
  /\ UNCHANGED <<now, visible, storeVars, base, expect, prior, read, raised, faults,
                 nextRun, historyVars>>

\* The window continues the windows behind the stored checkpoint; without one it is
\* the first of a chain.
Continue(w) ==
  base' = [base EXCEPT ![w] = IF version > 0 THEN origin ELSE wstart[w]]

\* Mutant of Resume: the overlap is not subtracted.
ResumeWithoutOverlap(w) ==
  /\ Step(w, "launched", "resumed")
  /\ wstart' = [wstart EXCEPT ![w] = IF version > 0 THEN watermark ELSE @]
  /\ Continue(w)
  /\ expect' = [expect EXCEPT ![w] = version]
  /\ UNCHANGED <<now, visible, storeVars, wend, prior, read, raised, exit,
                 faults, nextRun, historyVars>>

\* main: the first load moves window_start back to the watermark minus overlap.
Resume(w) ==
  /\ Step(w, "launched", "resumed")
  /\ wstart' = [wstart EXCEPT ![w] =
                  IF version > 0 THEN watermark - OverlapMinutes ELSE @]
  /\ Continue(w)
  /\ expect' = [expect EXCEPT ![w] = version]
  /\ UNCHANGED <<now, visible, storeVars, wend, prior, read, raised, exit,
                 faults, nextRun, historyVars>>

\* run: the second load supplies the seen map and refreshes the store's version.
Load(w) ==
  /\ Step(w, "resumed", "loaded")
  /\ expect' = [expect EXCEPT ![w] = version]
  /\ prior' = [prior EXCEPT ![w] = seen]
  /\ UNCHANGED <<now, visible, storeVars, windowVars, read, raised, exit,
                 faults, nextRun, historyVars>>

\* run: the streaming pass reads the whole window.
ReadWindow(w) ==
  /\ Step(w, "loaded", "read")
  /\ Cardinality(Readable(w)) <= MaxRecords
  /\ read' = [read EXCEPT ![w] = Readable(w)]
  /\ UNCHANGED <<now, visible, storeVars, windowVars, expect, prior, raised,
                 exit, faults, nextRun, historyVars>>

\* run: the safety valve stops the pass after max_records records.
ReadTruncated(w) ==
  /\ Step(w, "loaded", "read")
  /\ \E S \in SUBSET Readable(w) :
        /\ Cardinality(S) = MaxRecords
        /\ S # Readable(w)
        /\ read' = [read EXCEPT ![w] = S]
  /\ Raise(w, {"truncated"})
  /\ UNCHANGED <<now, visible, storeVars, windowVars, expect, prior, exit,
                 faults, nextRun, historyVars>>

\* run: the source raises part way; guarded_records contains the error.
SourceFails(w) ==
  /\ Fault
  /\ Step(w, "loaded", "read")
  /\ \E S \in SUBSET Readable(w) :
        /\ Cardinality(S) <= MaxRecords
        /\ read' = [read EXCEPT ![w] = S]
  /\ Raise(w, {"source", "export"})
  /\ UNCHANGED <<now, visible, storeVars, windowVars, expect, prior, exit,
                 nextRun, historyVars>>

\* run: the main flush is skipped when the source failed.
SkipExport(w) ==
  /\ "source" \in raised[w]
  /\ Step(w, "read", "flushed")
  /\ UNCHANGED <<now, visible, storeVars, windowVars, expect, prior, read,
                 raised, exit, faults, nextRun, historyVars>>

\* run: the main flush is accepted by the backend.
Export(w) ==
  /\ "source" \notin raised[w]
  /\ Step(w, "read", "flushed")
  /\ delivered' = Bump(delivered, Processed(w))
  /\ UNCHANGED <<now, visible, storeVars, windowVars, expect, prior, read,
                 raised, exit, faults, nextRun, counted, origin>>

\* run: the exporter raises; the request was lost, or only its answer was.
ExportFails(w) ==
  /\ Fault
  /\ "source" \notin raised[w]
  /\ Step(w, "read", "flushed")
  /\ delivered' \in {delivered, Bump(delivered, Processed(w))}
  /\ Raise(w, {"export"})
  /\ UNCHANGED <<now, visible, storeVars, windowVars, expect, prior, read, exit,
                 nextRun, counted, origin>>

\* The exporter retries a POST whose answer was lost and the second one succeeds:
\* the backend has the flush twice and no flag is raised.
ExportRepeated(w) ==
  /\ Fault
  /\ "source" \notin raised[w]
  /\ Step(w, "read", "flushed")
  /\ delivered' = Bump(Bump(delivered, Processed(w)), Processed(w))
  /\ UNCHANGED <<now, visible, storeVars, windowVars, expect, prior, read,
                 raised, exit, nextRun, counted, origin>>

Heartbeat(w) ==
  /\ Step(w, "flushed", "beaten")
  /\ UNCHANGED <<now, visible, storeVars, windowVars, expect, prior, read,
                 raised, exit, faults, nextRun, historyVars>>

HeartbeatFails(w) ==
  /\ Fault
  /\ Step(w, "flushed", "beaten")
  /\ Raise(w, {"heartbeat"})
  /\ UNCHANGED <<now, visible, storeVars, windowVars, expect, prior, read, exit,
                 nextRun, historyVars>>

\* Mutants of SaveAllowed: a failed export, or a truncated read, is ignored.
SaveAllowedUnexported(w) == raised[w] \cap {"heartbeat", "truncated"} = {}
SaveAllowedTruncated(w) == raised[w] \cap {"export", "heartbeat"} = {}

\* run: the guard of the checkpoint save.
SaveAllowed(w) == raised[w] \cap {"export", "heartbeat", "truncated"} = {}

SkipSave(w) ==
  /\ ~SaveAllowed(w)
  /\ Step(w, "beaten", "settled")
  /\ UNCHANGED <<now, visible, storeVars, windowVars, expect, prior, read,
                 raised, exit, faults, nextRun, historyVars>>

\* Mutant of PutAccepted: an unconditional write.
PutAlways(w) == TRUE

\* put_item's condition: attribute_not_exists(job_id) when _version is 0 and
\* version = :expected otherwise; os.replace has no condition.
PutAccepted(w) == ConditionalPut => version = expect[w]

\* The stored checkpoint is replaced by this run's.
PutCheckpoint(w) ==
  /\ version' = version + 1
  /\ watermark' = wend[w]
  /\ seen' = PruneSeen(prior[w], Processed(w), wend[w] - OverlapMinutes)
  /\ counted' = Bump(counted, Processed(w))
  /\ origin' = base[w]
  /\ UNCHANGED delivered

Save(w) ==
  /\ SaveAllowed(w)
  /\ PutAccepted(w)
  /\ Step(w, "beaten", "settled")
  /\ PutCheckpoint(w)
  /\ expect' = [expect EXCEPT ![w] = @ + 1]
  /\ UNCHANGED <<now, visible, windowVars, prior, read, raised, exit, faults,
                 nextRun>>

SaveConflict(w) ==
  /\ SaveAllowed(w)
  /\ ~PutAccepted(w)
  /\ Step(w, "beaten", "settled")
  /\ Raise(w, {"conflict"})
  /\ UNCHANGED <<now, visible, storeVars, windowVars, expect, prior, read, exit,
                 faults, nextRun, historyVars>>

\* The write is applied but its answer is lost: an exception other than
\* CheckpointConflict leaves run and ends the process.
SaveUnacknowledged(w) ==
  /\ Fault
  /\ pc[w] = "beaten"
  /\ SaveAllowed(w)
  /\ PutAccepted(w)
  /\ PutCheckpoint(w)
  /\ Vanish(w, "crashed")
  /\ UNCHANGED <<now, visible, nextRun>>

\* Mutant of ExitCode: a conflict is left out of run_ok.
ExitCodeAnyConflict(F) == IF F \ {"conflict"} = {} THEN "ok" ELSE "failed"

\* main: run_ok decides the exit status.
ExitCode(F) == IF F = {} THEN "ok" ELSE "failed"

\* run: the final heartbeat is sent, main returns.  After a clean run the
\* scheduler waits for the tick after its launch; a failed one may be retried at
\* once.
Finish(w) ==
  /\ pc[w] = "settled"
  /\ Vanish(w, ExitCode(raised[w]))
  /\ nextRun' = IF raised[w] = {} /\ nextRun <= wend[w] + GraceMinutes
                  THEN wend[w] + GraceMinutes + 1 ELSE nextRun
  /\ UNCHANGED <<now, visible, storeVars, faults, historyVars>>

\* run: the final heartbeat fails although the checkpoint may be committed.
FinishHeartbeatFails(w) ==
  /\ Fault
  /\ pc[w] = "settled"
  /\ Vanish(w, ExitCode(raised[w] \cup {"heartbeat"}))
  /\ UNCHANGED <<now, visible, storeVars, nextRun, historyVars>>

\* The task is killed, or an exception leaves main.
Crash(w) ==
  /\ Fault
  /\ ~Idle(w)
  /\ Vanish(w, "crashed")
  /\ UNCHANGED <<now, visible, storeVars, nextRun, historyVars>>

\* The end of the modelled horizon: nothing runs and nothing is due.
Horizon ==
  /\ now = MaxTime
  /\ nextRun > now
  /\ \A o \in Obs \ visible : now < EndOf[o]
  /\ \A w \in Workers : Idle(w)
  /\ UNCHANGED vars

-----------------------------------------------------------------------------
\* The steps of a run that need no failure.
Progress(w) ==
  \/ Resume(w) \/ Load(w) \/ ReadWindow(w) \/ ReadTruncated(w)
  \/ SkipExport(w) \/ Export(w) \/ Heartbeat(w)
  \/ SkipSave(w) \/ Save(w) \/ SaveConflict(w) \/ Finish(w)

Failure(w) ==
  \/ SourceFails(w) \/ ExportFails(w) \/ ExportRepeated(w)
  \/ HeartbeatFails(w) \/ SaveUnacknowledged(w) \/ FinishHeartbeatFails(w)
  \/ Crash(w)

Next ==
  \/ Tick
  \/ \E o \in Obs : Ingest(o)
  \/ \E w \in Workers : Launch(w) \/ Progress(w) \/ Failure(w)
  \/ Horizon

Spec == Init /\ [][Next]_vars

\* The clock runs, finished requests are ingested, the scheduler launches the
\* job and a running process keeps running.
Fairness ==
  /\ WF_vars(Tick)
  /\ \A o \in Obs : WF_vars(Ingest(o))
  /\ WF_vars(\E w \in Workers : Launch(w))
  /\ \A w \in Workers : WF_vars(Progress(w))

FairSpec == Spec /\ Fairness

-----------------------------------------------------------------------------
(* Properties                                                              *)

\* The types of all variables.
TypeOK ==
  /\ now \in Nat
  /\ visible \subseteq Obs
  /\ version \in Nat
  /\ watermark \in Int
  /\ seen \subseteq Obs
  /\ pc \in [Workers -> Steps]
  /\ wstart \in [Workers -> Int]
  /\ wend \in [Workers -> Int]
  /\ base \in [Workers -> Int]
  /\ expect \in [Workers -> Nat]
  /\ prior \in [Workers -> SUBSET Obs]
  /\ read \in [Workers -> SUBSET Obs]
  /\ raised \in [Workers -> SUBSET Flags]
  /\ exit \in [Workers -> ExitStatus]
  /\ faults \in 0..MaxFaults
  /\ nextRun \in Int
  /\ delivered \in [Obs -> 0..2]
  /\ counted \in [Obs -> 0..2]
  /\ origin \in Int

\* No observation is processed by two committed runs: the seen map suppresses
\* what the next window re-reads (checkpoint.py prune_seen and the cross-run
\* filter of run), whatever fails or crashes in between.
CountedOnce == \A o \in Obs : counted[o] <= 1

\* Once a committed watermark has left an observation behind for good (no later
\* window reaches back to it), the observation was delivered: failed, crashed
\* and truncated runs leave no gap between the committed windows that continue each
\* other, back to the first of them, even when tasks overlap (main resumes from the
\* watermark minus the overlap).
NothingSkipped ==
  version > 0 =>
    \A o \in Obs :
      origin <= StartOf[o] /\ StartOf[o] < watermark - OverlapMinutes
        => delivered[o] >= 1

\* Without a single failed call or crash no observation is delivered twice: the
\* overlap re-read alone never double-counts DELTA metrics.
DeliveredOnceWhenFaultless ==
  faults = 0 => \A o \in Obs : delivered[o] <= 1

\* The stored seen map only suppresses observations the backend has received,
\* and holds none older than the overlap horizon of the stored watermark.
SeenIsDeliveredAndRecent ==
  \A o \in seen : delivered[o] >= 1 /\ EndOf[o] >= watermark - OverlapMinutes

\* A commit never forgets an id that is still inside its own horizon, even when
\* tasks overlap: the new seen map is always built from the one it replaces
\* (DynamoDbCheckpointStore.save's conditional write).
SeenRetained ==
  [][version' # version =>
        \A o \in seen : EndOf[o] >= watermark' - OverlapMinutes => o \in seen']_vars

\* A commit over a stored checkpoint leaves no observation behind undelivered: all that
\* starts before its watermark minus the overlap, and not before the replaced one's, was
\* delivered.  False when tasks overlap: two tasks that found no checkpoint each read
\* their own --window-minutes, and the later of the two commits over the earlier one
\* though its window starts after the stored watermark (cli.main, 183-190).
CommitLeavesNoGap ==
  [][version > 0 /\ version' # version =>
        \A o \in Obs :
          /\ watermark - OverlapMinutes <= StartOf[o]
          /\ StartOf[o] < watermark' - OverlapMinutes
          => delivered[o] >= 1]_vars

\* A commit never moves the watermark backwards.
WatermarkMonotone ==
  [][version > 0 => watermark' >= watermark]_vars

\* main returns 0 only if the run's own checkpoint was committed and everything
\* the run read was delivered.
CleanExitIsCommitted ==
  [][\A w \in Workers :
       exit[w] # "ok" /\ exit'[w] = "ok"
         => /\ version = expect[w] => watermark = wend[w]
            /\ \A o \in read[w] : delivered[o] >= 1 /\ counted[o] >= 1]_vars

\* What a run found in its window and could not commit is delivered by a later
\* run: the retry reads the same window again (checkpoint.py 14-16).
RetriedFromSamePoint ==
  \A o \in Obs :
    (\E w \in Workers : pc[w] = "loaded" /\ o \in Readable(w)) ~> delivered[o] >= 1

-----------------------------------------------------------------------------
(* Inductive invariants behind the safety properties.                      *)

\* Between the second load and the save.
Loaded == {"loaded", "read", "flushed", "beaten"}

\* A worker whose version is still the stored one holds the stored seen map.
VersionInv ==
  \A w \in Workers :
    /\ expect[w] <= version
    /\ pc[w] \in Loaded /\ expect[w] = version => prior[w] = seen

\* Ids that can suppress a record belong to observations that some committed run
\* processed and the backend received.
SeenInv ==
  /\ \A o \in seen :
        delivered[o] >= 1 /\ counted[o] >= 1 /\ EndOf[o] >= watermark - OverlapMinutes
  /\ \A w \in Workers : \A o \in prior[w] : delivered[o] >= 1 /\ counted[o] >= 1

\* What the flags of a run that is past its export or its save stand for.
OutcomeInv ==
  \A w \in Workers :
    /\ "source" \in raised[w] => "export" \in raised[w]
    /\ pc[w] \in {"flushed", "beaten"} /\ "export" \notin raised[w]
         => \A o \in read[w] : delivered[o] >= 1
    /\ pc[w] = "settled" /\ raised[w] = {}
         => /\ \A o \in read[w] : delivered[o] >= 1 /\ counted[o] >= 1
            /\ version = expect[w] => watermark = wend[w]

\* Every state of every configuration.
CommonInv == VersionInv /\ SeenInv /\ OutcomeInv

\* One run at a time.
OneRun == \A v, w \in Workers : Idle(v) \/ Idle(w) \/ v = w

\* Windows follow each other: the window of the running job starts at the stored
\* watermark minus the overlap, ends after it, and its seen map is the stored one.
WindowInv ==
  /\ version = 0 => \A o \in Obs : counted[o] = 0
  /\ version > 0 => watermark <= now - GraceMinutes
  /\ \A w \in Workers :
       /\ ~Idle(w) => wend[w] <= now - GraceMinutes
       /\ ~Idle(w) /\ version > 0 => watermark <= wend[w]
       /\ pc[w] \in Loaded \cup {"resumed"} /\ version > 0
            => wstart[w] = watermark - OverlapMinutes /\ base[w] = origin
       /\ pc[w] \in Loaded => prior[w] = seen /\ expect[w] = version
       /\ pc[w] \in {"read", "flushed", "beaten"}
            => \A o \in read[w] : wstart[w] <= StartOf[o]

\* A counted observation that a later window can still reach is in the seen map.
CountedInv ==
  /\ CountedOnce
  /\ \A o \in Obs :
       counted[o] >= 1 /\ StartOf[o] >= watermark - OverlapMinutes => o \in seen

\* One task at a time: the invariant behind CountedOnce.
SerialInv == OneRun /\ WindowInv /\ CountedInv

\* A hidden observation is still young, and a complete read holds everything in
\* its window that is older than the overlap.
CoverageInv ==
  /\ \A o \in Obs \ visible : now <= StartOf[o] + MaxLag
  /\ \A w \in Workers : ~Idle(w) => wend[w] <= now - GraceMinutes
  /\ \A w \in Workers :
       pc[w] \in {"read", "flushed", "beaten"} /\ raised[w] \cap {"source", "truncated"} = {}
         => \A o \in Obs :
              wstart[w] <= StartOf[o] /\ StartOf[o] < wend[w] - OverlapMinutes => o \in read[w]

\* What a window's chain holds before the window was delivered.
ChainInv ==
  \A w \in Workers : pc[w] \in Loaded \cup {"resumed"} =>
    \A o \in Obs : base[w] <= StartOf[o] /\ StartOf[o] < wstart[w] => delivered[o] >= 1

\* Before anything fails no run raises a flag, and what was delivered was committed, or
\* is what the running job has just exported.
FaultlessInv ==
  faults = 0 =>
    /\ DeliveredOnceWhenFaultless
    /\ \A w \in Workers : raised[w] = {}
    /\ \A o \in Obs :
         delivered[o] >= 1 =>
           \/ counted[o] >= 1
           \/ \E w \in Workers : pc[w] \in {"flushed", "beaten"} /\ o \in Processed(w)

-----------------------------------------------------------------------------
(* The abstract promise this job implements.                               *)

\* Observations old enough, within the modelled horizon, to be delivered.
DueWithinHorizon ==
  {o \in Obs : 0 <= StartOf[o] /\ StartOf[o] + MaxLag < MaxTime
                 /\ StartOf[o] < MaxTime - GraceMinutes}

\* The refinement mapping: what the backend received, what committed runs
\* accounted for, and the start of the overlap as the settled frontier.
Promise == INSTANCE Delivery WITH
  Due <- DueWithinHorizon,
  received <- delivered,
  committed <- counted,
  started <- version > 0,
  from <- origin,
  frontier <- IF version > 0 THEN watermark - OverlapMinutes ELSE 0

\* The job, one task at a time, implements Delivery: whatever fails or crashes,
\* every step of main and run is a receipt, a commit of received and not yet
\* accounted observations that moves the frontier forward, or no visible step.
PromiseKept == Promise!Spec

\* Every observation that is old enough for the horizon is eventually delivered.
EventuallyDelivered == Promise!Delivered
=============================================================================
