------------------------ MODULE CheckpointedRunProofs ------------------------
(***************************************************************************)
(* Proofs about CheckpointedRun for every set of workers and observations, *)
(* every placement of the observations in time and every value of the      *)
(* job's arguments.                                                        *)
(***************************************************************************)
EXTENDS CheckpointedRun, FiniteSetTheorems, TLAPS

-----------------------------------------------------------------------------
(* Helpers                                                                 *)

\* The history counters stay within 0..2.
LEMMA BumpType ==
  ASSUME NEW f \in [Obs -> 0..2], NEW S
  PROVE  Bump(f, S) \in [Obs -> 0..2]
  BY DEF Bump

\* Pruning the seen map yields observations.
LEMMA PruneType ==
  ASSUME NEW A \in SUBSET Obs, NEW B \in SUBSET Obs, NEW k \in Int
  PROVE  PruneSeen(A, B, k) \in SUBSET Obs
  BY DEF PruneSeen

\* Every variable keeps its type (the state of main, run and the checkpoint).
THEOREM TypeCorrect == Spec => []TypeOK
<1>. USE DEF storeVars, windowVars, runVars, historyVars
<1>1. Init => TypeOK
  BY TimesAssumption, BoundsAssumption DEF Init, TypeOK, Steps, ExitStatus, Flags
<1>2. TypeOK /\ [Next]_vars => TypeOK'
  <2>. SUFFICES ASSUME TypeOK, [Next]_vars PROVE TypeOK'
    OBVIOUS
  <2>. USE TimesAssumption, ArgumentsAssumption, BoundsAssumption
  <2>1. CASE UNCHANGED vars
    BY <2>1 DEF TypeOK, vars
  <2>2. CASE Tick
    BY <2>2 DEF TypeOK, Tick
  <2>3. ASSUME NEW o \in Obs, Ingest(o) PROVE TypeOK'
    BY <2>3 DEF TypeOK, Ingest
  <2>4. ASSUME NEW w \in Workers, Launch(w) PROVE TypeOK'
    BY <2>4 DEF TypeOK, Launch, Step, Steps, ExitStatus
  <2>5. ASSUME NEW w \in Workers, Progress(w) PROVE TypeOK'
    <3>1. CASE Resume(w)
      <4>1. wstart' \in [Workers -> Int] /\ base' \in [Workers -> Int]
        BY <3>1 DEF TypeOK, Resume, Continue
      <4>. QED
        BY <3>1, <4>1 DEF TypeOK, Resume, Step, Steps
    <3>2. CASE Load(w)
      BY <3>2 DEF TypeOK, Load, Step, Steps
    <3>3. CASE ReadWindow(w)
      BY <3>3 DEF TypeOK, ReadWindow, Step, Steps, Readable
    <3>4. CASE ReadTruncated(w)
      BY <3>4 DEF TypeOK, ReadTruncated, Step, Steps, Raise, Flags, Readable
    <3>5. CASE SkipExport(w)
      BY <3>5 DEF TypeOK, SkipExport, Step, Steps
    <3>6. CASE Export(w)
      BY <3>6, BumpType DEF TypeOK, Export, Step, Steps
    <3>7. CASE Heartbeat(w)
      BY <3>7 DEF TypeOK, Heartbeat, Step, Steps
    <3>8. CASE SkipSave(w)
      BY <3>8 DEF TypeOK, SkipSave, Step, Steps
    <3>9. CASE Save(w)
      BY <3>9, BumpType, PruneType
      DEF TypeOK, Save, PutCheckpoint, Processed, Step, Steps
    <3>10. CASE SaveConflict(w)
      BY <3>10 DEF TypeOK, SaveConflict, Step, Steps, Raise, Flags
    <3>11. CASE Finish(w)
      BY <3>11 DEF TypeOK, Finish, Vanish, ExitCode, Steps, ExitStatus
    <3>. QED
      BY <2>5, <3>1, <3>2, <3>3, <3>4, <3>5, <3>6, <3>7, <3>8, <3>9, <3>10,
         <3>11 DEF Progress
  <2>6. ASSUME NEW w \in Workers, Failure(w) PROVE TypeOK'
    <3>1. CASE SourceFails(w)
      BY <3>1 DEF TypeOK, SourceFails, Fault, Step, Steps, Raise, Flags, Readable
    <3>2. CASE ExportFails(w)
      BY <3>2, BumpType DEF TypeOK, ExportFails, Fault, Step, Steps, Raise, Flags
    <3>3. CASE HeartbeatFails(w)
      BY <3>3 DEF TypeOK, HeartbeatFails, Fault, Step, Steps, Raise, Flags
    <3>4. CASE SaveUnacknowledged(w)
      BY <3>4, BumpType, PruneType
      DEF TypeOK, SaveUnacknowledged, Fault, PutCheckpoint, Processed, Vanish,
          Steps, ExitStatus
    <3>5. CASE FinishHeartbeatFails(w)
      BY <3>5 DEF TypeOK, FinishHeartbeatFails, Fault, Vanish, ExitCode, Steps,
                  ExitStatus
    <3>6. CASE Crash(w)
      BY <3>6 DEF TypeOK, Crash, Fault, Vanish, Steps, ExitStatus
    <3>7. CASE ExportRepeated(w)
      BY <3>7, BumpType DEF TypeOK, ExportRepeated, Fault, Step, Steps
    <3>. QED
      BY <2>6, <3>1, <3>2, <3>3, <3>4, <3>5, <3>6, <3>7 DEF Failure
  <2>7. CASE Horizon
    BY <2>7, <2>1 DEF Horizon
  <2>. QED
    BY <2>1, <2>2, <2>3, <2>4, <2>5, <2>6, <2>7 DEF Next
<1>. QED
  BY <1>1, <1>2, PTL DEF Spec

-----------------------------------------------------------------------------
(* What a step leaves alone                                                *)

\* Only an accepted save changes the stored checkpoint and the committed history.
LEMMA StoreFrame ==
  ASSUME [Next]_vars
  PROVE  \/ UNCHANGED <<version, watermark, seen, counted, origin>>
         \/ \E w \in Workers :
              /\ pc[w] = "beaten" /\ SaveAllowed(w) /\ PutAccepted(w)
              /\ PutCheckpoint(w)
<1>. USE DEF storeVars, historyVars
<1>1. CASE UNCHANGED vars \/ Tick \/ Horizon \/ \E o \in Obs : Ingest(o)
  BY <1>1 DEF vars, Tick, Horizon, Ingest
<1>2. ASSUME NEW w \in Workers, Launch(w)
      PROVE  UNCHANGED <<version, watermark, seen, counted, origin>>
  BY <1>2 DEF Launch
<1>3. ASSUME NEW w \in Workers, Progress(w), ~Save(w)
      PROVE  UNCHANGED <<version, watermark, seen, counted, origin>>
  BY <1>3 DEF Progress, Resume, Load, ReadWindow, ReadTruncated, SkipExport,
              Export, Heartbeat, SkipSave, SaveConflict, Finish
<1>4. ASSUME NEW w \in Workers, Failure(w), ~SaveUnacknowledged(w)
      PROVE  UNCHANGED <<version, watermark, seen, counted, origin>>
  BY <1>4 DEF Failure, SourceFails, ExportFails, ExportRepeated, HeartbeatFails,
              FinishHeartbeatFails, Crash
<1>5. ASSUME NEW w \in Workers, Save(w) \/ SaveUnacknowledged(w)
      PROVE  /\ pc[w] = "beaten" /\ SaveAllowed(w) /\ PutAccepted(w)
             /\ PutCheckpoint(w)
  BY <1>5 DEF Save, SaveUnacknowledged, Step
<1>. QED
  BY <1>1, <1>2, <1>3, <1>4, <1>5 DEF Next

\* A bumped counter never falls, and is positive on the bumped set.
LEMMA BumpGrows ==
  ASSUME NEW f \in [Obs -> 0..2], NEW S, NEW o \in Obs
  PROVE  /\ Bump(f, S)[o] >= f[o]
         /\ o \in S => Bump(f, S)[o] >= 1
         /\ o \notin S => Bump(f, S)[o] = f[o]
         /\ f[o] = 0 => Bump(f, S)[o] <= 1
  BY DEF Bump

\* History is never rewritten: what was delivered or counted stays so.
LEMMA HistoryGrows ==
  ASSUME TypeOK, [Next]_vars, NEW o \in Obs
  PROVE  /\ delivered[o] >= 1 => delivered'[o] >= 1
         /\ counted[o] >= 1 => counted'[o] >= 1
<1>1. counted[o] >= 1 => counted'[o] >= 1
  BY StoreFrame DEF TypeOK, PutCheckpoint, Bump
<1>2. \/ UNCHANGED delivered
      \/ \E S : \/ delivered' = Bump(delivered, S)
                \/ delivered' = Bump(Bump(delivered, S), S)
  BY DEF Next, Progress, Failure, vars, historyVars, Tick, Ingest,
         Launch, Resume, Load, ReadWindow, ReadTruncated, SkipExport, Export,
         Heartbeat, SkipSave, Save, SaveConflict, Finish, SourceFails,
         ExportFails, ExportRepeated, HeartbeatFails, SaveUnacknowledged,
         FinishHeartbeatFails, Crash, Horizon, PutCheckpoint
<1>3. delivered[o] >= 1 => delivered'[o] >= 1
  BY <1>2 DEF TypeOK, Bump
<1>. QED
  BY <1>1, <1>3

-----------------------------------------------------------------------------
(* Invariants of every configuration                                       *)

\* The optimistic version check: equal versions mean equal seen maps.
LEMMA VersionStep ==
  ASSUME TypeOK, VersionInv, [Next]_vars
  PROVE  VersionInv'
<1>. USE DEF storeVars, windowVars, runVars, historyVars
<1>1. CASE UNCHANGED vars
  BY <1>1 DEF vars, VersionInv, TypeOK, Loaded
<1>2. CASE Tick
  BY <1>2 DEF Tick, VersionInv, TypeOK, Loaded
<1>3. ASSUME NEW o \in Obs, Ingest(o) PROVE VersionInv'
  BY <1>3 DEF Ingest, VersionInv, TypeOK, Loaded
<1>4. ASSUME NEW w \in Workers, Launch(w) PROVE VersionInv'
  BY <1>4 DEF Launch, Step, VersionInv, TypeOK, Loaded
<1>5. ASSUME NEW w \in Workers, Progress(w) PROVE VersionInv'
  <2>1. CASE Resume(w)
    BY <2>1 DEF Resume, Step, VersionInv, TypeOK, Loaded
  <2>2. CASE Load(w)
    BY <2>2 DEF Load, Step, VersionInv, TypeOK, Loaded
  <2>3. CASE ReadWindow(w)
    BY <2>3 DEF ReadWindow, Step, VersionInv, TypeOK, Loaded
  <2>4. CASE ReadTruncated(w)
    BY <2>4 DEF ReadTruncated, Step, Raise, VersionInv, TypeOK, Loaded
  <2>5. CASE SkipExport(w)
    BY <2>5 DEF SkipExport, Step, VersionInv, TypeOK, Loaded
  <2>6. CASE Export(w)
    BY <2>6 DEF Export, Step, VersionInv, TypeOK, Loaded
  <2>7. CASE Heartbeat(w)
    BY <2>7 DEF Heartbeat, Step, VersionInv, TypeOK, Loaded
  <2>8. CASE SkipSave(w)
    BY <2>8 DEF SkipSave, Step, VersionInv, TypeOK, Loaded
  <2>9. CASE Save(w)
    BY <2>9 DEF Save, Step, PutCheckpoint, VersionInv, TypeOK, Loaded
  <2>10. CASE SaveConflict(w)
    BY <2>10 DEF SaveConflict, Step, Raise, VersionInv, TypeOK, Loaded
  <2>11. CASE Finish(w)
    BY <2>11 DEF Finish, Vanish, VersionInv, TypeOK, Loaded
  <2>. QED
    BY <1>5, <2>1, <2>2, <2>3, <2>4, <2>5, <2>6, <2>7, <2>8, <2>9, <2>10,
        <2>11 DEF Progress
<1>6. ASSUME NEW w \in Workers, Failure(w) PROVE VersionInv'
  <2>1. CASE SourceFails(w)
    BY <2>1 DEF SourceFails, Step, Raise, VersionInv, TypeOK, Loaded
  <2>2. CASE ExportFails(w)
    BY <2>2 DEF ExportFails, Step, Raise, VersionInv, TypeOK, Loaded
  <2>3. CASE HeartbeatFails(w)
    BY <2>3 DEF HeartbeatFails, Step, Raise, VersionInv, TypeOK, Loaded
  <2>4. CASE SaveUnacknowledged(w)
    BY <2>4 DEF SaveUnacknowledged, PutCheckpoint, Vanish, VersionInv,
        TypeOK, Loaded
  <2>5. CASE FinishHeartbeatFails(w)
    BY <2>5 DEF FinishHeartbeatFails, Vanish, VersionInv, TypeOK, Loaded
  <2>6. CASE Crash(w)
    BY <2>6 DEF Crash, Vanish, VersionInv, TypeOK, Loaded
  <2>7. CASE ExportRepeated(w)
    BY <2>7 DEF ExportRepeated, Step, VersionInv, TypeOK, Loaded
  <2>. QED
    BY <1>6, <2>1, <2>2, <2>3, <2>4, <2>5, <2>6, <2>7 DEF Failure
<1>7. CASE Horizon
  BY <1>1, <1>7 DEF Horizon
<1>. QED
  BY <1>1, <1>2, <1>3, <1>4, <1>5, <1>6, <1>7 DEF Next

\* A worker's prior seen map is the one it had, the stored one, or gone.
LEMMA PriorFrame ==
  ASSUME TypeOK, [Next]_vars, NEW v \in Workers
  PROVE  prior'[v] \in {prior[v], seen, {}}
<1>. USE DEF runVars
<1>1. CASE UNCHANGED vars \/ Tick \/ Horizon \/ \E o \in Obs : Ingest(o)
  BY <1>1 DEF vars, Tick, Horizon, Ingest
<1>2. ASSUME NEW w \in Workers, Launch(w) \/ Progress(w)
      PROVE  prior'[v] \in {prior[v], seen, {}}
  BY <1>2 DEF TypeOK, Launch, Progress, Resume, Load, ReadWindow, ReadTruncated,
              SkipExport, Export, Heartbeat, SkipSave, Save, SaveConflict,
              Finish, Vanish
<1>3. ASSUME NEW w \in Workers, Failure(w)
      PROVE  prior'[v] \in {prior[v], seen, {}}
  BY <1>3 DEF TypeOK, Failure, SourceFails, ExportFails, ExportRepeated,
         HeartbeatFails,
              SaveUnacknowledged, FinishHeartbeatFails, Crash, Vanish
<1>. QED
  BY <1>1, <1>2, <1>3 DEF Next

\* Everything in a seen map was delivered and counted.
LEMMA SeenStep ==
  ASSUME TypeOK, TypeOK', SeenInv, OutcomeInv, [Next]_vars
  PROVE  SeenInv'
<1>. USE TimesAssumption, ArgumentsAssumption
<1>1. \A o \in Obs : /\ delivered[o] >= 1 => delivered'[o] >= 1
                     /\ counted[o] >= 1 => counted'[o] >= 1
  BY HistoryGrows
<1>2. ASSUME NEW w \in Workers, NEW o \in prior'[w]
      PROVE  delivered'[o] >= 1 /\ counted'[o] >= 1
  <2>1. o \in Obs /\ delivered[o] >= 1 /\ counted[o] >= 1
    BY <1>2, PriorFrame DEF SeenInv, TypeOK
  <2>. QED
    BY <1>1, <2>1 DEF TypeOK
<1>3. ASSUME NEW o \in seen'
      PROVE  /\ delivered'[o] >= 1 /\ counted'[o] >= 1
             /\ EndOf[o] >= watermark' - OverlapMinutes
  <2>1. CASE UNCHANGED <<version, watermark, seen, counted, origin>>
    BY <1>1, <1>3, <2>1 DEF SeenInv, TypeOK
  <2>2. ASSUME NEW w \in Workers, pc[w] = "beaten", SaveAllowed(w),
               PutCheckpoint(w)
        PROVE  /\ delivered'[o] >= 1 /\ counted'[o] >= 1
               /\ EndOf[o] >= watermark' - OverlapMinutes
    <3>1. o \in Obs /\ EndOf[o] >= watermark' - OverlapMinutes
      BY <1>3, <2>2 DEF PutCheckpoint, PruneSeen, TypeOK
    <3>2. o \in prior[w] \/ o \in Processed(w)
      BY <1>3, <2>2 DEF PutCheckpoint, PruneSeen
    <3>3. CASE o \in prior[w]
      BY <1>1, <3>1, <3>3 DEF SeenInv, TypeOK
    <3>4. CASE o \in Processed(w)
      <4>1. delivered[o] >= 1
        BY <2>2, <3>4 DEF OutcomeInv, SaveAllowed, Processed
      <4>2. counted'[o] >= 1
        BY <2>2, <3>1, <3>4, BumpGrows DEF PutCheckpoint, TypeOK
      <4>. QED
        BY <1>1, <3>1, <4>1, <4>2 DEF TypeOK
    <3>. QED
      BY <3>1, <3>2, <3>3, <3>4
  <2>. QED
    BY <2>1, <2>2, StoreFrame
<1>. QED
  BY <1>2, <1>3 DEF SeenInv

\* The flags of a run tell whether its records were delivered and committed.
LEMMA OutcomeStep ==
  ASSUME TypeOK, TypeOK', VersionInv, SeenInv, OutcomeInv, [Next]_vars
  PROVE  OutcomeInv'
<1>. USE DEF storeVars, windowVars, runVars, historyVars
<1>0. \A o \in Obs : /\ delivered[o] >= 1 => delivered'[o] >= 1
                     /\ counted[o] >= 1 => counted'[o] >= 1
  BY HistoryGrows
<1>1. CASE UNCHANGED vars
  BY <1>1, <1>0 DEF vars, OutcomeInv, VersionInv, TypeOK, Flags
<1>2. CASE Tick
  BY <1>2, <1>0 DEF Tick, OutcomeInv, VersionInv, TypeOK, Flags
<1>3. ASSUME NEW o \in Obs, Ingest(o) PROVE OutcomeInv'
  BY <1>3, <1>0 DEF Ingest, OutcomeInv, VersionInv, TypeOK, Flags
<1>4. ASSUME NEW w \in Workers, Launch(w) PROVE OutcomeInv'
  BY <1>4, <1>0 DEF Launch, Step, OutcomeInv, VersionInv, TypeOK, Flags
<1>5. ASSUME NEW w \in Workers, Progress(w) PROVE OutcomeInv'
  <2>1. CASE Resume(w)
    BY <2>1, <1>0 DEF Resume, Step, OutcomeInv, VersionInv, TypeOK, Flags
  <2>2. CASE Load(w)
    BY <2>2, <1>0 DEF Load, Step, OutcomeInv, VersionInv, TypeOK, Flags
  <2>3. CASE ReadWindow(w)
    BY <2>3, <1>0 DEF ReadWindow, Step, OutcomeInv, VersionInv, TypeOK, Flags
  <2>4. CASE ReadTruncated(w)
    BY <2>4, <1>0 DEF ReadTruncated, Step, Raise, OutcomeInv, VersionInv,
        TypeOK, Flags
  <2>5. CASE SkipExport(w)
    BY <2>5, <1>0 DEF SkipExport, Step, OutcomeInv, VersionInv, TypeOK, Flags
  <2>6. CASE Export(w)
    BY <2>6, <1>0, BumpGrows DEF Export, Step, OutcomeInv, VersionInv,
        TypeOK, Flags, SeenInv, Processed
  <2>7. CASE Heartbeat(w)
    BY <2>7, <1>0 DEF Heartbeat, Step, OutcomeInv, VersionInv, TypeOK, Flags
  <2>8. CASE SkipSave(w)
    BY <2>8, <1>0 DEF SkipSave, Step, OutcomeInv, VersionInv, TypeOK, Flags,
        SaveAllowed
  <2>9. CASE Save(w)
    BY <2>9, <1>0, BumpGrows DEF Save, Step, PutCheckpoint, OutcomeInv,
        VersionInv, TypeOK, Flags, SeenInv, Processed, SaveAllowed
  <2>10. CASE SaveConflict(w)
    BY <2>10, <1>0 DEF SaveConflict, Step, Raise, OutcomeInv, VersionInv,
        TypeOK, Flags
  <2>11. CASE Finish(w)
    BY <2>11, <1>0 DEF Finish, Vanish, OutcomeInv, VersionInv, TypeOK, Flags
  <2>. QED
    BY <1>5, <2>1, <2>2, <2>3, <2>4, <2>5, <2>6, <2>7, <2>8, <2>9, <2>10,
        <2>11 DEF Progress
<1>6. ASSUME NEW w \in Workers, Failure(w) PROVE OutcomeInv'
  <2>1. CASE SourceFails(w)
    BY <2>1, <1>0 DEF SourceFails, Step, Raise, OutcomeInv, VersionInv,
        TypeOK, Flags
  <2>2. CASE ExportFails(w)
    BY <2>2, <1>0 DEF ExportFails, Step, Raise, OutcomeInv, VersionInv,
        TypeOK, Flags
  <2>3. CASE HeartbeatFails(w)
    BY <2>3, <1>0 DEF HeartbeatFails, Step, Raise, OutcomeInv, VersionInv,
        TypeOK, Flags
  <2>4. CASE SaveUnacknowledged(w)
    BY <2>4, <1>0 DEF SaveUnacknowledged, PutCheckpoint, Vanish, OutcomeInv,
        VersionInv, TypeOK, Flags
  <2>5. CASE FinishHeartbeatFails(w)
    BY <2>5, <1>0 DEF FinishHeartbeatFails, Vanish, OutcomeInv, VersionInv,
        TypeOK, Flags
  <2>6. CASE Crash(w)
    BY <2>6, <1>0 DEF Crash, Vanish, OutcomeInv, VersionInv, TypeOK, Flags
  <2>7. CASE ExportRepeated(w)
    <3>1. \A o \in Processed(w) \cap Obs : delivered'[o] >= 1
      BY <2>7, BumpType, BumpGrows DEF ExportRepeated, TypeOK
    <3>. QED
      BY <2>7, <3>1, <1>0 DEF ExportRepeated, Step, OutcomeInv, VersionInv,
         TypeOK, Flags, SeenInv, Processed
  <2>. QED
    BY <1>6, <2>1, <2>2, <2>3, <2>4, <2>5, <2>6, <2>7 DEF Failure
<1>7. CASE Horizon
  BY <1>1, <1>7 DEF Horizon
<1>. QED
  BY <1>1, <1>2, <1>3, <1>4, <1>5, <1>6, <1>7 DEF Next

\* The invariants that hold whether or not tasks overlap and whichever store is
\* used.
THEOREM CommonInvariant == Spec => [](TypeOK /\ CommonInv)
<1>1. Init => CommonInv
  BY DEF Init, CommonInv, VersionInv, SeenInv, OutcomeInv, Loaded
<1>2. TypeOK /\ TypeOK' /\ CommonInv /\ [Next]_vars => CommonInv'
  BY VersionStep, SeenStep, OutcomeStep DEF CommonInv
<1>. QED
  BY <1>1, <1>2, TypeCorrect, PTL DEF Spec

\* The seen map suppresses only observations the backend received, and stays
\* within the overlap horizon of its watermark (prune_seen), for any number of
\* overlapping tasks and either store.
THEOREM SeenSound == Spec => []SeenIsDeliveredAndRecent
<1>1. TypeOK /\ CommonInv => SeenIsDeliveredAndRecent
  BY DEF CommonInv, SeenInv, SeenIsDeliveredAndRecent
<1>. QED
  BY <1>1, CommonInvariant, PTL

\* With the conditional write a commit is always built from the seen map that it
\* replaces, for any number of overlapping tasks (DynamoDbCheckpointStore.save).
THEOREM SeenNeverForgotten ==
  ASSUME ConditionalPut
  PROVE  Spec => SeenRetained
<1>. DEFINE A == version' # version =>
                   \A o \in seen : EndOf[o] >= watermark' - OverlapMinutes => o \in seen'
<1>1. TypeOK /\ CommonInv /\ [Next]_vars => A
  <2>. SUFFICES ASSUME TypeOK, CommonInv, [Next]_vars, version' # version
                PROVE  A
    OBVIOUS
  <2>1. PICK w \in Workers :
          pc[w] = "beaten" /\ PutAccepted(w) /\ PutCheckpoint(w)
    BY StoreFrame
  <2>2. prior[w] = seen
    BY <2>1, ConditionalPut DEF CommonInv, VersionInv, Loaded, PutAccepted
  <2>. QED
    BY <2>1, <2>2 DEF PutCheckpoint, PruneSeen
<1>2. TypeOK /\ CommonInv /\ [Next]_vars => [A]_vars
  BY <1>1
<1>. HIDE DEF A
<1>3. Spec => [][A]_vars
  BY <1>2, CommonInvariant, PTL DEF Spec
<1>. QED
  BY <1>3 DEF SeenRetained, A

\* A run that exits with status 0 committed its own checkpoint and delivered all
\* it read (run_ok in main), for any number of overlapping tasks and either
\* store.
THEOREM CleanExit == Spec => CleanExitIsCommitted
<1>. DEFINE A == \A w \in Workers :
                   exit[w] # "ok" /\ exit'[w] = "ok"
                     => /\ version = expect[w] => watermark = wend[w]
                        /\ \A o \in read[w] : delivered[o] >= 1 /\ counted[o] >= 1
<1>1. TypeOK /\ CommonInv /\ [Next]_vars => A
  <2>. SUFFICES ASSUME TypeOK, CommonInv, [Next]_vars,
                       NEW w \in Workers, exit[w] # "ok", exit'[w] = "ok"
                PROVE  pc[w] = "settled" /\ raised[w] = {}
    BY DEF CommonInv, OutcomeInv
  <2>1. CASE UNCHANGED vars \/ Tick \/ Horizon \/ \E o \in Obs : Ingest(o)
    BY <2>1 DEF vars, Tick, Horizon, Ingest
  <2>2. ASSUME NEW v \in Workers, Launch(v) \/ Progress(v)
        PROVE  pc[w] = "settled" /\ raised[w] = {}
    BY <2>2 DEF TypeOK, Launch, Progress, Resume, Load, ReadWindow,
                ReadTruncated, SkipExport, Export, Heartbeat, SkipSave, Save,
                SaveConflict, Finish, Vanish, ExitCode
  <2>3. ASSUME NEW v \in Workers, Failure(v) PROVE FALSE
    BY <2>3 DEF TypeOK, Failure, SourceFails, ExportFails, ExportRepeated,
         HeartbeatFails,
                SaveUnacknowledged, FinishHeartbeatFails, Crash, Vanish, ExitCode
  <2>. QED
    BY <2>1, <2>2, <2>3 DEF Next
<1>2. TypeOK /\ CommonInv /\ [Next]_vars => [A]_vars
  BY <1>1
<1>. HIDE DEF A
<1>3. Spec => [][A]_vars
  BY <1>2, CommonInvariant, PTL DEF Spec
<1>. QED
  BY <1>3 DEF CleanExitIsCommitted, A

-----------------------------------------------------------------------------
(* One task at a time                                                      *)

\* Launch waits for the running job to end.
LEMMA OneRunStep ==
  ASSUME ~Overlapping, TypeOK, OneRun, [Next]_vars
  PROVE  OneRun'
<1>. USE DEF runVars
<1>1. CASE UNCHANGED vars
  BY <1>1 DEF vars, OneRun, Idle, TypeOK, Steps
<1>2. CASE Tick
  BY <1>2 DEF Tick, OneRun, Idle, TypeOK, Steps
<1>3. ASSUME NEW o \in Obs, Ingest(o) PROVE OneRun'
  BY <1>3 DEF Ingest, OneRun, Idle, TypeOK, Steps
<1>4. ASSUME NEW w \in Workers, Launch(w) PROVE OneRun'
  BY <1>4 DEF Launch, Step, OneRun, Idle, TypeOK, Steps
<1>5. ASSUME NEW w \in Workers, Progress(w) PROVE OneRun'
  <2>1. CASE Resume(w)
    BY <2>1 DEF Resume, Step, OneRun, Idle, TypeOK, Steps
  <2>2. CASE Load(w)
    BY <2>2 DEF Load, Step, OneRun, Idle, TypeOK, Steps
  <2>3. CASE ReadWindow(w)
    BY <2>3 DEF ReadWindow, Step, OneRun, Idle, TypeOK, Steps
  <2>4. CASE ReadTruncated(w)
    BY <2>4 DEF ReadTruncated, Step, Raise, OneRun, Idle, TypeOK, Steps
  <2>5. CASE SkipExport(w)
    BY <2>5 DEF SkipExport, Step, OneRun, Idle, TypeOK, Steps
  <2>6. CASE Export(w)
    BY <2>6 DEF Export, Step, OneRun, Idle, TypeOK, Steps
  <2>7. CASE Heartbeat(w)
    BY <2>7 DEF Heartbeat, Step, OneRun, Idle, TypeOK, Steps
  <2>8. CASE SkipSave(w)
    BY <2>8 DEF SkipSave, Step, OneRun, Idle, TypeOK, Steps
  <2>9. CASE Save(w)
    BY <2>9 DEF Save, Step, PutCheckpoint, OneRun, Idle, TypeOK, Steps
  <2>10. CASE SaveConflict(w)
    BY <2>10 DEF SaveConflict, Step, Raise, OneRun, Idle, TypeOK, Steps
  <2>11. CASE Finish(w)
    BY <2>11 DEF Finish, Vanish, OneRun, Idle, TypeOK, Steps
  <2>. QED
    BY <1>5, <2>1, <2>2, <2>3, <2>4, <2>5, <2>6, <2>7, <2>8, <2>9, <2>10,
        <2>11 DEF Progress
<1>6. ASSUME NEW w \in Workers, Failure(w) PROVE OneRun'
  <2>1. CASE SourceFails(w)
    BY <2>1 DEF SourceFails, Step, Raise, OneRun, Idle, TypeOK, Steps
  <2>2. CASE ExportFails(w)
    BY <2>2 DEF ExportFails, Step, Raise, OneRun, Idle, TypeOK, Steps
  <2>3. CASE HeartbeatFails(w)
    BY <2>3 DEF HeartbeatFails, Step, Raise, OneRun, Idle, TypeOK, Steps
  <2>4. CASE SaveUnacknowledged(w)
    BY <2>4 DEF SaveUnacknowledged, PutCheckpoint, Vanish, OneRun, Idle,
        TypeOK, Steps
  <2>5. CASE FinishHeartbeatFails(w)
    BY <2>5 DEF FinishHeartbeatFails, Vanish, OneRun, Idle, TypeOK, Steps
  <2>6. CASE Crash(w)
    BY <2>6 DEF Crash, Vanish, OneRun, Idle, TypeOK, Steps
  <2>7. CASE ExportRepeated(w)
    BY <2>7 DEF ExportRepeated, Step, OneRun, Idle, TypeOK, Steps
  <2>. QED
    BY <1>6, <2>1, <2>2, <2>3, <2>4, <2>5, <2>6, <2>7 DEF Failure
<1>7. CASE Horizon
  BY <1>1, <1>7 DEF Horizon
<1>. QED
  BY <1>1, <1>2, <1>3, <1>4, <1>5, <1>6, <1>7 DEF Next

\* Windows of successive runs follow each other.
LEMMA WindowStep ==
  ASSUME ~Overlapping, TypeOK, TypeOK', OneRun, WindowInv, [Next]_vars
  PROVE  WindowInv'
<1>. USE ArgumentsAssumption DEF storeVars, windowVars, runVars, historyVars
<1>1. CASE UNCHANGED vars
  BY <1>1 DEF vars, WindowInv, OneRun, Idle, Loaded, TypeOK, Steps
<1>2. CASE Tick
  BY <1>2 DEF Tick, WindowInv, OneRun, Idle, Loaded, TypeOK, Steps
<1>3. ASSUME NEW o \in Obs, Ingest(o) PROVE WindowInv'
  BY <1>3 DEF Ingest, WindowInv, OneRun, Idle, Loaded, TypeOK, Steps
<1>4. ASSUME NEW w \in Workers, Launch(w) PROVE WindowInv'
  BY <1>4 DEF Launch, Step, WindowInv, OneRun, Idle, Loaded, TypeOK, Steps
<1>5. ASSUME NEW w \in Workers, Progress(w) PROVE WindowInv'
  <2>1. CASE Resume(w)
    BY <2>1 DEF Resume, Continue, Step, WindowInv, OneRun, Idle, Loaded, TypeOK, Steps
  <2>2. CASE Load(w)
    BY <2>2 DEF Load, Step, WindowInv, OneRun, Idle, Loaded, TypeOK, Steps
  <2>3. CASE ReadWindow(w)
    BY <2>3 DEF ReadWindow, Step, WindowInv, OneRun, Idle, Loaded, TypeOK,
        Steps, Readable
  <2>4. CASE ReadTruncated(w)
    BY <2>4 DEF ReadTruncated, Step, Raise, WindowInv, OneRun, Idle, Loaded,
        TypeOK, Steps, Readable
  <2>5. CASE SkipExport(w)
    BY <2>5 DEF SkipExport, Step, WindowInv, OneRun, Idle, Loaded, TypeOK, Steps
  <2>6. CASE Export(w)
    BY <2>6 DEF Export, Step, WindowInv, OneRun, Idle, Loaded, TypeOK, Steps
  <2>7. CASE Heartbeat(w)
    BY <2>7 DEF Heartbeat, Step, WindowInv, OneRun, Idle, Loaded, TypeOK, Steps
  <2>8. CASE SkipSave(w)
    BY <2>8 DEF SkipSave, Step, WindowInv, OneRun, Idle, Loaded, TypeOK, Steps
  <2>9. CASE Save(w)
    BY <2>9 DEF Save, Step, PutCheckpoint, WindowInv, OneRun, Idle, Loaded,
        TypeOK, Steps
  <2>10. CASE SaveConflict(w)
    BY <2>10 DEF SaveConflict, Step, Raise, WindowInv, OneRun, Idle, Loaded,
        TypeOK, Steps
  <2>11. CASE Finish(w)
    BY <2>11 DEF Finish, Vanish, WindowInv, OneRun, Idle, Loaded, TypeOK, Steps
  <2>. QED
    BY <1>5, <2>1, <2>2, <2>3, <2>4, <2>5, <2>6, <2>7, <2>8, <2>9, <2>10,
        <2>11 DEF Progress
<1>6. ASSUME NEW w \in Workers, Failure(w) PROVE WindowInv'
  <2>1. CASE SourceFails(w)
    BY <2>1 DEF SourceFails, Step, Raise, WindowInv, OneRun, Idle, Loaded,
        TypeOK, Steps, Readable
  <2>2. CASE ExportFails(w)
    BY <2>2 DEF ExportFails, Step, Raise, WindowInv, OneRun, Idle, Loaded,
        TypeOK, Steps
  <2>3. CASE HeartbeatFails(w)
    BY <2>3 DEF HeartbeatFails, Step, Raise, WindowInv, OneRun, Idle, Loaded,
        TypeOK, Steps
  <2>4. CASE SaveUnacknowledged(w)
    BY <2>4 DEF SaveUnacknowledged, PutCheckpoint, Vanish, WindowInv, OneRun,
        Idle, Loaded, TypeOK, Steps
  <2>5. CASE FinishHeartbeatFails(w)
    BY <2>5 DEF FinishHeartbeatFails, Vanish, WindowInv, OneRun, Idle,
        Loaded, TypeOK, Steps
  <2>6. CASE Crash(w)
    BY <2>6 DEF Crash, Vanish, WindowInv, OneRun, Idle, Loaded, TypeOK, Steps
  <2>7. CASE ExportRepeated(w)
    BY <2>7 DEF ExportRepeated, Step, WindowInv, OneRun, Idle, Loaded,
        TypeOK, Steps
  <2>. QED
    BY <1>6, <2>1, <2>2, <2>3, <2>4, <2>5, <2>6, <2>7 DEF Failure
<1>7. CASE Horizon
  BY <1>1, <1>7 DEF Horizon
<1>. QED
  BY <1>1, <1>2, <1>3, <1>4, <1>5, <1>6, <1>7 DEF Next

\* A commit counts only observations that no earlier commit counted, and keeps
\* in the seen map all that a later window can reach.
LEMMA CountedStep ==
  ASSUME TypeOK, WindowInv, CountedInv, [Next]_vars
  PROVE  CountedInv'
<1>. USE TimesAssumption, ArgumentsAssumption
<1>1. CASE UNCHANGED <<version, watermark, seen, counted, origin>>
  BY <1>1 DEF CountedInv, CountedOnce
<1>2. ASSUME NEW w \in Workers, pc[w] = "beaten", PutCheckpoint(w)
      PROVE  CountedInv'
  <2>1. prior[w] = seen /\ (version > 0 => watermark <= wend[w])
    BY <1>2 DEF WindowInv, Loaded, Idle
  <2>2. ASSUME NEW o \in Processed(w) PROVE o \in Obs /\ counted[o] = 0
    <3>1. o \in Obs /\ o \in read[w] /\ o \notin seen
      BY <2>1 DEF Processed, TypeOK
    <3>2. CASE version = 0
      BY <3>1, <3>2 DEF WindowInv
    <3>3. CASE version > 0
      <4>1. StartOf[o] >= watermark - OverlapMinutes
        BY <1>2, <3>1, <3>3 DEF WindowInv, Loaded, TypeOK
      <4>. QED
        BY <3>1, <4>1 DEF CountedInv, TypeOK
    <3>. QED
      BY <3>1, <3>2, <3>3 DEF TypeOK
  <2>3. \A o \in Obs : counted'[o] <= 1
    BY <1>2, <2>2, BumpGrows DEF PutCheckpoint, CountedInv, CountedOnce, TypeOK
  <2>4. ASSUME NEW o \in Obs, counted'[o] >= 1,
               StartOf[o] >= watermark' - OverlapMinutes
        PROVE  o \in seen'
    <3>1. EndOf[o] >= wend[w] - OverlapMinutes
      BY <1>2, <2>4 DEF PutCheckpoint, TypeOK
    <3>2. CASE o \in Processed(w)
      BY <1>2, <3>1, <3>2 DEF PutCheckpoint, PruneSeen
    <3>3. CASE o \notin Processed(w)
      <4>1. counted[o] >= 1
        BY <1>2, <2>4, <3>3, BumpGrows DEF PutCheckpoint, TypeOK
      <4>2. version > 0
        BY <4>1 DEF WindowInv, TypeOK
      <4>3. StartOf[o] >= watermark - OverlapMinutes
        BY <1>2, <2>1, <2>4, <4>2 DEF PutCheckpoint, TypeOK
      <4>4. o \in prior[w]
        BY <2>1, <4>1, <4>3 DEF CountedInv
      <4>. QED
        BY <1>2, <3>1, <4>4 DEF PutCheckpoint, PruneSeen
    <3>. QED
      BY <3>2, <3>3
  <2>. QED
    BY <2>3, <2>4 DEF CountedInv, CountedOnce
<1>. QED
  BY <1>1, <1>2, StoreFrame

\* The inductive invariant of serial operation.
THEOREM SerialInvariant ==
  ASSUME ~Overlapping
  PROVE  Spec => [](TypeOK /\ SerialInv)
<1>1. Init => SerialInv
  BY DEF Init, SerialInv, OneRun, WindowInv, CountedInv, CountedOnce, Idle, Loaded
<1>2. TypeOK /\ TypeOK' /\ SerialInv /\ [Next]_vars => SerialInv'
  BY OneRunStep, WindowStep, CountedStep DEF SerialInv
<1>. QED
  BY <1>1, <1>2, TypeCorrect, PTL DEF Spec

\* With one task at a time no observation is counted by two committed runs,
\* whatever fails, crashes or is truncated in between: the overlap re-read is
\* de-duplicated by the seen map.
THEOREM NoRecount ==
  ASSUME ~Overlapping
  PROVE  Spec => []CountedOnce
<1>1. TypeOK /\ SerialInv => CountedOnce
  BY DEF SerialInv, CountedInv
<1>. QED
  BY <1>1, SerialInvariant, PTL

\* With one task at a time the committed watermark never moves backwards.
THEOREM WatermarkAdvances ==
  ASSUME ~Overlapping
  PROVE  Spec => WatermarkMonotone
<1>1. TypeOK /\ SerialInv /\ [Next]_vars => [version > 0 => watermark' >= watermark]_vars
  <2>. SUFFICES ASSUME TypeOK, SerialInv, [Next]_vars, version > 0
                PROVE  watermark' >= watermark
    OBVIOUS
  <2>1. CASE UNCHANGED <<version, watermark, seen, counted, origin>>
    BY <2>1 DEF TypeOK
  <2>2. ASSUME NEW w \in Workers, pc[w] = "beaten", PutCheckpoint(w)
        PROVE  watermark' >= watermark
    BY <2>2 DEF SerialInv, WindowInv, Idle, PutCheckpoint, TypeOK
  <2>. QED
    BY <2>1, <2>2, StoreFrame
<1>. QED
  BY <1>1, SerialInvariant, PTL DEF Spec, WatermarkMonotone

\* A complete read holds everything in its window that is older than the overlap.
LEMMA CoverageStep ==
  ASSUME MaxLag <= GraceMinutes + OverlapMinutes,
         TypeOK, CoverageInv, [Next]_vars
  PROVE  CoverageInv'
<1>. USE TimesAssumption, ArgumentsAssumption
     DEF storeVars, windowVars, runVars, historyVars
<1>1. CASE UNCHANGED vars
  BY <1>1 DEF vars, CoverageInv, Idle, TypeOK, Steps
<1>2. CASE Tick
  BY <1>2 DEF Tick, CoverageInv, Idle, TypeOK, Steps
<1>3. ASSUME NEW o \in Obs, Ingest(o) PROVE CoverageInv'
  BY <1>3 DEF Ingest, CoverageInv, Idle, TypeOK, Steps
<1>4. ASSUME NEW w \in Workers, Launch(w) PROVE CoverageInv'
  BY <1>4 DEF Launch, Step, CoverageInv, Idle, TypeOK, Steps
<1>5. ASSUME NEW w \in Workers, Progress(w) PROVE CoverageInv'
  <2>1. CASE Resume(w)
    BY <2>1 DEF Resume, Step, CoverageInv, Idle, TypeOK, Steps
  <2>2. CASE Load(w)
    BY <2>2 DEF Load, Step, CoverageInv, Idle, TypeOK, Steps
  <2>3. CASE ReadWindow(w)
    <3>1. ASSUME NEW o \in Obs, wstart[w] <= StartOf[o],
                 StartOf[o] < wend[w] - OverlapMinutes
          PROVE  o \in Readable(w)
      <4>1. wend[w] <= now - GraceMinutes
        BY <2>3 DEF ReadWindow, Step, CoverageInv, Idle
      <4>2. o \in visible
        BY <3>1, <4>1 DEF CoverageInv, TypeOK
      <4>. QED
        BY <3>1, <4>2 DEF Readable, TypeOK
    <3>. QED
      BY <2>3, <3>1 DEF ReadWindow, Step, CoverageInv, Idle, TypeOK, Steps
  <2>4. CASE ReadTruncated(w)
    BY <2>4 DEF ReadTruncated, Step, Raise, CoverageInv, Idle, TypeOK, Steps
  <2>5. CASE SkipExport(w)
    BY <2>5 DEF SkipExport, Step, CoverageInv, Idle, TypeOK, Steps
  <2>6. CASE Export(w)
    BY <2>6 DEF Export, Step, CoverageInv, Idle, TypeOK, Steps
  <2>7. CASE Heartbeat(w)
    BY <2>7 DEF Heartbeat, Step, CoverageInv, Idle, TypeOK, Steps
  <2>8. CASE SkipSave(w)
    BY <2>8 DEF SkipSave, Step, CoverageInv, Idle, TypeOK, Steps
  <2>9. CASE Save(w)
    BY <2>9 DEF Save, Step, PutCheckpoint, CoverageInv, Idle, TypeOK, Steps
  <2>10. CASE SaveConflict(w)
    BY <2>10 DEF SaveConflict, Step, Raise, CoverageInv, Idle, TypeOK, Steps
  <2>11. CASE Finish(w)
    BY <2>11 DEF Finish, Vanish, CoverageInv, Idle, TypeOK, Steps
  <2>. QED
    BY <1>5, <2>1, <2>2, <2>3, <2>4, <2>5, <2>6, <2>7, <2>8, <2>9, <2>10,
        <2>11 DEF Progress
<1>6. ASSUME NEW w \in Workers, Failure(w) PROVE CoverageInv'
  <2>1. CASE SourceFails(w)
    BY <2>1 DEF SourceFails, Step, Raise, CoverageInv, Idle, TypeOK, Steps
  <2>2. CASE ExportFails(w)
    BY <2>2 DEF ExportFails, Step, Raise, CoverageInv, Idle, TypeOK, Steps
  <2>3. CASE HeartbeatFails(w)
    BY <2>3 DEF HeartbeatFails, Step, Raise, CoverageInv, Idle, TypeOK, Steps
  <2>4. CASE SaveUnacknowledged(w)
    BY <2>4 DEF SaveUnacknowledged, PutCheckpoint, Vanish, CoverageInv,
        Idle, TypeOK, Steps
  <2>5. CASE FinishHeartbeatFails(w)
    BY <2>5 DEF FinishHeartbeatFails, Vanish, CoverageInv, Idle, TypeOK, Steps
  <2>6. CASE Crash(w)
    BY <2>6 DEF Crash, Vanish, CoverageInv, Idle, TypeOK, Steps
  <2>7. CASE ExportRepeated(w)
    BY <2>7 DEF ExportRepeated, Step, CoverageInv, Idle, TypeOK, Steps
  <2>. QED
    BY <1>6, <2>1, <2>2, <2>3, <2>4, <2>5, <2>6, <2>7 DEF Failure
<1>7. CASE Horizon
  BY <1>1, <1>7 DEF Horizon
<1>. QED
  BY <1>1, <1>2, <1>3, <1>4, <1>5, <1>6, <1>7 DEF Next

\* The chain a window continues is chosen when main resumes, and stays.
LEMMA ChainFrame ==
  ASSUME TypeOK, [Next]_vars, NEW v \in Workers, pc'[v] \in Loaded \cup {"resumed"}
  PROVE  \/ /\ pc[v] \in Loaded \cup {"resumed"}
            /\ wstart'[v] = wstart[v] /\ base'[v] = base[v]
         \/ Resume(v)
<1>. USE DEF runVars, windowVars, Loaded, Step
<1>1. CASE UNCHANGED vars \/ Tick \/ Horizon \/ \E o \in Obs : Ingest(o)
  BY <1>1 DEF vars, Tick, Horizon, Ingest
<1>2. ASSUME NEW w \in Workers, Launch(w) \/ (Progress(w) /\ ~Resume(w))
      PROVE  /\ pc[v] \in Loaded \cup {"resumed"}
             /\ wstart'[v] = wstart[v] /\ base'[v] = base[v]
  BY <1>2 DEF TypeOK, Launch, Progress, Load, ReadWindow, ReadTruncated,
              SkipExport, Export, Heartbeat, SkipSave, Save, SaveConflict,
              Finish, Vanish
<1>3. ASSUME NEW w \in Workers, Failure(w)
      PROVE  /\ pc[v] \in Loaded \cup {"resumed"}
             /\ wstart'[v] = wstart[v] /\ base'[v] = base[v]
  BY <1>3 DEF TypeOK, Failure, SourceFails, ExportFails, ExportRepeated,
              HeartbeatFails, SaveUnacknowledged, FinishHeartbeatFails, Crash, Vanish
<1>4. ASSUME NEW w \in Workers, Resume(w), w # v
      PROVE  /\ pc[v] \in Loaded \cup {"resumed"}
             /\ wstart'[v] = wstart[v] /\ base'[v] = base[v]
  BY <1>4 DEF TypeOK, Resume, Continue
<1>. QED
  BY <1>1, <1>2, <1>3, <1>4 DEF Next

\* A window continues either the stored chain, which left nothing behind the overlap,
\* or nothing at all.
LEMMA ChainStep ==
  ASSUME TypeOK, TypeOK', NothingSkipped, ChainInv, [Next]_vars
  PROVE  ChainInv'
<1>. SUFFICES ASSUME NEW w \in Workers, pc'[w] \in Loaded \cup {"resumed"},
                     NEW o \in Obs, base'[w] <= StartOf[o], StartOf[o] < wstart'[w]
              PROVE  delivered'[o] >= 1
  BY DEF ChainInv, Loaded
<1>. USE TimesAssumption, ArgumentsAssumption
<1>1. delivered[o] >= 1 => delivered'[o] >= 1
  BY HistoryGrows
<1>2. ASSUME Resume(w)
      PROVE  delivered[o] >= 1
  <2>1. /\ wstart'[w] = IF version > 0 THEN watermark - OverlapMinutes ELSE wstart[w]
        /\ base'[w] = IF version > 0 THEN origin ELSE wstart[w]
    BY <1>2 DEF Resume, Continue, TypeOK
  <2>2. version > 0
    BY <2>1 DEF TypeOK
  <2>. QED
    BY <2>1, <2>2 DEF NothingSkipped
<1>3. ASSUME pc[w] \in Loaded \cup {"resumed"}, wstart'[w] = wstart[w], base'[w] = base[w]
      PROVE  delivered[o] >= 1
  BY <1>3 DEF ChainInv
<1>. QED
  BY <1>1, <1>2, <1>3, ChainFrame

\* A commit leaves nothing undelivered behind its watermark minus the overlap, back to
\* the start of the chain it continues.
LEMMA SkipStep ==
  ASSUME TypeOK, OutcomeInv, CoverageInv, ChainInv, NothingSkipped, [Next]_vars
  PROVE  NothingSkipped'
<1>. USE TimesAssumption, ArgumentsAssumption
<1>1. \A o \in Obs : delivered[o] >= 1 => delivered'[o] >= 1
  BY HistoryGrows
<1>2. CASE UNCHANGED <<version, watermark, seen, counted, origin>>
  BY <1>1, <1>2 DEF NothingSkipped
<1>3. ASSUME NEW w \in Workers, pc[w] = "beaten", SaveAllowed(w), PutCheckpoint(w),
             NEW o \in Obs, origin' <= StartOf[o],
             StartOf[o] < watermark' - OverlapMinutes
      PROVE  delivered[o] >= 1
  <2>1. CASE wstart[w] <= StartOf[o]
    <3>1. raised[w] \cap {"source", "truncated"} = {} /\ "export" \notin raised[w]
      BY <1>3 DEF OutcomeInv, SaveAllowed
    <3>2. o \in read[w]
      BY <1>3, <2>1, <3>1 DEF CoverageInv, PutCheckpoint
    <3>. QED
      BY <1>3, <3>1, <3>2 DEF OutcomeInv
  <2>2. CASE ~(wstart[w] <= StartOf[o])
    BY <1>3, <2>2 DEF PutCheckpoint, ChainInv, Loaded, TypeOK
  <2>. QED
    BY <2>1, <2>2
<1>4. ASSUME NEW w \in Workers, pc[w] = "beaten", SaveAllowed(w), PutCheckpoint(w)
      PROVE  NothingSkipped'
  BY <1>1, <1>3, <1>4 DEF NothingSkipped
<1>. QED
  BY <1>2, <1>4, StoreFrame

\* Provided every observation becomes visible within grace + overlap of its start, no
\* committed watermark leaves an observation behind undelivered, back to the start of
\* the windows it continues: whatever fails or crashes, and for any number of
\* overlapping tasks and either store.
THEOREM NoSkip ==
  ASSUME MaxLag <= GraceMinutes + OverlapMinutes
  PROVE  Spec => []NothingSkipped
<1>1. Init => CoverageInv /\ ChainInv /\ NothingSkipped
  BY TimesAssumption DEF Init, CoverageInv, ChainInv, Idle, Loaded, NothingSkipped
<1>2. /\ TypeOK /\ TypeOK' /\ CommonInv /\ CoverageInv /\ ChainInv /\ NothingSkipped
      /\ [Next]_vars
      => CoverageInv' /\ ChainInv' /\ NothingSkipped'
  BY CoverageStep, ChainStep, SkipStep DEF CommonInv
<1>. QED
  BY <1>1, <1>2, CommonInvariant, PTL DEF Spec

-----------------------------------------------------------------------------
(* The promise                                                             *)

\* The backend receives something only from the exporter; then the checkpoint
\* store and the commit history stay as they are (pipeline.run flushes before it
\* saves).
LEMMA ReceiptFrame ==
  ASSUME [Next]_vars
  PROVE  \/ UNCHANGED delivered
         \/ /\ UNCHANGED <<version, watermark, seen, counted, origin>>
            /\ \E w \in Workers :
                 \/ delivered' = Bump(delivered, Processed(w))
                 \/ delivered' = Bump(Bump(delivered, Processed(w)), Processed(w))
<1>. USE DEF storeVars, historyVars
<1>1. CASE UNCHANGED vars \/ Tick \/ Horizon \/ \E o \in Obs : Ingest(o)
  BY <1>1 DEF vars, Tick, Horizon, Ingest
<1>2. ASSUME NEW w \in Workers, Launch(w) \/ Progress(w)
      PROVE  \/ UNCHANGED delivered
             \/ /\ UNCHANGED <<version, watermark, seen, counted, origin>>
                /\ delivered' = Bump(delivered, Processed(w))
  BY <1>2 DEF Launch, Progress, Resume, Load, ReadWindow, ReadTruncated, SkipExport,
     Export, Heartbeat, SkipSave, Save, PutCheckpoint, SaveConflict, Finish
<1>3. ASSUME NEW w \in Workers, Failure(w)
      PROVE  \/ UNCHANGED delivered
             \/ /\ UNCHANGED <<version, watermark, seen, counted, origin>>
                /\ \/ delivered' = Bump(delivered, Processed(w))
                   \/ delivered' = Bump(Bump(delivered, Processed(w)), Processed(w))
  BY <1>3 DEF Failure, SourceFails, ExportFails, ExportRepeated, HeartbeatFails,
     SaveUnacknowledged, PutCheckpoint, FinishHeartbeatFails, Crash
<1>. QED
  BY <1>1, <1>2, <1>3 DEF Next

\* What a run processes is a set of observations.
LEMMA ProcessedType ==
  ASSUME TypeOK, NEW w \in Workers
  PROVE  Processed(w) \in SUBSET Obs
  BY DEF TypeOK, Processed

\* The checkpoint save of one task at a time is a commit of the promise: it
\* accounts for received observations that no commit accounted for, and moves the
\* frontier forward.
LEMMA CommitStep ==
  ASSUME TypeOK, TypeOK', OutcomeInv, WindowInv, CountedInv, NothingSkipped',
         NEW w \in Workers, pc[w] = "beaten", SaveAllowed(w), PutCheckpoint(w)
  PROVE  Promise!Commit(Processed(w))
<1>. USE TimesAssumption, ArgumentsAssumption
<1>1. version \in Nat /\ version' = version + 1 /\ version' > 0
  BY DEF TypeOK, PutCheckpoint
<1>2. UNCHANGED delivered
  BY DEF PutCheckpoint
<1>3. \A o \in Processed(w) : delivered[o] >= 1
  BY DEF OutcomeInv, SaveAllowed, Processed
<1>4. \A o \in Processed(w) : counted[o] = 0
  <2>. SUFFICES ASSUME NEW o \in Processed(w) PROVE counted[o] = 0
    OBVIOUS
  <2>1. o \in Obs /\ o \in read[w] /\ o \notin prior[w] /\ counted[o] \in 0..2
    BY DEF TypeOK, Processed
  <2>2. CASE version = 0
    BY <2>1, <2>2 DEF WindowInv
  <2>3. CASE version > 0
    <3>1. prior[w] = seen /\ wstart[w] = watermark - OverlapMinutes /\ wstart[w] <= StartOf[o]
      BY <2>1, <2>3 DEF WindowInv, Loaded
    <3>. QED
      BY <2>1, <3>1 DEF CountedInv, TypeOK
  <2>. QED
    BY <1>1, <2>2, <2>3
<1>5. counted' = Bump(counted, Processed(w))
  BY DEF PutCheckpoint
<1>6. version > 0 => origin' = origin
  BY DEF PutCheckpoint, WindowInv, Loaded
<1>7. version > 0 => watermark' - OverlapMinutes >= watermark - OverlapMinutes
  BY <1>1 DEF PutCheckpoint, WindowInv, Idle, TypeOK
<1>8. \A o \in Obs :
         origin' <= StartOf[o] /\ StartOf[o] < watermark' - OverlapMinutes => delivered[o] >= 1
  BY <1>1, <1>2 DEF NothingSkipped
<1>. QED
  BY <1>1, <1>2, <1>3, <1>4, <1>5, <1>6, <1>7, <1>8
     DEF Promise!Commit, Promise!SettledUpTo, Promise!Once, Bump

\* One step of the job is one step of the promise, or none.
LEMMA PromiseStep ==
  ASSUME TypeOK, TypeOK', OutcomeInv, WindowInv, CountedInv, NothingSkipped', [Next]_vars
  PROVE  [Promise!Next]_(Promise!dvars)
<1>1. CASE /\ UNCHANGED <<version, watermark, seen, counted, origin>>
           /\ UNCHANGED delivered
  BY <1>1 DEF Promise!dvars
<1>2. ASSUME NEW w \in Workers, UNCHANGED <<version, watermark, seen, counted, origin>>,
             delivered' = Bump(delivered, Processed(w))
      PROVE  Promise!Next
  <2>1. Promise!Receive(Processed(w))
    BY <1>2 DEF Promise!Receive, Promise!Once, Bump
  <2>. QED
    BY <2>1, ProcessedType DEF Promise!Next
<1>3. ASSUME NEW w \in Workers, UNCHANGED <<version, watermark, seen, counted, origin>>,
             delivered' = Bump(Bump(delivered, Processed(w)), Processed(w))
      PROVE  Promise!Next
  <2>1. Promise!ReceiveTwice(Processed(w))
    BY <1>3 DEF Promise!ReceiveTwice, Promise!Once, Bump
  <2>. QED
    BY <2>1, ProcessedType DEF Promise!Next
<1>4. ASSUME NEW w \in Workers, pc[w] = "beaten", SaveAllowed(w), PutCheckpoint(w)
      PROVE  Promise!Next
  BY <1>4, CommitStep, ProcessedType DEF Promise!Next
<1>. QED
  BY <1>1, <1>2, <1>3, <1>4, ReceiptFrame, StoreFrame

\* One task at a time, with the overlap and the grace covering the ingestion lag,
\* implements the delivery promise (main, run and both checkpoint stores).
THEOREM KeepsPromise ==
  ASSUME ~Overlapping, MaxLag <= GraceMinutes + OverlapMinutes
  PROVE  Spec => PromiseKept
<1>1. Init => Promise!Init
  BY DEF Init, Promise!Init
<1>2. /\ TypeOK /\ TypeOK' /\ CommonInv /\ SerialInv /\ NothingSkipped'
      /\ [Next]_vars
      => [Promise!Next]_(Promise!dvars)
  <2>. SUFFICES ASSUME TypeOK, TypeOK', CommonInv, SerialInv, NothingSkipped', [Next]_vars
                PROVE  [Promise!Next]_(Promise!dvars)
    OBVIOUS
  <2>1. OutcomeInv /\ WindowInv /\ CountedInv
    BY DEF CommonInv, SerialInv
  <2>. QED
    BY <2>1, PromiseStep
<1>. QED
  BY <1>1, <1>2, CommonInvariant, SerialInvariant, NoSkip, PTL
     DEF Spec, PromiseKept, Promise!Spec

-----------------------------------------------------------------------------
(* Nothing fails                                                           *)

\* A failure is counted; without one every step is a step of the environment or of a
\* run's progress.
LEMMA FaultlessFrame ==
  ASSUME TypeOK, [Next]_vars, faults' = 0
  PROVE  /\ faults = 0
         /\ \/ UNCHANGED vars \/ Tick \/ (\E o \in Obs : Ingest(o))
            \/ \E w \in Workers : Launch(w) \/ Progress(w)
<1>1. ASSUME NEW w \in Workers, Failure(w)
      PROVE  FALSE
  <2>1. Fault
    BY <1>1 DEF Failure, SourceFails, ExportFails, ExportRepeated, HeartbeatFails,
       SaveUnacknowledged, FinishHeartbeatFails, Crash
  <2>. QED
    BY <2>1, BoundsAssumption DEF Fault, TypeOK
<1>2. \/ UNCHANGED vars \/ Tick \/ (\E o \in Obs : Ingest(o))
      \/ \E w \in Workers : Launch(w) \/ Progress(w)
  BY <1>1 DEF Next, Horizon
<1>3. faults' = faults
  BY <1>2 DEF vars, Tick, Ingest, Launch, Progress, Resume, Load, ReadWindow, ReadTruncated,
     SkipExport, Export, Heartbeat, SkipSave, Save, SaveConflict, Finish
<1>. QED
  BY <1>2, <1>3

\* A read that finds no more than max_records observations is not truncated.
LEMMA NeverTruncated ==
  ASSUME TypeOK, IsFiniteSet(Obs), Cardinality(Obs) <= MaxRecords, NEW w \in Workers
  PROVE  ~ReadTruncated(w)
<1>. SUFFICES ASSUME NEW S \in SUBSET Readable(w), Cardinality(S) = MaxRecords,
                     S # Readable(w)
              PROVE  FALSE
  BY DEF ReadTruncated
<1>1. Readable(w) \in SUBSET Obs
  BY DEF Readable, TypeOK
<1>2. IsFiniteSet(Readable(w)) /\ Cardinality(Readable(w)) <= Cardinality(Obs)
  BY <1>1, FS_Subset
<1>3. IsFiniteSet(S) /\ Cardinality(S) <= Cardinality(Readable(w))
  BY <1>2, FS_Subset
<1>4. /\ Cardinality(Obs) \in Nat /\ Cardinality(Readable(w)) \in Nat
      /\ Cardinality(S) \in Nat
  BY <1>2, <1>3, FS_CardinalityType
<1>5. Cardinality(Readable(w)) = Cardinality(S)
  BY <1>2, <1>3, <1>4, ArgumentsAssumption
<1>. QED
  BY <1>2, <1>5, FS_Subset

\* What a run is about to export in the absence of failures was not delivered before:
\* it would be in the stored seen map.
LEMMA ExportsNew ==
  ASSUME TypeOK, OneRun, WindowInv, CountedInv, FaultlessInv, faults = 0,
         NEW w \in Workers, pc[w] = "read", NEW o \in Processed(w)
  PROVE  o \in Obs /\ delivered[o] = 0
<1>. USE TimesAssumption, ArgumentsAssumption
<1>1. o \in Obs /\ o \in read[w] /\ o \notin seen
  BY DEF Processed, WindowInv, Loaded, TypeOK
<1>2. counted[o] = 0
  <2>1. CASE version = 0
    BY <1>1, <2>1 DEF WindowInv
  <2>2. CASE version > 0
    <3>1. StartOf[o] >= watermark - OverlapMinutes
      BY <1>1, <2>2 DEF WindowInv, Loaded, TypeOK
    <3>. QED
      BY <1>1, <3>1 DEF CountedInv, TypeOK
  <2>. QED
    BY <2>1, <2>2 DEF TypeOK
<1>3. \A v \in Workers : pc[v] \notin {"flushed", "beaten"}
  BY DEF OneRun, Idle
<1>4. ~(delivered[o] >= 1)
  BY <1>1, <1>2, <1>3 DEF FaultlessInv
<1>. QED
  BY <1>1, <1>4 DEF TypeOK

\* Without failures every exported set is committed before the next one is read.
LEMMA FaultlessStep ==
  ASSUME IsFiniteSet(Obs), Cardinality(Obs) <= MaxRecords,
         TypeOK, TypeOK', OneRun, WindowInv, CountedInv, FaultlessInv, [Next]_vars
  PROVE  FaultlessInv'
<1>. SUFFICES ASSUME faults' = 0
              PROVE  /\ \A o \in Obs : delivered'[o] <= 1
                     /\ \A w \in Workers : raised'[w] = {}
                     /\ \A o \in Obs :
                          delivered'[o] >= 1 =>
                            \/ counted'[o] >= 1
                            \/ \E w \in Workers : /\ pc'[w] \in {"flushed", "beaten"}
                                                  /\ o \in Processed(w)'
  BY DEF FaultlessInv, DeliveredOnceWhenFaultless
<1>0. /\ faults = 0
      /\ \A o \in Obs : delivered[o] <= 1
      /\ \A w \in Workers : raised[w] = {}
      /\ \A o \in Obs :
           delivered[o] >= 1 =>
             \/ counted[o] >= 1
             \/ \E w \in Workers : pc[w] \in {"flushed", "beaten"} /\ o \in Processed(w)
  BY FaultlessFrame DEF FaultlessInv, DeliveredOnceWhenFaultless
<1>. DEFINE Goal == /\ \A o \in Obs : delivered'[o] <= 1
                    /\ \A w \in Workers : raised'[w] = {}
                    /\ \A o \in Obs :
                         delivered'[o] >= 1 =>
                           \/ counted'[o] >= 1
                           \/ \E w \in Workers : /\ pc'[w] \in {"flushed", "beaten"}
                                                 /\ o \in Processed(w)'
<1>. USE DEF storeVars, windowVars, runVars, historyVars
<1>1. ASSUME delivered' = delivered, \A o \in Obs : counted[o] >= 1 => counted'[o] >= 1,
             \A w \in Workers : raised'[w] = {},
             \A w \in Workers : pc[w] \in {"flushed", "beaten"} =>
               pc'[w] \in {"flushed", "beaten"} /\ Processed(w)' = Processed(w)
      PROVE  Goal
  BY <1>0, <1>1
<1>2. \A o \in Obs : counted[o] >= 1 => counted'[o] >= 1
  BY HistoryGrows
<1>3. CASE UNCHANGED vars \/ Tick \/ \E o \in Obs : Ingest(o)
  BY <1>0, <1>1, <1>2, <1>3 DEF vars, Tick, Ingest, Processed
<1>4. ASSUME NEW w \in Workers, Launch(w)
      PROVE  Goal
  BY <1>0, <1>1, <1>2, <1>4 DEF Launch, Step, Processed, TypeOK
<1>5. ASSUME NEW w \in Workers, Progress(w)
      PROVE  Goal
  <2>0. \A v \in Workers : pc[v] \in {"flushed", "beaten"} => pc[w] = "idle" \/ v = w
    BY DEF OneRun, Idle
  <2>1. CASE Resume(w)
    BY <1>0, <1>1, <1>2, <2>1 DEF Resume, Step, Processed, TypeOK
  <2>2. CASE Load(w)
    BY <1>0, <1>1, <1>2, <2>2 DEF Load, Step, Processed, TypeOK
  <2>3. CASE ReadWindow(w)
    BY <1>0, <1>1, <1>2, <2>3 DEF ReadWindow, Step, Processed, TypeOK
  <2>4. CASE ReadTruncated(w)
    BY <2>4, NeverTruncated
  <2>5. CASE SkipExport(w)
    BY <1>0, <2>5 DEF SkipExport
  <2>6. CASE Export(w)
    <3>1. /\ delivered' = Bump(delivered, Processed(w)) /\ pc[w] = "read"
          /\ pc' = [pc EXCEPT ![w] = "flushed"] /\ raised' = raised /\ counted' = counted
          /\ \A v \in Workers : Processed(v)' = Processed(v)
      BY <2>6 DEF Export, Step, Processed
    <3>2. \A o \in Obs : o \in Processed(w) => delivered[o] = 0
      BY <1>0, <3>1, ExportsNew
    <3>3. \A o \in Obs : delivered'[o] <= 1
      BY <1>0, <3>1, <3>2 DEF Bump, TypeOK
    <3>4. ASSUME NEW o \in Obs, delivered'[o] >= 1
          PROVE  \/ counted'[o] >= 1
                 \/ \E v \in Workers : pc'[v] \in {"flushed", "beaten"} /\ o \in Processed(v)'
      <4>1. CASE o \in Processed(w)
        BY <3>1, <4>1 DEF TypeOK
      <4>2. CASE o \notin Processed(w)
        <5>1. delivered[o] >= 1
          BY <3>1, <3>4, <4>2 DEF Bump
        <5>2. counted[o] >= 1
          BY <1>0, <2>0, <3>1, <4>2, <5>1
        <5>. QED
          BY <3>1, <5>2
      <4>. QED
        BY <4>1, <4>2
    <3>. QED
      BY <1>0, <3>1, <3>3, <3>4
  <2>7. CASE Heartbeat(w)
    BY <1>0, <1>1, <1>2, <2>7 DEF Heartbeat, Step, Processed, TypeOK
  <2>8. CASE SkipSave(w)
    BY <1>0, <2>8 DEF SkipSave, SaveAllowed
  <2>9. CASE Save(w)
    <3>1. /\ delivered' = delivered /\ counted' = Bump(counted, Processed(w))
          /\ pc[w] = "beaten" /\ raised' = raised
      BY <2>9 DEF Save, Step, PutCheckpoint
    <3>2. ASSUME NEW o \in Obs, delivered[o] >= 1
          PROVE  counted'[o] >= 1
      <4>1. CASE counted[o] >= 1
        BY <1>2, <4>1
      <4>2. CASE ~(counted[o] >= 1)
        <5>1. o \in Processed(w)
          BY <1>0, <2>0, <3>1, <3>2, <4>2
        <5>. QED
          BY <3>1, <5>1, BumpGrows DEF TypeOK
      <4>. QED
        BY <4>1, <4>2
    <3>. QED
      BY <1>0, <3>1, <3>2
  <2>10. CASE SaveConflict(w)
    BY <2>10 DEF SaveConflict, Step, PutAccepted, WindowInv, Loaded
  <2>11. CASE Finish(w)
    <3>1. /\ delivered' = delivered /\ pc[w] = "settled"
          /\ raised' = [raised EXCEPT ![w] = {}] /\ pc' = [pc EXCEPT ![w] = "idle"]
          /\ read' = [read EXCEPT ![w] = {}] /\ prior' = [prior EXCEPT ![w] = {}]
      BY <2>11 DEF Finish, Vanish
    <3>2. \A v \in Workers : raised'[v] = {}
      BY <1>0, <3>1 DEF TypeOK
    <3>3. \A v \in Workers : pc[v] \in {"flushed", "beaten"} =>
            pc'[v] \in {"flushed", "beaten"} /\ Processed(v)' = Processed(v)
      BY <3>1 DEF Processed, TypeOK
    <3>. QED
      BY <1>1, <1>2, <3>1, <3>2, <3>3
  <2>. QED
    BY <1>5, <2>1, <2>2, <2>3, <2>4, <2>5, <2>6, <2>7, <2>8, <2>9, <2>10, <2>11
    DEF Progress
<1>. QED
  BY <1>3, <1>4, <1>5, FaultlessFrame

\* With one task at a time, windows that fit into max_records and no failed call or
\* crash, no observation is delivered twice: the overlap that every run reads again
\* does not count double in DELTA metrics (run's cross-run filter).
THEOREM DeliversOnce ==
  ASSUME ~Overlapping, IsFiniteSet(Obs), Cardinality(Obs) <= MaxRecords
  PROVE  Spec => []DeliveredOnceWhenFaultless
<1>1. Init => FaultlessInv
  BY DEF Init, FaultlessInv, DeliveredOnceWhenFaultless
<1>2. TypeOK /\ TypeOK' /\ SerialInv /\ FaultlessInv /\ [Next]_vars => FaultlessInv'
  BY FaultlessStep DEF SerialInv
<1>3. FaultlessInv => DeliveredOnceWhenFaultless
  BY DEF FaultlessInv, DeliveredOnceWhenFaultless
<1>. QED
  BY <1>1, <1>2, <1>3, SerialInvariant, PTL DEF Spec
=============================================================================
