---------------------------- MODULE StartupProofs ----------------------------
(***************************************************************************)
(* Startup for any number of processes, keys, starts and outages: the      *)
(* default key has one row, is there when an undisturbed process serves,   *)
(* and stays deactivated.                                                  *)
(***************************************************************************)
EXTENDS Startup, TLAPS

\* A row keeps its key when it is deactivated.
LEMMA DeactivatedRow ==
  ASSUME NEW r \in Rows
  PROVE  /\ [r EXCEPT !.active = FALSE] \in Rows
         /\ [r EXCEPT !.active = FALSE].key = r.key
         /\ [r EXCEPT !.active = FALSE].active = FALSE
  BY DEF Rows

\* The variables keep their types through every step of a start and of the
\* environment.
LEMMA TypeStep ==
  ASSUME TypeOK, [Next]_vars
  PROVE  TypeOK'
<1>. USE DEF TypeOK
<1>1. CASE UNCHANGED vars
  BY <1>1 DEF vars, deployment
<1>2. CASE Outage
  <2>1. outages' \in 0..MaxOutages
    BY <1>2, StartupAssumption DEF Outage
  <2>2. dbUp' \in BOOLEAN
    BY <1>2 DEF Outage
  <2>. QED
    BY <1>2, <2>1, <2>2 DEF Outage
<1>3. CASE Recovery \/ Configure
  BY <1>3 DEF Recovery, Configure
<1>4. CASE Deactivate
  <2>1. PICK r \in apiKeys :
          r.active /\ apiKeys' = (apiKeys \ {r}) \cup {[r EXCEPT !.active = FALSE]}
    BY <1>4 DEF Deactivate
  <2>2. [r EXCEPT !.active = FALSE] \in Rows
    BY DeactivatedRow
  <2>. QED
    BY <1>4, <2>1, <2>2 DEF Deactivate, deployment
<1>5. ASSUME NEW p \in Procs, Start(p) \/ Run(p) \/ Stop(p) \/ Crash(p)
      PROVE  TypeOK'
  <2>1. CASE Start(p)
    BY <2>1, StartupAssumption DEF Start, Step, Steps, Settings
  <2>2. CASE Insert(p)
    <3>1. DefaultRow(p) \in Rows
      BY DEF DefaultRow, Rows
    <3>. QED
      BY <2>2, <3>1 DEF Insert, Step, Steps, deployment
  <2>3. CASE Found(p) \/ NotFound(p) \/ InsertConflicts(p)
    BY <2>3 DEF Found, NotFound, InsertConflicts, Step, Steps, deployment
  <2>4. CASE SeedFails(p)
    BY <2>4 DEF SeedFails, Steps, deployment
  <2>5. CASE OpenClients(p) \/ Close(p) \/ Stop(p)
    BY <2>5 DEF OpenClients, Close, Stop, Step, Steps, deployment
  <2>6. CASE Crash(p)
    BY <2>6 DEF Crash, Steps, deployment
  <2>. QED
    BY <1>5, <2>1, <2>2, <2>3, <2>4, <2>5, <2>6 DEF Run
<1>. QED
  BY <1>1, <1>2, <1>3, <1>4, <1>5 DEF Next

\* Every variable keeps its type, for any number of processes, keys and starts.
THEOREM TypeCorrect == Spec => []TypeOK
<1>1. Init => TypeOK
  BY StartupAssumption DEF Init, TypeOK, Settings, Steps
<1>. QED
  BY <1>1, TypeStep, PTL DEF Spec

-----------------------------------------------------------------------------
\* What a step does to the table: nothing, one deactivation, or a new key.
LEMMA TableStep ==
  ASSUME TypeOK, [Next]_vars
  PROVE  \/ apiKeys' = apiKeys
         \/ \E r \in apiKeys : apiKeys' = (apiKeys \ {r}) \cup {[r EXCEPT !.active = FALSE]}
         \/ \E p \in Procs : /\ Unique(key[p])
                             /\ apiKeys' = apiKeys \cup {DefaultRow(p)}
<1>1. CASE UNCHANGED vars
  BY <1>1 DEF vars
<1>2. CASE Outage \/ Recovery \/ Configure
  BY <1>2 DEF Outage, Recovery, Configure
<1>3. CASE Deactivate
  BY <1>3 DEF Deactivate
<1>4. ASSUME NEW p \in Procs, Start(p) \/ Run(p) \/ Stop(p) \/ Crash(p)
      PROVE  apiKeys' = apiKeys \/ (Unique(key[p]) /\ apiKeys' = apiKeys \cup {DefaultRow(p)})
  BY <1>4 DEF Start, Run, Stop, Crash, Found, NotFound, Insert, InsertConflicts, SeedFails,
     OpenClients, Close
<1>. QED
  BY <1>1, <1>2, <1>3, <1>4 DEF Next

\* The unique constraint keeps one row per key, and no key ever leaves the table.
LEMMA RowsStep ==
  ASSUME TypeOK, OneRowPerKey, [Next]_vars
  PROVE  /\ OneRowPerKey'
         /\ \A r \in apiKeys : \E s \in apiKeys' : s.key = r.key
         /\ \A r \in apiKeys : ~r.active => \A s \in apiKeys' : s.key = r.key => ~s.active
<1>0. apiKeys \subseteq Rows
  BY DEF TypeOK
<1>1. CASE apiKeys' = apiKeys
  BY <1>1 DEF OneRowPerKey
<1>2. ASSUME NEW r \in apiKeys, apiKeys' = (apiKeys \ {r}) \cup {[r EXCEPT !.active = FALSE]}
      PROVE  /\ OneRowPerKey'
             /\ \A x \in apiKeys : \E s \in apiKeys' : s.key = x.key
             /\ \A x \in apiKeys : ~x.active => \A s \in apiKeys' : s.key = x.key => ~s.active
  <2>. DEFINE off == [r EXCEPT !.active = FALSE]
  <2>1. off.key = r.key /\ off.active = FALSE
    BY <1>0, DeactivatedRow
  <2>. HIDE DEF off
  <2>2. apiKeys' = (apiKeys \ {r}) \cup {off}
    BY <1>2 DEF off
  <2>. QED
    BY <2>1, <2>2 DEF OneRowPerKey
<1>3. ASSUME NEW p \in Procs, Unique(key[p]), apiKeys' = apiKeys \cup {DefaultRow(p)}
      PROVE  /\ OneRowPerKey'
             /\ \A x \in apiKeys : \E s \in apiKeys' : s.key = x.key
             /\ \A x \in apiKeys : ~x.active => \A s \in apiKeys' : s.key = x.key => ~s.active
  <2>1. DefaultRow(p).key = key[p]
    BY DEF DefaultRow
  <2>2. \A r \in apiKeys : r.key # DefaultRow(p).key
    BY <1>3, <2>1 DEF Unique
  <2>. QED
    BY <1>3, <2>2 DEF OneRowPerKey
<1>. QED
  BY <1>1, <1>2, <1>3, TableStep

\* The invariant of the table and of the processes past the seed.
LEMMA SeedStep ==
  ASSUME TypeOK, SeedInv, [Next]_vars
  PROVE  SeedInv'
<1>1. OneRowPerKey
  BY DEF SeedInv
<1>2. OneRowPerKey' /\ \A r \in apiKeys : \E s \in apiKeys' : s.key = r.key
  BY <1>1, RowsStep
<1>. SUFFICES ASSUME NEW p \in Procs, pc'[p] \in {"opening", "serving"}, ~disturbed'[p]
              PROVE  \E r \in apiKeys' : r.key = key'[p]
  BY <1>2 DEF SeedInv, OneRowPerKey
<1>3. pc \in [Procs -> Steps] /\ key \in [Procs -> Keys] /\ disturbed \in [Procs -> BOOLEAN]
  BY DEF TypeOK
<1>4. CASE /\ pc'[p] = pc[p] \/ pc[p] \in {"opening", "serving"}
           /\ key'[p] = key[p] /\ disturbed'[p] = disturbed[p]
  <2>1. \E r \in apiKeys : r.key = key[p]
    BY <1>4 DEF SeedInv
  <2>. QED
    BY <1>2, <1>4, <2>1
<1>5. CASE UNCHANGED vars
  BY <1>4, <1>5 DEF vars
<1>6. CASE Outage \/ Recovery \/ Configure \/ Deactivate
  BY <1>4, <1>6 DEF Outage, Recovery, Configure, Deactivate
<1>7. ASSUME NEW q \in Procs, Start(q) \/ Run(q) \/ Stop(q) \/ Crash(q)
      PROVE  \E r \in apiKeys' : r.key = key'[p]
  <2>1. CASE q # p
    BY <1>3, <1>4, <1>7, <2>1 DEF Start, Run, Stop, Crash, Found, NotFound, Insert,
       InsertConflicts, SeedFails, OpenClients, Close, Step
  <2>2. CASE q = p /\ (Found(p) \/ InsertConflicts(p))
    <3>1. \E r \in apiKeys : r.key = key[p]
      BY <2>2 DEF Found, InsertConflicts, Unique
    <3>2. key' = key
      BY <2>2 DEF Found, InsertConflicts
    <3>. QED
      BY <1>2, <3>1, <3>2
  <2>3. CASE q = p /\ Insert(p)
    <3>1. DefaultRow(p) \in apiKeys' /\ key' = key
      BY <2>3 DEF Insert
    <3>2. DefaultRow(p).key = key[p]
      BY DEF DefaultRow
    <3>. QED
      BY <3>1, <3>2
  <2>4. CASE q = p /\ (OpenClients(p) \/ Stop(p))
    BY <1>3, <1>4, <2>4 DEF OpenClients, Stop, Step
  <2>5. CASE q = p /\ (Start(p) \/ NotFound(p) \/ SeedFails(p) \/ Close(p) \/ Crash(p))
    BY <1>3, <2>5 DEF Start, NotFound, SeedFails, Close, Crash, Step
  <2>. QED
    BY <1>7, <2>1, <2>2, <2>3, <2>4, <2>5 DEF Run
<1>. QED
  BY <1>5, <1>6, <1>7 DEF Next

\* The inductive invariant of the seed: rows, keys and the steps of the processes agree.
THEOREM SeedInvariant == Spec => []SeedInv
<1>1. Init => SeedInv
  BY DEF Init, SeedInv, OneRowPerKey
<1>. QED
  BY <1>1, SeedStep, TypeCorrect, PTL DEF Spec

\* However many processes start, race and crash, a default key has one row.
THEOREM OneRow == Spec => []OneRowPerKey
<1>1. SeedInv => OneRowPerKey
  BY DEF SeedInv
<1>. QED
  BY <1>1, SeedInvariant, PTL

\* A process that serves and met no failed statement has its key in the database.
THEOREM ServingSeeded == Spec => []ServingKeyIsSeeded
<1>1. SeedInv => ServingKeyIsSeeded
  BY DEF SeedInv, ServingKeyIsSeeded
<1>. QED
  BY <1>1, SeedInvariant, PTL

\* No start seeds a key again that the operator deactivated.
THEOREM NoReactivation == Spec => DeactivationStays
<1>1. ASSUME TypeOK, SeedInv, [Next]_vars
      PROVE  [\A r \in apiKeys : ~r.active =>
                \A s \in apiKeys' : s.key = r.key => ~s.active]_vars
  BY <1>1, RowsStep DEF SeedInv
<1>. QED
  BY <1>1, SeedInvariant, TypeCorrect, PTL DEF Spec, DeactivationStays
=============================================================================
