--------------------------- MODULE RecordLoopProofs ---------------------------
(***************************************************************************)
(* RecordLoop for every input, every prior seen set and every bound: no    *)
(* record is unaccounted for, the seen map covers what a later window can  *)
(* read again, the pass folds what the batch rules keep, its samples of    *)
(* lengths are bounded, and its points keep the metric contract.  Then     *)
(* what the points say: their counters conserve the observations, their    *)
(* percentiles lie in the buckets of the true ones, and the anomalies of a *)
(* group do not depend on the order it was read in.                        *)
(***************************************************************************)
EXTENDS RecordLoop, FiniteSetTheorems, SequenceTheorems, WellFoundedInduction, TLAPS

\* How far the pass is in its input, and how it ended.
Progress ==
  /\ Len(input) \in Nat
  /\ recordsRead \in 0..Len(input)
  /\ malformed \in Nat /\ quarantined \in Nat /\ duplicates \in Nat
  /\ crossRun \in Nat /\ processed \in Nat
  /\ recordsRead = processed + malformed + quarantined + duplicates + crossRun
  /\ sourceOk \in BOOLEAN /\ truncated \in BOOLEAN
  /\ pc = "done" /\ sourceOk /\ ~truncated => recordsRead = Len(input)

\* A record that is pulled adds one to one of the counters.
LEMMA PulledStep ==
  ASSUME Progress, Pulled,
         \/ /\ malformed' = malformed + 1
            /\ UNCHANGED <<quarantined, duplicates, crossRun, processed>>
         \/ /\ quarantined' = quarantined + 1
            /\ UNCHANGED <<malformed, duplicates, crossRun, processed>>
         \/ /\ duplicates' = duplicates + 1
            /\ UNCHANGED <<malformed, quarantined, crossRun, processed>>
         \/ /\ crossRun' = crossRun + 1
            /\ UNCHANGED <<malformed, quarantined, duplicates, processed>>
         \/ /\ processed' = processed + 1
            /\ UNCHANGED <<malformed, quarantined, duplicates, crossRun>>
  PROVE  Progress'
<1>1. /\ pc = "reading" /\ recordsRead < Len(input) /\ recordsRead' = recordsRead + 1
      /\ UNCHANGED <<input, pc, truncated, sourceOk>>
  BY DEF Pulled
<1>2. Len(input)' = Len(input)
  BY <1>1
<1>3. recordsRead' \in 0..Len(input)'
  <2>1. Len(input) \in Nat /\ recordsRead \in 0..Len(input)
    BY DEF Progress
  <2>2. recordsRead + 1 \in 0..Len(input)
    BY <1>1, <2>1
  <2>. QED
    BY <1>1, <1>2, <2>2
<1>4. /\ malformed' \in Nat /\ quarantined' \in Nat /\ duplicates' \in Nat
      /\ crossRun' \in Nat /\ processed' \in Nat
      /\ processed' + malformed' + quarantined' + duplicates' + crossRun'
           = processed + malformed + quarantined + duplicates + crossRun + 1
  <2>1. /\ malformed \in Nat /\ quarantined \in Nat /\ duplicates \in Nat
        /\ crossRun \in Nat /\ processed \in Nat
    BY DEF Progress
  <2>. QED
    BY <2>1
<1>5. recordsRead' = processed' + malformed' + quarantined' + duplicates' + crossRun'
  BY <1>1, <1>4 DEF Progress
<1>6. pc' # "done" /\ sourceOk' \in BOOLEAN /\ truncated' \in BOOLEAN
  BY <1>1 DEF Progress
<1>. QED
  BY <1>2, <1>3, <1>4, <1>5, <1>6 DEF Progress

\* Every step of the pass keeps its counters in agreement.
LEMMA ProgressStep ==
  ASSUME Progress, [Next]_vars
  PROVE  Progress'
<1>1. CASE UNCHANGED vars \/ Over
  <2>1. /\ UNCHANGED <<input, pc, recordsRead, malformed, quarantined, duplicates>>
        /\ UNCHANGED <<crossRun, processed, sourceOk, truncated>>
    BY <1>1 DEF Over, vars, counters
  <2>2. Len(input)' = Len(input)
    BY <2>1
  <2>. QED
    BY <2>1, <2>2 DEF Progress
<1>2. CASE RejectMalformed
  BY <1>2, PulledStep DEF RejectMalformed
<1>3. CASE Quarantine
  BY <1>3, PulledStep DEF Quarantine
<1>4. CASE RejectBlankId
  BY <1>4, PulledStep DEF RejectBlankId
<1>5. CASE DropDuplicate
  BY <1>5, PulledStep DEF DropDuplicate
<1>6. CASE DropCrossRun
  BY <1>6, PulledStep DEF DropCrossRun
<1>7. CASE Process
  BY <1>7, PulledStep DEF Process
<1>8. CASE EndOfInput
  BY <1>8 DEF EndOfInput, Finish, counters, Progress
<1>9. CASE Truncate
  BY <1>9 DEF Truncate, Finish, counters, Progress
<1>10. CASE SourceFails
  BY <1>10 DEF SourceFails, Finish, counters, Progress
<1>. QED
  BY <1>1, <1>2, <1>3, <1>4, <1>5, <1>6, <1>7, <1>8, <1>9, <1>10 DEF Next

\* The counters start out in agreement.
LEMMA ProgressStarts ==
  ASSUME Init
  PROVE  Progress
<1>1. Len(input) \in Nat
  BY LoopAssumption DEF Init
<1>2. /\ recordsRead = 0 /\ malformed = 0 /\ quarantined = 0 /\ duplicates = 0
      /\ crossRun = 0 /\ processed = 0
  BY DEF Init
<1>3. pc # "done" /\ sourceOk \in BOOLEAN /\ truncated \in BOOLEAN
  BY DEF Init
<1>4. /\ recordsRead \in 0..Len(input)
      /\ recordsRead = processed + malformed + quarantined + duplicates + crossRun
  BY <1>1, <1>2
<1>. QED
  BY <1>1, <1>2, <1>3, <1>4 DEF Progress

\* The counters always add up to the records pulled from the source.
THEOREM ProgressInvariant == Spec => []Progress
  BY ProgressStarts, ProgressStep, PTL DEF Spec

\* Every record read is counted in exactly one class, and a clean pass has read its
\* whole input, for every input and wherever the source fails.
THEOREM Accounted == Spec => []EveryRecordAccounted
<1>1. Progress => EveryRecordAccounted
  BY DEF Progress, EveryRecordAccounted
<1>. QED
  BY <1>1, ProgressInvariant, PTL

-----------------------------------------------------------------------------
\* The observations the input can be parsed to.
Parsed == {Parse(input[i]) : i \in 1..Len(input)}

SeenInv ==
  /\ recordsRead \in Nat
  /\ added \in Seq(Parsed)
  /\ SeenCoversOverlap

\* A parsed record keeps its id and its end.
LEMMA ParseKeeps ==
  ASSUME NEW r
  PROVE  Parse(r).id = r.id /\ Parse(r).end = r.end
  BY DEF Parse

\* What a sequence holds after one more observation.
LEMMA ToSetAppend ==
  ASSUME NEW S, NEW s \in Seq(S), NEW e \in S
  PROVE  ToSet(Append(s, e)) = ToSet(s) \cup {e}
<1>1. Append(s, e) \in Seq(S) /\ Len(Append(s, e)) = Len(s) + 1 /\ Len(s) \in Nat
  OBVIOUS
<1>2. \A i \in 1..Len(s) : Append(s, e)[i] = s[i]
  OBVIOUS
<1>3. Append(s, e)[Len(s) + 1] = e
  OBVIOUS
<1>4. DOMAIN s = 1..Len(s) /\ DOMAIN Append(s, e) = 1..(Len(s) + 1)
  BY <1>1
<1>5. 1..(Len(s) + 1) = 1..Len(s) \cup {Len(s) + 1}
  BY <1>1
<1>. QED
  BY <1>2, <1>3, <1>4, <1>5 DEF ToSet

\* Every step of the pass keeps the seen map in agreement with what was folded.
LEMMA SeenStep ==
  ASSUME Progress, SeenInv, [Next]_vars
  PROVE  SeenInv'
<1>1. CASE UNCHANGED <<input, added, currentSeen>> /\ recordsRead' \in Nat
  <2>1. Parsed' = Parsed
    BY <1>1 DEF Parsed
  <2>2. SeenCoversOverlap'
    BY <1>1 DEF SeenInv, SeenCoversOverlap
  <2>. QED
    BY <1>1, <2>1, <2>2 DEF SeenInv
<1>2. recordsRead \in Nat
  BY DEF SeenInv
<1>3. CASE UNCHANGED vars \/ Over
  BY <1>1, <1>2, <1>3 DEF Over, vars, counters, folded
<1>4. CASE RejectMalformed \/ Quarantine \/ RejectBlankId \/ DropDuplicate \/ DropCrossRun
  <2>1. Pulled /\ UNCHANGED folded
    BY <1>4 DEF RejectMalformed, Quarantine, RejectBlankId, DropDuplicate, DropCrossRun,
       Untouched, folded
  <2>2. UNCHANGED <<input, added, currentSeen>> /\ recordsRead' = recordsRead + 1
    BY <2>1 DEF Pulled, folded
  <2>. QED
    BY <1>1, <1>2, <2>2
<1>5. CASE EndOfInput \/ Truncate \/ SourceFails
  BY <1>1, <1>2, <1>5 DEF EndOfInput, Truncate, SourceFails, Finish, counters, folded
<1>6. CASE Process
  <2>1. /\ recordsRead < Len(input) /\ recordsRead' = recordsRead + 1 /\ input' = input
        /\ added' = Append(added, Parse(Raw)) /\ currentSeen' = SeenAfter(currentSeen, Raw)
    BY <1>6 DEF Process, Pulled
  <2>2. Parse(Raw) \in Parsed
    BY <1>2, <2>1 DEF Parsed, Raw, Progress
  <2>3. added' \in Seq(Parsed) /\ ToSet(added)' = ToSet(added) \cup {Parse(Raw)}
    BY <2>1, <2>2, ToSetAppend DEF SeenInv
  <2>4. SeenCoversOverlap'
    <3>1. currentSeen = {o.id : o \in {x \in ToSet(added) : x.end >= Cutoff}}
      BY DEF SeenInv, SeenCoversOverlap
    <3>2. currentSeen' = IF Raw.end >= Cutoff THEN currentSeen \cup {Raw.id} ELSE currentSeen
      BY <2>1 DEF SeenAfter
    <3>3. currentSeen' = {o.id : o \in {x \in ToSet(added)' : x.end >= Cutoff}}
      BY <2>3, <3>1, <3>2, ParseKeeps
    <3>. QED
      BY <3>3 DEF SeenCoversOverlap
  <2>. QED
    BY <1>2, <2>1, <2>3, <2>4 DEF SeenInv, Parsed
<1>. QED
  BY <1>3, <1>4, <1>5, <1>6 DEF Next

\* The run's seen map holds exactly the ids of the observations it folded that a later
\* window can read again, for every input and every cutoff.
THEOREM SeenCovers == Spec => []SeenCoversOverlap
<1>1. Init => SeenInv
  <2>. SUFFICES ASSUME Init PROVE SeenInv
    OBVIOUS
  <2>1. added = <<>> /\ currentSeen = {} /\ recordsRead = 0
    BY DEF Init
  <2>2. ToSet(added) = {}
    BY <2>1 DEF ToSet
  <2>. QED
    BY <2>1, <2>2 DEF SeenInv, SeenCoversOverlap
<1>2. SeenInv => SeenCoversOverlap
  BY DEF SeenInv
<1>. QED
  BY <1>1, <1>2, SeenStep, ProgressInvariant, PTL DEF Spec

-----------------------------------------------------------------------------
(* Subsequences                                                            *)

\* How many of a set of numbers are not above i.
Rank(S, i) == Cardinality({j \in S : j <= i})

\* The places up to n are finitely many.
LEMMA PlacesFinite ==
  ASSUME NEW n \in Nat, NEW S \in SUBSET (1..n)
  PROVE  /\ IsFiniteSet(S) /\ Cardinality(S) \in Nat
         /\ \A i : Rank(S, i) \in Nat /\ Rank(S, i) <= Cardinality(S)
<1>1. IsFiniteSet(1..n)
  BY FS_Interval
<1>2. IsFiniteSet(S)
  BY <1>1, FS_Subset
<1>3. ASSUME NEW i
      PROVE  Rank(S, i) \in Nat /\ Rank(S, i) <= Cardinality(S)
  <2>1. {j \in S : j <= i} \subseteq S
    OBVIOUS
  <2>. QED
    BY <1>2, <2>1, FS_Subset, FS_CardinalityType DEF Rank
<1>. QED
  BY <1>2, <1>3, FS_CardinalityType

\* Numbers of a set have different ranks, and every rank is that of one.
LEMMA Ranks ==
  ASSUME NEW n \in Nat, NEW S \in SUBSET (1..n)
  PROVE  /\ \A i \in S : Rank(S, i) \in 1..Cardinality(S)
         /\ \A i, j \in S : Rank(S, i) = Rank(S, j) => i = j
         /\ \A k \in 1..Cardinality(S) : \E i \in S : Rank(S, i) = k
<1>. DEFINE up(i) == {j \in S : j <= i}
            f == [i \in S |-> Rank(S, i)]
            K == 1..Cardinality(S)
            R == {Rank(S, i) : i \in S}
<1>1. IsFiniteSet(S) /\ Cardinality(S) \in Nat /\ \A i \in S : i \in Nat
  BY PlacesFinite
<1>2. \A i \in S : IsFiniteSet(up(i)) /\ Rank(S, i) = Cardinality(up(i))
  BY <1>1, FS_Subset DEF Rank
<1>3. ASSUME NEW i \in S
      PROVE  Rank(S, i) \in K
  <2>1. i \in up(i)
    BY <1>1
  <2>2. Cardinality(up(i)) # 0
    BY <1>2, <2>1, FS_EmptySet
  <2>3. Rank(S, i) \in Nat /\ Rank(S, i) <= Cardinality(S)
    BY PlacesFinite
  <2>. QED
    BY <1>1, <1>2, <2>2, <2>3
<1>4. ASSUME NEW i \in S, NEW j \in S, i < j
      PROVE  Rank(S, i) # Rank(S, j)
  <2>1. up(i) \subseteq up(j)
    <3>1. \A x \in S : x <= i => x <= j
      BY <1>1, <1>4
    <3>. QED
      BY <3>1
  <2>2. j \in up(j) /\ j \notin up(i)
    BY <1>1, <1>4
  <2>. QED
    BY <1>2, <2>1, <2>2, FS_Subset
<1>5. \A i, j \in S : Rank(S, i) = Rank(S, j) => i = j
  <2>1. \A i, j \in S : i < j \/ i = j \/ j < i
    BY <1>1
  <2>. QED
    BY <1>4, <2>1
<1>6. R = K
  <2>1. R \subseteq K
    BY <1>3
  <2>2. f \in Bijection(S, R)
    BY <1>5 DEF Bijection, Injection, Surjection, IsInjective
  <2>3. ExistsBijection(S, R)
    BY <2>2 DEF ExistsBijection
  <2>4. Cardinality(R) = Cardinality(S)
    BY <1>1, <2>3, FS_Bijection
  <2>5. IsFiniteSet(K) /\ Cardinality(K) = Cardinality(S)
    BY <1>1, FS_Interval
  <2>. QED
    BY <2>1, <2>4, <2>5, FS_Subset
<1>. QED
  BY <1>3, <1>5, <1>6

\* The k-th number of a set has rank k.
LEMMA NthProperties ==
  ASSUME NEW n \in Nat, NEW S \in SUBSET (1..n)
  PROVE  /\ \A k \in 1..Cardinality(S) : Nth(S, k) \in S /\ Rank(S, Nth(S, k)) = k
         /\ \A i \in S : Nth(S, Rank(S, i)) = i
<1>1. ASSUME NEW k \in 1..Cardinality(S)
      PROVE  Nth(S, k) \in S /\ Rank(S, Nth(S, k)) = k
  <2>1. \E i \in S : Cardinality({j \in S : j <= i}) = k
    BY Ranks DEF Rank
  <2>. QED
    BY <2>1 DEF Nth, Rank
<1>2. ASSUME NEW i \in S
      PROVE  Nth(S, Rank(S, i)) = i
  <2>1. Rank(S, i) \in 1..Cardinality(S)
    BY Ranks
  <2>2. Nth(S, Rank(S, i)) \in S /\ Rank(S, Nth(S, Rank(S, i))) = Rank(S, i)
    BY <1>1, <2>1
  <2>. QED
    BY <2>2, Ranks
<1>. QED
  BY <1>1, <1>2

\* A number above a set becomes its last.
LEMMA NthGrows ==
  ASSUME NEW n \in Nat, NEW S \in SUBSET (1..n)
  PROVE  LET T == S \cup {n + 1}
         IN  /\ Cardinality(T) = Cardinality(S) + 1
             /\ \A k \in 1..Cardinality(S) : Nth(T, k) = Nth(S, k)
             /\ Nth(T, Cardinality(S) + 1) = n + 1
<1>. DEFINE T == S \cup {n + 1}
<1>1. IsFiniteSet(S) /\ Cardinality(S) \in Nat /\ n + 1 \notin S
  <2>1. n + 1 \notin 1..n
    OBVIOUS
  <2>. QED
    BY <2>1, PlacesFinite
<1>2. Cardinality(T) = Cardinality(S) + 1
  BY <1>1, FS_AddElement
<1>3. n + 1 \in Nat /\ T \in SUBSET (1..(n + 1))
  OBVIOUS
<1>4. \A i \in S : {j \in T : j <= i} = {j \in S : j <= i}
  OBVIOUS
<1>5. \A i \in S : Rank(T, i) = Rank(S, i)
  BY <1>4 DEF Rank
<1>6. {j \in T : j <= n + 1} = T
  <2>1. \A j \in T : j <= n + 1
    OBVIOUS
  <2>. QED
    BY <2>1
<1>7. Rank(T, n + 1) = Cardinality(S) + 1
  BY <1>2, <1>6 DEF Rank
<1>8. \A i \in T : Nth(T, Rank(T, i)) = i
  BY <1>3, NthProperties
<1>9. \A k \in 1..Cardinality(S) : Nth(S, k) \in S /\ Rank(S, Nth(S, k)) = k
  BY NthProperties
<1>10. \A k \in 1..Cardinality(S) : Nth(T, k) = Nth(S, k)
  BY <1>5, <1>8, <1>9
<1>11. Nth(T, Cardinality(S) + 1) = n + 1
  BY <1>7, <1>8
<1>. QED
  BY <1>2, <1>10, <1>11

\* A subsequence is one.
LEMMA ElementsTyped ==
  ASSUME NEW n \in Nat, NEW S \in SUBSET (1..n), NEW V, NEW s, \A i \in S : s[i] \in V
  PROVE  ElementsAt(s, S) \in Seq(V) /\ Len(ElementsAt(s, S)) = Cardinality(S)
<1>. DEFINE c == Cardinality(S)
            e == ElementsAt(s, S)
<1>1. c \in Nat
  BY PlacesFinite
<1>2. \A k \in 1..c : Nth(S, k) \in S
  BY NthProperties
<1>3. e = [k \in 1..c |-> s[Nth(S, k)]]
  BY DEF ElementsAt
<1>. HIDE DEF c, e
<1>4. e \in [1..c -> V]
  BY <1>2, <1>3
<1>. QED
  BY <1>1, <1>3, <1>4 DEF c, e

\* A subsequence depends on the places it takes only.
LEMMA ElementsAgree ==
  ASSUME NEW n \in Nat, NEW S \in SUBSET (1..n), NEW s, NEW t, \A i \in S : t[i] = s[i]
  PROVE  ElementsAt(t, S) = ElementsAt(s, S)
<1>1. \A k \in 1..Cardinality(S) : Nth(S, k) \in S
  BY NthProperties
<1>2. /\ ElementsAt(s, S) = [k \in 1..Cardinality(S) |-> s[Nth(S, k)]]
      /\ ElementsAt(t, S) = [k \in 1..Cardinality(S) |-> t[Nth(S, k)]]
  BY DEF ElementsAt
<1>. QED
  BY <1>1, <1>2

\* A subsequence grows with the next place.
LEMMA ElementsGrow ==
  ASSUME NEW n \in Nat, NEW S \in SUBSET (1..n), NEW t
  PROVE  ElementsAt(t, S \cup {n + 1}) = Append(ElementsAt(t, S), t[n + 1])
<1>. DEFINE c == Cardinality(S)
            T == S \cup {n + 1}
            e == ElementsAt(t, S)
            V == {t[i] : i \in S} \cup {t[n + 1]}
<1>1. c \in Nat
  BY PlacesFinite
<1>2. \A k \in 1..c : Nth(S, k) \in S
  BY NthProperties
<1>3. /\ e = [k \in 1..c |-> t[Nth(S, k)]]
      /\ ElementsAt(t, T) = [k \in 1..Cardinality(T) |-> t[Nth(T, k)]]
  BY DEF ElementsAt
<1>4. /\ Cardinality(T) = c + 1
      /\ \A k \in 1..c : Nth(T, k) = Nth(S, k)
      /\ Nth(T, c + 1) = n + 1
  BY NthGrows
<1>. HIDE DEF c, T, e
<1>5. e \in Seq(V) /\ Len(e) = c /\ \A k \in 1..c : e[k] = t[Nth(S, k)]
  <2>1. \A i \in S : t[i] \in V
    OBVIOUS
  <2>2. e \in Seq(V) /\ Len(e) = c
    BY <2>1, ElementsTyped DEF e, c
  <2>. QED
    BY <1>3, <2>2
<1>6. ElementsAt(t, T) = Append(e, t[n + 1])
  <2>. DEFINE a == ElementsAt(t, T)
              b == Append(e, t[n + 1])
  <2>1. \A k \in 1..(c + 1) : k \in 1..c \/ k = c + 1
    BY <1>1
  <2>2. a = [k \in 1..(c + 1) |-> t[Nth(T, k)]]
    BY <1>3, <1>4
  <2>3. /\ \A k \in 1..c : k \in 1..(c + 1) /\ t[Nth(T, k)] = e[k]
        /\ c + 1 \in 1..(c + 1)
    <3>1. \A k \in 1..c : k \in 1..(c + 1)
      BY <1>1
    <3>2. c + 1 \in 1..(c + 1)
      BY <1>1
    <3>. QED
      BY <1>2, <1>4, <1>5, <3>1, <3>2
  <2>4. /\ b \in Seq(V) /\ Len(b) = c + 1
        /\ \A k \in 1..c : b[k] = e[k]
        /\ b[c + 1] = t[n + 1]
    <3>1. t[n + 1] \in V
      OBVIOUS
    <3>. HIDE DEF V
    <3>. QED
      BY <1>5, <3>1, AppendProperties
  <2>5. \A k \in 1..(c + 1) : a[k] = b[k]
    BY <1>4, <2>1, <2>2, <2>3, <2>4
  <2>6. b = [k \in 1..(c + 1) |-> b[k]]
    BY <2>4, LenProperties
  <2>7. \A k \in 1..(c + 1) : t[Nth(T, k)] = b[k]
    BY <2>2, <2>5
  <2>. HIDE DEF a, b
  <2>. QED
    BY <2>2, <2>6, <2>7 DEF a, b
<1>. QED
  BY <1>6 DEF T, e

-----------------------------------------------------------------------------
(* StreamingMatchesBatch                                                   *)

\* The greatest of a set of numbers.
LEMMA MaxIs ==
  ASSUME NEW S \in SUBSET Int, NEW m \in S, \A x \in S : x <= m
  PROVE  Max(S) = m
<1>1. m \in S /\ \A y \in S : m >= y
  OBVIOUS
<1>2. \A x \in S : (\A y \in S : x >= y) => x = m
  OBVIOUS
<1>. QED
  BY <1>1, <1>2 DEF Max

\* Where the pass is.
LoopInv == Progress /\ SeenInv /\ input \in Inputs

\* The sets the batch rules are about.
LEMMA BatchSets ==
  ASSUME Progress
  PROVE  /\ recordsRead \in Nat
         /\ UsableAt \in SUBSET (1..recordsRead) /\ Kept \in SUBSET UsableAt
         /\ Kept \in SUBSET (1..recordsRead)
         /\ IsFiniteSet(UsableAt) /\ Cardinality(UsableAt) \in Nat
         /\ IsFiniteSet(UsableIds) /\ Cardinality(UsableIds) \in Nat
         /\ IsFiniteSet(UsableIds \cap prior) /\ Cardinality(UsableIds \cap prior) \in Nat
<1>1. /\ recordsRead \in Nat /\ UsableAt \in SUBSET (1..recordsRead) /\ Kept \in SUBSET UsableAt
  BY DEF Progress, UsableAt, Kept
<1>2. IsFiniteSet(UsableAt)
  BY <1>1, PlacesFinite
<1>3. [i \in UsableAt |-> input[i].id] \in Surjection(UsableAt, UsableIds)
  BY DEF Surjection, UsableIds
<1>4. IsFiniteSet(UsableIds)
  BY <1>2, <1>3, FS_Surjection DEF ExistsSurjection
<1>5. IsFiniteSet(UsableIds \cap prior)
  BY <1>4, FS_Subset
<1>. QED
  BY <1>1, <1>2, <1>4, <1>5, FS_CardinalityType

\* How the batch rules see the record that is pulled.
LEMMA PulledRecord ==
  ASSUME Progress, Pulled
  PROVE  LET n == recordsRead + 1
         IN  /\ n \in 1..Len(input) /\ n \notin UsableAt
             /\ ~Usable(Raw) => UsableAt' = UsableAt /\ Kept' = Kept /\ UsableIds' = UsableIds
             /\ Usable(Raw) =>
                  /\ UsableAt' = UsableAt \cup {n}
                  /\ UsableIds' = UsableIds \cup {Raw.id}
                  /\ Kept' = IF Raw.id \in UsableIds \/ Raw.id \in prior THEN Kept ELSE Kept \cup {n}
<1>. DEFINE n == recordsRead + 1
<1>1. /\ recordsRead' = n /\ input' = input /\ prior' = prior /\ recordsRead < Len(input)
  BY DEF Pulled
<1>2. /\ recordsRead \in Nat /\ Len(input) \in Nat
  BY DEF Progress
<1>3. n \in 1..Len(input) /\ n \notin 1..recordsRead /\ 1..n = (1..recordsRead) \cup {n}
  BY <1>1, <1>2
<1>4. Raw = input[n]
  BY DEF Raw
<1>5. UsableAt' = {i \in 1..n : Usable(input[i])}
  BY <1>1 DEF UsableAt, Usable, Parses, Malformed, Poison, Overflows
<1>6. UsableAt' = IF Usable(Raw) THEN UsableAt \cup {n} ELSE UsableAt
  BY <1>3, <1>4, <1>5 DEF UsableAt
<1>7. /\ UsableIds' = {input[i].id : i \in UsableAt'}
      /\ Kept' = {i \in UsableAt' : /\ \A j \in UsableAt' : j < i => input[j].id # input[i].id
                                    /\ input[i].id \notin prior}
  BY <1>1 DEF UsableIds, Kept
<1>8. n \notin UsableAt /\ \A j \in UsableAt : j < n /\ ~(n < j)
  BY <1>2, <1>3 DEF UsableAt
<1>9. CASE ~Usable(Raw)
  BY <1>3, <1>6, <1>7, <1>8, <1>9 DEF UsableIds, Kept
<1>10. CASE Usable(Raw)
  <2>1. UsableAt' = UsableAt \cup {n}
    BY <1>6, <1>10
  <2>2. UsableIds' = UsableIds \cup {Raw.id}
    BY <1>4, <1>7, <2>1 DEF UsableIds
  <2>3. \A i \in UsableAt : i \in Kept' <=> i \in Kept
    BY <1>7, <1>8, <2>1 DEF Kept
  <2>4. n \in Kept' <=> Raw.id \notin UsableIds /\ Raw.id \notin prior
    <3>1. ~(n < n)
      BY <1>2
    <3>. QED
      BY <1>4, <1>7, <1>8, <2>1, <3>1 DEF UsableIds
  <2>5. Kept' \subseteq UsableAt \cup {n} /\ Kept \subseteq UsableAt
    BY <1>7, <2>1 DEF Kept
  <2>6. Kept' = IF Raw.id \in UsableIds \/ Raw.id \in prior THEN Kept ELSE Kept \cup {n}
    <3>1. CASE Raw.id \in UsableIds \/ Raw.id \in prior
      BY <2>3, <2>4, <2>5, <3>1
    <3>2. CASE ~(Raw.id \in UsableIds \/ Raw.id \in prior)
      BY <2>3, <2>4, <2>5, <3>2
    <3>. QED
      BY <3>1, <3>2
  <2>. QED
    BY <1>3, <1>8, <1>10, <2>1, <2>2, <2>6
<1>. QED
  BY <1>9, <1>10

\* What the batch rules fold grows by what the pass folds.
LEMMA BatchGrows ==
  ASSUME Progress, SeenInv, Pulled, added = BatchResult
  PROVE  /\ Kept' = Kept => BatchResult' = BatchResult
         /\ Kept' = Kept \cup {recordsRead + 1} => BatchResult' = Append(added, Parse(Raw))
<1>. DEFINE n == recordsRead
            s == [i \in 1..n |-> Parse(input[i])]
            t == [i \in 1..(n + 1) |-> Parse(input[i])]
<1>1. n \in Nat /\ Kept \in SUBSET (1..n) /\ recordsRead' = n + 1 /\ input' = input
      /\ n + 1 \in 1..Len(input) /\ Len(input) \in Nat /\ n < Len(input)
  BY BatchSets, PulledRecord DEF Pulled, Progress
<1>2. BatchResult = ElementsAt(s, Kept)
  BY DEF BatchResult
<1>3. BatchResult' = ElementsAt(t, Kept')
  <2>1. \A i : Parse(input[i])' = Parse(input[i])
    BY <1>1 DEF Parse, Ttft, IsError, ErrorCategory, PrimaryDims, Team, Route, ModelFamily, Env,
       ProviderRegion, Fold, FoldedDimensions, IntOf
  <2>. QED
    BY <1>1, <2>1 DEF BatchResult, ElementsAt, Nth
<1>4. \A i \in 1..n : i \in 1..Len(input) /\ i \in 1..(n + 1)
  BY <1>1
<1>5. \A i \in Kept : s[i] \in Parsed /\ t[i] = s[i]
  BY <1>1, <1>4 DEF Parsed
<1>6. t[n + 1] = Parse(Raw) /\ t[n + 1] \in Parsed
  BY <1>1 DEF Raw, Parsed
<1>. HIDE DEF s, t
<1>7. /\ ElementsAt(t, Kept) = ElementsAt(s, Kept)
      /\ ElementsAt(t, Kept \cup {n + 1}) = Append(ElementsAt(s, Kept), t[n + 1])
  <2>1. PICK m \in Nat : m = recordsRead
    BY <1>1
  <2>2. PICK K \in SUBSET (1..m) : K = Kept
    BY <1>1, <2>1
  <2>3. PICK f : f = s
    OBVIOUS
  <2>4. PICK g : g = t
    OBVIOUS
  <2>5. \A i \in K : g[i] = f[i]
    BY <1>5, <2>2, <2>3, <2>4
  <2>6. ElementsAt(g, K) = ElementsAt(f, K)
    BY <2>5, ElementsAgree
  <2>7. ElementsAt(g, K \cup {m + 1}) = Append(ElementsAt(g, K), g[m + 1])
    BY ElementsGrow
  <2>. QED
    BY <2>1, <2>2, <2>3, <2>4, <2>6, <2>7
<1>. QED
  BY <1>2, <1>3, <1>6, <1>7

\* The times the freshness is measured from are numbers.
LEMMA EndsTyped ==
  ASSUME LoopInv
  PROVE  {r.end : r \in ToSet(added)} \cup {NoTime} \in SUBSET Int
<1>1. \A i \in 1..Len(input) : input[i].end \in Int
  BY LoopAssumption DEF LoopInv, Numeric
<1>2. \A r \in Parsed : r.end \in Int
  BY <1>1, ParseKeeps DEF Parsed
<1>3. added \in Seq(Parsed)
  BY DEF LoopInv, SeenInv
<1>4. \A r \in ToSet(added) : r \in Parsed
  BY <1>3 DEF ToSet
<1>. QED
  BY <1>2, <1>4 DEF NoTime

\* A record that is not folded leaves what the batch folds alone.
LEMMA BatchUntouched ==
  ASSUME LoopInv, BatchInv, Pulled, UNCHANGED folded, Kept' = Kept, seenBatch' = UsableIds',
         duplicates' = Cardinality(UsableAt') - Cardinality(UsableIds'),
         crossRun' = Cardinality(UsableIds' \cap prior')
  PROVE  BatchInv'
<1>1. added = BatchResult
  BY DEF BatchInv, StreamingMatchesBatch
<1>2. BatchResult' = BatchResult
  BY <1>1, BatchGrows DEF LoopInv
<1>3. added' = added /\ maxEnd' = maxEnd
  BY DEF folded
<1>4. ToSet(added)' = ToSet(added) /\ ToSet(BatchResult)' = ToSet(BatchResult)
  BY <1>2, <1>3
<1>5. StreamingMatchesBatch'
  BY <1>1, <1>2, <1>3, <1>4 DEF BatchInv, StreamingMatchesBatch
<1>. QED
  BY <1>3, <1>4, <1>5 DEF BatchInv

\* Every step of the pass keeps it in agreement with the batch rules.
LEMMA BatchStep ==
  ASSUME LoopInv, BatchInv, [Next]_vars
  PROVE  BatchInv'
<1>. DEFINE n == recordsRead + 1
<1>1. Progress /\ SeenInv
  BY DEF LoopInv
<1>2. /\ added = BatchResult /\ seenBatch = UsableIds
      /\ duplicates = Cardinality(UsableAt) - Cardinality(UsableIds)
      /\ crossRun = Cardinality(UsableIds \cap prior)
  BY DEF BatchInv, StreamingMatchesBatch
<1>3. CASE UNCHANGED <<input, prior, counters, seenBatch, folded>>
  <2>1. /\ input' = input /\ prior' = prior /\ recordsRead' = recordsRead
        /\ duplicates' = duplicates /\ crossRun' = crossRun /\ seenBatch' = seenBatch
        /\ added' = added /\ maxEnd' = maxEnd
    BY <1>3 DEF counters, folded
  <2>2. UsableAt' = UsableAt /\ UsableIds' = UsableIds /\ Kept' = Kept
    BY <2>1 DEF UsableAt, UsableIds, Kept, Usable, Parses, Malformed, Poison, Overflows
  <2>3. [i \in 1..recordsRead |-> Parse(input[i])]' = [i \in 1..recordsRead |-> Parse(input[i])]
    BY <2>1
  <2>4. BatchResult' = BatchResult
    BY <2>2, <2>3 DEF BatchResult, ElementsAt, Nth
  <2>5. ToSet(added)' = ToSet(added) /\ ToSet(BatchResult)' = ToSet(BatchResult)
    BY <2>1, <2>4
  <2>. QED
    BY <2>1, <2>2, <2>4, <2>5 DEF BatchInv, StreamingMatchesBatch
<1>4. CASE UNCHANGED vars \/ Over \/ EndOfInput \/ Truncate \/ SourceFails
  BY <1>3, <1>4 DEF Over, vars, EndOfInput, Truncate, SourceFails, Finish
<1>5. CASE RejectMalformed \/ Quarantine \/ RejectBlankId
  <2>1. /\ Pulled /\ ~Usable(Raw) /\ UNCHANGED folded
        /\ seenBatch' = seenBatch /\ duplicates' = duplicates /\ crossRun' = crossRun
    BY <1>5 DEF RejectMalformed, Quarantine, RejectBlankId, Untouched, Usable, Parses
  <2>2. prior' = prior
    BY <2>1 DEF Pulled
  <2>3. UsableAt' = UsableAt /\ Kept' = Kept /\ UsableIds' = UsableIds
    BY <1>1, <2>1, PulledRecord
  <2>. QED
    BY <1>2, <2>1, <2>2, <2>3, BatchUntouched
<1>. HIDE DEF n
<1>6. ASSUME Pulled, Usable(Raw)
      PROVE  /\ UsableAt' = UsableAt \cup {n}
             /\ Cardinality(UsableAt') = Cardinality(UsableAt) + 1
             /\ UsableIds' = UsableIds \cup {Raw.id}
             /\ Raw.id \notin UsableIds => Cardinality(UsableIds') = Cardinality(UsableIds) + 1
             /\ prior' = prior
             /\ Cardinality(UsableAt) \in Nat /\ Cardinality(UsableIds) \in Nat
             /\ Kept' = IF Raw.id \in UsableIds \/ Raw.id \in prior THEN Kept ELSE Kept \cup {n}
  <2>1. /\ UsableAt' = UsableAt \cup {n} /\ UsableIds' = UsableIds \cup {Raw.id}
        /\ n \notin UsableAt
        /\ Kept' = IF Raw.id \in UsableIds \/ Raw.id \in prior THEN Kept ELSE Kept \cup {n}
    BY <1>1, <1>6, PulledRecord DEF n
  <2>2. /\ IsFiniteSet(UsableAt) /\ IsFiniteSet(UsableIds)
        /\ Cardinality(UsableAt) \in Nat /\ Cardinality(UsableIds) \in Nat
    BY <1>1, BatchSets
  <2>3. Cardinality(UsableAt \cup {n}) = Cardinality(UsableAt) + 1
    BY <2>1, <2>2, FS_AddElement
  <2>4. Raw.id \notin UsableIds => Cardinality(UsableIds \cup {Raw.id}) = Cardinality(UsableIds) + 1
    BY <2>2, FS_AddElement
  <2>5. prior' = prior
    BY <1>6 DEF Pulled
  <2>. QED
    BY <2>1, <2>2, <2>3, <2>4, <2>5
<1>7. CASE DropDuplicate
  <2>1. /\ Pulled /\ Usable(Raw) /\ Raw.id \in seenBatch /\ UNCHANGED folded
        /\ duplicates' = duplicates + 1 /\ seenBatch' = seenBatch /\ crossRun' = crossRun
    BY <1>7 DEF DropDuplicate, Identified, Untouched
  <2>2. UsableIds' = UsableIds /\ Kept' = Kept /\ prior' = prior
    BY <1>2, <1>6, <2>1
  <2>3. duplicates' = Cardinality(UsableAt') - Cardinality(UsableIds')
    <3>1. /\ Cardinality(UsableAt') = Cardinality(UsableAt) + 1
          /\ Cardinality(UsableAt) \in Nat /\ Cardinality(UsableIds) \in Nat
      BY <1>6, <2>1
    <3>. QED
      BY <1>2, <2>1, <2>2, <3>1
  <2>. QED
    BY <1>2, <2>1, <2>2, <2>3, BatchUntouched
<1>8. CASE DropCrossRun
  <2>1. /\ Pulled /\ Usable(Raw) /\ Raw.id \notin seenBatch /\ Raw.id \in prior
        /\ UNCHANGED folded /\ seenBatch' = seenBatch \cup {Raw.id}
        /\ duplicates' = duplicates /\ crossRun' = crossRun + 1
    BY <1>8 DEF DropCrossRun, Identified
  <2>2. UsableIds' = UsableIds \cup {Raw.id} /\ Kept' = Kept /\ prior' = prior
    BY <1>2, <1>6, <2>1
  <2>3. duplicates' = Cardinality(UsableAt') - Cardinality(UsableIds')
    <3>1. /\ Cardinality(UsableAt') = Cardinality(UsableAt) + 1
          /\ Cardinality(UsableIds') = Cardinality(UsableIds) + 1
          /\ Cardinality(UsableAt) \in Nat /\ Cardinality(UsableIds) \in Nat
      BY <1>2, <1>6, <2>1
    <3>. QED
      BY <1>2, <2>1, <3>1
  <2>4. crossRun' = Cardinality(UsableIds' \cap prior')
    <3>1. UsableIds' \cap prior' = (UsableIds \cap prior) \cup {Raw.id}
      BY <2>1, <2>2
    <3>2. IsFiniteSet(UsableIds \cap prior) /\ Raw.id \notin UsableIds \cap prior
      BY <1>1, <1>2, <2>1, BatchSets
    <3>3. Cardinality((UsableIds \cap prior) \cup {Raw.id}) = Cardinality(UsableIds \cap prior) + 1
      BY <3>2, FS_AddElement
    <3>. QED
      BY <1>2, <2>1, <3>1, <3>3
  <2>. QED
    BY <1>2, <2>1, <2>2, <2>3, <2>4, BatchUntouched
<1>9. CASE Process
  <2>. DEFINE ends == {r.end : r \in ToSet(added)} \cup {NoTime}
              e == Raw.end
  <2>1. /\ Pulled /\ Usable(Raw) /\ Raw.id \notin seenBatch /\ Raw.id \notin prior
        /\ seenBatch' = seenBatch \cup {Raw.id} /\ added' = Append(added, Parse(Raw))
        /\ maxEnd' = MaxEndAfter(maxEnd, Raw)
        /\ duplicates' = duplicates /\ crossRun' = crossRun
    BY <1>9 DEF Process, Identified
  <2>2. /\ UsableIds' = UsableIds \cup {Raw.id} /\ prior' = prior
        /\ Kept' = Kept \cup {recordsRead + 1}
    BY <1>2, <1>6, <2>1 DEF n
  <2>3. BatchResult' = added'
    BY <1>1, <1>2, <2>1, <2>2, BatchGrows
  <2>4. duplicates' = Cardinality(UsableAt') - Cardinality(UsableIds')
    <3>1. /\ Cardinality(UsableAt') = Cardinality(UsableAt) + 1
          /\ Cardinality(UsableIds') = Cardinality(UsableIds) + 1
          /\ Cardinality(UsableAt) \in Nat /\ Cardinality(UsableIds) \in Nat
      BY <1>2, <1>6, <2>1
    <3>. QED
      BY <1>2, <2>1, <3>1
  <2>5. crossRun' = Cardinality(UsableIds' \cap prior')
    <3>1. UsableIds' \cap prior' = UsableIds \cap prior
      BY <2>1, <2>2
    <3>. QED
      BY <1>2, <2>1, <3>1
  <2>6. recordsRead + 1 \in 1..Len(input) /\ Raw = input[recordsRead + 1]
    BY <1>1, <2>1, PulledRecord DEF Raw
  <2>7. ToSet(added)' = ToSet(added) \cup {Parse(Raw)}
    <3>1. Parse(Raw) \in Parsed /\ added \in Seq(Parsed)
      BY <1>1, <2>6 DEF Parsed, SeenInv
    <3>. QED
      BY <2>1, <3>1, ToSetAppend
  <2>8. ends' = ends \cup {e}
    <3>1. ends' = {r.end : r \in ToSet(added)'} \cup {NoTime}
      OBVIOUS
    <3>. QED
      BY <2>7, <3>1, ParseKeeps
  <2>9. ends \in SUBSET Int /\ e \in Int
    <3>1. e \in Int
      BY <2>6, LoopAssumption DEF LoopInv, Numeric
    <3>. QED
      BY <3>1, EndsTyped
  <2>10. maxEnd \in ends /\ \A t \in ends : t <= maxEnd
    BY DEF BatchInv
  <2>. HIDE DEF ends, e
  <2>11. maxEnd' \in ends' /\ \A t \in ends' : t <= maxEnd'
    <3>1. maxEnd' = IF e > maxEnd THEN e ELSE maxEnd
      BY <2>1 DEF MaxEndAfter, e
    <3>. QED
      BY <2>8, <2>9, <2>10, <3>1
  <2>12. maxEnd' = Max(ends')
    <3>1. PICK m \in ends' : m = maxEnd'
      BY <2>11
    <3>2. PICK E \in SUBSET Int : E = ends'
      BY <2>8, <2>9
    <3>3. m \in E /\ \A t \in E : t <= m
      BY <2>11, <3>1, <3>2
    <3>. QED
      BY <3>1, <3>2, <3>3, MaxIs
  <2>13. StreamingMatchesBatch'
    <3>1. ToSet(BatchResult)' = ToSet(added)'
      BY <2>3
    <3>2. ends' = {r.end : r \in ToSet(BatchResult)'} \cup {NoTime}
      BY <3>1 DEF ends
    <3>. QED
      BY <2>3, <2>4, <2>5, <2>12, <3>2 DEF StreamingMatchesBatch
  <2>. QED
    BY <1>2, <2>1, <2>2, <2>11, <2>13 DEF BatchInv, ends
<1>. QED
  BY <1>4, <1>5, <1>7, <1>8, <1>9 DEF Next

\* Every step keeps the input one of those the source may yield.
LEMMA LoopStep ==
  ASSUME LoopInv, [Next]_vars
  PROVE  LoopInv'
<1>1. Progress' /\ SeenInv'
  BY ProgressStep, SeenStep DEF LoopInv
<1>2. input' = input
  BY DEF Next, vars, RejectMalformed, Quarantine, RejectBlankId, DropDuplicate, DropCrossRun,
     Process, Pulled, EndOfInput, Truncate, SourceFails, Finish, Over
<1>. QED
  BY <1>1, <1>2 DEF LoopInv

\* The pass starts where its invariants hold.
LEMMA LoopStarts ==
  ASSUME Init
  PROVE  LoopInv /\ BatchInv
<1>1. /\ input \in Inputs /\ recordsRead = 0 /\ added = <<>> /\ currentSeen = {} /\ seenBatch = {}
      /\ maxEnd = NoTime /\ duplicates = 0 /\ crossRun = 0
  BY DEF Init
<1>2. Progress
  BY ProgressStarts
<1>3. ToSet(added) = {}
  BY <1>1 DEF ToSet
<1>4. SeenInv
  BY <1>1, <1>3 DEF SeenInv, SeenCoversOverlap
<1>5. UsableAt = {} /\ UsableIds = {} /\ Kept = {} /\ UsableIds \cap prior = {}
  BY <1>1 DEF UsableAt, UsableIds, Kept
<1>6. Cardinality(UsableAt) = 0 /\ Cardinality(UsableIds) = 0 /\ Cardinality(UsableIds \cap prior) = 0
  BY <1>5, FS_EmptySet
<1>7. BatchResult = added
  <2>1. Cardinality(Kept) = 0
    BY <1>5, FS_EmptySet
  <2>2. BatchResult \in Seq({}) /\ Len(BatchResult) = 0
    <3>. DEFINE s == [i \in 1..recordsRead |-> Parse(input[i])]
    <3>1. \A i \in Kept : s[i] \in {}
      BY <1>5
    <3>2. recordsRead \in Nat /\ Kept \in SUBSET (1..recordsRead)
      BY <1>1, <1>5
    <3>. HIDE DEF s
    <3>3. ElementsAt(s, Kept) \in Seq({}) /\ Len(ElementsAt(s, Kept)) = Cardinality(Kept)
      BY <3>1, <3>2, ElementsTyped
    <3>. QED
      BY <2>1, <3>3 DEF BatchResult, s
  <2>. QED
    BY <1>1, <2>2, EmptySeq
<1>8. {r.end : r \in ToSet(added)} \cup {NoTime} = {NoTime}
  BY <1>3
<1>9. Max({NoTime}) = NoTime
  <2>1. PICK E : E = {NoTime}
    OBVIOUS
  <2>2. PICK m \in E : m = NoTime
    BY <2>1
  <2>3. E \in SUBSET Int /\ \A x \in E : x <= m
    BY <2>1, <2>2 DEF NoTime
  <2>. QED
    BY <2>1, <2>2, <2>3, MaxIs
<1>10. StreamingMatchesBatch
  <2>1. {r.end : r \in ToSet(BatchResult)} \cup {NoTime} = {NoTime}
    BY <1>3, <1>7
  <2>2. maxEnd = Max({r.end : r \in ToSet(BatchResult)} \cup {NoTime})
    BY <1>1, <1>9, <2>1
  <2>3. duplicates = Cardinality(UsableAt) - Cardinality(UsableIds)
    BY <1>1, <1>6
  <2>. QED
    BY <1>1, <1>6, <1>7, <2>2, <2>3 DEF StreamingMatchesBatch
<1>11. BatchInv
  BY <1>1, <1>5, <1>8, <1>10 DEF BatchInv, NoTime
<1>. QED
  BY <1>1, <1>2, <1>4, <1>11 DEF LoopInv

\* One record at a time, the pass folds exactly what _dedup and the checkpoint filter
\* keep of the whole batch, in the same order, counts the same duplicates, and knows the
\* newest end, for every input, every seen set and wherever the source fails.
THEOREM MatchesBatch == Spec => []StreamingMatchesBatch
<1>1. Init => LoopInv /\ BatchInv
  BY LoopStarts
<1>2. LoopInv /\ BatchInv /\ [Next]_vars => LoopInv' /\ BatchInv'
  BY LoopStep, BatchStep
<1>3. BatchInv => StreamingMatchesBatch
  BY DEF BatchInv
<1>. QED
  BY <1>1, <1>2, <1>3, PTL DEF Spec

-----------------------------------------------------------------------------
(* SamplesAreBounded                                                       *)

\* The smaller of two numbers.
LEMMA MinOfTwo ==
  ASSUME NEW a \in Nat, NEW b \in Nat
  PROVE  Min({a, b}) = IF a <= b THEN a ELSE b
<1>1. CASE a <= b
  <2>1. a \in {a, b} /\ \A y \in {a, b} : a <= y
    BY <1>1
  <2>2. \A x \in {a, b} : (\A y \in {a, b} : x <= y) => x = a
    BY <1>1
  <2>. QED
    BY <1>1, <2>1, <2>2 DEF Min
<1>2. CASE ~(a <= b)
  <2>1. b \in {a, b} /\ \A y \in {a, b} : b <= y
    BY <1>2
  <2>2. \A x \in {a, b} : (\A y \in {a, b} : x <= y) => x = b
    BY <1>2
  <2>. QED
    BY <1>2, <2>1, <2>2 DEF Min
<1>. QED
  BY <1>1, <1>2

\* How often a value occurs.
LEMMA OccurrencesTyped ==
  ASSUME NEW s \in Seq(Nat), NEW x
  PROVE  /\ IsFiniteSet({i \in DOMAIN s : s[i] = x}) /\ Occurrences(s, x) \in Nat
         /\ x \notin ToSet(s) => Occurrences(s, x) = 0
<1>1. Len(s) \in Nat /\ DOMAIN s = 1..Len(s)
  OBVIOUS
<1>2. {i \in DOMAIN s : s[i] = x} \in SUBSET (1..Len(s))
  BY <1>1
<1>3. IsFiniteSet({i \in DOMAIN s : s[i] = x}) /\ Cardinality({i \in DOMAIN s : s[i] = x}) \in Nat
  BY <1>1, <1>2, PlacesFinite
<1>4. ASSUME x \notin ToSet(s)
      PROVE  Occurrences(s, x) = 0
  <2>1. {i \in DOMAIN s : s[i] = x} = {}
    BY <1>4 DEF ToSet
  <2>. QED
    BY <2>1, FS_EmptySet DEF Occurrences
<1>. QED
  BY <1>3, <1>4 DEF Occurrences

\* An appended value occurs once more.
LEMMA OccurrencesAppend ==
  ASSUME NEW s \in Seq(Nat), NEW v \in Nat, NEW x
  PROVE  Occurrences(Append(s, v), x) = IF x = v THEN Occurrences(s, x) + 1 ELSE Occurrences(s, x)
<1>. DEFINE t == Append(s, v)
            n == Len(s)
            A == {i \in DOMAIN s : s[i] = x}
            B == {i \in DOMAIN t : t[i] = x}
<1>1. n \in Nat /\ DOMAIN s = 1..n /\ t \in Seq(Nat) /\ Len(t) = n + 1
  BY AppendProperties
<1>2. DOMAIN t = 1..(n + 1)
  BY <1>1
<1>3. (\A i \in 1..n : t[i] = s[i]) /\ t[n + 1] = v
  BY AppendProperties
<1>4. 1..(n + 1) = (1..n) \cup {n + 1} /\ n + 1 \notin 1..n
  BY <1>1
<1>. HIDE DEF t, n
<1>5. B = IF x = v THEN A \cup {n + 1} ELSE A
  BY <1>1, <1>2, <1>3, <1>4
<1>6. IsFiniteSet(A) /\ n + 1 \notin A
  BY <1>1, <1>4, OccurrencesTyped
<1>7. Cardinality(A \cup {n + 1}) = Cardinality(A) + 1
  BY <1>6, FS_AddElement
<1>. QED
  BY <1>5, <1>7 DEF Occurrences, t

\* An element adds at most one.
LEMMA AtMostOneMore ==
  ASSUME NEW A, IsFiniteSet(A), NEW p
  PROVE  IsFiniteSet(A \cup {p}) /\ Cardinality(A \cup {p}) <= Cardinality(A) + 1
<1>1. Cardinality(A) \in Nat
  BY FS_CardinalityType
<1>2. CASE p \in A
  <2>1. A \cup {p} = A
    BY <1>2
  <2>2. IsFiniteSet(A \cup {p}) /\ Cardinality(A \cup {p}) = Cardinality(A)
    BY <2>1, Zenon
  <2>. QED
    BY <1>1, <2>2
<1>3. CASE p \notin A
  <2>1. IsFiniteSet(A \cup {p}) /\ Cardinality(A \cup {p}) = Cardinality(A) + 1
    BY <1>3, FS_AddElement
  <2>. QED
    BY <1>1, <2>1
<1>. QED
  BY <1>2, <1>3

\* A value that takes the place of another occurs at most once more, and no other does.
LEMMA OccurrencesReplace ==
  ASSUME NEW s \in Seq(Nat), NEW v \in Nat, NEW p \in 1..Len(s), NEW x
  PROVE  /\ [s EXCEPT ![p] = v] \in Seq(Nat) /\ Len([s EXCEPT ![p] = v]) = Len(s)
         /\ Occurrences([s EXCEPT ![p] = v], x)
              <= IF x = v THEN Occurrences(s, x) + 1 ELSE Occurrences(s, x)
<1>. DEFINE t == [s EXCEPT ![p] = v]
            A == {i \in DOMAIN s : s[i] = x}
            B == {i \in DOMAIN t : t[i] = x}
<1>1. t \in Seq(Nat) /\ Len(t) = Len(s) /\ DOMAIN t = DOMAIN s
  OBVIOUS
<1>2. \A i \in DOMAIN s : t[i] = IF i = p THEN v ELSE s[i]
  OBVIOUS
<1>. HIDE DEF t
<1>3. /\ IsFiniteSet(A) /\ Cardinality(A) \in Nat /\ IsFiniteSet(B) /\ Cardinality(B) \in Nat
  BY <1>1, OccurrencesTyped DEF Occurrences
<1>4. CASE x = v
  <2>1. B \subseteq A \cup {p}
    BY <1>1, <1>2
  <2>2. IsFiniteSet(A \cup {p}) /\ Cardinality(A \cup {p}) <= Cardinality(A) + 1
    BY <1>3, AtMostOneMore
  <2>3. Cardinality(B) <= Cardinality(A \cup {p}) /\ Cardinality(A \cup {p}) \in Nat
    BY <2>1, <2>2, FS_Subset, FS_CardinalityType
  <2>. QED
    BY <1>1, <1>3, <1>4, <2>2, <2>3 DEF Occurrences, t
<1>5. CASE x # v
  <2>1. B \subseteq A
    BY <1>1, <1>2, <1>5
  <2>2. Cardinality(B) <= Cardinality(A)
    BY <1>3, <2>1, FS_Subset
  <2>. QED
    BY <1>1, <1>5, <2>2 DEF Occurrences, t
<1>. QED
  BY <1>4, <1>5

\* A sample no value of which occurs more often than among the values.
LEMMA SampleBelow ==
  ASSUME NEW all \in Seq(Nat), NEW kept \in Seq(Nat), SampleOf(all, kept), NEW x
  PROVE  Occurrences(kept, x) <= Occurrences(all, x)
<1>1. CASE x \in ToSet(kept)
  BY <1>1 DEF SampleOf
<1>2. CASE x \notin ToSet(kept)
  <2>1. Occurrences(kept, x) = 0 /\ Occurrences(all, x) \in Nat
    BY <1>2, OccurrencesTyped
  <2>. QED
    BY <2>1
<1>. QED
  BY <1>1, <1>2

\* Few values are a sample of themselves.
LEMMA SampleOfItself ==
  ASSUME NEW all \in Seq(Nat), Len(all) <= SampleCap
  PROVE  SampleOf(all, all)
<1>1. SampleCap \in Nat /\ Len(all) \in Nat
  BY QualityAssumption
<1>2. Len(all) = Min({Len(all), SampleCap})
  BY <1>1, MinOfTwo
<1>3. ASSUME NEW x
      PROVE  Occurrences(all, x) <= Occurrences(all, x)
  <2>1. Occurrences(all, x) \in Nat
    BY OccurrencesTyped
  <2>. QED
    BY <2>1
<1>. QED
  BY <1>2, <1>3 DEF SampleOf

\* A sample stays one when Algorithm R is given a further value.
LEMMA SampleGrows ==
  ASSUME NEW all \in Seq(Nat), NEW kept \in Seq(Nat), SampleOf(all, kept),
         NEW v \in Nat, NEW j \in Nat
  PROVE  /\ Sampled(kept, v, j) \in Seq(Nat)
         /\ SampleOf(Append(all, v), Sampled(kept, v, j))
<1>. DEFINE more == Append(all, v)
            next == Sampled(kept, v, j)
<1>1. SampleCap \in Nat /\ SampleCap # 0
  BY QualityAssumption
<1>2. /\ Len(all) \in Nat /\ Len(kept) \in Nat
      /\ more \in Seq(Nat) /\ Len(more) = Len(all) + 1
  BY AppendProperties
<1>3. Len(kept) = IF Len(all) <= SampleCap THEN Len(all) ELSE SampleCap
  BY <1>1, <1>2, MinOfTwo DEF SampleOf
<1>4. Min({Len(more), SampleCap}) = IF Len(more) <= SampleCap THEN Len(more) ELSE SampleCap
  <2>1. Len(more) \in Nat
    BY <1>2
  <2>. HIDE DEF more
  <2>. QED
    BY <1>1, <2>1, MinOfTwo
<1>5. CASE Len(kept) < SampleCap
  <2>1. Len(all) <= SampleCap
    BY <1>1, <1>2, <1>3, <1>5
  <2>2. kept = all
    BY <2>1 DEF SampleOf
  <2>3. next = more
    BY <1>5, <2>2 DEF Sampled
  <2>4. Len(more) <= SampleCap
    BY <1>1, <1>2, <1>5, <2>2
  <2>. HIDE DEF more, next
  <2>. QED
    BY <1>2, <2>3, <2>4, SampleOfItself DEF more, next
<1>6. CASE ~(Len(kept) < SampleCap)
  <2>1. Len(kept) = SampleCap /\ ~(Len(more) <= SampleCap)
    BY <1>1, <1>2, <1>3, <1>6
  <2>2. next = IF j < SampleCap THEN [kept EXCEPT ![j + 1] = v] ELSE kept
    BY <1>6 DEF Sampled
  <2>3. \A x : /\ Occurrences(more, x) = IF x = v THEN Occurrences(all, x) + 1 ELSE Occurrences(all, x)
               /\ Occurrences(kept, x) <= Occurrences(all, x)
               /\ Occurrences(all, x) \in Nat /\ Occurrences(kept, x) \in Nat
    BY OccurrencesAppend, OccurrencesTyped, SampleBelow
  <2>4. next \in Seq(Nat) /\ Len(next) = SampleCap
        /\ \A x : Occurrences(next, x) <= IF x = v THEN Occurrences(kept, x) + 1 ELSE Occurrences(kept, x)
    <3>1. CASE j < SampleCap
      <4>1. PICK p \in 1..Len(kept) : p = j + 1
        BY <1>2, <2>1, <3>1
      <4>2. next = [kept EXCEPT ![p] = v]
        BY <2>2, <3>1, <4>1
      <4>. HIDE DEF next
      <4>. QED
        BY <2>1, <4>2, OccurrencesReplace
    <3>2. CASE ~(j < SampleCap)
      <4>1. next = kept
        BY <2>2, <3>2
      <4>2. \A x : Occurrences(kept, x) <= IF x = v THEN Occurrences(kept, x) + 1 ELSE Occurrences(kept, x)
        BY <2>3
      <4>. HIDE DEF next
      <4>. QED
        BY <2>1, <4>1, <4>2
    <3>. QED
      BY <3>1, <3>2
  <2>. HIDE DEF more, next
  <2>5. \A x : Occurrences(next, x) \in Nat
    BY <2>4, OccurrencesTyped
  <2>6. \A x : Occurrences(next, x) <= Occurrences(more, x)
    BY <2>3, <2>4, <2>5
  <2>7. Len(next) = Min({Len(more), SampleCap})
    BY <1>4, <2>1, <2>4
  <2>. QED
    BY <2>1, <2>4, <2>6, <2>7 DEF SampleOf, more, next
<1>. QED
  BY <1>5, <1>6

\* What a map holds when one of its values is set.
LEMMA PutAt ==
  ASSUME NEW f, NEW k, NEW v, NEW x, NEW d
  PROVE  At(Put(f, k, v), x, d) = IF x = k THEN v ELSE At(f, x, d)
  BY DEF Put, At

\* The keys of a map when one of its values is set.
LEMMA PutDomain ==
  ASSUME NEW f, NEW k, NEW v
  PROVE  DOMAIN Put(f, k, v) = DOMAIN f \cup {k}
  BY DEF Put

\* Of some places there is a first.
LEMMA FirstPlace ==
  ASSUME NEW n \in Nat, NEW S \in SUBSET (1..n), S # {}
  PROVE  \E i \in S : \A j \in S : i <= j
<1>1. IsFiniteSet(S) /\ Cardinality(S) \in Nat /\ \A i \in S : i \in Nat
  BY PlacesFinite
<1>2. Cardinality(S) # 0
  BY <1>1, FS_EmptySet
<1>3. 1 \in 1..Cardinality(S)
  BY <1>1, <1>2
<1>4. PICK i \in S : Rank(S, i) = 1
  BY <1>3, Ranks
<1>5. ASSUME NEW j \in S, ~(i <= j)
      PROVE  FALSE
  <2>1. Rank(S, j) \in 1..Cardinality(S) /\ Rank(S, j) # 1
    <3>1. i # j
      BY <1>1, <1>5
    <3>. QED
      BY <1>4, <3>1, Ranks
  <2>. DEFINE below(x) == {y \in S : y <= x}
  <2>2. below(j) \subseteq below(i) /\ IsFiniteSet(below(i))
    <3>1. \A y \in S : y <= j => y <= i
      BY <1>1, <1>5
    <3>. QED
      BY <1>1, <3>1, FS_Subset
  <2>3. Cardinality(below(j)) <= Cardinality(below(i))
    BY <2>2, FS_Subset
  <2>4. Rank(S, j) <= Rank(S, i)
    BY <2>3 DEF Rank
  <2>. QED
    BY <1>1, <1>4, <2>1, <2>4
<1>. QED
  BY <1>5

\* A token count is never negative.
LEMMA IntOfTyped ==
  ASSUME NEW c \in Seq(Int)
  PROVE  IntOf(c) \in Nat
<1>. DEFINE valid == {i \in DOMAIN c : c[i] >= 0}
<1>1. Len(c) \in Nat /\ DOMAIN c = 1..Len(c) /\ \A i \in 1..Len(c) : c[i] \in Int
  OBVIOUS
<1>2. CASE valid = {}
  <2>1. IntOf(c) = 0
    BY <1>2 DEF IntOf
  <2>. QED
    BY <2>1
<1>3. CASE valid # {}
  <2>1. valid \in SUBSET (1..Len(c))
    BY <1>1
  <2>2. \A i \in valid : i \in Nat /\ c[i] \in Nat
    BY <1>1
  <2>3. IntOf(c) = c[CHOOSE i \in valid : \A j \in valid : i <= j]
    BY <1>3 DEF IntOf
  <2>4. \E i \in valid : \A j \in valid : i <= j
    BY <1>1, <1>3, <2>1, FirstPlace
  <2>5. (CHOOSE i \in valid : \A j \in valid : i <= j) \in valid
    BY <2>4
  <2>. QED
    BY <2>2, <2>3, <2>5
<1>. QED
  BY <1>2, <1>3

\* The lengths of a group are numbers, and there are none without its observations.
LEMMA LengthsTyped ==
  ASSUME NEW P, NEW s \in Seq(P), \A p \in P : p.out \in Nat, NEW b, NEW k
  PROVE  /\ LengthsIn(s, b, k) \in Seq(Nat)
         /\ k \notin {QualityKey(o, b) : o \in ToSet(s)} => LengthsIn(s, b, k) = <<>>
<1>. DEFINE n == Len(s)
            outs == [i \in DOMAIN s |-> s[i].out]
            at == {i \in DOMAIN s : ~s[i].error /\ s[i].out > 0 /\ QualityKey(s[i], b) = k}
<1>1. n \in Nat /\ DOMAIN s = 1..n /\ \A i \in 1..n : s[i] \in P
  OBVIOUS
<1>2. at \in SUBSET (1..n)
  BY <1>1
<1>3. \A i \in at : outs[i] \in Nat
  BY <1>1
<1>4. LengthsIn(s, b, k) = ElementsAt(outs, at)
  BY DEF LengthsIn
<1>5. ASSUME k \notin {QualityKey(o, b) : o \in ToSet(s)}
      PROVE  at = {}
  BY <1>5 DEF ToSet
<1>. HIDE DEF n, outs, at
<1>6. ElementsAt(outs, at) \in Seq(Nat) /\ Len(ElementsAt(outs, at)) = Cardinality(at)
  BY <1>1, <1>2, <1>3, ElementsTyped
<1>7. ASSUME k \notin {QualityKey(o, b) : o \in ToSet(s)}
      PROVE  LengthsIn(s, b, k) = <<>>
  <2>1. Cardinality(at) = 0
    BY <1>5, <1>7, FS_EmptySet
  <2>. QED
    BY <1>4, <1>6, <2>1, EmptySeq
<1>. QED
  BY <1>4, <1>6, <1>7

\* An observation with a completion adds its length to its group.
LEMMA LengthsGrow ==
  ASSUME NEW P, NEW s \in Seq(P), NEW o \in P, NEW b, NEW k
  PROVE  LengthsIn(Append(s, o), b, k) =
           IF ~o.error /\ o.out > 0 /\ QualityKey(o, b) = k
           THEN Append(LengthsIn(s, b, k), o.out) ELSE LengthsIn(s, b, k)
<1>. DEFINE n == Len(s)
            t == Append(s, o)
            measured(x) == ~x.error /\ x.out > 0 /\ QualityKey(x, b) = k
            f == [i \in DOMAIN s |-> s[i].out]
            g == [i \in DOMAIN t |-> t[i].out]
            A == {i \in DOMAIN s : measured(s[i])}
            B == {i \in DOMAIN t : measured(t[i])}
<1>1. n \in Nat /\ DOMAIN s = 1..n /\ t \in Seq(P) /\ Len(t) = n + 1
  BY AppendProperties
<1>2. DOMAIN t = 1..(n + 1) /\ 1..(n + 1) = (1..n) \cup {n + 1}
  BY <1>1
<1>3. (\A i \in 1..n : t[i] = s[i]) /\ t[n + 1] = o
  BY AppendProperties
<1>4. LengthsIn(s, b, k) = ElementsAt(f, A) /\ LengthsIn(t, b, k) = ElementsAt(g, B)
  BY DEF LengthsIn
<1>. HIDE DEF t, n
<1>5. A \in SUBSET (1..n)
  BY <1>1
<1>6. \A i \in A : g[i] = f[i]
  BY <1>1, <1>2, <1>3
<1>7. g[n + 1] = o.out
  BY <1>2, <1>3
<1>. HIDE DEF f, g
<1>8. CASE measured(o)
  <2>1. B = A \cup {n + 1}
    BY <1>1, <1>2, <1>3, <1>8
  <2>. HIDE DEF A, B
  <2>2. ElementsAt(g, A) = ElementsAt(f, A)
    BY <1>1, <1>5, <1>6, ElementsAgree
  <2>3. ElementsAt(g, A \cup {n + 1}) = Append(ElementsAt(g, A), g[n + 1])
    BY <1>1, <1>5, ElementsGrow
  <2>. QED
    BY <1>4, <1>7, <1>8, <2>1, <2>2, <2>3 DEF t
<1>9. CASE ~measured(o)
  <2>1. B = A
    BY <1>1, <1>2, <1>3, <1>9
  <2>. HIDE DEF A, B
  <2>2. ElementsAt(g, A) = ElementsAt(f, A)
    BY <1>1, <1>5, <1>6, ElementsAgree
  <2>. QED
    BY <1>4, <1>9, <2>1, <2>2 DEF t
<1>. QED
  BY <1>8, <1>9

\* What is known of a group, whether or not it has observations.
GroupInv(k) ==
  /\ LengthsOf(k) \in Seq(Nat) /\ At(quality.groups, k, <<>>) \in Seq(Nat)
  /\ SampleOf(LengthsOf(k), At(quality.groups, k, <<>>))
  /\ At(quality.seen, k, 0) = Len(LengthsOf(k))

\* Observations have natural completion lengths.
LEMMA OutsTyped ==
  ASSUME LoopInv
  PROVE  /\ added \in Seq(Parsed) /\ \A p \in Parsed : p.out \in Nat
         /\ \A k : LengthsOf(k) \in Seq(Nat)
<1>1. \A i \in 1..Len(input) : input[i].out \in Seq(Int)
  BY LoopAssumption DEF LoopInv, Numeric
<1>2. \A i \in 1..Len(input) : Parse(input[i]).out \in Nat
  BY <1>1, IntOfTyped DEF Parse
<1>3. added \in Seq(Parsed) /\ \A p \in Parsed : p.out \in Nat
  BY <1>2 DEF LoopInv, SeenInv, Parsed
<1>. QED
  BY <1>3, LengthsTyped DEF LengthsOf

\* A group without observations has an empty sample.
LEMMA Groups ==
  ASSUME LoopInv, SampleInv, NEW k
  PROVE  GroupInv(k)
<1>. DEFINE keys == {QualityKey(o, byModel) : o \in ToSet(added)}
<1>1. LengthsOf(k) \in Seq(Nat)
  BY OutsTyped
<1>2. CASE k \in keys
  BY <1>1, <1>2 DEF SampleInv, SamplesAreBounded, GroupInv
<1>3. CASE k \notin keys
  <2>1. LengthsOf(k) = <<>>
    BY <1>3, OutsTyped, LengthsTyped DEF LengthsOf
  <2>2. At(quality.groups, k, <<>>) = <<>> /\ At(quality.seen, k, 0) = 0
    BY <1>3 DEF SampleInv, At
  <2>3. <<>> \in Seq(Nat) /\ Len(<<>>) = 0
    OBVIOUS
  <2>4. Len(<<>>) <= SampleCap
    BY <2>3, QualityAssumption
  <2>5. SampleOf(<<>>, <<>>)
    BY <2>3, <2>4, SampleOfItself
  <2>. QED
    BY <2>1, <2>2, <2>3, <2>5 DEF GroupInv
<1>. QED
  BY <1>2, <1>3

\* Samples of all groups, of which only those with observations are stored, make the invariant.
LEMMA SamplesAgain ==
  ASSUME \A k : GroupInv(k)',
         DOMAIN quality'.groups \subseteq {QualityKey(o, byModel') : o \in ToSet(added')},
         DOMAIN quality'.seen \subseteq {QualityKey(o, byModel') : o \in ToSet(added')}
  PROVE  SampleInv'
<1>1. \A k : /\ At(quality.groups, k, <<>>)' \in Seq(Nat)
             /\ SampleOf(LengthsOf(k), At(quality.groups, k, <<>>))'
             /\ At(quality.seen, k, 0)' = Len(LengthsOf(k))'
  BY DEF GroupInv
<1>2. SamplesAreBounded'
  BY <1>1 DEF SamplesAreBounded
<1>. QED
  BY <1>1, <1>2 DEF SampleInv

\* Every step of the pass keeps the samples of all groups.
LEMMA SampleStep ==
  ASSUME LoopInv, SampleInv, [Next]_vars
  PROVE  SampleInv'
<1>. DEFINE keys == {QualityKey(o, byModel) : o \in ToSet(added)}
<1>1. CASE UNCHANGED <<added, quality, byModel>>
  <2>1. \A k : GroupInv(k)
    BY Groups
  <2>2. \A k : GroupInv(k)'
    BY <1>1, <2>1 DEF GroupInv, LengthsOf
  <2>3. ToSet(added') = ToSet(added) /\ byModel' = byModel /\ quality' = quality
    BY <1>1
  <2>4. DOMAIN quality.groups \subseteq keys /\ DOMAIN quality.seen \subseteq keys
    BY DEF SampleInv
  <2>5. /\ DOMAIN quality'.groups \subseteq {QualityKey(o, byModel') : o \in ToSet(added')}
        /\ DOMAIN quality'.seen \subseteq {QualityKey(o, byModel') : o \in ToSet(added')}
    BY <2>3, <2>4
  <2>. QED
    BY <2>2, <2>5, SamplesAgain
<1>2. CASE UNCHANGED vars \/ Over \/ EndOfInput \/ Truncate \/ SourceFails
  BY <1>1, <1>2 DEF Over, vars, EndOfInput, Truncate, SourceFails, Finish, folded, config
<1>3. CASE \/ RejectMalformed \/ Quarantine \/ RejectBlankId \/ DropDuplicate \/ DropCrossRun
  BY <1>1, <1>3 DEF RejectMalformed, Quarantine, RejectBlankId, DropDuplicate, DropCrossRun,
     Untouched, Pulled, folded, config
<1>4. CASE Process
  <2>1. /\ Pulled /\ added' = Append(added, Parse(Raw)) /\ byModel' = byModel
        /\ quality' \in AddLength(quality, Parse(Raw), byModel)
    BY <1>4 DEF Process, Pulled, config
  <2>2. Parse(Raw) \in Parsed
    <3>1. recordsRead + 1 \in 1..Len(input) /\ Raw = input[recordsRead + 1]
      BY <2>1, PulledRecord DEF Raw, LoopInv
    <3>. QED
      BY <3>1 DEF Parsed
  <2>3. PICK o \in Parsed : o = Parse(Raw)
    BY <2>2
  <2>4. o.out \in Nat /\ added \in Seq(Parsed)
    BY OutsTyped
  <2>. DEFINE kk == QualityKey(o, byModel)
              growing == ~o.error /\ o.out > 0
  <2>5. \A k : LengthsOf(k)' = IF growing /\ kk = k THEN Append(LengthsOf(k), o.out) ELSE LengthsOf(k)
    <3>1. \A k : LengthsIn(Append(added, o), byModel, k) =
                   IF growing /\ kk = k THEN Append(LengthsIn(added, byModel, k), o.out)
                   ELSE LengthsIn(added, byModel, k)
      BY <2>4, LengthsGrow
    <3>2. \A k : LengthsOf(k)' = LengthsIn(Append(added, o), byModel, k)
      BY <2>1, <2>3 DEF LengthsOf
    <3>. HIDE DEF growing, kk
    <3>. QED
      BY <3>1, <3>2 DEF LengthsOf
  <2>6. {QualityKey(x, byModel') : x \in ToSet(added')} = keys \cup {kk}
    <3>1. ToSet(added') = ToSet(added) \cup {o}
      BY <2>1, <2>3, <2>4, ToSetAppend
    <3>. QED
      BY <2>1, <3>1
  <2>7. \A k : GroupInv(k)
    BY Groups
  <2>8. DOMAIN quality.groups \subseteq keys /\ DOMAIN quality.seen \subseteq keys
    BY DEF SampleInv
  <2>9. CASE ~growing
    <3>1. quality'.groups = quality.groups /\ quality'.seen = quality.seen
      <4>1. o.error \/ o.out = 0
        BY <2>4, <2>9
      <4>. QED
        BY <2>1, <2>3, <4>1 DEF AddLength
    <3>2. \A k : LengthsOf(k)' = LengthsOf(k)
      BY <2>5, <2>9
    <3>3. \A k : GroupInv(k)'
      BY <2>7, <3>1, <3>2 DEF GroupInv
    <3>4. DOMAIN quality'.groups \subseteq keys \cup {kk} /\ DOMAIN quality'.seen \subseteq keys \cup {kk}
      BY <2>8, <3>1
    <3>. HIDE DEF keys, kk
    <3>. QED
      BY <2>6, <3>3, <3>4, SamplesAgain
  <2>10. CASE growing
    <3>. DEFINE seen == At(quality.seen, kk, 0)
                kept == At(quality.groups, kk, <<>>)
    <3>1. PICK j \in 0..seen :
            /\ quality'.groups = Put(quality.groups, kk, Sampled(kept, o.out, j))
            /\ quality'.seen = Put(quality.seen, kk, seen + 1)
      <4>1. ~o.error /\ o.out # 0
        BY <2>4, <2>10
      <4>2. quality' \in {[groups |-> Put(quality.groups, kk, Sampled(kept, o.out, j)),
                           empty |-> quality.empty,
                           seen |-> Put(quality.seen, kk, seen + 1)] : j \in 0..seen}
        BY <2>1, <2>3, <4>1 DEF AddLength
      <4>. HIDE DEF seen, kept, kk
      <4>. QED
        BY <4>2
    <3>. HIDE DEF kk, keys
    <3>2. /\ LengthsOf(kk) \in Seq(Nat) /\ kept \in Seq(Nat) /\ SampleOf(LengthsOf(kk), kept)
          /\ seen = Len(LengthsOf(kk)) /\ seen \in Nat
      BY <2>7 DEF GroupInv
    <3>3. j \in Nat
      BY <3>1, <3>2
    <3>. DEFINE v == Sampled(kept, o.out, j)
                w == seen + 1
    <3>. HIDE DEF v, w
    <3>7. /\ DOMAIN quality'.groups = DOMAIN quality.groups \cup {kk}
          /\ DOMAIN quality'.seen = DOMAIN quality.seen \cup {kk}
      <4>1. DOMAIN Put(quality.groups, kk, v) = DOMAIN quality.groups \cup {kk}
        BY PutDomain
      <4>2. DOMAIN Put(quality.seen, kk, w) = DOMAIN quality.seen \cup {kk}
        BY PutDomain
      <4>3. quality'.groups = Put(quality.groups, kk, v) /\ quality'.seen = Put(quality.seen, kk, w)
        BY <3>1 DEF v, w
      <4>. QED
        BY <4>1, <4>2, <4>3
    <3>8. \A x, d : At(quality'.groups, x, d) = IF x = kk THEN v ELSE At(quality.groups, x, d)
      BY <3>1, PutAt DEF v
    <3>9. \A x, d : At(quality'.seen, x, d) = IF x = kk THEN w ELSE At(quality.seen, x, d)
      BY <3>1, PutAt DEF w
    <3>4. ASSUME NEW k
          PROVE  GroupInv(k)'
      <4>1. CASE k # kk
        <5>1. LengthsOf(k)' = LengthsOf(k)
          BY <2>5, <4>1
        <5>2. At(quality'.groups, k, <<>>) = At(quality.groups, k, <<>>)
          BY <3>8, <4>1
        <5>3. At(quality'.seen, k, 0) = At(quality.seen, k, 0)
          BY <3>9, <4>1
        <5>. QED
          BY <2>7, <5>1, <5>2, <5>3 DEF GroupInv
      <4>2. CASE k = kk
        <5>1. LengthsOf(k)' = Append(LengthsOf(kk), o.out)
          BY <2>5, <2>10, <4>2
        <5>2. At(quality'.groups, k, <<>>) = Sampled(kept, o.out, j)
          BY <3>8, <4>2 DEF v
        <5>3. At(quality'.seen, k, 0) = seen + 1
          BY <3>9, <4>2 DEF w
        <5>. HIDE DEF seen, kept
        <5>4. /\ Sampled(kept, o.out, j) \in Seq(Nat)
              /\ SampleOf(Append(LengthsOf(kk), o.out), Sampled(kept, o.out, j))
          BY <2>4, <3>2, <3>3, SampleGrows
        <5>5. /\ Append(LengthsOf(kk), o.out) \in Seq(Nat)
              /\ Len(Append(LengthsOf(kk), o.out)) = seen + 1
          BY <2>4, <3>2, AppendProperties
        <5>. QED
          BY <5>1, <5>2, <5>3, <5>4, <5>5 DEF GroupInv
      <4>. QED
        BY <4>1, <4>2
    <3>6. DOMAIN quality'.groups \subseteq keys \cup {kk} /\ DOMAIN quality'.seen \subseteq keys \cup {kk}
      BY <2>8, <3>7
    <3>. QED
      BY <2>6, <3>4, <3>6, SamplesAgain
  <2>. QED
    BY <2>9, <2>10
<1>. QED
  BY <1>2, <1>3, <1>4 DEF Next

\* A run starts with no lengths.
LEMMA SampleStarts == Init => LoopInv /\ SampleInv
<1>. SUFFICES ASSUME Init PROVE SampleInv
  BY LoopStarts
<1>1. added = <<>> /\ quality = NoLengths
  BY DEF Init
<1>2. ToSet(added) = {} /\ DOMAIN quality.groups = {} /\ DOMAIN quality.seen = {}
  BY <1>1 DEF ToSet, NoLengths
<1>. QED
  BY <1>2 DEF SampleInv, SamplesAreBounded

\* The memory of the length samples is bounded, and a sample never invents or repeats a
\* length of its group, for every input, every cap and every random choice.
THEOREM SamplesBounded == Spec => []SamplesAreBounded
<1>1. Init => LoopInv /\ SampleInv
  BY SampleStarts
<1>2. LoopInv /\ SampleInv /\ [Next]_vars => LoopInv' /\ SampleInv'
  BY LoopStep, SampleStep
<1>3. SampleInv => SamplesAreBounded
  BY DEF SampleInv
<1>. QED
  BY <1>1, <1>2, <1>3, PTL DEF Spec

-----------------------------------------------------------------------------
(* PointsAccepted                                                          *)

\* A governed spelling is in the vocabulary of its dimension.
LEMMA FoldGoverned ==
  ASSUME NEW d \in {"team", "route", "model_family", "env", "provider_region"}, NEW spelling
  PROVE  Fold(d, spelling) \in Vocabulary(d)
<1>1. Vocabulary(d) = Registered[d] \cup FoldTokens(d) /\ "other" \in FoldTokens(d)
  BY DEF Vocabulary, FoldTokens
<1>2. CASE spelling \in DOMAIN Known[d]
  <2>1. Known[d][spelling] \in Range(Known[d])
    BY <1>2 DEF Range
  <2>2. Known[d][spelling] \in Registered[d]
    BY <2>1, GovernanceAssumption
  <2>. QED
    BY <1>1, <1>2, <2>2 DEF Fold
<1>3. CASE spelling \notin DOMAIN Known[d]
  BY <1>1, <1>3 DEF Fold
<1>. QED
  BY <1>2, <1>3

\* The dimensions of a parsed record are governed.
LEMMA ParseGoverned ==
  ASSUME NEW r
  PROVE  /\ DOMAIN Parse(r).dims = Primary
         /\ \A d \in Primary : Parse(r).dims[d] \in Vocabulary(d)
         /\ Parse(r).region \in Vocabulary("provider_region")
         /\ Parse(r).category \in Vocabulary("error_category")
         /\ Parse(r).folded \in SUBSET Vocabulary("dimension")
<1>1. Parse(r).dims = PrimaryDims(r)
  BY DEF Parse
<1>2. Team(r) \in Vocabulary("team")
  <2>1. "unattributed" \in Vocabulary("team")
    BY DEF Vocabulary, FoldTokens
  <2>2. Fold("team", r.team) \in Vocabulary("team")
    BY FoldGoverned
  <2>. QED
    BY <2>1, <2>2 DEF Team
<1>3. Route(r) \in Vocabulary("route")
  BY FoldGoverned DEF Route
<1>4. ModelFamily(r) \in Vocabulary("model_family")
  BY FoldGoverned DEF ModelFamily
<1>5. Env(r) \in Vocabulary("env")
  BY FoldGoverned DEF Env
<1>6. Parse(r).region \in Vocabulary("provider_region")
  <2>1. ProviderRegion(r) \in Vocabulary("provider_region")
    BY FoldGoverned DEF ProviderRegion
  <2>. QED
    BY <2>1 DEF Parse
<1>7. Parse(r).category \in Vocabulary("error_category")
  <2>1. /\ Vocabulary("error_category") = Registered["error_category"] \cup FoldTokens("error_category")
        /\ FoldTokens("error_category") = {"unknown"}
    BY DEF Vocabulary, FoldTokens
  <2>2. CASE r.etype \in DOMAIN Known["error"]
    <3>1. Known["error"][r.etype] \in Range(Known["error"])
      BY <2>2 DEF Range
    <3>2. Known["error"][r.etype] \in Registered["error_category"]
      BY <3>1, GovernanceAssumption
    <3>. QED
      BY <2>1, <2>2, <3>2 DEF Parse, ErrorCategory
  <2>3. CASE r.etype \notin DOMAIN Known["error"]
    BY <2>1, <2>3 DEF Parse, ErrorCategory
  <2>. QED
    BY <2>2, <2>3
<1>8. Parse(r).folded \in SUBSET Vocabulary("dimension")
  <2>1. FoldedDimensions(r) \subseteq {"team", "route", "model_family", "env", "provider_region"}
    BY DEF FoldedDimensions
  <2>2. Vocabulary("dimension") = {"team", "route", "model_family", "env", "provider_region"}
    BY DEF Vocabulary
  <2>3. Parse(r).folded = FoldedDimensions(r)
    BY DEF Parse
  <2>. QED
    BY <2>1, <2>2, <2>3
<1>9. DOMAIN PrimaryDims(r) = Primary
  BY DEF PrimaryDims, Primary
<1>10. \A d \in Primary : PrimaryDims(r)[d] \in Vocabulary(d)
  BY <1>2, <1>3, <1>4, <1>5 DEF PrimaryDims, Primary
<1>. QED
  BY <1>1, <1>6, <1>7, <1>8, <1>9, <1>10

\* A governed value more.
LEMMA GovernedPut ==
  ASSUME NEW dims, NEW allowed, Governed(dims, allowed), NEW d, NEW v \in Vocabulary(d),
         NEW more, allowed \cup {d} \subseteq more
  PROVE  Governed(Put(dims, d, v), more)
<1>1. DOMAIN Put(dims, d, v) = DOMAIN dims \cup {d}
  BY PutDomain
<1>2. \A x \in DOMAIN dims \cup {d} : Put(dims, d, v)[x] = IF x = d THEN v ELSE dims[x]
  BY DEF Put
<1>. QED
  BY <1>1, <1>2 DEF Governed

\* An observation with governed dimensions, as far as its series depend on them.
GovernedObs(o) ==
  /\ DOMAIN o.dims = Primary /\ \A d \in Primary : o.dims[d] \in Vocabulary(d)
  /\ o.region \in Vocabulary("provider_region")
  /\ o.category \in Vocabulary("error_category")
  /\ o.folded \in SUBSET Vocabulary("dimension")

\* Its keys are governed.
LEMMA KeysGoverned ==
  ASSUME NEW o, GovernedObs(o), NEW b \in BOOLEAN
  PROVE  /\ Governed(o.dims, Primary)
         /\ Governed(CostDims(CostKey(o, b), b), CostGroup)
         /\ Governed(QualityKey(o, b), {"route", "model_family"})
<1>1. Governed(o.dims, Primary)
  BY DEF GovernedObs, Governed
<1>2. /\ o.dims.team \in Vocabulary("team") /\ o.dims.route \in Vocabulary("route")
      /\ o.dims.model_family \in Vocabulary("model_family")
  BY DEF GovernedObs, Primary
<1>3. Governed(CostDims(CostKey(o, b), b), CostGroup)
  <2>. DEFINE dims == [team |-> o.dims.team, route |-> o.dims.route,
                       model_family |-> o.dims.model_family]
  <2>1. Governed(dims, {"team", "route", "model_family"})
    <3>1. DOMAIN dims = {"team", "route", "model_family"}
      OBVIOUS
    <3>2. \A d \in {"team", "route", "model_family"} : dims[d] \in Vocabulary(d)
      BY <1>2
    <3>. QED
      BY <3>1, <3>2 DEF Governed
  <2>2. CASE b
    <3>1. CostDims(CostKey(o, b), b) = Put(dims, "provider_region", o.region)
      BY <2>2 DEF CostDims, CostKey
    <3>. HIDE DEF dims
    <3>2. {"team", "route", "model_family"} \cup {"provider_region"} \subseteq CostGroup
      BY DEF CostGroup
    <3>3. o.region \in Vocabulary("provider_region")
      BY DEF GovernedObs
    <3>. QED
      BY <2>1, <3>1, <3>2, <3>3, GovernedPut
  <2>3. CASE ~b
    <3>1. CostDims(CostKey(o, b), b) = dims
      BY <2>3 DEF CostDims, CostKey
    <3>. HIDE DEF dims
    <3>. QED
      BY <2>1, <3>1 DEF Governed, CostGroup
  <2>. QED
    BY <2>2, <2>3
<1>4. Governed(QualityKey(o, b), {"route", "model_family"})
  <2>1. /\ DOMAIN QualityKey(o, b) \subseteq {"route", "model_family"}
        /\ \A d \in DOMAIN QualityKey(o, b) : QualityKey(o, b)[d] = o.dims[d]
    BY DEF QualityKey
  <2>. QED
    BY <1>2, <2>1 DEF Governed
<1>. QED
  BY <1>1, <1>3, <1>4

\* Folding an observation opens governed series only.
LEMMA AddGoverned ==
  ASSUME NEW o, GovernedObs(o), byProvider \in BOOLEAN, GovernedInv,
         agg' = AddTo(agg, o, byProvider), byProvider' = byProvider
  PROVE  /\ \A k \in DOMAIN agg'.dur \cup DOMAIN agg'.ttft \cup DOMAIN agg'.counts :
              Governed(k, Primary)
         /\ \A e \in DOMAIN agg'.errcat :
              Governed(e[1], Primary) /\ e[2] \in Vocabulary("error_category")
         /\ \A c \in DOMAIN agg'.cost : Governed(CostDims(c, byProvider), CostGroup)
         /\ DOMAIN agg'.unknown \subseteq Vocabulary("dimension")
<1>. DEFINE e == <<o.dims, o.category>>
            c == CostKey(o, byProvider)
<1>1. /\ Governed(o.dims, Primary) /\ Governed(CostDims(c, byProvider), CostGroup)
  BY KeysGoverned
<1>2. /\ DOMAIN agg'.dur = DOMAIN agg.dur \cup {o.dims}
      /\ DOMAIN agg'.ttft \subseteq DOMAIN agg.ttft \cup {o.dims}
      /\ DOMAIN agg'.counts = DOMAIN agg.counts \cup {o.dims}
  <2>1. agg'.dur = Put(agg.dur, o.dims, HistAdd(At(agg.dur, o.dims, EmptyHist), o.latency))
    BY DEF AddTo
  <2>2. agg'.ttft = IF o.ttft = NoTime THEN agg.ttft
                    ELSE Put(agg.ttft, o.dims, HistAdd(At(agg.ttft, o.dims, EmptyHist), o.ttft))
    BY DEF AddTo
  <2>3. agg'.counts = Put(agg.counts, o.dims,
                          Outcomes(At(agg.counts, o.dims, [success |-> 0, error |-> 0]), o))
    BY DEF AddTo
  <2>4. \A f, v : DOMAIN Put(f, o.dims, v) = DOMAIN f \cup {o.dims}
    BY PutDomain
  <2>. QED
    BY <2>1, <2>2, <2>3, <2>4
<1>3. DOMAIN agg'.errcat \subseteq DOMAIN agg.errcat \cup {e}
  <2>1. agg'.errcat = IF ~o.error THEN agg.errcat ELSE Put(agg.errcat, e, At(agg.errcat, e, 0) + 1)
    BY DEF AddTo
  <2>2. \A f, v : DOMAIN Put(f, e, v) = DOMAIN f \cup {e}
    BY PutDomain
  <2>. HIDE DEF e
  <2>. QED
    BY <2>1, <2>2
<1>4. DOMAIN agg'.cost = DOMAIN agg.cost \cup {c}
  <2>1. agg'.cost = Put(agg.cost, c, Costs(At(agg.cost, c, NoCosts), o))
    BY DEF AddTo
  <2>2. \A f, v : DOMAIN Put(f, c, v) = DOMAIN f \cup {c}
    BY PutDomain
  <2>. HIDE DEF c
  <2>. QED
    BY <2>1, <2>2
<1>5. DOMAIN agg'.unknown = o.folded \cup DOMAIN agg.unknown
  BY DEF AddTo
<1>6. /\ \A k \in DOMAIN agg.dur \cup DOMAIN agg.ttft \cup DOMAIN agg.counts : Governed(k, Primary)
      /\ \A x \in DOMAIN agg.errcat : Governed(x[1], Primary) /\ x[2] \in Vocabulary("error_category")
      /\ \A x \in DOMAIN agg.cost : Governed(CostDims(x, byProvider), CostGroup)
      /\ DOMAIN agg.unknown \subseteq Vocabulary("dimension")
  BY DEF GovernedInv
<1>7. \A k \in DOMAIN agg'.dur \cup DOMAIN agg'.ttft \cup DOMAIN agg'.counts : Governed(k, Primary)
  BY <1>1, <1>2, <1>6
<1>8. \A x \in DOMAIN agg'.errcat : Governed(x[1], Primary) /\ x[2] \in Vocabulary("error_category")
  <2>1. e[1] = o.dims /\ e[2] = o.category /\ o.category \in Vocabulary("error_category")
    BY DEF GovernedObs
  <2>. HIDE DEF e
  <2>. QED
    BY <1>1, <1>3, <1>6, <2>1
<1>9. \A x \in DOMAIN agg'.cost : Governed(CostDims(x, byProvider), CostGroup)
  <2>. HIDE DEF c
  <2>. QED
    BY <1>1, <1>4, <1>6
<1>10. DOMAIN agg'.unknown \subseteq Vocabulary("dimension")
  BY <1>5, <1>6 DEF GovernedObs
<1>. QED
  BY <1>7, <1>8, <1>9, <1>10

\* Every step of the pass opens governed series only.
LEMMA GovernedStep ==
  ASSUME LoopInv, GovernedInv, byProvider \in BOOLEAN, byModel \in BOOLEAN, [Next]_vars
  PROVE  GovernedInv' /\ byProvider' \in BOOLEAN /\ byModel' \in BOOLEAN
<1>1. byProvider' = byProvider /\ byModel' = byModel
  BY DEF Next, vars, config, RejectMalformed, Quarantine, RejectBlankId, DropDuplicate,
     DropCrossRun, Process, Pulled, EndOfInput, Truncate, SourceFails, Finish, Over
<1>2. CASE UNCHANGED <<agg, quality>>
  BY <1>1, <1>2 DEF GovernedInv
<1>3. CASE UNCHANGED vars \/ Over \/ EndOfInput \/ Truncate \/ SourceFails
  BY <1>2, <1>3 DEF Over, vars, EndOfInput, Truncate, SourceFails, Finish, folded
<1>4. CASE RejectMalformed \/ Quarantine \/ RejectBlankId \/ DropDuplicate \/ DropCrossRun
  BY <1>2, <1>4 DEF RejectMalformed, Quarantine, RejectBlankId, DropDuplicate, DropCrossRun,
     Untouched, folded
<1>5. CASE Process
  <2>1. /\ agg' = AddTo(agg, Parse(Raw), byProvider)
        /\ quality' \in AddLength(quality, Parse(Raw), byModel)
    BY <1>5 DEF Process
  <2>2. PICK o : o = Parse(Raw)
    OBVIOUS
  <2>3. GovernedObs(o)
    BY <2>2, ParseGoverned DEF GovernedObs
  <2>4. /\ \A k \in DOMAIN agg'.dur \cup DOMAIN agg'.ttft \cup DOMAIN agg'.counts :
             Governed(k, Primary)
        /\ \A e \in DOMAIN agg'.errcat :
             Governed(e[1], Primary) /\ e[2] \in Vocabulary("error_category")
        /\ \A c \in DOMAIN agg'.cost : Governed(CostDims(c, byProvider), CostGroup)
        /\ DOMAIN agg'.unknown \subseteq Vocabulary("dimension")
    BY <1>1, <2>1, <2>2, <2>3, AddGoverned
  <2>. DEFINE k == QualityKey(o, byModel)
  <2>5. Governed(k, {"route", "model_family"})
    BY <2>3, KeysGoverned
  <2>6. /\ DOMAIN quality'.groups \subseteq DOMAIN quality.groups \cup {k}
        /\ DOMAIN quality'.empty \subseteq DOMAIN quality.empty \cup {k}
    <3>1. \A f, v : DOMAIN Put(f, k, v) = DOMAIN f \cup {k}
      BY PutDomain
    <3>. DEFINE new(j) == Sampled(At(quality.groups, k, <<>>), o.out, j)
                seen == At(quality.seen, k, 0)
    <3>2. \/ quality' = quality
          \/ quality' = [groups |-> quality.groups,
                         empty |-> Put(quality.empty, k, At(quality.empty, k, 0) + 1),
                         seen |-> quality.seen]
          \/ \E j \in 0..seen :
               quality' = [groups |-> Put(quality.groups, k, new(j)),
                           empty |-> quality.empty,
                           seen |-> Put(quality.seen, k, seen + 1)]
      BY <2>1, <2>2 DEF AddLength
    <3>. HIDE DEF k, new, seen
    <3>3. CASE quality' = quality
      BY <3>3
    <3>4. CASE quality' = [groups |-> quality.groups,
                           empty |-> Put(quality.empty, k, At(quality.empty, k, 0) + 1),
                           seen |-> quality.seen]
      <4>1. /\ quality'.groups = quality.groups
            /\ quality'.empty = Put(quality.empty, k, At(quality.empty, k, 0) + 1)
        BY <3>4
      <4>. QED
        BY <3>1, <4>1
    <3>5. CASE \E j \in 0..seen :
                 quality' = [groups |-> Put(quality.groups, k, new(j)),
                             empty |-> quality.empty,
                             seen |-> Put(quality.seen, k, seen + 1)]
      <4>1. PICK j \in 0..seen :
              quality' = [groups |-> Put(quality.groups, k, new(j)),
                          empty |-> quality.empty,
                          seen |-> Put(quality.seen, k, seen + 1)]
        BY <3>5
      <4>2. quality'.groups = Put(quality.groups, k, new(j)) /\ quality'.empty = quality.empty
        BY <4>1
      <4>. QED
        BY <3>1, <4>2
    <3>. QED
      BY <3>2, <3>3, <3>4, <3>5
  <2>7. \A x \in DOMAIN quality'.groups \cup DOMAIN quality'.empty :
          Governed(x, {"route", "model_family"})
    <3>1. \A x \in DOMAIN quality.groups \cup DOMAIN quality.empty :
            Governed(x, {"route", "model_family"})
      BY DEF GovernedInv
    <3>. HIDE DEF k
    <3>. QED
      BY <2>5, <2>6, <3>1
  <2>. QED
    BY <1>1, <2>4, <2>7 DEF GovernedInv
<1>. QED
  BY <1>1, <1>3, <1>4, <1>5 DEF Next

\* The contract, metric by metric.
LEMMA Registry ==
  /\ AllowedDimensions("request.duration") = Primary
  /\ AllowedDimensions("request.ttft") = Primary
  /\ AllowedDimensions("request.count") = Primary \cup {"outcome"}
  /\ AllowedDimensions("request.errors") = Primary \cup {"error_category"}
  /\ \A name \in CostMetrics : AllowedDimensions(name) = CostGroup
  /\ \A name \in QualityMetrics : AllowedDimensions(name) = {"route", "model_family"}
  /\ AllowedDimensions("pipeline.unknown_dimension") = {"dimension"}
<1>1. AllowedDimensions("request.duration") = Primary
  BY DEF AllowedDimensions, CostMetrics, QualityMetrics, PipelineMetrics
<1>2. AllowedDimensions("request.ttft") = Primary
  BY DEF AllowedDimensions, CostMetrics, QualityMetrics, PipelineMetrics
<1>3. AllowedDimensions("request.count") = Primary \cup {"outcome"}
  BY DEF AllowedDimensions, CostMetrics, QualityMetrics, PipelineMetrics
<1>4. AllowedDimensions("request.errors") = Primary \cup {"error_category"}
  BY DEF AllowedDimensions, CostMetrics, QualityMetrics, PipelineMetrics
<1>5. ASSUME NEW name \in CostMetrics
      PROVE  AllowedDimensions(name) = CostGroup
  <2>1. /\ name \notin QualityMetrics /\ name \notin PipelineMetrics
        /\ name \notin {"request.count", "request.errors", "request.duration", "request.ttft"}
        /\ name # "pipeline.unknown_dimension"
    BY DEF CostMetrics, QualityMetrics, PipelineMetrics
  <2>. QED
    BY <2>1 DEF AllowedDimensions
<1>6. ASSUME NEW name \in QualityMetrics
      PROVE  AllowedDimensions(name) = {"route", "model_family"}
  <2>1. /\ name \notin CostMetrics /\ name \notin PipelineMetrics
        /\ name \notin {"request.count", "request.errors", "request.duration", "request.ttft"}
        /\ name # "pipeline.unknown_dimension"
    BY DEF CostMetrics, QualityMetrics, PipelineMetrics
  <2>. QED
    BY <2>1 DEF AllowedDimensions
<1>7. AllowedDimensions("pipeline.unknown_dimension") = {"dimension"}
  BY DEF AllowedDimensions, CostMetrics, QualityMetrics, PipelineMetrics
<1>. QED
  BY <1>1, <1>2, <1>3, <1>4, <1>5, <1>6, <1>7

\* The figures without dimensions, by name.
TotalOf(stats, name) ==
  CASE name = "pipeline.malformed_records" -> malformed
    [] name = "pipeline.duplicate_records" -> duplicates
    [] name = "pipeline.records_read" -> recordsRead
    [] name = "pipeline.records_processed" -> processed
    [] name = "pipeline.cross_run_duplicate_records" -> crossRun
    [] name = "pipeline.quarantined_records" -> quarantined
    [] name = "pipeline.read_truncated" -> One(truncated)
    [] name = "pipeline.records_missing_cost" -> agg.missing
    [] name = "pipeline.records_invalid_cost" -> agg.invalid
    [] name = "pipeline.source_requests" -> At(stats, "requests", 0)
    [] name = "pipeline.source_retries" -> At(stats, "retries", 0)
    [] name = "pipeline.source_pages" -> At(stats, "pages", 0)
    [] name = "pipeline.source_latency_seconds" -> At(stats, "latency_seconds", 0)
    [] name = "pipeline.freshness_seconds" -> Max({0, WindowEnd - maxEnd})
    [] name = "pipeline.clock_skew_seconds" -> -(WindowEnd - maxEnd)
    [] name = "pipeline.series_emitted" -> SeriesPoint.value

CountTotals ==
  {"pipeline.malformed_records", "pipeline.duplicate_records", "pipeline.records_read",
   "pipeline.records_processed", "pipeline.cross_run_duplicate_records",
   "pipeline.quarantined_records", "pipeline.records_missing_cost",
   "pipeline.records_invalid_cost", "pipeline.source_requests", "pipeline.source_retries",
   "pipeline.source_pages"}

GaugeTotals == {"pipeline.read_truncated", "pipeline.series_emitted"}

TimeTotals ==
  {"pipeline.source_latency_seconds", "pipeline.freshness_seconds",
   "pipeline.clock_skew_seconds"}

Totals == CountTotals \cup GaugeTotals \cup TimeTotals

\* The figures of a cost series: its totals and its ratio.
CostName(f) == IF f = "ratio" THEN "tokens.completion_ratio" ELSE CostMetric[f]
CostUnit(f) == IF f = "ratio" THEN Gauge("ratio") ELSE CostShape(f)
CostValue(k, f) ==
  IF f = "ratio" THEN (10000 * agg.cost[k].out) \div agg.cost[k].in ELSE agg.cost[k][f]

CostFigures ==
  {"usd", "count", "missing", "invalid", "in", "out", "cached", "hits", "ratio"}

\* The contract's shapes, metric by metric.
LEMMA Shapes ==
  /\ MetricShape("request.duration") = Time /\ MetricShape("request.ttft") = Time
  /\ MetricShape("request.count") = Count /\ MetricShape("request.errors") = Count
  /\ \A f \in CostFigures : MetricShape(CostName(f)) = CostUnit(f) /\ CostName(f) \in CostMetrics
  /\ MetricShape("quality.completion_length_anomalies") = Count
  /\ MetricShape("quality.completion_length_max_zscore") = Gauge("score")
  /\ MetricShape("quality.empty_completion_count") = Count
  /\ MetricShape("pipeline.unknown_dimension") = Count
  /\ \A name \in CountTotals : MetricShape(name) = Count
  /\ \A name \in GaugeTotals : MetricShape(name) = Gauge("1")
  /\ \A name \in TimeTotals : MetricShape(name) = Gauge("s")
<1>1. /\ MetricShape("request.duration") = Time /\ MetricShape("request.ttft") = Time
      /\ MetricShape("request.count") = Count /\ MetricShape("request.errors") = Count
  BY DEF MetricShape
<1>2. ASSUME NEW f \in CostFigures
      PROVE  MetricShape(CostName(f)) = CostUnit(f) /\ CostName(f) \in CostMetrics
  BY DEF MetricShape, CostName, CostUnit, CostShape, CostMetric, CostMetrics, CostFigures
<1>3. /\ MetricShape("quality.completion_length_anomalies") = Count
      /\ MetricShape("quality.completion_length_max_zscore") = Gauge("score")
      /\ MetricShape("quality.empty_completion_count") = Count
      /\ MetricShape("pipeline.unknown_dimension") = Count
  BY DEF MetricShape
<1>4. ASSUME NEW name \in CountTotals
      PROVE  MetricShape(name) = Count
  BY DEF MetricShape, CountTotals
<1>5. ASSUME NEW name \in GaugeTotals
      PROVE  MetricShape(name) = Gauge("1")
  BY DEF MetricShape, GaugeTotals
<1>6. ASSUME NEW name \in TimeTotals
      PROVE  MetricShape(name) = Gauge("s")
  BY DEF MetricShape, TimeTotals
<1>. QED
  BY <1>1, <1>2, <1>3, <1>4, <1>5, <1>6

\* A point without dimensions.
Total(stats, name) == Point(MetricShape(name), name, <<>>, TotalOf(stats, name))

\* The points without dimensions that a run may send.
LEMMA TotalsShape ==
  ASSUME NEW stats,
         NEW p \in SelfPoints \cup SourcePoints(stats) \cup FreshnessPoints \cup {SeriesPoint}
  PROVE  \E name \in Totals : p = Total(stats, name)
<1>1. CASE p \in SelfPoints
  <2>1. \/ p = Point(Count, "pipeline.records_read", <<>>, recordsRead)
        \/ p = Point(Count, "pipeline.records_processed", <<>>, processed)
        \/ p = Point(Count, "pipeline.cross_run_duplicate_records", <<>>, crossRun)
        \/ p = Point(Count, "pipeline.quarantined_records", <<>>, quarantined)
        \/ p = Point(Gauge("1"), "pipeline.read_truncated", <<>>, One(truncated))
        \/ p = Point(Count, "pipeline.records_missing_cost", <<>>, agg.missing)
        \/ p = Point(Count, "pipeline.records_invalid_cost", <<>>, agg.invalid)
    BY <1>1 DEF SelfPoints
  <2>2. /\ TotalOf(stats, "pipeline.records_read") = recordsRead
        /\ TotalOf(stats, "pipeline.records_processed") = processed
        /\ TotalOf(stats, "pipeline.cross_run_duplicate_records") = crossRun
        /\ TotalOf(stats, "pipeline.quarantined_records") = quarantined
        /\ TotalOf(stats, "pipeline.read_truncated") = One(truncated)
        /\ TotalOf(stats, "pipeline.records_missing_cost") = agg.missing
        /\ TotalOf(stats, "pipeline.records_invalid_cost") = agg.invalid
    BY DEF TotalOf
  <2>. QED
    BY <2>1, <2>2, Shapes DEF Total, Totals, CountTotals, GaugeTotals
<1>2. CASE p \in SourcePoints(stats)
  <2>1. \/ p = Point(Count, "pipeline.source_requests", <<>>, At(stats, "requests", 0))
        \/ p = Point(Count, "pipeline.source_retries", <<>>, At(stats, "retries", 0))
        \/ p = Point(Count, "pipeline.source_pages", <<>>, At(stats, "pages", 0))
        \/ p = Point(Gauge("s"), "pipeline.source_latency_seconds", <<>>,
                     At(stats, "latency_seconds", 0))
    BY <1>2 DEF SourcePoints
  <2>2. /\ TotalOf(stats, "pipeline.source_requests") = At(stats, "requests", 0)
        /\ TotalOf(stats, "pipeline.source_retries") = At(stats, "retries", 0)
        /\ TotalOf(stats, "pipeline.source_pages") = At(stats, "pages", 0)
        /\ TotalOf(stats, "pipeline.source_latency_seconds") = At(stats, "latency_seconds", 0)
    BY DEF TotalOf
  <2>. QED
    BY <2>1, <2>2, Shapes DEF Total, Totals, CountTotals, TimeTotals
<1>3. CASE p \in FreshnessPoints
  <2>1. \/ p = Point(Gauge("s"), "pipeline.freshness_seconds", <<>>, Max({0, WindowEnd - maxEnd}))
        \/ p = Point(Gauge("s"), "pipeline.clock_skew_seconds", <<>>, -(WindowEnd - maxEnd))
    BY <1>3 DEF FreshnessPoints
  <2>2. /\ TotalOf(stats, "pipeline.freshness_seconds") = Max({0, WindowEnd - maxEnd})
        /\ TotalOf(stats, "pipeline.clock_skew_seconds") = -(WindowEnd - maxEnd)
    BY DEF TotalOf
  <2>. QED
    BY <2>1, <2>2, Shapes DEF Total, Totals, TimeTotals
<1>4. CASE p = SeriesPoint
  <2>1. TotalOf(stats, "pipeline.series_emitted") = SeriesPoint.value
    BY DEF TotalOf
  <2>2. SeriesPoint = Point(Gauge("1"), "pipeline.series_emitted", <<>>, SeriesPoint.value)
    BY DEF SeriesPoint, Point
  <2>. QED
    BY <1>4, <2>1, <2>2, Shapes DEF Total, Totals, GaugeTotals
<1>. QED
  BY <1>1, <1>2, <1>3, <1>4

\* What a point of a run is made of.
LEMMA PointShape ==
  ASSUME NEW stats, NEW p \in RunPoints(stats)
  PROVE  \/ \E k \in DOMAIN agg.dur : p = Point(Time, "request.duration", k, agg.dur[k].count)
         \/ \E k \in DOMAIN agg.ttft : p = Point(Time, "request.ttft", k, agg.ttft[k].count)
         \/ \E k \in DOMAIN agg.counts : \E out \in {"success", "error"} :
              p = Point(Count, "request.count", Put(k, "outcome", out), agg.counts[k][out])
         \/ \E e \in DOMAIN agg.errcat :
              p = Point(Count, "request.errors", Put(e[1], "error_category", e[2]), agg.errcat[e])
         \/ \E k \in DOMAIN agg.cost : \E f \in CostFigures :
              p = Point(CostUnit(f), CostName(f), CostDims(k, byProvider), CostValue(k, f))
         \/ \E k \in DOMAIN quality.groups :
              p = Point(Count, "quality.completion_length_anomalies", k,
                        ScoreGroup(quality.groups[k]).anomalies)
         \/ \E k \in DOMAIN quality.groups :
              p = Point(Gauge("score"), "quality.completion_length_max_zscore", k,
                        ScoreGroup(quality.groups[k]).max)
         \/ \E k \in DOMAIN quality.empty :
              p = Point(Count, "quality.empty_completion_count", k, quality.empty[k])
         \/ \E d \in DOMAIN agg.unknown :
              p = Point(Count, "pipeline.unknown_dimension", [dimension |-> d], agg.unknown[d])
         \/ \E name \in Totals : p = Total(stats, name)
<1>1. CASE p \in HistPoints("request.duration", agg.dur) \cup HistPoints("request.ttft", agg.ttft)
  BY <1>1 DEF HistPoints
<1>2. CASE p \in CountPoints(agg)
  BY <1>2 DEF CountPoints
<1>3. CASE p \in ErrorPoints(agg)
  BY <1>3 DEF ErrorPoints
<1>4. CASE p \in CostPoints(agg, byProvider)
  <2>1. PICK k \in DOMAIN agg.cost :
          \E f \in {"usd", "count", "missing", "invalid", "in", "out", "cached", "hits"} :
            p = Point(CostShape(f), CostMetric[f], CostDims(k, byProvider), agg.cost[k][f])
    BY <1>4 DEF CostPoints
  <2>2. PICK f \in {"usd", "count", "missing", "invalid", "in", "out", "cached", "hits"} :
          p = Point(CostShape(f), CostMetric[f], CostDims(k, byProvider), agg.cost[k][f])
    BY <2>1
  <2>3. /\ f \in CostFigures /\ CostName(f) = CostMetric[f] /\ CostUnit(f) = CostShape(f)
        /\ CostValue(k, f) = agg.cost[k][f]
    BY DEF CostFigures, CostName, CostUnit, CostValue
  <2>. QED
    BY <2>2, <2>3
<1>5. CASE p \in RatioPoints(agg, byProvider)
  <2>1. PICK k \in DOMAIN agg.cost :
          p = Point(Gauge("ratio"), "tokens.completion_ratio", CostDims(k, byProvider),
                    (10000 * agg.cost[k].out) \div agg.cost[k].in)
    BY <1>5 DEF RatioPoints
  <2>2. /\ "ratio" \in CostFigures /\ CostName("ratio") = "tokens.completion_ratio"
        /\ CostUnit("ratio") = Gauge("ratio")
        /\ CostValue(k, "ratio") = (10000 * agg.cost[k].out) \div agg.cost[k].in
    BY DEF CostFigures, CostName, CostUnit, CostValue
  <2>. QED
    BY <2>1, <2>2
<1>6. CASE p \in PipelinePoints(agg, malformed, duplicates)
  <2>1. \/ p = Point(Count, "pipeline.malformed_records", <<>>, malformed)
        \/ p = Point(Count, "pipeline.duplicate_records", <<>>, duplicates)
        \/ \E d \in DOMAIN agg.unknown :
             p = Point(Count, "pipeline.unknown_dimension", [dimension |-> d], agg.unknown[d])
    BY <1>6 DEF PipelinePoints
  <2>2. /\ TotalOf(stats, "pipeline.malformed_records") = malformed
        /\ TotalOf(stats, "pipeline.duplicate_records") = duplicates
    BY DEF TotalOf
  <2>. QED
    BY <2>1, <2>2, Shapes DEF Total, Totals, CountTotals
<1>7. CASE p \in QualityPoints(quality)
  BY <1>7 DEF QualityPoints, Scored
<1>8. CASE p \in SelfPoints \cup SourcePoints(stats) \cup FreshnessPoints \cup {SeriesPoint}
  BY <1>8, TotalsShape
<1>9. \/ p \in HistPoints("request.duration", agg.dur) \cup HistPoints("request.ttft", agg.ttft)
      \/ p \in CountPoints(agg) \/ p \in ErrorPoints(agg) \/ p \in CostPoints(agg, byProvider)
      \/ p \in RatioPoints(agg, byProvider)
      \/ p \in PipelinePoints(agg, malformed, duplicates) \/ p \in QualityPoints(quality)
      \/ p \in SelfPoints \cup SourcePoints(stats) \cup FreshnessPoints \cup {SeriesPoint}
  BY DEF RunPoints, Workload, Build
<1>. QED
  BY <1>1, <1>2, <1>3, <1>4, <1>5, <1>6, <1>7, <1>8, <1>9

\* What may be said of the points of one kind.
LEMMA PointKept ==
  ASSUME NEW p, NEW name, NEW dims, NEW value, p = Point(MetricShape(name), name, dims, value),
         name \in RequestMetrics \cup CostMetrics \cup QualityMetrics \cup PipelineMetrics
                    \cup {"pipeline.unknown_dimension"},
         Governed(dims, AllowedDimensions(name))
  PROVE  Allowed(p)
<1>1. p.name = name /\ p.dims = dims /\ p.shape = MetricShape(name)
  BY DEF Point
<1>. QED
  BY <1>1 DEF Allowed

\* A metric of the pipeline itself needs its shape and no dimension.
LEMMA PlainKept ==
  ASSUME NEW p, NEW name \in PipelineMetrics, NEW value,
         p = Point(MetricShape(name), name, <<>>, value)
  PROVE  Allowed(p)
<1>1. Governed(<<>>, AllowedDimensions(name))
  <2>1. DOMAIN <<>> = {}
    OBVIOUS
  <2>. QED
    BY <2>1 DEF Governed
<1>. QED
  BY <1>1, PointKept

\* Points of governed series keep the metric contract.
LEMMA PointsKept ==
  ASSUME GovernedInv, byProvider \in BOOLEAN, NEW stats, NEW p \in RunPoints(stats)
  PROVE  Allowed(p)
<1>1. CASE \E k \in DOMAIN agg.dur : p = Point(Time, "request.duration", k, agg.dur[k].count)
  <2>1. PICK k \in DOMAIN agg.dur : p = Point(Time, "request.duration", k, agg.dur[k].count)
    BY <1>1
  <2>2. Governed(k, Primary) /\ AllowedDimensions("request.duration") = Primary
    BY Registry DEF GovernedInv
  <2>. QED
    BY <2>1, <2>2, PointKept, Shapes DEF RequestMetrics
<1>2. CASE \E k \in DOMAIN agg.ttft : p = Point(Time, "request.ttft", k, agg.ttft[k].count)
  <2>1. PICK k \in DOMAIN agg.ttft : p = Point(Time, "request.ttft", k, agg.ttft[k].count)
    BY <1>2
  <2>2. Governed(k, Primary) /\ AllowedDimensions("request.ttft") = Primary
    BY Registry DEF GovernedInv
  <2>. QED
    BY <2>1, <2>2, PointKept, Shapes DEF RequestMetrics
<1>3. CASE \E k \in DOMAIN agg.counts : \E out \in {"success", "error"} :
             p = Point(Count, "request.count", Put(k, "outcome", out), agg.counts[k][out])
  <2>1. PICK k \in DOMAIN agg.counts, out \in {"success", "error"} :
          p = Point(Count, "request.count", Put(k, "outcome", out), agg.counts[k][out])
    BY <1>3
  <2>2. Governed(k, Primary) /\ out \in Vocabulary("outcome")
    BY DEF GovernedInv, Vocabulary
  <2>3. AllowedDimensions("request.count") = Primary \cup {"outcome"}
    BY Registry
  <2>4. Governed(Put(k, "outcome", out), AllowedDimensions("request.count"))
    BY <2>2, <2>3, GovernedPut
  <2>. QED
    BY <2>1, <2>4, PointKept, Shapes DEF RequestMetrics
<1>4. CASE \E e \in DOMAIN agg.errcat :
             p = Point(Count, "request.errors", Put(e[1], "error_category", e[2]), agg.errcat[e])
  <2>1. PICK e \in DOMAIN agg.errcat :
          p = Point(Count, "request.errors", Put(e[1], "error_category", e[2]), agg.errcat[e])
    BY <1>4
  <2>2. Governed(e[1], Primary) /\ e[2] \in Vocabulary("error_category")
    BY DEF GovernedInv
  <2>3. AllowedDimensions("request.errors") = Primary \cup {"error_category"}
    BY Registry
  <2>4. Governed(Put(e[1], "error_category", e[2]), AllowedDimensions("request.errors"))
    BY <2>2, <2>3, GovernedPut
  <2>. QED
    BY <2>1, <2>4, PointKept, Shapes DEF RequestMetrics
<1>5. CASE \E k \in DOMAIN agg.cost : \E f \in CostFigures :
             p = Point(CostUnit(f), CostName(f), CostDims(k, byProvider), CostValue(k, f))
  <2>1. PICK k \in DOMAIN agg.cost, f \in CostFigures :
          p = Point(CostUnit(f), CostName(f), CostDims(k, byProvider), CostValue(k, f))
    BY <1>5
  <2>2. PICK name \in CostMetrics : name = CostName(f) /\ MetricShape(name) = CostUnit(f)
    BY Shapes
  <2>3. AllowedDimensions(name) = CostGroup
    BY Registry
  <2>4. Governed(CostDims(k, byProvider), CostGroup)
    BY DEF GovernedInv
  <2>. QED
    BY <2>1, <2>2, <2>3, <2>4, PointKept
<1>6. CASE \/ \E k \in DOMAIN quality.groups :
                p = Point(Count, "quality.completion_length_anomalies", k,
                          ScoreGroup(quality.groups[k]).anomalies)
           \/ \E k \in DOMAIN quality.groups :
                p = Point(Gauge("score"), "quality.completion_length_max_zscore", k,
                          ScoreGroup(quality.groups[k]).max)
           \/ \E k \in DOMAIN quality.empty :
                p = Point(Count, "quality.empty_completion_count", k, quality.empty[k])
  <2>1. \E k \in DOMAIN quality.groups \cup DOMAIN quality.empty :
          \E name \in QualityMetrics : \E value : p = Point(MetricShape(name), name, k, value)
    BY <1>6, Shapes DEF QualityMetrics
  <2>2. PICK k \in DOMAIN quality.groups \cup DOMAIN quality.empty :
          \E name \in QualityMetrics : \E value : p = Point(MetricShape(name), name, k, value)
    BY <2>1
  <2>3. PICK name \in QualityMetrics : \E value : p = Point(MetricShape(name), name, k, value)
    BY <2>2
  <2>. PICK value : p = Point(MetricShape(name), name, k, value)
    BY <2>3
  <2>4. Governed(k, {"route", "model_family"})
    BY DEF GovernedInv
  <2>5. AllowedDimensions(name) = {"route", "model_family"}
    BY Registry
  <2>. QED
    BY <2>4, <2>5, PointKept
<1>7. CASE \E d \in DOMAIN agg.unknown :
             p = Point(Count, "pipeline.unknown_dimension", [dimension |-> d], agg.unknown[d])
  <2>1. PICK d \in DOMAIN agg.unknown :
           p = Point(Count, "pipeline.unknown_dimension", [dimension |-> d], agg.unknown[d])
    BY <1>7
  <2>2. AllowedDimensions("pipeline.unknown_dimension") = {"dimension"}
    BY Registry
  <2>3. d \in Vocabulary("dimension")
    BY DEF GovernedInv
  <2>4. /\ DOMAIN [dimension |-> d] = {"dimension"} /\ [dimension |-> d]["dimension"] = d
    OBVIOUS
  <2>5. Governed([dimension |-> d], {"dimension"})
    BY <2>3, <2>4 DEF Governed
  <2>. QED
    BY <2>1, <2>2, <2>5, PointKept, Shapes
<1>8. CASE \E name \in Totals : p = Total(stats, name)
  <2>1. Totals \subseteq PipelineMetrics
    BY DEF Totals, CountTotals, GaugeTotals, TimeTotals, PipelineMetrics
  <2>. QED
    BY <1>8, <2>1, PlainKept DEF Total
<1>. QED
  BY <1>1, <1>2, <1>3, <1>4, <1>5, <1>6, <1>7, <1>8, PointShape

\* The heartbeats' points keep it too.
LEMMA HeartbeatsKept ==
  ASSUME NEW exported, NEW conflict, NEW p \in Heartbeats(exported, conflict)
  PROVE  Allowed(p)
<1>1. \/ p = Point(Gauge("1"), "pipeline.export_success", <<>>, One(exported))
      \/ p = Point(Gauge("s"), "pipeline.run_duration_seconds", <<>>, 0)
      \/ p = Point(Gauge("1"), "pipeline.source_success", <<>>, 0)
      \/ p = Point(Count, "pipeline.checkpoint_conflicts", <<>>, 1)
  BY DEF Heartbeats
<1>2. /\ MetricShape("pipeline.export_success") = Gauge("1")
      /\ MetricShape("pipeline.run_duration_seconds") = Gauge("s")
      /\ MetricShape("pipeline.source_success") = Gauge("1")
      /\ MetricShape("pipeline.checkpoint_conflicts") = Count
  BY DEF MetricShape
<1>3. {"pipeline.export_success", "pipeline.run_duration_seconds", "pipeline.source_success",
       "pipeline.checkpoint_conflicts"} \subseteq PipelineMetrics
  BY DEF PipelineMetrics
<1>. QED
  BY <1>1, <1>2, <1>3, PlainKept

\* The exporter takes every point of every run: one that broke the metric contract would
\* block all points of the run and of every retry.
THEOREM Accepted == Spec => []PointsAccepted
<1>. DEFINE Inv == LoopInv /\ GovernedInv /\ byProvider \in BOOLEAN /\ byModel \in BOOLEAN
<1>1. Init => Inv
  <2>. SUFFICES ASSUME Init PROVE Inv
    OBVIOUS
  <2>1. agg = NewAggregator /\ quality = NoLengths /\ byProvider \in BOOLEAN /\ byModel \in BOOLEAN
    BY DEF Init
  <2>2. /\ DOMAIN agg.dur = {} /\ DOMAIN agg.ttft = {} /\ DOMAIN agg.counts = {}
        /\ DOMAIN agg.errcat = {} /\ DOMAIN agg.cost = {} /\ DOMAIN agg.unknown = {}
        /\ DOMAIN quality.groups = {} /\ DOMAIN quality.empty = {}
    BY <2>1 DEF NewAggregator, NoLengths
  <2>3. GovernedInv
    BY <2>2 DEF GovernedInv
  <2>. QED
    BY <2>1, <2>3, LoopStarts
<1>2. Inv /\ [Next]_vars => Inv'
  BY LoopStep, GovernedStep
<1>3. Inv => PointsAccepted
  BY PointsKept, HeartbeatsKept DEF PointsAccepted
<1>. QED
  BY <1>1, <1>2, <1>3, PTL DEF Spec

-----------------------------------------------------------------------------
(* PointsConserveObservations                                              *)

\* The places of a sequence that report a counter are finitely many.
LEMMA ReportsTyped ==
  ASSUME NEW P, NEW s \in Seq(P), NEW x
  PROVE  IsFiniteSet({i \in DOMAIN s : x \in Reported(s[i])}) /\ Reports(s, x) \in Nat
<1>1. Len(s) \in Nat /\ DOMAIN s = 1..Len(s)
  OBVIOUS
<1>2. {i \in DOMAIN s : x \in Reported(s[i])} \in SUBSET (1..Len(s))
  BY <1>1
<1>. QED
  BY <1>1, <1>2, PlacesFinite DEF Reports

\* An observation more reports each of its counters once more.
LEMMA ReportsGrow ==
  ASSUME NEW P, NEW s \in Seq(P), NEW o \in P, NEW x
  PROVE  Reports(Append(s, o), x) = Reports(s, x) + One(x \in Reported(o))
<1>. DEFINE t == Append(s, o)
            n == Len(s)
            A == {i \in DOMAIN s : x \in Reported(s[i])}
            B == {i \in DOMAIN t : x \in Reported(t[i])}
<1>1. n \in Nat /\ DOMAIN s = 1..n /\ DOMAIN t = 1..(n + 1)
  BY AppendProperties
<1>2. (\A i \in 1..n : t[i] = s[i]) /\ t[n + 1] = o
  BY AppendProperties
<1>3. 1..(n + 1) = (1..n) \cup {n + 1} /\ n + 1 \notin 1..n
  BY <1>1
<1>4. IsFiniteSet(A) /\ Cardinality(A) \in Nat
  BY ReportsTyped, FS_CardinalityType
<1>5. Reports(s, x) = Cardinality(A) /\ Reports(t, x) = Cardinality(B)
  BY DEF Reports
<1>. HIDE DEF t, n
<1>6. n + 1 \notin A /\ B = IF x \in Reported(o) THEN A \cup {n + 1} ELSE A
  BY <1>1, <1>2, <1>3
<1>7. Cardinality(A \cup {n + 1}) = Cardinality(A) + 1
  BY <1>4, <1>6, FS_AddElement
<1>. HIDE DEF A, B
<1>8. CASE x \in Reported(o)
  BY <1>5, <1>6, <1>7, <1>8 DEF One, t
<1>9. CASE x \notin Reported(o)
  BY <1>4, <1>5, <1>6, <1>9 DEF One, t
<1>. QED
  BY <1>8, <1>9

\* A counter is reported by some observation when one of them reports it.
LEMMA ReportsSome ==
  ASSUME NEW P, NEW s \in Seq(P), NEW o \in ToSet(s), NEW x \in Reported(o)
  PROVE  Reports(s, x) > 0
<1>1. PICK i \in DOMAIN s : s[i] = o
  BY DEF ToSet
<1>2. i \in {j \in DOMAIN s : x \in Reported(s[j])}
  BY <1>1
<1>3. Cardinality({j \in DOMAIN s : x \in Reported(s[j])}) # 0
  BY <1>2, ReportsTyped, FS_EmptySet
<1>4. Reports(s, x) \in Nat
  BY ReportsTyped
<1>. QED
  BY <1>3, <1>4 DEF Reports

\* The counters of an observation, one by one.
LEMMA ReportedIs ==
  ASSUME NEW o, NEW d
  PROVE  /\ <<"request.duration", d>> \in Reported(o) <=> d = o.dims
         /\ <<"request.ttft", d>> \in Reported(o) <=> o.ttft # NoTime /\ d = o.dims
         /\ <<"request.count", d>> \in Reported(o) <=>
              d = Put(o.dims, "outcome", IF o.error THEN "error" ELSE "success")
         /\ <<"request.errors", d>> \in Reported(o) <=>
              o.error /\ d = Put(o.dims, "error_category", o.category)
         /\ <<"cost.request_count", d>> \in Reported(o) <=>
              d = CostDims(CostKey(o, byProvider), byProvider)
         /\ <<"cost.records_missing", d>> \in Reported(o) <=>
              o.missing /\ d = CostDims(CostKey(o, byProvider), byProvider)
         /\ <<"cost.records_invalid", d>> \in Reported(o) <=>
              o.invalid /\ d = CostDims(CostKey(o, byProvider), byProvider)
         /\ <<"quality.empty_completion_count", d>> \in Reported(o) <=>
              ~o.error /\ o.out = 0 /\ d = QualityKey(o, byModel)
  BY DEF Reported

\* Only counters are reported.
LEMMA ReportedCounters ==
  ASSUME NEW o, NEW x \in Reported(o)
  PROVE  \E name \in Counters : \E d : x = <<name, d>>
  BY DEF Reported, Counters

\* A value put under a new key says what it was put into.
LEMMA PutInjective ==
  ASSUME NEW S, NEW d, d \notin S, NEW f, NEW g, NEW v, NEW w,
         f = [x \in S |-> f[x]], g = [x \in S |-> g[x]]
  PROVE  Put(f, d, v) = Put(g, d, w) <=> f = g /\ v = w
<1>. SUFFICES ASSUME Put(f, d, v) = Put(g, d, w) PROVE f = g /\ v = w
  OBVIOUS
<1>1. DOMAIN f = S /\ DOMAIN g = S
  OBVIOUS
<1>2. \A x \in S \cup {d} : Put(f, d, v)[x] = (IF x = d THEN v ELSE f[x])
                           /\ Put(g, d, w)[x] = (IF x = d THEN w ELSE g[x])
  BY <1>1 DEF Put
<1>3. v = w
  BY <1>2
<1>4. \A x \in S : f[x] = g[x]
  BY <1>2
<1>5. [x \in S |-> f[x]] = [x \in S |-> g[x]]
  BY <1>4
<1>. QED
  BY <1>3, <1>5, Zenon

\* An observation whose dimensions are a record of the primary ones.
WithDims(o) == o.dims = [x \in Primary |-> o.dims[x]]

\* Series that differ in a dimension more come from the same dimensions.
LEMMA SamePut ==
  ASSUME NEW o, NEW p, WithDims(o), WithDims(p), NEW d \in {"outcome", "error_category"},
         NEW v, NEW w
  PROVE  Put(o.dims, d, v) = Put(p.dims, d, w) <=> o.dims = p.dims /\ v = w
<1>1. d \notin Primary
  BY DEF Primary
<1>. QED
  BY <1>1, PutInjective DEF WithDims

\* Cost series with the same dimensions have the same key.
LEMMA SameCost ==
  ASSUME NEW o, NEW p, NEW b \in BOOLEAN
  PROVE  CostDims(CostKey(o, b), b) = CostDims(CostKey(p, b), b) <=> CostKey(o, b) = CostKey(p, b)
<1>. DEFINE S == {"team", "route", "model_family"}
            f == [team |-> o.dims.team, route |-> o.dims.route,
                  model_family |-> o.dims.model_family]
            g == [team |-> p.dims.team, route |-> p.dims.route,
                  model_family |-> p.dims.model_family]
<1>1. f = [x \in S |-> f[x]] /\ g = [x \in S |-> g[x]] /\ "provider_region" \notin S
  OBVIOUS
<1>2. f = g <=> /\ o.dims.team = p.dims.team /\ o.dims.route = p.dims.route
                /\ o.dims.model_family = p.dims.model_family
  OBVIOUS
<1>3. CASE b
  <2>1. /\ CostDims(CostKey(o, b), b) = Put(f, "provider_region", o.region)
        /\ CostDims(CostKey(p, b), b) = Put(g, "provider_region", p.region)
    BY <1>3 DEF CostDims, CostKey
  <2>2. CostKey(o, b) = CostKey(p, b) <=> f = g /\ o.region = p.region
    BY <1>2, <1>3 DEF CostKey
  <2>. HIDE DEF f, g, S
  <2>. QED
    BY <1>1, <2>1, <2>2, PutInjective
<1>4. CASE ~b
  <2>1. CostDims(CostKey(o, b), b) = f /\ CostDims(CostKey(p, b), b) = g
    BY <1>4 DEF CostDims, CostKey
  <2>2. CostKey(o, b) = CostKey(p, b) <=> f = g
    BY <1>2, <1>4 DEF CostKey
  <2>. HIDE DEF f, g, S
  <2>. QED
    BY <2>1, <2>2
<1>. QED
  BY <1>3, <1>4

\* What the accumulators hold of the series of an observation is what the folded
\* observations report.
Tallied(a, q, s, o) ==
  LET cost == At(a.cost, CostKey(o, byProvider), NoCosts)
      dims == CostDims(CostKey(o, byProvider), byProvider)
      outcomes == At(a.counts, o.dims, [success |-> 0, error |-> 0])
  IN  /\ At(a.dur, o.dims, EmptyHist).count = Reports(s, <<"request.duration", o.dims>>)
      /\ At(a.ttft, o.dims, EmptyHist).count = Reports(s, <<"request.ttft", o.dims>>)
      /\ outcomes.success = Reports(s, <<"request.count", Put(o.dims, "outcome", "success")>>)
      /\ outcomes.error = Reports(s, <<"request.count", Put(o.dims, "outcome", "error")>>)
      /\ At(a.errcat, <<o.dims, o.category>>, 0)
           = Reports(s, <<"request.errors", Put(o.dims, "error_category", o.category)>>)
      /\ cost.count = Reports(s, <<"cost.request_count", dims>>)
      /\ cost.missing = Reports(s, <<"cost.records_missing", dims>>)
      /\ cost.invalid = Reports(s, <<"cost.records_invalid", dims>>)
      /\ At(q.empty, QualityKey(o, byModel), 0)
           = Reports(s, <<"quality.empty_completion_count", QualityKey(o, byModel)>>)

\* The series that are open are those of the folded observations.
Opened(a, q, s) ==
  LET seen == ToSet(s)
  IN  /\ DOMAIN a.dur = {o.dims : o \in seen} /\ DOMAIN a.counts = {o.dims : o \in seen}
      /\ DOMAIN a.ttft = {o.dims : o \in {x \in seen : x.ttft # NoTime}}
      /\ DOMAIN a.errcat = {<<o.dims, o.category>> : o \in {x \in seen : x.error}}
      /\ DOMAIN a.cost = {CostKey(o, byProvider) : o \in seen}
      /\ DOMAIN q.empty = {QualityKey(o, byModel) : o \in {x \in seen : ~x.error /\ x.out = 0}}

\* Every series that any record of the input can open holds what it should.
TallyInv == Opened(agg, quality, added) /\ \A o \in Parsed : Tallied(agg, quality, added, o)

\* What folding an observation adds to the series of another one.
LEMMA TallyGrows ==
  ASSUME byProvider \in BOOLEAN, NEW P, NEW a, NEW q, NEW s \in Seq(P), NEW n \in P, NEW o \in P,
         WithDims(n), WithDims(o), Tallied(a, q, s, o), NEW r \in AddLength(q, n, byModel),
         n.error \in BOOLEAN, n.missing \in BOOLEAN, n.invalid \in BOOLEAN
  PROVE  Tallied(AddTo(a, n, byProvider), r, Append(s, n), o)
<1>. DEFINE b == AddTo(a, n, byProvider)
            t == Append(s, n)
            dims == CostDims(CostKey(o, byProvider), byProvider)
            none == [success |-> 0, error |-> 0]
<1>1. \A x : Reports(s, x) \in Nat
  BY ReportsTyped
<1>2. \A x : Reports(t, x) = IF x \in Reported(n) THEN Reports(s, x) + 1 ELSE Reports(s, x)
  BY <1>1, ReportsGrow DEF One
<1>3. At(b.dur, o.dims, EmptyHist).count = Reports(t, <<"request.duration", o.dims>>)
  <2>1. b.dur = Put(a.dur, n.dims, HistAdd(At(a.dur, n.dims, EmptyHist), n.latency))
    BY DEF AddTo
  <2>2. At(b.dur, o.dims, EmptyHist)
          = IF o.dims = n.dims THEN HistAdd(At(a.dur, n.dims, EmptyHist), n.latency)
            ELSE At(a.dur, o.dims, EmptyHist)
    BY <2>1, PutAt
  <2>3. HistAdd(At(a.dur, n.dims, EmptyHist), n.latency).count = At(a.dur, n.dims, EmptyHist).count + 1
    BY DEF HistAdd
  <2>4. At(a.dur, o.dims, EmptyHist).count = Reports(s, <<"request.duration", o.dims>>)
    BY DEF Tallied
  <2>5. <<"request.duration", o.dims>> \in Reported(n) <=> o.dims = n.dims
    BY ReportedIs
  <2>. HIDE DEF b, t
  <2>6. CASE o.dims = n.dims
    BY <1>1, <1>2, <2>2, <2>3, <2>4, <2>5, <2>6
  <2>7. CASE o.dims # n.dims
    BY <1>1, <1>2, <2>2, <2>4, <2>5, <2>7
  <2>. QED
    BY <2>6, <2>7
<1>4. At(b.ttft, o.dims, EmptyHist).count = Reports(t, <<"request.ttft", o.dims>>)
  <2>1. b.ttft = IF n.ttft = NoTime THEN a.ttft
                 ELSE Put(a.ttft, n.dims, HistAdd(At(a.ttft, n.dims, EmptyHist), n.ttft))
    BY DEF AddTo
  <2>2. n.ttft # NoTime =>
          At(b.ttft, o.dims, EmptyHist)
            = IF o.dims = n.dims THEN HistAdd(At(a.ttft, n.dims, EmptyHist), n.ttft)
              ELSE At(a.ttft, o.dims, EmptyHist)
    BY <2>1, PutAt
  <2>3. HistAdd(At(a.ttft, n.dims, EmptyHist), n.ttft).count = At(a.ttft, n.dims, EmptyHist).count + 1
    BY DEF HistAdd
  <2>4. At(a.ttft, o.dims, EmptyHist).count = Reports(s, <<"request.ttft", o.dims>>)
    BY DEF Tallied
  <2>5. <<"request.ttft", o.dims>> \in Reported(n) <=> n.ttft # NoTime /\ o.dims = n.dims
    BY ReportedIs
  <2>. HIDE DEF b, t
  <2>6. CASE n.ttft # NoTime /\ o.dims = n.dims
    BY <1>1, <1>2, <2>2, <2>3, <2>4, <2>5, <2>6
  <2>7. CASE n.ttft # NoTime /\ o.dims # n.dims
    BY <1>1, <1>2, <2>2, <2>4, <2>5, <2>7
  <2>8. CASE n.ttft = NoTime
    BY <1>1, <1>2, <2>1, <2>4, <2>5, <2>8
  <2>. QED
    BY <2>6, <2>7, <2>8
<1>5. /\ At(b.counts, o.dims, none).success = Reports(t, <<"request.count", Put(o.dims, "outcome", "success")>>)
      /\ At(b.counts, o.dims, none).error = Reports(t, <<"request.count", Put(o.dims, "outcome", "error")>>)
  <2>1. b.counts = Put(a.counts, n.dims, Outcomes(At(a.counts, n.dims, none), n))
    BY DEF AddTo
  <2>2. At(b.counts, o.dims, none)
          = IF o.dims = n.dims THEN Outcomes(At(a.counts, n.dims, none), n)
            ELSE At(a.counts, o.dims, none)
    BY <2>1, PutAt
  <2>3. /\ Outcomes(At(a.counts, n.dims, none), n).success
             = At(a.counts, n.dims, none).success + One(~n.error)
        /\ Outcomes(At(a.counts, n.dims, none), n).error
             = At(a.counts, n.dims, none).error + One(n.error)
    BY DEF Outcomes
  <2>4. /\ At(a.counts, o.dims, none).success
             = Reports(s, <<"request.count", Put(o.dims, "outcome", "success")>>)
        /\ At(a.counts, o.dims, none).error
             = Reports(s, <<"request.count", Put(o.dims, "outcome", "error")>>)
    BY DEF Tallied
  <2>5. /\ <<"request.count", Put(o.dims, "outcome", "success")>> \in Reported(n)
             <=> o.dims = n.dims /\ ~n.error
        /\ <<"request.count", Put(o.dims, "outcome", "error")>> \in Reported(n)
             <=> o.dims = n.dims /\ n.error
    <3>1. \A v : Put(o.dims, "outcome", v)
                   = Put(n.dims, "outcome", IF n.error THEN "error" ELSE "success")
                 <=> o.dims = n.dims /\ v = IF n.error THEN "error" ELSE "success"
      BY SamePut
    <3>2. \A d : <<"request.count", d>> \in Reported(n) <=>
                   d = Put(n.dims, "outcome", IF n.error THEN "error" ELSE "success")
      BY ReportedIs
    <3>. QED
      BY <3>1, <3>2
  <2>. HIDE DEF b, t, none
  <2>6. CASE o.dims = n.dims
    <3>1. /\ At(b.counts, o.dims, none).success
               = At(a.counts, o.dims, none).success + (IF ~n.error THEN 1 ELSE 0)
          /\ At(b.counts, o.dims, none).error
               = At(a.counts, o.dims, none).error + (IF n.error THEN 1 ELSE 0)
      BY <2>2, <2>3, <2>6 DEF One
    <3>2. /\ At(a.counts, o.dims, none).success \in Nat
          /\ At(a.counts, o.dims, none).error \in Nat
      BY <1>1, <2>4
    <3>. QED
      BY <1>1, <1>2, <2>4, <2>5, <2>6, <3>1, <3>2
  <2>7. CASE o.dims # n.dims
    BY <1>1, <1>2, <2>2, <2>4, <2>5, <2>7
  <2>. QED
    BY <2>6, <2>7
<1>6. At(b.errcat, <<o.dims, o.category>>, 0)
        = Reports(t, <<"request.errors", Put(o.dims, "error_category", o.category)>>)
  <2>. DEFINE e == <<n.dims, n.category>>
              x == <<o.dims, o.category>>
              m == <<"request.errors", Put(o.dims, "error_category", o.category)>>
  <2>1. b.errcat = IF ~n.error THEN a.errcat ELSE Put(a.errcat, e, At(a.errcat, e, 0) + 1)
    BY DEF AddTo
  <2>2. n.error => At(b.errcat, x, 0) = IF x = e THEN At(a.errcat, e, 0) + 1 ELSE At(a.errcat, x, 0)
    BY <2>1, PutAt
  <2>3. At(a.errcat, x, 0) = Reports(s, m)
    BY DEF Tallied
  <2>4. m \in Reported(n) <=> n.error /\ x = e
    <3>1. Put(o.dims, "error_category", o.category) = Put(n.dims, "error_category", n.category)
            <=> x = e
      BY SamePut
    <3>2. m \in Reported(n) <=>
            n.error /\ Put(o.dims, "error_category", o.category)
                         = Put(n.dims, "error_category", n.category)
      BY ReportedIs
    <3>. QED
      BY <3>1, <3>2
  <2>. HIDE DEF b, t, e, x, m
  <2>5. At(b.errcat, x, 0) = Reports(t, m)
    <3>1. CASE n.error /\ x = e
      BY <1>1, <1>2, <2>2, <2>3, <2>4, <3>1
    <3>2. CASE n.error /\ x # e
      BY <1>1, <1>2, <2>2, <2>3, <2>4, <3>2
    <3>3. CASE ~n.error
      BY <1>1, <1>2, <2>1, <2>3, <2>4, <3>3
    <3>. QED
      BY <3>1, <3>2, <3>3
  <2>. QED
    BY <2>5 DEF x, m
<1>7. /\ At(b.cost, CostKey(o, byProvider), NoCosts).count = Reports(t, <<"cost.request_count", dims>>)
      /\ At(b.cost, CostKey(o, byProvider), NoCosts).missing = Reports(t, <<"cost.records_missing", dims>>)
      /\ At(b.cost, CostKey(o, byProvider), NoCosts).invalid = Reports(t, <<"cost.records_invalid", dims>>)
  <2>. DEFINE c == CostKey(n, byProvider)
              x == CostKey(o, byProvider)
              old(k) == At(a.cost, k, NoCosts)
  <2>1. b.cost = Put(a.cost, c, Costs(old(c), n))
    BY DEF AddTo
  <2>2. At(b.cost, x, NoCosts) = IF x = c THEN Costs(old(c), n) ELSE old(x)
    BY <2>1, PutAt
  <2>3. /\ Costs(old(c), n).count = old(c).count + 1
        /\ Costs(old(c), n).missing = old(c).missing + One(n.missing)
        /\ Costs(old(c), n).invalid = old(c).invalid + One(n.invalid)
    BY DEF Costs
  <2>4. /\ old(x).count = Reports(s, <<"cost.request_count", dims>>)
        /\ old(x).missing = Reports(s, <<"cost.records_missing", dims>>)
        /\ old(x).invalid = Reports(s, <<"cost.records_invalid", dims>>)
    BY DEF Tallied
  <2>5. /\ <<"cost.request_count", dims>> \in Reported(n) <=> x = c
        /\ <<"cost.records_missing", dims>> \in Reported(n) <=> n.missing /\ x = c
        /\ <<"cost.records_invalid", dims>> \in Reported(n) <=> n.invalid /\ x = c
    <3>1. dims = CostDims(c, byProvider) <=> x = c
      BY SameCost
    <3>2. /\ <<"cost.request_count", dims>> \in Reported(n) <=> dims = CostDims(c, byProvider)
          /\ <<"cost.records_missing", dims>> \in Reported(n)
               <=> n.missing /\ dims = CostDims(c, byProvider)
          /\ <<"cost.records_invalid", dims>> \in Reported(n)
               <=> n.invalid /\ dims = CostDims(c, byProvider)
      BY ReportedIs
    <3>. QED
      BY <3>1, <3>2
  <2>. HIDE DEF b, t, x, c, old, dims
  <2>6. /\ At(b.cost, x, NoCosts).count = Reports(t, <<"cost.request_count", dims>>)
        /\ At(b.cost, x, NoCosts).missing = Reports(t, <<"cost.records_missing", dims>>)
        /\ At(b.cost, x, NoCosts).invalid = Reports(t, <<"cost.records_invalid", dims>>)
    <3>1. CASE x = c
      <4>1. /\ At(b.cost, x, NoCosts).count = old(x).count + 1
            /\ At(b.cost, x, NoCosts).missing = old(x).missing + (IF n.missing THEN 1 ELSE 0)
            /\ At(b.cost, x, NoCosts).invalid = old(x).invalid + (IF n.invalid THEN 1 ELSE 0)
        BY <2>2, <2>3, <3>1 DEF One
      <4>2. old(x).missing \in Nat /\ old(x).invalid \in Nat
        BY <1>1, <2>4
      <4>. QED
        BY <1>1, <1>2, <2>4, <2>5, <3>1, <4>1, <4>2
    <3>2. CASE x # c
      BY <1>1, <1>2, <2>2, <2>4, <2>5, <3>2
    <3>. QED
      BY <3>1, <3>2
  <2>. QED
    BY <2>6 DEF x
<1>8. At(r.empty, QualityKey(o, byModel), 0)
        = Reports(t, <<"quality.empty_completion_count", QualityKey(o, byModel)>>)
  <2>. DEFINE k == QualityKey(n, byModel)
              x == QualityKey(o, byModel)
              m == <<"quality.empty_completion_count", x>>
  <2>1. r.empty = IF ~n.error /\ n.out = 0 THEN Put(q.empty, k, At(q.empty, k, 0) + 1) ELSE q.empty
    BY DEF AddLength
  <2>2. At(q.empty, x, 0) = Reports(s, m)
    BY DEF Tallied
  <2>3. m \in Reported(n) <=> ~n.error /\ n.out = 0 /\ x = k
    BY ReportedIs
  <2>. HIDE DEF b, t, k, x, m
  <2>4. At(r.empty, x, 0) = Reports(t, m)
    <3>1. CASE ~n.error /\ n.out = 0
      <4>1. At(r.empty, x, 0) = IF x = k THEN At(q.empty, k, 0) + 1 ELSE At(q.empty, x, 0)
        BY <2>1, <3>1, PutAt
      <4>. QED
        BY <1>1, <1>2, <2>2, <2>3, <3>1, <4>1
    <3>2. CASE ~(~n.error /\ n.out = 0)
      BY <1>1, <1>2, <2>1, <2>2, <2>3, <3>2
    <3>. QED
      BY <3>1, <3>2
  <2>. QED
    BY <2>4 DEF x, m
<1>. QED
  BY <1>3, <1>4, <1>5, <1>6, <1>7, <1>8 DEF Tallied

\* The series an observation opens.
LEMMA OpenedGrows ==
  ASSUME NEW P, NEW a, NEW q, NEW s \in Seq(P), NEW n \in P, Opened(a, q, s),
         NEW r \in AddLength(q, n, byModel)
  PROVE  Opened(AddTo(a, n, byProvider), r, Append(s, n))
<1>. DEFINE b == AddTo(a, n, byProvider)
            t == Append(s, n)
            e == <<n.dims, n.category>>
            k == QualityKey(n, byModel)
<1>1. ToSet(t) = ToSet(s) \cup {n}
  BY ToSetAppend
<1>2. \A f, x, v : DOMAIN Put(f, x, v) = DOMAIN f \cup {x}
  BY PutDomain
<1>3. /\ DOMAIN b.dur = DOMAIN a.dur \cup {n.dims}
      /\ DOMAIN b.counts = DOMAIN a.counts \cup {n.dims}
      /\ DOMAIN b.cost = DOMAIN a.cost \cup {CostKey(n, byProvider)}
  BY <1>2 DEF AddTo
<1>4. DOMAIN b.ttft = IF n.ttft = NoTime THEN DOMAIN a.ttft ELSE DOMAIN a.ttft \cup {n.dims}
  <2>1. b.ttft = IF n.ttft = NoTime THEN a.ttft
                 ELSE Put(a.ttft, n.dims, HistAdd(At(a.ttft, n.dims, EmptyHist), n.ttft))
    BY DEF AddTo
  <2>. HIDE DEF b
  <2>2. CASE n.ttft = NoTime
    BY <2>1, <2>2
  <2>3. CASE n.ttft # NoTime
    <3>1. b.ttft = Put(a.ttft, n.dims, HistAdd(At(a.ttft, n.dims, EmptyHist), n.ttft))
      BY <2>1, <2>3
    <3>2. DOMAIN Put(a.ttft, n.dims, HistAdd(At(a.ttft, n.dims, EmptyHist), n.ttft)) = DOMAIN a.ttft \cup {n.dims}
      BY PutDomain
    <3>3. DOMAIN b.ttft = DOMAIN a.ttft \cup {n.dims}
      BY <3>1, <3>2
    <3>. QED
      BY <2>3, <3>3
  <2>. QED
    BY <2>2, <2>3
<1>5. DOMAIN b.errcat = IF ~n.error THEN DOMAIN a.errcat ELSE DOMAIN a.errcat \cup {e}
  <2>1. b.errcat = IF ~n.error THEN a.errcat ELSE Put(a.errcat, e, At(a.errcat, e, 0) + 1)
    BY DEF AddTo
  <2>. HIDE DEF b, e
  <2>2. CASE ~n.error
    BY <2>1, <2>2
  <2>3. CASE n.error
    <3>1. b.errcat = Put(a.errcat, e, At(a.errcat, e, 0) + 1)
      BY <2>1, <2>3
    <3>2. DOMAIN Put(a.errcat, e, At(a.errcat, e, 0) + 1) = DOMAIN a.errcat \cup {e}
      BY PutDomain
    <3>3. DOMAIN b.errcat = DOMAIN a.errcat \cup {e}
      BY <3>1, <3>2
    <3>. QED
      BY <2>3, <3>3
  <2>. QED
    BY <2>2, <2>3
<1>6. DOMAIN r.empty = IF ~n.error /\ n.out = 0 THEN DOMAIN q.empty \cup {k} ELSE DOMAIN q.empty
  <2>1. r.empty = IF ~n.error /\ n.out = 0 THEN Put(q.empty, k, At(q.empty, k, 0) + 1) ELSE q.empty
    BY DEF AddLength
  <2>. HIDE DEF k
  <2>2. CASE ~n.error /\ n.out = 0
    <3>1. r.empty = Put(q.empty, k, At(q.empty, k, 0) + 1)
      BY <2>1, <2>2
    <3>2. DOMAIN Put(q.empty, k, At(q.empty, k, 0) + 1) = DOMAIN q.empty \cup {k}
      BY PutDomain
    <3>3. DOMAIN r.empty = DOMAIN q.empty \cup {k}
      BY <3>1, <3>2
    <3>. QED
      BY <2>2, <3>3
  <2>3. CASE ~(~n.error /\ n.out = 0)
    BY <2>1, <2>3
  <2>. QED
    BY <2>2, <2>3
<1>. HIDE DEF b, t
<1>7. /\ DOMAIN b.dur = {o.dims : o \in ToSet(t)} /\ DOMAIN b.counts = {o.dims : o \in ToSet(t)}
      /\ DOMAIN b.cost = {CostKey(o, byProvider) : o \in ToSet(t)}
  BY <1>1, <1>3 DEF Opened
<1>8. DOMAIN b.ttft = {o.dims : o \in {x \in ToSet(t) : x.ttft # NoTime}}
  BY <1>1, <1>4 DEF Opened
<1>9. DOMAIN b.errcat = {<<o.dims, o.category>> : o \in {x \in ToSet(t) : x.error}}
  BY <1>1, <1>5 DEF Opened
<1>10. DOMAIN r.empty
         = {QualityKey(o, byModel) : o \in {x \in ToSet(t) : ~x.error /\ x.out = 0}}
  BY <1>1, <1>6 DEF Opened
<1>. QED
  BY <1>7, <1>8, <1>9, <1>10 DEF Opened, b, t

\* What is known of an observation that a record of the input is parsed to.
LEMMA ParsedShape ==
  ASSUME NEW o \in Parsed
  PROVE  /\ WithDims(o) /\ DOMAIN o.dims = Primary
         /\ o.error \in BOOLEAN /\ o.missing \in BOOLEAN /\ o.invalid \in BOOLEAN
<1>1. PICK i \in 1..Len(input) : o = Parse(input[i])
  BY DEF Parsed
<1>2. PICK r : r = input[i]
  OBVIOUS
<1>3. o.dims = PrimaryDims(r)
  BY <1>1, <1>2 DEF Parse
<1>4. PrimaryDims(r) = [x \in Primary |-> PrimaryDims(r)[x]] /\ DOMAIN PrimaryDims(r) = Primary
  BY DEF PrimaryDims, Primary
<1>5. o.error \in BOOLEAN /\ o.missing \in BOOLEAN /\ o.invalid \in BOOLEAN
  BY <1>1 DEF Parse, IsError
<1>. QED
  BY <1>3, <1>4, <1>5 DEF WithDims

\* Every step of the pass keeps the accumulators in agreement with what was folded.
LEMMA TallyStep ==
  ASSUME LoopInv, TallyInv, byProvider \in BOOLEAN, byModel \in BOOLEAN, [Next]_vars
  PROVE  TallyInv'
<1>1. input' = input /\ byProvider' = byProvider /\ byModel' = byModel
  BY DEF Next, vars, config, RejectMalformed, Quarantine, RejectBlankId, DropDuplicate,
     DropCrossRun, Process, Pulled, EndOfInput, Truncate, SourceFails, Finish, Over
<1>2. Parsed' = Parsed
  BY <1>1 DEF Parsed
<1>3. \A o : Reported(o)' = Reported(o)
  BY <1>1 DEF Reported
<1>4. \A s, x : Reports(s, x)' = Reports(s, x)
  BY <1>3 DEF Reports
<1>5. CASE UNCHANGED <<agg, quality, added>>
  BY <1>1, <1>2, <1>4, <1>5 DEF TallyInv, Tallied, Opened
<1>6. CASE UNCHANGED vars \/ Over \/ EndOfInput \/ Truncate \/ SourceFails
  BY <1>5, <1>6 DEF Over, vars, EndOfInput, Truncate, SourceFails, Finish, folded
<1>7. CASE RejectMalformed \/ Quarantine \/ RejectBlankId \/ DropDuplicate \/ DropCrossRun
  BY <1>5, <1>7 DEF RejectMalformed, Quarantine, RejectBlankId, DropDuplicate, DropCrossRun,
     Untouched, folded
<1>8. CASE Process
  <2>1. /\ agg' = AddTo(agg, Parse(Raw), byProvider) /\ added' = Append(added, Parse(Raw))
        /\ quality' \in AddLength(quality, Parse(Raw), byModel) /\ Parse(Raw) \in Parsed
    <3>1. recordsRead < Len(input) /\ recordsRead \in Nat /\ Len(input) \in Nat
      BY <1>8 DEF Process, Pulled, LoopInv, Progress
    <3>2. recordsRead + 1 \in 1..Len(input)
      BY <3>1
    <3>. QED
      BY <1>8, <3>2 DEF Process, Parsed, Raw
  <2>2. PICK n \in Parsed : n = Parse(Raw)
    BY <2>1
  <2>3. PICK a : a = agg
    OBVIOUS
  <2>4. PICK q : q = quality
    OBVIOUS
  <2>5. PICK s \in Seq(Parsed) : s = added
    BY DEF LoopInv, SeenInv
  <2>6. PICK r \in AddLength(q, n, byModel) : r = quality'
    BY <2>1, <2>2, <2>4
  <2>7. Opened(AddTo(a, n, byProvider), r, Append(s, n))
    BY <2>3, <2>4, <2>5, OpenedGrows DEF TallyInv
  <2>8. ASSUME NEW o \in Parsed
        PROVE  Tallied(AddTo(a, n, byProvider), r, Append(s, n), o)
    <3>1. Tallied(a, q, s, o)
      BY <2>3, <2>4, <2>5 DEF TallyInv
    <3>2. WithDims(o) /\ WithDims(n)
      BY ParsedShape
    <3>3. n.error \in BOOLEAN /\ n.missing \in BOOLEAN /\ n.invalid \in BOOLEAN
      BY ParsedShape
    <3>. QED
      BY <3>1, <3>2, <3>3, TallyGrows
  <2>9. Opened(agg, quality, added)'
    BY <1>1, <2>1, <2>2, <2>3, <2>5, <2>6, <2>7 DEF Opened
  <2>10. \A o \in Parsed : Tallied(agg, quality, added, o)'
    BY <1>1, <1>4, <2>1, <2>2, <2>3, <2>5, <2>6, <2>8 DEF Tallied
  <2>. QED
    BY <1>2, <2>9, <2>10 DEF TallyInv
<1>. QED
  BY <1>6, <1>7, <1>8 DEF Next

\* The accumulators start empty.
LEMMA TallyStarts ==
  ASSUME Init
  PROVE  TallyInv /\ byProvider \in BOOLEAN /\ byModel \in BOOLEAN
<1>1. /\ agg = NewAggregator /\ quality = NoLengths /\ added = <<>>
      /\ byProvider \in BOOLEAN /\ byModel \in BOOLEAN
  BY DEF Init
<1>2. ToSet(added) = {} /\ DOMAIN added = {}
  BY <1>1 DEF ToSet
<1>3. /\ DOMAIN agg.dur = {} /\ DOMAIN agg.ttft = {} /\ DOMAIN agg.counts = {}
      /\ DOMAIN agg.errcat = {} /\ DOMAIN agg.cost = {} /\ DOMAIN quality.empty = {}
  BY <1>1 DEF NewAggregator, NoLengths
<1>4. Opened(agg, quality, added)
  BY <1>2, <1>3 DEF Opened
<1>5. \A x : Reports(added, x) = 0
  <2>1. \A x : {i \in DOMAIN added : x \in Reported(added[i])} = {}
    BY <1>2
  <2>. QED
    BY <2>1, FS_EmptySet DEF Reports
<1>6. ASSUME NEW o \in Parsed
      PROVE  Tallied(agg, quality, added, o)
  <2>1. /\ At(agg.dur, o.dims, EmptyHist) = EmptyHist /\ At(agg.ttft, o.dims, EmptyHist) = EmptyHist
        /\ At(agg.counts, o.dims, [success |-> 0, error |-> 0]) = [success |-> 0, error |-> 0]
        /\ At(agg.errcat, <<o.dims, o.category>>, 0) = 0
        /\ At(agg.cost, CostKey(o, byProvider), NoCosts) = NoCosts
        /\ At(quality.empty, QualityKey(o, byModel), 0) = 0
    BY <1>3 DEF At
  <2>. QED
    BY <1>5, <2>1 DEF Tallied, EmptyHist, NoCosts
<1>. QED
  BY <1>1, <1>4, <1>6 DEF TallyInv

\* The folded observations are parsed records of the input.
LEMMA AddedParsed ==
  ASSUME LoopInv
  PROVE  ToSet(added) \subseteq Parsed
<1>1. added \in Seq(Parsed)
  BY DEF LoopInv, SeenInv
<1>. QED
  BY <1>1 DEF ToSet

\* A counter has as its value how many observations report it.
LEMMA CountersExact ==
  ASSUME LoopInv, TallyInv, byProvider \in BOOLEAN, NEW stats, NEW p \in RunPoints(stats), p.name \in Counters
  PROVE  p.value = Reports(added, <<p.name, p.dims>>)
<1>1. \A o \in ToSet(added) : o \in Parsed /\ Tallied(agg, quality, added, o)
  BY AddedParsed DEF TallyInv
<1>2. CASE \E k \in DOMAIN agg.dur : p = Point(Time, "request.duration", k, agg.dur[k].count)
  <2>1. PICK k \in DOMAIN agg.dur : p = Point(Time, "request.duration", k, agg.dur[k].count)
    BY <1>2
  <2>2. PICK o \in ToSet(added) : k = o.dims
    BY DEF TallyInv, Opened
  <2>3. At(agg.dur, k, EmptyHist).count = Reports(added, <<"request.duration", k>>)
    BY <1>1, <2>2 DEF Tallied
  <2>. QED
    BY <2>1, <2>3 DEF At, Point
<1>3. CASE \E k \in DOMAIN agg.ttft : p = Point(Time, "request.ttft", k, agg.ttft[k].count)
  <2>1. PICK k \in DOMAIN agg.ttft : p = Point(Time, "request.ttft", k, agg.ttft[k].count)
    BY <1>3
  <2>2. PICK o \in ToSet(added) : k = o.dims
    BY DEF TallyInv, Opened
  <2>3. At(agg.ttft, k, EmptyHist).count = Reports(added, <<"request.ttft", k>>)
    BY <1>1, <2>2 DEF Tallied
  <2>. QED
    BY <2>1, <2>3 DEF At, Point
<1>4. CASE \E k \in DOMAIN agg.counts : \E out \in {"success", "error"} :
             p = Point(Count, "request.count", Put(k, "outcome", out), agg.counts[k][out])
  <2>1. PICK k \in DOMAIN agg.counts : \E out \in {"success", "error"} :
             p = Point(Count, "request.count", Put(k, "outcome", out), agg.counts[k][out])
    BY <1>4
  <2>2. PICK out \in {"success", "error"} :
             p = Point(Count, "request.count", Put(k, "outcome", out), agg.counts[k][out])
    BY <2>1
  <2>3. PICK o \in ToSet(added) : k = o.dims
    BY DEF TallyInv, Opened
  <2>4. agg.counts[k][out] = Reports(added, <<"request.count", Put(k, "outcome", out)>>)
    BY <1>1, <2>3 DEF Tallied, At
  <2>. QED
    BY <2>2, <2>4 DEF Point
<1>5. CASE \E e \in DOMAIN agg.errcat :
             p = Point(Count, "request.errors", Put(e[1], "error_category", e[2]), agg.errcat[e])
  <2>1. PICK e \in DOMAIN agg.errcat :
             p = Point(Count, "request.errors", Put(e[1], "error_category", e[2]), agg.errcat[e])
    BY <1>5
  <2>2. PICK o \in ToSet(added) : e = <<o.dims, o.category>>
    BY DEF TallyInv, Opened
  <2>3. At(agg.errcat, <<o.dims, o.category>>, 0)
          = Reports(added, <<"request.errors", Put(o.dims, "error_category", o.category)>>)
    BY <1>1 DEF Tallied
  <2>4. e[1] = o.dims /\ e[2] = o.category
    BY <2>2
  <2>5. agg.errcat[e] = Reports(added, <<"request.errors", Put(e[1], "error_category", e[2])>>)
    BY <2>2, <2>3, <2>4 DEF At
  <2>. QED
    BY <2>1, <2>5 DEF Point
<1>6. CASE \E k \in DOMAIN agg.cost : \E f \in CostFigures :
             p = Point(CostUnit(f), CostName(f), CostDims(k, byProvider), CostValue(k, f))
  <2>1. PICK k \in DOMAIN agg.cost : \E f \in CostFigures :
             p = Point(CostUnit(f), CostName(f), CostDims(k, byProvider), CostValue(k, f))
    BY <1>6
  <2>2. PICK f \in CostFigures :
             p = Point(CostUnit(f), CostName(f), CostDims(k, byProvider), CostValue(k, f))
    BY <2>1
  <2>3. PICK o \in ToSet(added) : k = CostKey(o, byProvider)
    BY DEF TallyInv, Opened
  <2>4. /\ agg.cost[k].count = Reports(added, <<"cost.request_count", CostDims(k, byProvider)>>)
        /\ agg.cost[k].missing = Reports(added, <<"cost.records_missing", CostDims(k, byProvider)>>)
        /\ agg.cost[k].invalid = Reports(added, <<"cost.records_invalid", CostDims(k, byProvider)>>)
    BY <1>1, <2>3 DEF Tallied, At
  <2>5. p.name = CostName(f) /\ p.dims = CostDims(k, byProvider) /\ p.value = CostValue(k, f)
    BY <2>2 DEF Point
  <2>6. \/ f = "count" /\ p.name = "cost.request_count"
        \/ f = "missing" /\ p.name = "cost.records_missing"
        \/ f = "invalid" /\ p.name = "cost.records_invalid"
    BY <2>5 DEF CostName, CostFigures, CostMetric, Counters
  <2>7. f # "ratio" => CostValue(k, f) = agg.cost[k][f]
    BY DEF CostValue
  <2>. QED
    BY <2>4, <2>5, <2>6, <2>7
<1>7. CASE \E k \in DOMAIN quality.empty :
             p = Point(Count, "quality.empty_completion_count", k, quality.empty[k])
  <2>1. PICK k \in DOMAIN quality.empty :
             p = Point(Count, "quality.empty_completion_count", k, quality.empty[k])
    BY <1>7
  <2>2. PICK o \in ToSet(added) : k = QualityKey(o, byModel)
    BY DEF TallyInv, Opened
  <2>3. At(quality.empty, k, 0) = Reports(added, <<"quality.empty_completion_count", k>>)
    BY <1>1, <2>2 DEF Tallied
  <2>. QED
    BY <2>1, <2>3 DEF At, Point
<1>8. /\ p.name # "quality.completion_length_anomalies" /\ p.name # "pipeline.unknown_dimension"
      /\ p.name # "quality.completion_length_max_zscore" /\ p.name \notin Totals
  BY DEF Counters, Totals, CountTotals, GaugeTotals, TimeTotals
<1>9. /\ ~\E k \in DOMAIN quality.groups :
             p = Point(Count, "quality.completion_length_anomalies", k,
                       ScoreGroup(quality.groups[k]).anomalies)
      /\ ~\E k \in DOMAIN quality.groups :
             p = Point(Gauge("score"), "quality.completion_length_max_zscore", k,
                       ScoreGroup(quality.groups[k]).max)
      /\ ~\E d \in DOMAIN agg.unknown :
             p = Point(Count, "pipeline.unknown_dimension", [dimension |-> d], agg.unknown[d])
      /\ ~\E name \in Totals : p = Total(stats, name)
  BY <1>8 DEF Point, Total
<1>. QED
  BY <1>2, <1>3, <1>4, <1>5, <1>6, <1>7, <1>9, PointShape

\* The value of a point that is no counter of observations follows from its series.
LEMMA OthersDetermined ==
  ASSUME NEW stats, NEW p \in RunPoints(stats), p.name \notin Counters
  PROVE  \/ /\ p.name = "quality.completion_length_anomalies"
            /\ p.value = ScoreGroup(quality.groups[p.dims]).anomalies
         \/ /\ p.name = "pipeline.unknown_dimension"
            /\ p.value = agg.unknown[p.dims.dimension]
         \/ /\ p.name = "quality.completion_length_max_zscore"
            /\ p.value = ScoreGroup(quality.groups[p.dims]).max
         \/ p.name \in Totals /\ p.value = TotalOf(stats, p.name)
         \/ \E k \in DOMAIN agg.cost : \E f \in {"usd", "in", "out", "cached", "hits", "ratio"} :
              /\ p.name = CostName(f) /\ p.dims = CostDims(k, byProvider)
              /\ p.value = CostValue(k, f)
<1>1. \A z, name, k, v : /\ Point(z, name, k, v).name = name /\ Point(z, name, k, v).dims = k
                         /\ Point(z, name, k, v).value = v
  BY DEF Point
<1>2. /\ ~\E k \in DOMAIN agg.dur : p = Point(Time, "request.duration", k, agg.dur[k].count)
      /\ ~\E k \in DOMAIN agg.ttft : p = Point(Time, "request.ttft", k, agg.ttft[k].count)
      /\ ~\E k \in DOMAIN agg.counts : \E out \in {"success", "error"} :
            p = Point(Count, "request.count", Put(k, "outcome", out), agg.counts[k][out])
      /\ ~\E e \in DOMAIN agg.errcat :
            p = Point(Count, "request.errors", Put(e[1], "error_category", e[2]), agg.errcat[e])
      /\ ~\E k \in DOMAIN quality.empty :
            p = Point(Count, "quality.empty_completion_count", k, quality.empty[k])
  BY DEF Counters, Point
<1>3. CASE \E k \in DOMAIN agg.cost : \E f \in CostFigures :
             p = Point(CostUnit(f), CostName(f), CostDims(k, byProvider), CostValue(k, f))
  <2>1. PICK k \in DOMAIN agg.cost : \E f \in CostFigures :
             p = Point(CostUnit(f), CostName(f), CostDims(k, byProvider), CostValue(k, f))
    BY <1>3
  <2>2. PICK f \in CostFigures :
             p = Point(CostUnit(f), CostName(f), CostDims(k, byProvider), CostValue(k, f))
    BY <2>1
  <2>3. f \in {"usd", "in", "out", "cached", "hits", "ratio"}
    <3>1. p.name = CostName(f)
      BY <2>2 DEF Point
    <3>. QED
      BY <3>1 DEF CostName, CostFigures, CostMetric, Counters
  <2>. QED
    BY <2>2, <2>3 DEF Point
<1>4. CASE \E k \in DOMAIN quality.groups :
             \/ p = Point(Count, "quality.completion_length_anomalies", k,
                          ScoreGroup(quality.groups[k]).anomalies)
             \/ p = Point(Gauge("score"), "quality.completion_length_max_zscore", k,
                          ScoreGroup(quality.groups[k]).max)
  BY <1>4 DEF Point
<1>5. CASE \E d \in DOMAIN agg.unknown :
             p = Point(Count, "pipeline.unknown_dimension", [dimension |-> d], agg.unknown[d])
  <2>1. PICK d \in DOMAIN agg.unknown :
             p = Point(Count, "pipeline.unknown_dimension", [dimension |-> d], agg.unknown[d])
    BY <1>5
  <2>2. [dimension |-> d].dimension = d
    OBVIOUS
  <2>. QED
    BY <2>1, <2>2 DEF Point
<1>6. CASE \E name \in Totals : p = Total(stats, name)
  BY <1>6 DEF Point, Total
<1>. QED
  BY <1>2, <1>3, <1>4, <1>5, <1>6, PointShape

\* No two points of a run are the same time series.
LEMMA SeriesUnique ==
  ASSUME LoopInv, TallyInv, byProvider \in BOOLEAN, NEW stats,
         NEW p \in RunPoints(stats), NEW q \in RunPoints(stats),
         p.name = q.name, p.dims = q.dims
  PROVE  p = q
<1>1. ASSUME NEW x \in RunPoints(stats)
      PROVE  x = Point(MetricShape(x.name), x.name, x.dims, x.value)
  <2>1. \A name, k, v : LET y == Point(MetricShape(name), name, k, v)
                        IN  y = Point(MetricShape(y.name), y.name, y.dims, y.value)
    BY DEF Point
  <2>2. \E name, k, v : x = Point(MetricShape(name), name, k, v)
    <3>1. CASE \/ \E k \in DOMAIN agg.dur : x = Point(Time, "request.duration", k, agg.dur[k].count)
               \/ \E k \in DOMAIN agg.ttft : x = Point(Time, "request.ttft", k, agg.ttft[k].count)
               \/ \E k \in DOMAIN agg.counts : \E out \in {"success", "error"} :
                    x = Point(Count, "request.count", Put(k, "outcome", out), agg.counts[k][out])
      BY <3>1, Shapes
    <3>2. CASE \E e \in DOMAIN agg.errcat :
                 x = Point(Count, "request.errors", Put(e[1], "error_category", e[2]), agg.errcat[e])
      BY <3>2, Shapes
    <3>3. CASE \E k \in DOMAIN agg.cost : \E f \in CostFigures :
                 x = Point(CostUnit(f), CostName(f), CostDims(k, byProvider), CostValue(k, f))
      BY <3>3, Shapes
    <3>4. CASE \/ \E k \in DOMAIN quality.groups :
                    x = Point(Count, "quality.completion_length_anomalies", k,
                              ScoreGroup(quality.groups[k]).anomalies)
               \/ \E k \in DOMAIN quality.groups :
                    x = Point(Gauge("score"), "quality.completion_length_max_zscore", k,
                              ScoreGroup(quality.groups[k]).max)
               \/ \E k \in DOMAIN quality.empty :
                    x = Point(Count, "quality.empty_completion_count", k, quality.empty[k])
      BY <3>4, Shapes
    <3>5. CASE \E d \in DOMAIN agg.unknown :
                 x = Point(Count, "pipeline.unknown_dimension", [dimension |-> d], agg.unknown[d])
      BY <3>5, Shapes
    <3>6. CASE \E name \in Totals : x = Total(stats, name)
      BY <3>6 DEF Total
    <3>. QED
      BY <3>1, <3>2, <3>3, <3>4, <3>5, <3>6, PointShape
  <2>. QED
    BY <2>1, <2>2
<1>2. SUFFICES p.value = q.value
  BY <1>1
<1>3. CASE p.name \in Counters
  BY <1>3, CountersExact
<1>4. CASE p.name \notin Counters
  <2>1. {"quality.completion_length_anomalies", "quality.completion_length_max_zscore",
         "pipeline.unknown_dimension"} \cap Totals = {}
    BY DEF Totals, CountTotals, GaugeTotals, TimeTotals
  <2>2. \A f \in {"usd", "in", "out", "cached", "hits", "ratio"} :
          /\ CostName(f) \notin Totals /\ CostName(f) # "quality.completion_length_anomalies"
          /\ CostName(f) # "quality.completion_length_max_zscore"
          /\ CostName(f) # "pipeline.unknown_dimension"
    BY DEF CostName, CostMetric, Totals, CountTotals, GaugeTotals, TimeTotals
  <2>3. CASE p.name = "quality.completion_length_anomalies"
    <3>1. \A x \in {p, q} : x.value = ScoreGroup(quality.groups[x.dims]).anomalies
      BY <1>4, <2>1, <2>2, <2>3, OthersDetermined
    <3>. QED
      BY <3>1
  <2>4. CASE p.name = "quality.completion_length_max_zscore"
    <3>1. \A x \in {p, q} : x.value = ScoreGroup(quality.groups[x.dims]).max
      BY <1>4, <2>1, <2>2, <2>4, OthersDetermined
    <3>. QED
      BY <3>1
  <2>5. CASE p.name = "pipeline.unknown_dimension"
    <3>1. \A x \in {p, q} : x.value = agg.unknown[x.dims.dimension]
      BY <1>4, <2>1, <2>2, <2>5, OthersDetermined
    <3>. QED
      BY <3>1
  <2>6. CASE p.name \in Totals
    <3>1. \A x \in {p, q} : x.value = TotalOf(stats, x.name)
      BY <1>4, <2>1, <2>2, <2>6, OthersDetermined
    <3>. QED
      BY <3>1
  <2>7. CASE \E k \in DOMAIN agg.cost : \E f \in {"usd", "in", "out", "cached", "hits", "ratio"} :
               /\ p.name = CostName(f) /\ p.dims = CostDims(k, byProvider)
               /\ p.value = CostValue(k, f)
    <3>1. PICK k \in DOMAIN agg.cost : \E f \in {"usd", "in", "out", "cached", "hits", "ratio"} :
               /\ p.name = CostName(f) /\ p.dims = CostDims(k, byProvider)
               /\ p.value = CostValue(k, f)
      BY <2>7
    <3>2. PICK f \in {"usd", "in", "out", "cached", "hits", "ratio"} :
               /\ p.name = CostName(f) /\ p.dims = CostDims(k, byProvider)
               /\ p.value = CostValue(k, f)
      BY <3>1
    <3>3. \E j \in DOMAIN agg.cost : \E g \in {"usd", "in", "out", "cached", "hits", "ratio"} :
               /\ q.name = CostName(g) /\ q.dims = CostDims(j, byProvider)
               /\ q.value = CostValue(j, g)
      BY <1>4, <2>2, <3>2, OthersDetermined
    <3>4. PICK j \in DOMAIN agg.cost : \E g \in {"usd", "in", "out", "cached", "hits", "ratio"} :
               /\ q.name = CostName(g) /\ q.dims = CostDims(j, byProvider)
               /\ q.value = CostValue(j, g)
      BY <3>3
    <3>5. PICK g \in {"usd", "in", "out", "cached", "hits", "ratio"} :
               /\ q.name = CostName(g) /\ q.dims = CostDims(j, byProvider)
               /\ q.value = CostValue(j, g)
      BY <3>4
    <3>6. f = g
      <4>1. CostName(f) = CostName(g)
        BY <3>2, <3>5
      <4>. QED
        BY <4>1 DEF CostName, CostMetric
    <3>7. k = j
      <4>1. PICK o \in ToSet(added) : k = CostKey(o, byProvider)
        BY DEF TallyInv, Opened
      <4>2. PICK u \in ToSet(added) : j = CostKey(u, byProvider)
        BY DEF TallyInv, Opened
      <4>3. CostDims(k, byProvider) = CostDims(j, byProvider)
        BY <3>2, <3>5
      <4>. QED
        BY <4>1, <4>2, <4>3, SameCost
    <3>. QED
      BY <3>2, <3>5, <3>6, <3>7
  <2>. QED
    BY <1>4, <2>3, <2>4, <2>5, <2>6, <2>7, OthersDetermined
<1>. QED
  BY <1>3, <1>4

\* All that the folded observations report is there.
LEMMA ReportedEmitted ==
  ASSUME LoopInv, TallyInv, byProvider \in BOOLEAN, NEW stats,
         NEW o \in ToSet(added), NEW x \in Reported(o)
  PROVE  \E p \in RunPoints(stats) : x = <<p.name, p.dims>>
<1>1. SUFFICES \E z, name, k, v : Point(z, name, k, v) \in RunPoints(stats) /\ x = <<name, k>>
  BY DEF Point
<1>. DEFINE c == CostKey(o, byProvider)
            dims == CostDims(c, byProvider)
<1>2. added \in Seq(Parsed) /\ o \in Parsed /\ Tallied(agg, quality, added, o)
  BY AddedParsed DEF TallyInv, LoopInv, SeenInv
<1>3. Reports(added, x) > 0
  BY <1>2, ReportsSome
<1>4. /\ HistPoints("request.duration", agg.dur) \subseteq RunPoints(stats)
      /\ HistPoints("request.ttft", agg.ttft) \subseteq RunPoints(stats)
      /\ CountPoints(agg) \subseteq RunPoints(stats) /\ ErrorPoints(agg) \subseteq RunPoints(stats)
      /\ CostPoints(agg, byProvider) \subseteq RunPoints(stats) /\ QualityPoints(quality) \subseteq RunPoints(stats)
  BY DEF RunPoints, Workload, Build
<1>5. CASE x = <<"request.duration", o.dims>>
  <2>1. o.dims \in DOMAIN agg.dur
    BY DEF TallyInv, Opened
  <2>2. Point(Time, "request.duration", o.dims, agg.dur[o.dims].count) \in RunPoints(stats)
    BY <1>4, <2>1 DEF HistPoints
  <2>. QED
    BY <1>5, <2>2
<1>6. CASE x = <<"request.ttft", o.dims>> /\ o.ttft # NoTime
  <2>1. o.dims \in DOMAIN agg.ttft
    BY <1>6 DEF TallyInv, Opened
  <2>2. Point(Time, "request.ttft", o.dims, agg.ttft[o.dims].count) \in RunPoints(stats)
    BY <1>4, <2>1 DEF HistPoints
  <2>. QED
    BY <1>6, <2>2
<1>7. CASE x = <<"request.count", Put(o.dims, "outcome", IF o.error THEN "error" ELSE "success")>>
  <2>1. o.dims \in DOMAIN agg.counts
    BY DEF TallyInv, Opened
  <2>2. o.error => agg.counts[o.dims].error > 0
    BY <1>2, <1>3, <1>7, <2>1 DEF Tallied, At
  <2>3. PICK out \in {"success", "error"} : out = IF o.error THEN "error" ELSE "success"
    OBVIOUS
  <2>4. Point(Count, "request.count", Put(o.dims, "outcome", out), agg.counts[o.dims][out]) \in CountPoints(agg)
    BY <2>1, <2>2, <2>3 DEF CountPoints
  <2>. QED
    BY <1>4, <1>7, <2>3, <2>4
<1>8. CASE x = <<"request.errors", Put(o.dims, "error_category", o.category)>> /\ o.error
  <2>1. PICK e : e = <<o.dims, o.category>>
    OBVIOUS
  <2>2. e \in DOMAIN agg.errcat /\ e[1] = o.dims /\ e[2] = o.category
    BY <1>8, <2>1 DEF TallyInv, Opened
  <2>3. Point(Count, "request.errors", Put(e[1], "error_category", e[2]), agg.errcat[e]) \in RunPoints(stats)
    BY <1>4, <2>2 DEF ErrorPoints
  <2>. QED
    BY <1>8, <2>2, <2>3
<1>9. c \in DOMAIN agg.cost
  BY DEF TallyInv, Opened
<1>10. ASSUME NEW f \in {"count", "missing", "invalid"}, f # "count" => agg.cost[c][f] > 0
       PROVE  Point(CostShape(f), CostMetric[f], dims, agg.cost[c][f]) \in RunPoints(stats)
  <2>. HIDE DEF c
  <2>1. Point(CostShape(f), CostMetric[f], dims, agg.cost[c][f]) \in CostPoints(agg, byProvider)
    BY <1>9, <1>10 DEF CostPoints
  <2>. QED
    BY <1>4, <2>1
<1>11. CASE x = <<"cost.request_count", dims>>
  <2>1. Point(CostShape("count"), CostMetric["count"], dims, agg.cost[c]["count"]) \in RunPoints(stats)
    BY <1>10
  <2>2. CostMetric["count"] = "cost.request_count"
    BY DEF CostMetric
  <2>. QED
    BY <1>11, <2>1, <2>2
<1>12. CASE x = <<"cost.records_missing", dims>>
  <2>1. agg.cost[c]["missing"] > 0
    BY <1>2, <1>3, <1>9, <1>12 DEF Tallied, At
  <2>2. Point(CostShape("missing"), CostMetric["missing"], dims, agg.cost[c]["missing"]) \in RunPoints(stats)
    BY <1>10, <2>1
  <2>3. CostMetric["missing"] = "cost.records_missing"
    BY DEF CostMetric
  <2>. QED
    BY <1>12, <2>2, <2>3
<1>13. CASE x = <<"cost.records_invalid", dims>>
  <2>1. agg.cost[c]["invalid"] > 0
    BY <1>2, <1>3, <1>9, <1>13 DEF Tallied, At
  <2>2. Point(CostShape("invalid"), CostMetric["invalid"], dims, agg.cost[c]["invalid"]) \in RunPoints(stats)
    BY <1>10, <2>1
  <2>3. CostMetric["invalid"] = "cost.records_invalid"
    BY DEF CostMetric
  <2>. QED
    BY <1>13, <2>2, <2>3
<1>14. CASE x = <<"quality.empty_completion_count", QualityKey(o, byModel)>> /\ ~o.error /\ o.out = 0
  <2>1. QualityKey(o, byModel) \in DOMAIN quality.empty
    BY <1>14 DEF TallyInv, Opened
  <2>2. Point(Count, "quality.empty_completion_count", QualityKey(o, byModel),
              quality.empty[QualityKey(o, byModel)]) \in RunPoints(stats)
    BY <1>4, <2>1 DEF QualityPoints
  <2>. QED
    BY <1>14, <2>2
<1>15. \/ x = <<"request.duration", o.dims>>
       \/ x = <<"request.ttft", o.dims>> /\ o.ttft # NoTime
       \/ x = <<"request.count", Put(o.dims, "outcome", IF o.error THEN "error" ELSE "success")>>
       \/ x = <<"request.errors", Put(o.dims, "error_category", o.category)>> /\ o.error
       \/ x = <<"cost.request_count", dims>> \/ x = <<"cost.records_missing", dims>>
       \/ x = <<"cost.records_invalid", dims>>
       \/ x = <<"quality.empty_completion_count", QualityKey(o, byModel)>> /\ ~o.error /\ o.out = 0
  BY DEF Reported
<1>. QED
  BY <1>5, <1>6, <1>7, <1>8, <1>11, <1>12, <1>13, <1>14, <1>15

\* The points of a run lose and invent nothing, for every input: no two of them are one
\* time series, and each counter has exactly the observations folded with its dimensions.
THEOREM Conserved == Spec => []PointsConserveObservations
<1>. DEFINE Inv == LoopInv /\ TallyInv /\ byProvider \in BOOLEAN /\ byModel \in BOOLEAN
<1>1. Init => Inv
  BY LoopStarts, TallyStarts
<1>2. Inv /\ [Next]_vars => Inv'
  <2>1. [Next]_vars => byProvider' = byProvider /\ byModel' = byModel
    BY DEF Next, vars, config, RejectMalformed, Quarantine, RejectBlankId, DropDuplicate,
       DropCrossRun, Process, Pulled, EndOfInput, Truncate, SourceFails, Finish, Over
  <2>. QED
    BY <2>1, LoopStep, TallyStep
<1>3. Inv => PointsConserveObservations
  <2>. SUFFICES ASSUME Inv PROVE PointsConserveObservations
    OBVIOUS
  <2>1. ASSUME NEW stats \in SourceStats
        PROVE  /\ \A p, q \in RunPoints(stats) : p.name = q.name /\ p.dims = q.dims => p = q
               /\ \A p \in RunPoints(stats) :
                    p.name \in Counters => p.value = Reports(added, <<p.name, p.dims>>)
               /\ UNION {Reported(o) : o \in ToSet(added)}
                    \subseteq {<<p.name, p.dims>> : p \in RunPoints(stats)}
    <3>1. \A p, q \in RunPoints(stats) : p.name = q.name /\ p.dims = q.dims => p = q
      BY SeriesUnique
    <3>2. \A p \in RunPoints(stats) :
            p.name \in Counters => p.value = Reports(added, <<p.name, p.dims>>)
      BY CountersExact
    <3>3. UNION {Reported(o) : o \in ToSet(added)}
            \subseteq {<<p.name, p.dims>> : p \in RunPoints(stats)}
      BY ReportedEmitted
    <3>. QED
      BY <3>1, <3>2, <3>3
  <2>. QED
    BY <2>1 DEF PointsConserveObservations
<1>. QED
  BY <1>1, <1>2, <1>3, PTL DEF Spec

-----------------------------------------------------------------------------
(* Sums                                                                    *)

\* Of some numbers there is a least.
LEMMA LeastNat ==
  ASSUME NEW T \in SUBSET Nat, T # {}
  PROVE  \E x \in T : \A y \in T : x <= y
<1>1. IsWellFoundedOn(OpToRel(<, Nat), Nat)
  BY NatLessThanWellFounded
<1>2. PICK x \in T : \A y \in T : ~(<<y, x>> \in OpToRel(<, Nat))
  BY <1>1, WFMin
<1>3. ASSUME NEW y \in T
      PROVE  x <= y
  <2>1. <<y, x>> \notin OpToRel(<, Nat)
    BY <1>2
  <2>2. ~(y < x)
    BY <2>1 DEF OpToRel
  <2>. QED
    BY <2>2
<1>. QED
  BY <1>3

\* Induction over the subsets of a finite set: a family that has a set when it has all
\* that lack one of its elements has every subset.
LEMMA SubsetInduction ==
  ASSUME NEW S, IsFiniteSet(S), NEW F,
         \A T \in SUBSET S : (\A x \in T : T \ {x} \in F) => T \in F
  PROVE  SUBSET S \subseteq F
<1>. SUFFICES ASSUME NEW U \in SUBSET S, U \notin F PROVE FALSE
  OBVIOUS
<1>. DEFINE N == {Cardinality(T) : T \in {X \in SUBSET S : X \notin F}}
<1>1. \A T \in SUBSET S : IsFiniteSet(T) /\ Cardinality(T) \in Nat
  BY FS_Subset, FS_CardinalityType
<1>2. N \in SUBSET Nat /\ N # {}
  BY <1>1
<1>3. PICK n \in N : \A m \in N : n <= m
  <2>. HIDE DEF N
  <2>. QED
    BY <1>2, LeastNat
<1>4. PICK T \in SUBSET S : T \notin F /\ n = Cardinality(T)
  BY <1>3
<1>5. PICK x \in T : T \ {x} \notin F
  BY <1>4
<1>6. Cardinality(T \ {x}) = Cardinality(T) - 1
  BY <1>1, FS_RemoveElement
<1>7. n \in Nat /\ Cardinality(T \ {x}) \in N
  BY <1>1, <1>4, <1>5
<1>8. n <= n - 1
  <2>. HIDE DEF N
  <2>. QED
    BY <1>3, <1>4, <1>6, <1>7
<1>. QED
  BY <1>7, <1>8

-----------------------------------------------------------------------------
\* The sum of some values.
Sum(f, S) == FoldFunctionOnSet(+, 0, f, S)

\* The element the fold takes first.
First(s) == CHOOSE x \in s : TRUE

\* The function the fold is defined by.
Summing(f, S, iter) ==
  iter = [s \in SUBSET S |-> IF s = {} THEN 0 ELSE f[First(s)] + iter[s \ {First(s)}]]

\* A value at a time.
LEMMA SummingStep ==
  ASSUME NEW f, NEW S, NEW iter, Summing(f, S, iter)
  PROVE  \A s \in SUBSET S : iter[s] = IF s = {} THEN 0 ELSE f[First(s)] + iter[s \ {First(s)}]
  BY Zenon DEF Summing

\* Two such functions agree where both are defined.
LEMMA SummingAgree ==
  ASSUME NEW f, NEW A, NEW B, NEW a, NEW b, NEW T, IsFiniteSet(T),
         T \subseteq A, T \subseteq B, Summing(f, A, a), Summing(f, B, b)
  PROVE  a[T] = b[T]
<1>. DEFINE F == {s \in SUBSET T : a[s] = b[s]}
<1>1. ASSUME NEW s \in SUBSET T, \A x \in s : s \ {x} \in F
      PROVE  s \in F
  <2>1. a[s] = IF s = {} THEN 0 ELSE f[First(s)] + a[s \ {First(s)}]
    BY SummingStep
  <2>2. b[s] = IF s = {} THEN 0 ELSE f[First(s)] + b[s \ {First(s)}]
    BY SummingStep
  <2>3. s # {} => First(s) \in s
    BY DEF First
  <2>4. s # {} => a[s \ {First(s)}] = b[s \ {First(s)}]
    BY <1>1, <2>3
  <2>. QED
    BY <2>1, <2>2, <2>4
<1>2. SUBSET T \subseteq F
  <2>. HIDE DEF F
  <2>. QED
    BY <1>1, SubsetInduction
<1>. QED
  BY <1>2

\* There is such a function for every finite set.
LEMMA SummingExists ==
  ASSUME NEW f, NEW S, IsFiniteSet(S)
  PROVE  \E iter : Summing(f, S, iter)
<1>. DEFINE h(U) == CHOOSE iter : Summing(f, U, iter)
            G == {T \in SUBSET S : \A U \in SUBSET T : Summing(f, U, h(U))}
<1>1. ASSUME NEW T \in SUBSET S, \A x \in T : T \ {x} \in G
      PROVE  T \in G
  <2>. DEFINE rest(s) == s \ {First(s)}
              new == [s \in SUBSET T |-> IF s = {} THEN 0 ELSE f[First(s)] + h(rest(s))[rest(s)]]
  <2>1. ASSUME NEW U \in SUBSET T, U # T
        PROVE  Summing(f, U, h(U))
    <3>1. PICK x \in T : U \in SUBSET (T \ {x})
      BY <2>1
    <3>. QED
      BY <1>1, <3>1
  <2>2. ASSUME NEW s \in SUBSET T, s # {}
        PROVE  First(s) \in s /\ rest(s) \in SUBSET T /\ rest(s) # T /\ rest(s) \subseteq s
    <3>1. First(s) \in s
      BY <2>2 DEF First
    <3>. QED
      BY <3>1
  <2>3. ASSUME NEW s \in SUBSET T, s # {}
        PROVE  new[s] = f[First(s)] + new[rest(s)]
    <3>. DEFINE r == rest(s)
    <3>0. Summing(f, r, h(r))
      <4>. HIDE DEF rest, h
      <4>. QED
        BY <2>1, <2>2, <2>3
    <3>1. r \in SUBSET T /\ r \subseteq s /\ IsFiniteSet(r)
      <4>1. IsFiniteSet(T)
        BY FS_Subset
      <4>. QED
        BY <2>2, <2>3, <4>1, FS_Subset
    <3>2. h(r)[r] = IF r = {} THEN 0 ELSE f[First(r)] + h(r)[rest(r)]
      <4>. DEFINE g == h(r)
      <4>1. \A t \in SUBSET r : g[t] = IF t = {} THEN 0 ELSE f[First(t)] + g[t \ {First(t)}]
        <5>. HIDE DEF h, r
        <5>. QED
          BY <3>0, SummingStep
      <4>. HIDE DEF h
      <4>. QED
        BY <4>1
    <3>3. r # {} => h(r)[rest(r)] = h(rest(r))[rest(r)]
      <4>. SUFFICES ASSUME r # {} PROVE h(r)[rest(r)] = h(rest(r))[rest(r)]
        OBVIOUS
      <4>1. Summing(f, rest(r), h(rest(r))) /\ rest(r) \subseteq r
        <5>. HIDE DEF rest, h
        <5>. QED
          BY <2>1, <2>2, <3>1
      <4>2. IsFiniteSet(rest(r))
        BY <3>1, <4>1, FS_Subset
      <4>. HIDE DEF h, rest
      <4>. QED
        BY <3>0, <3>1, <4>1, <4>2, SummingAgree
    <3>4. new[r] = h(r)[r]
      <4>. HIDE DEF h, rest
      <4>. QED
        BY <3>1, <3>2, <3>3
    <3>. QED
      BY <2>3, <3>4
  <2>4. new[{}] = 0
    OBVIOUS
  <2>5. Summing(f, T, new)
    <3>1. \A s \in SUBSET T : new[s] = IF s = {} THEN 0 ELSE f[First(s)] + new[rest(s)]
      <4>. HIDE DEF new, rest
      <4>. QED
        BY <2>3, <2>4
    <3>2. new = [s \in SUBSET T |-> new[s]]
      OBVIOUS
    <3>. HIDE DEF new, h
    <3>. QED
      BY <3>1, <3>2, Zenon DEF Summing
  <2>6. Summing(f, T, h(T))
    <3>. HIDE DEF new
    <3>. QED
      BY <2>5
  <2>7. \A U \in SUBSET T : Summing(f, U, h(U))
    BY <2>1, <2>6
  <2>. QED
    BY <2>7
<1>2. SUBSET S \subseteq G
  <2>. HIDE DEF G
  <2>. QED
    BY <1>1, SubsetInduction
<1>. QED
  BY <1>2

\* The sum is a value of the function.
LEMMA SumIs ==
  ASSUME NEW f, NEW S, IsFiniteSet(S)
  PROVE  \E iter : Summing(f, S, iter) /\ Sum(f, S) = iter[S]
<1>1. Sum(f, S) = (CHOOSE iter : Summing(f, S, iter))[S]
  BY Zenon DEF Sum, FoldFunctionOnSet, MapThenFoldSet, Summing, First
<1>2. Summing(f, S, CHOOSE iter : Summing(f, S, iter))
  BY SummingExists
<1>. QED
  BY <1>1, <1>2

\* Nothing sums to nothing.
LEMMA SumEmpty == ASSUME NEW f PROVE Sum(f, {}) = 0
<1>1. PICK iter : Summing(f, {}, iter) /\ Sum(f, {}) = iter[{}]
  BY SumIs, FS_EmptySet
<1>. QED
  BY <1>1, SummingStep

\* The first value and the sum of the others.
LEMMA SumPick ==
  ASSUME NEW f, NEW S, IsFiniteSet(S), S # {}
  PROVE  First(S) \in S /\ Sum(f, S) = f[First(S)] + Sum(f, S \ {First(S)})
<1>. DEFINE R == S \ {First(S)}
<1>1. First(S) \in S
  BY DEF First
<1>2. PICK a : Summing(f, S, a) /\ Sum(f, S) = a[S]
  BY SumIs
<1>3. IsFiniteSet(R)
  BY FS_Subset
<1>4. PICK b : Summing(f, R, b) /\ Sum(f, R) = b[R]
  BY <1>3, SumIs
<1>5. a[R] = b[R]
  BY <1>2, <1>3, <1>4, SummingAgree
<1>6. a[S] = f[First(S)] + a[R]
  BY <1>2, SummingStep
<1>. QED
  BY <1>1, <1>2, <1>4, <1>5, <1>6

\* The sum of integers is an integer.
LEMMA SumType ==
  ASSUME NEW f, NEW S, IsFiniteSet(S), \A x \in S : f[x] \in Int
  PROVE  Sum(f, S) \in Int
<1>. DEFINE F == {T \in SUBSET S : Sum(f, T) \in Int}
<1>1. ASSUME NEW T \in SUBSET S, \A x \in T : T \ {x} \in F
      PROVE  T \in F
  <2>1. CASE T = {}
    BY <2>1, SumEmpty
  <2>2. CASE T # {}
    <3>1. IsFiniteSet(T)
      BY FS_Subset
    <3>2. First(T) \in T /\ Sum(f, T) = f[First(T)] + Sum(f, T \ {First(T)})
      BY <2>2, <3>1, SumPick
    <3>. QED
      BY <1>1, <3>2
  <2>. QED
    BY <2>1, <2>2
<1>2. SUBSET S \subseteq F
  <2>. HIDE DEF F
  <2>. QED
    BY <1>1, SubsetInduction
<1>. QED
  BY <1>2

\* Any value and the sum of the others.
LEMMA SumRemove ==
  ASSUME NEW f, NEW S, IsFiniteSet(S), \A x \in S : f[x] \in Int, NEW e \in S
  PROVE  Sum(f, S) = f[e] + Sum(f, S \ {e})
<1>. DEFINE F == {T \in SUBSET S : \A x \in T : Sum(f, T) = f[x] + Sum(f, T \ {x})}
<1>1. ASSUME NEW T \in SUBSET S, \A x \in T : T \ {x} \in F
      PROVE  T \in F
  <2>. SUFFICES ASSUME NEW x \in T PROVE Sum(f, T) = f[x] + Sum(f, T \ {x})
    OBVIOUS
  <2>. DEFINE y == First(T)
  <2>1. IsFiniteSet(T)
    BY FS_Subset
  <2>2. y \in T /\ Sum(f, T) = f[y] + Sum(f, T \ {y})
    BY <2>1, SumPick
  <2>3. CASE x # y
    <3>1. Sum(f, T \ {y}) = f[x] + Sum(f, (T \ {y}) \ {x})
      BY <1>1, <2>2, <2>3
    <3>2. Sum(f, T \ {x}) = f[y] + Sum(f, (T \ {x}) \ {y})
      BY <1>1, <2>2, <2>3
    <3>3. (T \ {x}) \ {y} = (T \ {y}) \ {x}
      OBVIOUS
    <3>4. Sum(f, (T \ {y}) \ {x}) \in Int /\ f[x] \in Int /\ f[y] \in Int
      BY <2>1, <2>2, FS_Subset, SumType
    <3>5. Sum(f, (T \ {x}) \ {y}) = Sum(f, (T \ {y}) \ {x})
      BY <3>3
    <3>. HIDE DEF y
    <3>. QED
      BY <2>2, <3>1, <3>2, <3>4, <3>5
  <2>. QED
    BY <2>2, <2>3
<1>2. SUBSET S \subseteq F
  <2>. HIDE DEF F
  <2>. QED
    BY <1>1, SubsetInduction
<1>. QED
  BY <1>2

\* The sum of the same values over other indices.
LEMMA SumImage ==
  ASSUME NEW f, NEW g, NEW p, NEW S, IsFiniteSet(S),
         \A x \in S : g[p[x]] \in Int /\ f[x] = g[p[x]],
         \A x, y \in S : p[x] = p[y] => x = y
  PROVE  Sum(f, S) = Sum(g, {p[x] : x \in S})
<1>. DEFINE image(T) == {p[x] : x \in T}
            F == {T \in SUBSET S : IsFiniteSet(image(T)) /\ Sum(f, T) = Sum(g, image(T))}
<1>1. ASSUME NEW T \in SUBSET S, \A x \in T : T \ {x} \in F
      PROVE  T \in F
  <2>1. CASE T = {}
    <3>1. image(T) = {}
      BY <2>1
    <3>. QED
      BY <2>1, <3>1, SumEmpty, FS_EmptySet
  <2>2. CASE T # {}
    <3>1. PICK x \in T : TRUE
      BY <2>2
    <3>2. image(T \ {x}) = image(T) \ {p[x]} /\ p[x] \in image(T)
      OBVIOUS
    <3>3. IsFiniteSet(image(T) \ {p[x]})
      BY <1>1, <3>1, <3>2
    <3>4. IsFiniteSet(image(T))
      <4>1. (image(T) \ {p[x]}) \cup {p[x]} = image(T)
        BY <3>2
      <4>2. IsFiniteSet((image(T) \ {p[x]}) \cup {p[x]})
        BY <3>3, FS_AddElement
      <4>. QED
        BY <4>1, <4>2
    <3>5. Sum(f, T) = f[x] + Sum(f, T \ {x})
      <4>1. IsFiniteSet(T)
        BY FS_Subset
      <4>. QED
        BY <4>1, SumRemove
    <3>6. Sum(g, image(T)) = g[p[x]] + Sum(g, image(T) \ {p[x]})
      <4>1. \A y \in image(T) : g[y] \in Int
        OBVIOUS
      <4>. HIDE DEF image
      <4>. QED
        BY <3>2, <3>4, <4>1, SumRemove
    <3>7. Sum(f, T \ {x}) = Sum(g, image(T) \ {p[x]})
      BY <1>1, <3>1, <3>2
    <3>8. IsFiniteSet(image(T)) /\ Sum(f, T) = Sum(g, image(T))
      BY <3>4, <3>5, <3>6, <3>7
    <3>. QED
      BY <3>8
  <2>. QED
    BY <2>1, <2>2
<1>2. SUBSET S \subseteq F
  <2>. HIDE DEF F
  <2>. QED
    BY <1>1, SubsetInduction
<1>3. S \in F
  <2>. HIDE DEF F
  <2>. QED
    BY <1>2
<1>. QED
  BY <1>3

\* A sum of counts, each of the places with one value, counts the places with any of them.
LEMMA SumFibres ==
  ASSUME NEW f, NEW g, NEW J, NEW S, IsFiniteSet(J), IsFiniteSet(S),
         \A b \in S : f[b] = Cardinality({j \in J : g[j] = b})
  PROVE  Sum(f, S) = Cardinality({j \in J : g[j] \in S})
<1>. DEFINE places(T) == {j \in J : g[j] \in T}
            F == {T \in SUBSET S : Sum(f, T) = Cardinality(places(T))}
<1>0. \A T : IsFiniteSet(places(T)) /\ Cardinality(places(T)) \in Nat
  BY FS_Subset, FS_CardinalityType
<1>1. ASSUME NEW T \in SUBSET S, \A x \in T : T \ {x} \in F
      PROVE  T \in F
  <2>1. CASE T = {}
    <3>1. places(T) = {}
      BY <2>1
    <3>. QED
      BY <2>1, <3>1, SumEmpty, FS_EmptySet
  <2>2. CASE T # {}
    <3>1. PICK b \in T : TRUE
      BY <2>2
    <3>2. Sum(f, T) = f[b] + Sum(f, T \ {b})
      <4>1. IsFiniteSet(T)
        BY FS_Subset
      <4>2. \A x \in T : f[x] \in Int
        <5>1. \A x \in S : {j \in J : g[j] = x} \in SUBSET J
          OBVIOUS
        <5>2. \A x \in S : Cardinality({j \in J : g[j] = x}) \in Nat
          BY <5>1, FS_Subset, FS_CardinalityType
        <5>3. \A x \in T : f[x] \in Nat
          BY Zenon, <5>2
        <5>. QED
          BY <5>3
      <4>. QED
        BY <4>1, <4>2, SumRemove
    <3>3. f[b] = Cardinality({j \in J : g[j] = b})
      OBVIOUS
    <3>4. Cardinality(places(T)) =
            Cardinality({j \in J : g[j] = b}) + Cardinality(places(T \ {b}))
      <4>. DEFINE A == {j \in J : g[j] = b}
                  B == places(T \ {b})
      <4>1. places(T) = A \cup B /\ A \cap B = {}
        BY <3>1
      <4>2. IsFiniteSet(A) /\ IsFiniteSet(B)
        BY FS_Subset
      <4>3. Cardinality(A) \in Nat /\ Cardinality(B) \in Nat
        <5>. HIDE DEF A, B
        <5>. QED
          BY <4>2, FS_CardinalityType
      <4>4. Cardinality(A \cup B) = Cardinality(A) + Cardinality(B) - Cardinality(A \cap B)
        <5>. HIDE DEF A, B
        <5>. QED
          BY <4>2, FS_Union
      <4>. HIDE DEF A, B
      <4>5. Cardinality(A \cup B) = Cardinality(A) + Cardinality(B)
        <5>1. Cardinality(A \cap B) = 0
          BY <4>1, FS_EmptySet, Zenon
        <5>. QED
          BY <4>3, <4>4, <5>1
      <4>6. Cardinality(places(T)) = Cardinality(A) + Cardinality(B)
        BY <4>1, <4>5
      <4>. QED
        BY <4>6 DEF A, B
    <3>5. Sum(f, T \ {b}) = Cardinality(places(T \ {b}))
      BY <1>1, <3>1
    <3>6. Sum(f, T) = Cardinality(places(T))
      <4>. HIDE DEF places
      <4>. QED
        BY <3>2, <3>3, <3>4, <3>5
    <3>. QED
      BY <3>6
  <2>. QED
    BY <2>1, <2>2
<1>2. SUBSET S \subseteq F
  <2>. HIDE DEF F
  <2>. QED
    BY <1>1, SubsetInduction
<1>. QED
  BY <1>2

\* The sum of natural numbers is at least each of them, and nothing when they are.
LEMMA SumNatural ==
  ASSUME NEW f, NEW S, IsFiniteSet(S), \A x \in S : f[x] \in Nat
  PROVE  /\ Sum(f, S) \in Nat
         /\ \A x \in S : f[x] <= Sum(f, S)
         /\ (\A x \in S : f[x] = 0) => Sum(f, S) = 0
<1>. DEFINE P(T) == /\ Sum(f, T) \in Nat
                    /\ \A x \in T : f[x] <= Sum(f, T)
                    /\ (\A x \in T : f[x] = 0) => Sum(f, T) = 0
            F == {T \in SUBSET S : P(T)}
<1>1. ASSUME NEW T \in SUBSET S, \A x \in T : T \ {x} \in F
      PROVE  T \in F
  <2>1. CASE T = {}
    BY <2>1, SumEmpty
  <2>2. CASE T # {}
    <3>1. \A x \in T : Sum(f, T) = f[x] + Sum(f, T \ {x})
      <4>1. IsFiniteSet(T)
        BY FS_Subset
      <4>. QED
        BY <4>1, SumRemove
    <3>2. \A x \in T : P(T \ {x})
      BY <1>1
    <3>3. PICK x \in T : TRUE
      BY <2>2
    <3>4. ASSUME NEW y \in T
          PROVE  Sum(f, T) \in Nat /\ f[y] <= Sum(f, T)
      <4>1. Sum(f, T \ {y}) \in Nat
        BY <3>2
      <4>2. Sum(f, T) = f[y] + Sum(f, T \ {y})
        BY <3>1
      <4>3. f[y] \in Nat
        OBVIOUS
      <4>. QED
        BY <4>1, <4>2, <4>3
    <3>5. Sum(f, T) \in Nat
      BY <3>3, <3>4
    <3>6. ASSUME \A y \in T : f[y] = 0
          PROVE  Sum(f, T) = 0
      <4>1. Sum(f, T \ {x}) = 0
        BY <3>2, <3>3, <3>6
      <4>. QED
        BY <3>1, <3>3, <3>6, <4>1
    <3>7. P(T)
      BY <3>4, <3>5, <3>6, Zenon
    <3>. QED
      BY <3>7
  <2>. QED
    BY <2>1, <2>2
<1>2. SUBSET S \subseteq F
  <2>. HIDE DEF F
  <2>. QED
    BY <1>1, SubsetInduction
<1>3. S \in F
  <2>. HIDE DEF F
  <2>. QED
    BY <1>2
<1>. QED
  BY <1>3

-----------------------------------------------------------------------------
(* PercentilesTrackRanks                                                   *)

\* The least of a set of places.
LEMMA MinIs ==
  ASSUME NEW S \in SUBSET Int, NEW m \in S, \A x \in S : m <= x
  PROVE  Min(S) = m
<1>1. \A x \in S : (\A y \in S : x <= y) => x = m
  OBVIOUS
<1>. QED
  BY <1>1 DEF Min

\* The bounds of the buckets.
LEMMA BoundsTyped ==
  /\ Len(Bounds) \in Nat /\ Overflow = Len(Bounds) + 1 /\ Overflow \in Nat \ {0, 1}
  /\ DOMAIN Bounds = 1..Len(Bounds) /\ \A i \in 1..Len(Bounds) : Bounds[i] \in Int
<1>1. Bounds \in Seq(Int) /\ Bounds # <<>>
  BY BoundsAssumption
<1>2. Len(Bounds) \in Nat /\ Len(Bounds) # 0
  BY <1>1, EmptySeq
<1>3. DOMAIN Bounds = 1..Len(Bounds) /\ \A i \in 1..Len(Bounds) : Bounds[i] \in Int
  BY <1>1
<1>. QED
  BY <1>2, <1>3 DEF Overflow

\* The bucket of a value is the one it lies in.
LEMMA BucketIs ==
  ASSUME NEW v \in Int
  PROVE  /\ BucketOf(v) \in 1..Overflow
         /\ BucketOf(v) # Overflow => v <= Bounds[BucketOf(v)]
         /\ \A i \in 1..(BucketOf(v) - 1) : Bounds[i] < v
<1>. DEFINE S == {i \in DOMAIN Bounds : v <= Bounds[i]} \cup {Overflow}
<1>1. S \in SUBSET (1..Overflow) /\ Overflow \in S /\ Overflow \in Nat
  BY BoundsTyped
<1>2. PICK m \in S : \A j \in S : m <= j
  <2>. HIDE DEF S
  <2>. QED
    BY <1>1, FirstPlace
<1>3. BucketOf(v) = m
  <2>1. S \in SUBSET Int
    BY <1>1
  <2>2. Min(S) = m
    <3>. HIDE DEF S
    <3>. QED
      BY <1>2, <2>1, MinIs
  <2>. QED
    BY <2>2 DEF BucketOf
<1>4. m # Overflow => v <= Bounds[m]
  BY <1>2
<1>5. ASSUME NEW i \in 1..(m - 1)
      PROVE  Bounds[i] < v
  <2>1. m \in 1..Overflow
    BY <1>1, <1>2
  <2>2. i \in 1..Len(Bounds) /\ ~(m <= i)
    BY <2>1, BoundsTyped
  <2>3. i \notin S
    BY <1>2, <2>2
  <2>. QED
    BY <2>2, <2>3, BoundsTyped
<1>. QED
  BY <1>1, <1>2, <1>3, <1>4, <1>5

\* Where a sequence has the observations of a series.
PlacesOf(s, k) == {i \in DOMAIN s : s[i].dims = k}

\* A histogram that tells what some latencies are: how many lie in each bucket, and
\* the least and the greatest.
Summarises(h, s, k) ==
  LET mine == PlacesOf(s, k)
  IN  /\ h.count = Cardinality(mine)
      /\ h.counts = [b \in 1..Overflow |->
                       Cardinality({i \in mine : BucketOf(s[i].latency) = b})]
      /\ mine = {} => h.min = NoTime /\ h.max = NoTime
      /\ mine # {} => /\ \E i \in mine : h.min = s[i].latency
                      /\ \E i \in mine : h.max = s[i].latency
                      /\ \A i \in mine : h.min <= s[i].latency /\ s[i].latency <= h.max

\* The histograms of a run are those of the latencies it has folded.
HistInv ==
  /\ \A i \in DOMAIN added : added[i].latency \in Nat
  /\ \A o \in Parsed : Summarises(At(agg.dur, o.dims, EmptyHist), added, o.dims)

\* The places of a series are finitely many.
LEMMA PlacesOfTyped ==
  ASSUME NEW P, NEW s \in Seq(P), NEW k
  PROVE  /\ PlacesOf(s, k) \in SUBSET (1..Len(s)) /\ Len(s) \in Nat
         /\ IsFiniteSet(PlacesOf(s, k)) /\ Cardinality(PlacesOf(s, k)) \in Nat
         /\ \A S \in SUBSET PlacesOf(s, k) :
              /\ IsFiniteSet(S) /\ Cardinality(S) \in Nat
              /\ Cardinality(S) <= Cardinality(PlacesOf(s, k))
<1>1. PlacesOf(s, k) \in SUBSET (1..Len(s)) /\ Len(s) \in Nat
  BY DEF PlacesOf
<1>2. IsFiniteSet(PlacesOf(s, k)) /\ Cardinality(PlacesOf(s, k)) \in Nat
  BY <1>1, PlacesFinite
<1>. QED
  BY <1>1, <1>2, FS_Subset, FS_CardinalityType

\* An observation more adds its place to its series.
LEMMA PlacesOfGrow ==
  ASSUME NEW P, NEW s \in Seq(P), NEW o \in P, NEW k
  PROVE  /\ PlacesOf(Append(s, o), k) =
              IF o.dims = k THEN PlacesOf(s, k) \cup {Len(s) + 1} ELSE PlacesOf(s, k)
         /\ Len(s) + 1 \notin PlacesOf(s, k)
         /\ \A i \in PlacesOf(s, k) : Append(s, o)[i] = s[i]
         /\ Append(s, o)[Len(s) + 1] = o
<1>. DEFINE n == Len(s)
            t == Append(s, o)
<1>1. n \in Nat /\ DOMAIN s = 1..n /\ DOMAIN t = 1..(n + 1)
  BY AppendProperties
<1>2. (\A i \in 1..n : t[i] = s[i]) /\ t[n + 1] = o
  BY AppendProperties
<1>3. 1..(n + 1) = (1..n) \cup {n + 1} /\ n + 1 \notin 1..n
  BY <1>1
<1>. HIDE DEF t, n
<1>4. PlacesOf(t, k) = (IF o.dims = k THEN PlacesOf(s, k) \cup {n + 1} ELSE PlacesOf(s, k))
  BY <1>1, <1>2, <1>3 DEF PlacesOf
<1>5. n + 1 \notin PlacesOf(s, k) /\ \A i \in PlacesOf(s, k) : t[i] = s[i]
  BY <1>1, <1>2, <1>3 DEF PlacesOf
<1>. QED
  BY <1>2, <1>4, <1>5 DEF t, n

\* A histogram to which a latency is added tells what the latencies are with it.
LEMMA HistGrows ==
  ASSUME NEW P, NEW s \in Seq(P), NEW o \in P, NEW k, NEW h, o.latency \in Nat,
         \A i \in PlacesOf(s, k) : s[i].latency \in Nat,
         Summarises(h, s, k)
  PROVE  Summarises(IF o.dims = k THEN HistAdd(h, o.latency) ELSE h, Append(s, o), k)
<1>. DEFINE t == Append(s, o)
            n == Len(s) + 1
            A == PlacesOf(s, k)
            B == PlacesOf(t, k)
            inA(b) == {i \in A : BucketOf(s[i].latency) = b}
            inB(b) == {i \in B : BucketOf(t[i].latency) = b}
            v == o.latency
            g == HistAdd(h, v)
<1>1. /\ B = (IF o.dims = k THEN A \cup {n} ELSE A) /\ n \notin A
      /\ \A i \in A : t[i] = s[i]
      /\ t[n] = o
  <2>1. B = (IF o.dims = k THEN A \cup {n} ELSE A)
    BY PlacesOfGrow
  <2>2. n \notin A
    BY PlacesOfGrow
  <2>3. ASSUME NEW i \in A
        PROVE  t[i] = s[i]
    <3>1. i \in 1..Len(s)
      BY PlacesOfTyped
    <3>. QED
      BY <3>1, AppendProperties
  <2>4. t[n] = o
    BY PlacesOfGrow
  <2>. HIDE DEF t, A, B, n
  <2>. QED
    BY <2>1, <2>2, <2>3, <2>4
<1>2. IsFiniteSet(A) /\ Cardinality(A) \in Nat
  BY PlacesOfTyped
<1>3. \A b : IsFiniteSet(inA(b)) /\ Cardinality(inA(b)) \in Nat
  BY PlacesOfTyped
<1>4. /\ h.count = Cardinality(A) /\ h.counts = [b \in 1..Overflow |-> Cardinality(inA(b))]
      /\ A = {} => h.min = NoTime /\ h.max = NoTime
      /\ A # {} => /\ \E i \in A : h.min = s[i].latency
                   /\ \E i \in A : h.max = s[i].latency
                   /\ \A i \in A : h.min <= s[i].latency /\ s[i].latency <= h.max
  BY DEF Summarises
<1>. HIDE DEF t, A, B, n
<1>5. CASE o.dims # k
  <2>1. B = A
    BY <1>1, <1>5
  <2>2. \A b : inB(b) = inA(b)
    BY <1>1, <2>1
  <2>3. Summarises(h, t, k)
    BY <1>1, <1>4, <2>1, <2>2 DEF Summarises, A, B
  <2>. QED
    BY <1>5, <2>3 DEF t
<1>6. CASE o.dims = k
  <2>1. B = A \cup {n}
    BY <1>1, <1>6
  <2>2. Cardinality(B) = Cardinality(A) + 1
    BY <1>1, <1>2, <2>1, FS_AddElement
  <2>3. ASSUME NEW b
        PROVE  Cardinality(inB(b)) = IF b = BucketOf(v) THEN Cardinality(inA(b)) + 1
                                     ELSE Cardinality(inA(b))
    <3>1. n \notin inA(b)
      BY <1>1
    <3>2. inB(b) = (IF b = BucketOf(v) THEN inA(b) \cup {n} ELSE inA(b))
      BY <1>1, <2>1
    <3>3. IsFiniteSet(inA(b))
      BY <1>3
    <3>. HIDE DEF inA, inB
    <3>. QED
      BY <3>1, <3>2, <3>3, FS_AddElement
  <2>4. g.count = Cardinality(B)
    BY <1>4, <2>2 DEF HistAdd
  <2>5. g.counts = [b \in 1..Overflow |-> Cardinality(inB(b))]
    <3>1. g.counts = [h.counts EXCEPT ![BucketOf(v)] = @ + 1]
      BY DEF HistAdd
    <3>2. BucketOf(v) \in 1..Overflow
      <4>1. v \in Int
        OBVIOUS
      <4>. HIDE DEF v
      <4>. QED
        BY <4>1, BucketIs
    <3>. HIDE DEF inA, inB, g, v
    <3>3. DOMAIN h.counts = 1..Overflow /\ \A b \in 1..Overflow : h.counts[b] = Cardinality(inA(b))
      BY <1>4
    <3>4. g.counts = [b \in 1..Overflow |-> IF b = BucketOf(v) THEN h.counts[b] + 1 ELSE h.counts[b]]
      BY <3>1, <3>2, <3>3
    <3>5. \A b \in 1..Overflow :
            (IF b = BucketOf(v) THEN h.counts[b] + 1 ELSE h.counts[b]) = Cardinality(inB(b))
      BY <2>3, <3>3
    <3>. QED
      BY <3>4, <3>5
  <2>6. /\ g.min = (IF h.min = NoTime \/ v < h.min THEN v ELSE h.min)
        /\ g.max = (IF h.max = NoTime \/ v > h.max THEN v ELSE h.max)
    BY DEF HistAdd
  <2>7. /\ \E i \in B : g.min = t[i].latency /\ \A j \in B : g.min <= t[j].latency
        /\ \E i \in B : g.max = t[i].latency /\ \A j \in B : t[j].latency <= g.max
    <3>1. CASE A = {}
      <4>1. g.min = v /\ g.max = v
        BY <1>4, <2>6, <3>1
      <4>2. B = {n} /\ t[n].latency = v
        BY <1>1, <2>1, <3>1
      <4>. HIDE DEF g
      <4>. QED
        BY <4>1, <4>2
    <3>2. CASE A # {}
      <4>1. \A i \in A : t[i].latency = s[i].latency /\ t[i].latency \in Nat
        BY <1>1 DEF A
      <4>2. PICK i \in A : h.min = t[i].latency
        BY <1>4, <3>2, <4>1
      <4>3. PICK j \in A : h.max = t[j].latency
        BY <1>4, <3>2, <4>1
      <4>4. h.min \in Nat /\ h.max \in Nat /\ h.min # NoTime /\ h.max # NoTime
        BY <4>1, <4>2, <4>3 DEF NoTime
      <4>5. t[n].latency = v /\ v \in Nat
        BY <1>1
      <4>6. \A x \in A : h.min <= t[x].latency /\ t[x].latency <= h.max
        BY <1>4, <3>2, <4>1
      <4>. HIDE DEF g, v
      <4>7. g.min = (IF v < h.min THEN v ELSE h.min) /\ g.max = (IF v > h.max THEN v ELSE h.max)
        BY <2>6, <4>4
      <4>8. \A x \in B : g.min <= t[x].latency /\ t[x].latency <= g.max
        BY <2>1, <4>1, <4>4, <4>5, <4>6, <4>7
      <4>9. \E x \in B : g.min = t[x].latency
        BY <2>1, <4>2, <4>5, <4>7
      <4>10. \E x \in B : g.max = t[x].latency
        BY <2>1, <4>3, <4>5, <4>7
      <4>. QED
        BY <4>8, <4>9, <4>10
    <3>. QED
      BY <3>1, <3>2
  <2>8. Summarises(g, t, k)
    <3>. HIDE DEF g
    <3>. QED
      BY <2>1, <2>4, <2>5, <2>7 DEF Summarises, B
  <2>. QED
    BY <1>6, <2>8 DEF t
<1>. QED
  BY <1>5, <1>6
\* Where the accumulator of a map is kept.
LEMMA HistStarts ==
  ASSUME Init
  PROVE  HistInv
<1>1. agg = NewAggregator /\ added = <<>>
  BY DEF Init
<1>2. DOMAIN added = {} /\ \A k : PlacesOf(added, k) = {}
  BY <1>1 DEF PlacesOf
<1>3. ASSUME NEW k
      PROVE  Summarises(EmptyHist, added, k)
  <2>1. Cardinality(PlacesOf(added, k)) = 0
    BY <1>2, FS_EmptySet
  <2>2. \A b : {i \in PlacesOf(added, k) : BucketOf(added[i].latency) = b} = {}
    BY <1>2
  <2>3. \A b : Cardinality({i \in PlacesOf(added, k) : BucketOf(added[i].latency) = b}) = 0
    BY <2>2, FS_EmptySet
  <2>. QED
    BY <1>2, <2>1, <2>3 DEF Summarises, EmptyHist
<1>4. \A o : At(agg.dur, o.dims, EmptyHist) = EmptyHist
  BY <1>1 DEF NewAggregator, At
<1>. QED
  BY <1>2, <1>3, <1>4 DEF HistInv

\* An observation of a well-formed record has a natural latency.
LEMMA LatencyTyped ==
  ASSUME NEW r, Numeric(r), ~Malformed(r), ~Poison(r)
  PROVE  Parse(r).latency \in Nat
<1>1. r.start \in Int /\ r.end \in Int /\ ~(r.end < r.start)
  BY DEF Numeric, Malformed, Poison
<1>. QED
  BY <1>1 DEF Parse

\* Every step of the pass keeps the histograms in agreement with what was folded.
LEMMA HistStep ==
  ASSUME LoopInv, HistInv, [Next]_vars
  PROVE  HistInv'
<1>1. input' = input
  BY DEF Next, vars, RejectMalformed, Quarantine, RejectBlankId, DropDuplicate,
     DropCrossRun, Process, Pulled, EndOfInput, Truncate, SourceFails, Finish, Over
<1>2. Parsed' = Parsed
  BY <1>1 DEF Parsed
<1>3. CASE UNCHANGED <<agg, added>>
  BY <1>2, <1>3 DEF HistInv
<1>4. CASE UNCHANGED vars \/ Over \/ EndOfInput \/ Truncate \/ SourceFails
  BY <1>3, <1>4 DEF Over, vars, EndOfInput, Truncate, SourceFails, Finish, folded
<1>5. CASE RejectMalformed \/ Quarantine \/ RejectBlankId \/ DropDuplicate \/ DropCrossRun
  BY <1>3, <1>5 DEF RejectMalformed, Quarantine, RejectBlankId, DropDuplicate, DropCrossRun,
     Untouched, folded
<1>6. CASE Process
  <2>1. recordsRead + 1 \in 1..Len(input)
    <3>1. recordsRead < Len(input) /\ recordsRead \in Nat /\ Len(input) \in Nat
      BY <1>6 DEF Process, Pulled, LoopInv, Progress
    <3>. QED
      BY <3>1
  <2>2. PICK n \in Parsed : n = Parse(Raw)
    BY <2>1 DEF Parsed, Raw
  <2>3. n.latency \in Nat
    <3>1. Numeric(Raw)
      BY <2>1, LoopAssumption DEF LoopInv, Raw
    <3>2. ~Malformed(Raw) /\ ~Poison(Raw)
      BY <1>6 DEF Process, Identified, Usable, Parses
    <3>. QED
      BY <2>2, <3>1, <3>2, LatencyTyped
  <2>4. PICK s \in Seq(Parsed) : s = added
    BY DEF LoopInv, SeenInv
  <2>5. PICK f : f = agg.dur
    OBVIOUS
  <2>6. /\ added' = Append(s, n)
        /\ agg'.dur = Put(f, n.dims, HistAdd(At(f, n.dims, EmptyHist), n.latency))
    BY <1>6, <2>2, <2>4, <2>5 DEF Process, AddTo
  <2>7. DOMAIN s = 1..Len(s) /\ Len(s) \in Nat /\ \A i \in 1..Len(s) : s[i].latency \in Nat
    BY <2>4 DEF HistInv
  <2>8. \A i \in DOMAIN Append(s, n) : Append(s, n)[i].latency \in Nat
    <3>1. DOMAIN Append(s, n) = (1..Len(s)) \cup {Len(s) + 1}
      BY <2>7, AppendProperties
    <3>2. (\A i \in 1..Len(s) : Append(s, n)[i] = s[i]) /\ Append(s, n)[Len(s) + 1] = n
      BY AppendProperties
    <3>. QED
      BY <2>3, <2>7, <3>1, <3>2
  <2>9. ASSUME NEW o \in Parsed
        PROVE  Summarises(At(agg'.dur, o.dims, EmptyHist), Append(s, n), o.dims)
    <3>. DEFINE h == At(f, o.dims, EmptyHist)
    <3>1. Summarises(h, s, o.dims)
      BY <2>4, <2>5 DEF HistInv
    <3>2. \A i \in PlacesOf(s, o.dims) : s[i].latency \in Nat
      BY <2>7 DEF PlacesOf
    <3>3. At(agg'.dur, o.dims, EmptyHist) = IF n.dims = o.dims THEN HistAdd(h, n.latency) ELSE h
      BY <2>6, PutAt
    <3>. HIDE DEF h
    <3>4. Summarises(IF n.dims = o.dims THEN HistAdd(h, n.latency) ELSE h, Append(s, n), o.dims)
      BY <2>3, <3>1, <3>2, HistGrows
    <3>. QED
      BY <3>3, <3>4
  <2>. QED
    BY <1>2, <2>6, <2>8, <2>9 DEF HistInv
<1>. QED
  BY <1>4, <1>5, <1>6 DEF Next

\* Some numbers of which there are finitely many have a greatest.
LEMMA GreatestOf ==
  ASSUME NEW S \in SUBSET Int, IsFiniteSet(S), S # {}
  PROVE  \E m \in S : \A x \in S : x <= m
<1>. DEFINE F == {T \in SUBSET S : T = {} \/ \E m \in T : \A x \in T : x <= m}
<1>1. ASSUME NEW T \in SUBSET S, \A x \in T : T \ {x} \in F
      PROVE  T \in F
  <2>1. SUFFICES ASSUME T # {} PROVE \E m \in T : \A x \in T : x <= m
    OBVIOUS
  <2>2. PICK e \in T : TRUE
    BY <2>1
  <2>3. CASE T \ {e} = {}
    <3>1. T = {e} /\ e \in Int
      BY <2>3
    <3>. QED
      BY <3>1
  <2>4. CASE \E m \in T \ {e} : \A x \in T \ {e} : x <= m
    <3>1. PICK m \in T \ {e} : \A x \in T \ {e} : x <= m
      BY <2>4
    <3>2. m \in Int /\ e \in Int
      OBVIOUS
    <3>3. CASE m <= e
      <4>1. \A x \in T : x \in Int /\ x <= e
        BY <3>1, <3>2, <3>3
      <4>. QED
        BY <4>1
    <3>4. CASE e <= m
      <4>1. \A x \in T : x <= m
        BY <3>1, <3>4
      <4>. QED
        BY <4>1
    <3>. QED
      BY <3>2, <3>3, <3>4
  <2>5. T \ {e} \in F
    BY <1>1
  <2>. QED
    BY <2>3, <2>4, <2>5
<1>2. SUBSET S \subseteq F
  <2>. HIDE DEF F
  <2>. QED
    BY <1>1, SubsetInduction
<1>. QED
  BY <1>2

\* The values of a finite family are finitely many.
LEMMA FamilyRange ==
  ASSUME NEW l, IsFiniteSet(DOMAIN l)
  PROVE  /\ Range(l) = {l[i] : i \in DOMAIN l} /\ IsFiniteSet(Range(l))
         /\ \A S \in SUBSET DOMAIN l : IsFiniteSet({l[i] : i \in S})
<1>1. \A S \in SUBSET DOMAIN l : IsFiniteSet(S)
  BY FS_Subset
<1>2. \A S \in SUBSET DOMAIN l : IsFiniteSet({l[i] : i \in S})
  <2>1. SUFFICES ASSUME NEW S \in SUBSET DOMAIN l PROVE IsFiniteSet({l[i] : i \in S})
    OBVIOUS
  <2>. DEFINE f == [i \in S |-> l[i]]
  <2>2. f \in Surjection(S, {l[i] : i \in S})
    BY DEF Surjection
  <2>. QED
    BY <1>1, <2>2, FS_Surjection
<1>3. Range(l) = {l[i] : i \in DOMAIN l}
  BY DEF Range
<1>. QED
  BY <1>2, <1>3

\* A finite family of numbers, at least one.
Family(l) ==
  IsFiniteSet(DOMAIN l) /\ DOMAIN l # {} /\ \A i \in DOMAIN l : l[i] \in Nat

\* How many places have at most a value.
UpTo(l, v) == {i \in DOMAIN l : l[i] <= v}

\* Places are counted.
LEMMA UpToTyped ==
  ASSUME NEW l, Family(l)
  PROVE  /\ Cardinality(DOMAIN l) \in Nat \ {0}
         /\ \A v : /\ IsFiniteSet(UpTo(l, v)) /\ Cardinality(UpTo(l, v)) \in Nat
                   /\ Cardinality(UpTo(l, v)) <= Cardinality(DOMAIN l)
<1>1. IsFiniteSet(DOMAIN l) /\ DOMAIN l # {}
  BY DEF Family
<1>2. Cardinality(DOMAIN l) \in Nat /\ Cardinality(DOMAIN l) # 0
  BY <1>1, FS_CardinalityType, FS_EmptySet
<1>3. \A v : UpTo(l, v) \subseteq DOMAIN l
  BY DEF UpTo
<1>4. \A v : /\ IsFiniteSet(UpTo(l, v)) /\ Cardinality(UpTo(l, v)) \in Nat
             /\ Cardinality(UpTo(l, v)) <= Cardinality(DOMAIN l)
  BY <1>1, <1>3, FS_Subset, FS_CardinalityType
<1>. QED
  BY <1>2, <1>4

\* The greatest value of a family that is at most a limit.
LEMMA GreatestUpTo ==
  ASSUME NEW l, Family(l), NEW v \in Int, UpTo(l, v) # {}
  PROVE  \E i \in DOMAIN l : l[i] <= v /\ UpTo(l, l[i]) = UpTo(l, v)
<1>. DEFINE S == {l[i] : i \in UpTo(l, v)}
<1>1. \A i \in DOMAIN l : l[i] \in Nat
  BY DEF Family
<1>2. UpTo(l, v) \in SUBSET DOMAIN l /\ IsFiniteSet(DOMAIN l)
  BY DEF UpTo, Family
<1>3. IsFiniteSet(S)
  BY <1>2, FamilyRange
<1>4. S # {} /\ S \in SUBSET Int
  BY <1>1, <1>2
<1>5. PICK m \in S : \A x \in S : x <= m
  <2>. HIDE DEF S
  <2>. QED
    BY <1>3, <1>4, GreatestOf
<1>6. PICK i \in UpTo(l, v) : m = l[i]
  BY <1>5
<1>7. i \in DOMAIN l /\ l[i] <= v
  BY <1>6 DEF UpTo
<1>8. \A j \in DOMAIN l : l[j] <= v => l[j] <= l[i]
  <2>1. \A j \in UpTo(l, v) : l[j] \in S
    OBVIOUS
  <2>2. \A j \in UpTo(l, v) : l[j] <= l[i]
    <3>. HIDE DEF S
    <3>. QED
      BY <1>5, <1>6, <2>1
  <2>. QED
    BY <2>2 DEF UpTo
<1>9. \A j \in DOMAIN l : l[j] <= l[i] => l[j] <= v
  BY <1>1, <1>7
<1>. QED
  BY <1>7, <1>8, <1>9 DEF UpTo

\* The nearest value is one of the family, enough of it is at most that, and not enough
\* is at most any smaller one.
LEMMA NearestIs ==
  ASSUME NEW l, Family(l), NEW num \in Nat, NEW den \in Nat,
         num <= den * Cardinality(DOMAIN l)
  PROVE  LET m == Nearest(l, num, den)
         IN  /\ \E i \in DOMAIN l : m = l[i]
             /\ den * Cardinality(UpTo(l, m)) >= num
             /\ \A i \in DOMAIN l : den * Cardinality(UpTo(l, l[i])) >= num => m <= l[i]
<1>. DEFINE T == {v \in Range(l) : den * Cardinality(UpTo(l, v)) >= num}
<1>0. IsFiniteSet(DOMAIN l) /\ DOMAIN l # {} /\ \A i \in DOMAIN l : l[i] \in Nat
  BY DEF Family
<1>1. Range(l) = {l[i] : i \in DOMAIN l} /\ IsFiniteSet(Range(l))
  BY <1>0, FamilyRange
<1>2. Range(l) \in SUBSET Nat /\ Range(l) # {} /\ Range(l) \in SUBSET Int
  BY <1>0, <1>1
<1>3. PICK g \in Range(l) : \A x \in Range(l) : x <= g
  BY <1>1, <1>2, GreatestOf
<1>4. UpTo(l, g) = DOMAIN l
  BY <1>1, <1>3 DEF UpTo
<1>5. g \in T
  BY <1>4
<1>6. T \in SUBSET Nat /\ T # {} /\ T \in SUBSET Int
  BY <1>2, <1>5
<1>7. PICK m \in T : \A x \in T : m <= x
  <2>. HIDE DEF T
  <2>. QED
    BY <1>6, LeastNat
<1>8. Min(T) = m
  <2>. HIDE DEF T
  <2>. QED
    BY <1>6, <1>7, MinIs
<1>9. Nearest(l, num, den) = m
  BY <1>8 DEF Nearest, UpTo
<1>10. \E i \in DOMAIN l : m = l[i]
  BY <1>1, <1>7
<1>11. \A i \in DOMAIN l : den * Cardinality(UpTo(l, l[i])) >= num => m <= l[i]
  BY <1>1, <1>7
<1>. QED
  BY <1>7, <1>9, <1>10, <1>11

\* A value is at most a bound when its bucket is not above the bound's.
LEMMA BucketUpTo ==
  ASSUME NEW v \in Int, NEW i \in DOMAIN Bounds
  PROVE  BucketOf(v) <= i <=> v <= Bounds[i]
<1>1. BucketOf(v) \in 1..Overflow /\ i \in 1..Len(Bounds) /\ Bounds[i] \in Int
  BY BucketIs, BoundsTyped
<1>2. ASSUME v <= Bounds[i], i < BucketOf(v)
      PROVE  FALSE
  <2>1. i \in 1..(BucketOf(v) - 1)
    BY <1>1, <1>2
  <2>2. Bounds[i] < v
    BY <2>1, BucketIs
  <2>. QED
    BY <1>1, <1>2, <2>2
<1>3. ASSUME BucketOf(v) <= i
      PROVE  v <= Bounds[i]
  <2>1. BucketOf(v) # Overflow /\ BucketOf(v) \in 1..Len(Bounds)
    BY <1>1, <1>3, BoundsTyped
  <2>2. v <= Bounds[BucketOf(v)]
    BY <2>1, BucketIs
  <2>3. Bounds[BucketOf(v)] \in Int /\ Bounds[BucketOf(v)] <= Bounds[i]
    <3>1. BucketOf(v) = i \/ BucketOf(v) < i
      BY <1>1, <1>3
    <3>2. BucketOf(v) < i => Bounds[BucketOf(v)] < Bounds[i]
      BY <1>1, <2>1, BoundsTyped, BoundsAssumption
    <3>. QED
      BY <1>1, <2>1, <3>1, <3>2, BoundsTyped
  <2>. QED
    BY <1>1, <2>2, <2>3
<1>. QED
  BY <1>1, <1>2, <1>3

\* The values of a greater bucket are greater.
LEMMA BucketMonotone ==
  ASSUME NEW v \in Int, NEW w \in Int, v <= w
  PROVE  BucketOf(v) <= BucketOf(w)
<1>1. BucketOf(v) \in 1..Overflow /\ BucketOf(w) \in 1..Overflow
  BY BucketIs
<1>2. CASE BucketOf(w) = Overflow
  BY <1>1, <1>2
<1>3. CASE BucketOf(w) # Overflow
  <2>1. BucketOf(w) \in DOMAIN Bounds /\ BucketOf(w) \in 1..Len(Bounds)
    BY <1>1, <1>3, BoundsTyped
  <2>2. w <= Bounds[BucketOf(w)] /\ Bounds[BucketOf(w)] \in Int
    BY <1>3, <2>1, BucketIs, BoundsTyped
  <2>3. v <= Bounds[BucketOf(w)]
    BY <2>2
  <2>. QED
    BY <2>1, <2>3, BucketUpTo
<1>. QED
  BY <1>2, <1>3

\* The histogram of a family.
HistOf(h, l) ==
  /\ h.count = Cardinality(DOMAIN l)
  /\ h.counts = [b \in 1..Overflow |-> Cardinality({i \in DOMAIN l : BucketOf(l[i]) = b})]
  /\ \E i \in DOMAIN l : h.min = l[i]
  /\ \E i \in DOMAIN l : h.max = l[i]
  /\ \A i \in DOMAIN l : h.min <= l[i] /\ l[i] <= h.max

\* The observations below a bucket, and with it, are those at most a bound.
LEMMA BelowIs ==
  ASSUME NEW l, Family(l), NEW h, HistOf(h, l), NEW i \in 1..Overflow
  PROVE  /\ Below(h, i) = IF i = 1 THEN 0 ELSE Cardinality(UpTo(l, Bounds[i - 1]))
         /\ h.counts[i] \in Nat /\ Below(h, i) \in Nat
         /\ i # Overflow => Below(h, i) + h.counts[i] = Cardinality(UpTo(l, Bounds[i]))
<1>. DEFINE J == DOMAIN l
            g == [j \in J |-> BucketOf(l[j])]
            at(b) == {j \in J : g[j] = b}
            under(b) == {j \in J : g[j] \in 1..(b - 1)}
<1>1. IsFiniteSet(J) /\ \A j \in J : l[j] \in Int
  BY DEF Family
<1>2. \A j \in J : g[j] \in 1..Overflow
  BY <1>1, BucketIs
<1>3. \A b \in 1..Overflow : h.counts[b] = Cardinality(at(b))
  BY DEF HistOf
<1>4. IsFiniteSet(1..(i - 1)) /\ 1..(i - 1) \subseteq 1..Overflow /\ i \in Int /\ Overflow \in Nat
  <2>1. i \in Int /\ Overflow \in Nat /\ i <= Overflow
    BY BoundsTyped
  <2>. QED
    BY <2>1, FS_Interval
<1>5. Below(h, i) = Cardinality(under(i))
  <2>1. Below(h, i) = Sum(h.counts, 1..(i - 1))
    BY DEF Below, Sum
  <2>2. \A b \in 1..(i - 1) : h.counts[b] = Cardinality(at(b))
    BY <1>3, <1>4
  <2>3. PICK S : S = 1..(i - 1)
    OBVIOUS
  <2>4. Sum(h.counts, S) = Cardinality({j \in J : g[j] \in S})
    <3>1. IsFiniteSet(J) /\ IsFiniteSet(S)
      BY <1>1, <1>4, <2>3
    <3>2. \A b \in S : h.counts[b] = Cardinality({j \in J : g[j] = b})
      BY <2>2, <2>3
    <3>. HIDE DEF J, g
    <3>. QED
      BY <3>1, <3>2, SumFibres
  <2>5. Sum(h.counts, 1..(i - 1)) = Cardinality(under(i))
    BY <2>3, <2>4
  <2>. QED
    BY <2>1, <2>5
<1>6. ASSUME NEW b \in DOMAIN Bounds
      PROVE  under(b + 1) = UpTo(l, Bounds[b])
  <2>1. b \in Int /\ b >= 1
    BY BoundsTyped
  <2>2. \A j \in J : g[j] \in 1..b <=> l[j] <= Bounds[b]
    BY <1>1, <1>2, <2>1, BucketUpTo
  <2>3. \A j \in J : g[j] \in 1..((b + 1) - 1) <=> l[j] <= Bounds[b]
    BY <2>1, <2>2
  <2>. QED
    BY <2>3 DEF UpTo
<1>7. ASSUME i = 1
      PROVE  Below(h, i) = 0
  <2>1. under(i) = {}
    BY <1>2, <1>7
  <2>. HIDE DEF under
  <2>. QED
    BY <1>5, <1>7, <2>1, FS_EmptySet
<1>8. ASSUME i # 1
      PROVE  Below(h, i) = Cardinality(UpTo(l, Bounds[i - 1]))
  <2>1. i - 1 \in DOMAIN Bounds /\ (i - 1) + 1 = i
    BY <1>4, <1>8, BoundsTyped
  <2>2. under(i) = UpTo(l, Bounds[i - 1])
    BY <1>6, <2>1
  <2>. HIDE DEF under
  <2>. QED
    BY <1>5, <1>8, <2>2
<1>9. IsFiniteSet(under(i)) /\ IsFiniteSet(at(i)) /\ Cardinality(under(i)) \in Nat
      /\ Cardinality(at(i)) \in Nat
  BY <1>1, FS_Subset, FS_CardinalityType
<1>10. h.counts[i] = Cardinality(at(i))
  BY <1>3
<1>11. ASSUME i # Overflow
       PROVE  Below(h, i) + h.counts[i] = Cardinality(UpTo(l, Bounds[i]))
  <2>1. i \in DOMAIN Bounds
    BY <1>4, <1>11, BoundsTyped
  <2>2. under(i + 1) = under(i) \cup at(i) /\ under(i) \cap at(i) = {}
    <3>1. \A x \in Int : x \in 1..((i + 1) - 1) <=> x \in 1..(i - 1) \/ x = i
      BY <1>4
    <3>2. i \notin 1..(i - 1)
      BY <1>4
    <3>3. \A j \in J : g[j] \in Int
      BY <1>2, <1>4
    <3>. HIDE DEF J, g
    <3>. QED
      BY <3>1, <3>2, <3>3
  <2>. HIDE DEF under, at
  <2>3. Cardinality(under(i) \cup at(i)) = Cardinality(under(i)) + Cardinality(at(i))
                                            - Cardinality(under(i) \cap at(i))
    BY <1>9, FS_Union
  <2>4. Cardinality(under(i) \cap at(i)) = 0
    BY <2>2, FS_EmptySet, Zenon
  <2>5. Cardinality(under(i + 1)) = Cardinality(under(i)) + Cardinality(at(i))
    <3>1. Cardinality(under(i + 1)) = Cardinality(under(i) \cup at(i))
      BY <2>2
    <3>. QED
      BY <1>9, <2>3, <2>4, <3>1
  <2>6. under(i + 1) = UpTo(l, Bounds[i])
    BY <1>6, <2>1
  <2>. QED
    BY <1>5, <1>10, <2>5, <2>6
<1>12. Below(h, i) = IF i = 1 THEN 0 ELSE Cardinality(UpTo(l, Bounds[i - 1]))
  BY <1>7, <1>8
<1>13. h.counts[i] \in Nat /\ Below(h, i) \in Nat
  <2>. HIDE DEF under, at
  <2>. QED
    BY <1>5, <1>9, <1>10
<1>. QED
  BY <1>11, <1>12, <1>13

\* Products with a natural number keep the order.
LEMMA TimesKeeps ==
  ASSUME NEW a \in Int, NEW b \in Int, a <= b, NEW c \in Nat
  PROVE  a * c <= b * c
<1>1. (b - a) * c >= 0
  BY SMT
<1>2. (b - a) * c = b * c - a * c
  BY SMT
<1>3. a * c \in Int /\ b * c \in Int
  OBVIOUS
<1>. QED
  BY <1>1, <1>2, <1>3

\* The least and the greatest of two numbers.
LEMMA MaxOfTwo ==
  ASSUME NEW a \in Int, NEW b \in Int
  PROVE  /\ Max({a, b}) = IF a <= b THEN b ELSE a
         /\ Min({a, b}) = IF a <= b THEN a ELSE b
<1>1. {a, b} \in SUBSET Int
  OBVIOUS
<1>2. CASE a <= b
  <2>1. \A x \in {a, b} : a <= x /\ x <= b
    BY <1>2
  <2>2. Max({a, b}) = b
    BY <1>1, <2>1, MaxIs
  <2>3. Min({a, b}) = a
    BY <1>1, <2>1, MinIs
  <2>. QED
    BY <1>2, <2>2, <2>3
<1>3. CASE ~(a <= b)
  <2>1. \A x \in {a, b} : b <= x /\ x <= a
    BY <1>3
  <2>2. Max({a, b}) = a
    BY <1>1, <2>1, MaxIs
  <2>3. Min({a, b}) = b
    BY <1>1, <2>1, MinIs
  <2>. QED
    BY <1>3, <2>2, <2>3
<1>. QED
  BY <1>2, <1>3

\* The bucket of the nearest rank is the first that reaches the target.
LEMMA RankBucket ==
  ASSUME NEW l, Family(l), NEW h, HistOf(h, l), NEW target \in Nat \ {0},
         target <= 100 * Cardinality(DOMAIN l)
  PROVE  LET r == Nearest(l, target, 100)
             b == BucketOf(r)
         IN  /\ r \in Nat /\ h.min <= r /\ r <= h.max /\ b \in 1..Overflow
             /\ 100 * Below(h, b) < target
             /\ b # Overflow => target <= 100 * (Below(h, b) + h.counts[b]) /\ h.counts[b] > 0
             /\ \A i \in 1..(b - 1) : 100 * (Below(h, i) + h.counts[i]) < target
<1>1. PICK r : r = Nearest(l, target, 100)
  OBVIOUS
<1>2. /\ \E i \in DOMAIN l : r = l[i]
      /\ 100 * Cardinality(UpTo(l, r)) >= target
      /\ \A i \in DOMAIN l : 100 * Cardinality(UpTo(l, l[i])) >= target => r <= l[i]
  BY <1>1, NearestIs
<1>3. \A i \in DOMAIN l : l[i] \in Nat
  BY DEF Family
<1>4. r \in Nat /\ h.min <= r /\ r <= h.max
  BY <1>2, <1>3 DEF HistOf
<1>5. PICK b \in 1..Overflow : b = BucketOf(r)
  BY <1>4, BucketIs
<1>6. Overflow \in Nat /\ \A i \in 1..(b - 1) : i \in DOMAIN Bounds /\ i # Overflow /\ i \in 1..Overflow
  BY BoundsTyped
<1>7. ASSUME NEW i \in 1..(b - 1)
      PROVE  100 * Cardinality(UpTo(l, Bounds[i])) < target
  <2>1. Bounds[i] \in Int /\ Bounds[i] < r
    BY <1>4, <1>5, <1>6, BucketIs, BoundsTyped
  <2>2. IsFiniteSet(UpTo(l, Bounds[i])) /\ Cardinality(UpTo(l, Bounds[i])) \in Nat
    BY UpToTyped
  <2>3. CASE UpTo(l, Bounds[i]) = {}
    <3>1. Cardinality(UpTo(l, Bounds[i])) = 0
      BY <2>3, FS_EmptySet
    <3>. QED
      BY <3>1
  <2>4. CASE UpTo(l, Bounds[i]) # {}
    <3>1. PICK j \in DOMAIN l : l[j] <= Bounds[i] /\ UpTo(l, l[j]) = UpTo(l, Bounds[i])
      BY <2>1, <2>4, GreatestUpTo
    <3>2. l[j] < r /\ l[j] \in Nat
      BY <1>3, <1>4, <2>1, <3>1
    <3>3. ~(100 * Cardinality(UpTo(l, l[j])) >= target)
      BY <1>2, <1>4, <3>2
    <3>4. Cardinality(UpTo(l, l[j])) = Cardinality(UpTo(l, Bounds[i]))
      BY <3>1
    <3>. QED
      BY <2>2, <3>3, <3>4
  <2>. QED
    BY <2>3, <2>4
<1>8. ASSUME NEW i \in 1..(b - 1)
      PROVE  100 * (Below(h, i) + h.counts[i]) < target
  <2>1. Below(h, i) + h.counts[i] = Cardinality(UpTo(l, Bounds[i]))
    BY <1>6, BelowIs
  <2>. QED
    BY <1>7, <2>1
<1>9. 100 * Below(h, b) < target
  <2>1. CASE b = 1
    <3>1. Below(h, b) = 0
      BY <2>1, BelowIs
    <3>. QED
      BY <3>1
  <2>2. CASE b # 1
    <3>1. Below(h, b) = Cardinality(UpTo(l, Bounds[b - 1]))
      BY <2>2, BelowIs
    <3>2. b - 1 \in 1..(b - 1)
      BY <1>6, <2>2
    <3>. QED
      BY <1>7, <3>1, <3>2
  <2>. QED
    BY <2>1, <2>2
<1>10. ASSUME b # Overflow
       PROVE  target <= 100 * (Below(h, b) + h.counts[b]) /\ h.counts[b] > 0
  <2>1. Below(h, b) + h.counts[b] = Cardinality(UpTo(l, Bounds[b]))
    BY <1>10, BelowIs
  <2>2. r <= Bounds[b] /\ Bounds[b] \in Int
    <3>1. b \in 1..Len(Bounds)
      BY <1>10, BoundsTyped
    <3>. QED
      BY <1>4, <1>5, <1>10, <3>1, BucketIs, BoundsTyped
  <2>3. UpTo(l, r) \subseteq UpTo(l, Bounds[b])
    BY <1>3, <1>4, <2>2 DEF UpTo
  <2>4. Cardinality(UpTo(l, r)) <= Cardinality(UpTo(l, Bounds[b]))
        /\ Cardinality(UpTo(l, r)) \in Nat /\ Cardinality(UpTo(l, Bounds[b])) \in Nat
    BY <2>3, UpToTyped, FS_Subset
  <2>5. target <= 100 * (Below(h, b) + h.counts[b])
    BY <1>2, <2>1, <2>4
  <2>6. h.counts[b] \in Nat /\ Below(h, b) \in Nat
    BY BelowIs
  <2>. QED
    BY <1>9, <2>5, <2>6
<1>. QED
  BY <1>1, <1>4, <1>5, <1>8, <1>9, <1>10

-----------------------------------------------------------------------------
\* The estimate of a percentile in a bucket.
Estimates(e, h, q, b) ==
  /\ h.count = 1 => e = <<h.min, 1>>
  /\ h.count # 1 /\ b = Overflow => e = <<h.max, 1>>
  /\ h.count # 1 /\ b # Overflow => e = Interpolated(h, q, b)

\* What a percentile is, given the bucket of its nearest rank.
LEMMA PercentileIs ==
  ASSUME NEW l, Family(l), NEW h, HistOf(h, l), NEW q \in 1..100,
         NEW b, b = BucketOf(Nearest(l, q * Cardinality(DOMAIN l), 100))
  PROVE  Estimates(Percentile(h, q), h, q, b)
<1>1. PICK n \in Nat \ {0} : n = Cardinality(DOMAIN l)
  BY UpToTyped
<1>2. h.count = n
  BY <1>1 DEF HistOf
<1>3. PICK target \in Nat \ {0} : target = q * n /\ target <= 100 * n
  <2>1. 1 * n <= q * n /\ q * n <= 100 * n
    BY TimesKeeps
  <2>2. q * n \in Int /\ 1 * n = n
    OBVIOUS
  <2>. QED
    BY <2>1, <2>2
<1>4. b = BucketOf(Nearest(l, target, 100))
  BY <1>1, <1>3
<1>5. /\ b \in 1..Overflow
      /\ b # Overflow => target <= 100 * (Below(h, b) + h.counts[b]) /\ h.counts[b] > 0
      /\ \A i \in 1..(b - 1) : 100 * (Below(h, i) + h.counts[i]) < target
  BY <1>1, <1>3, <1>4, RankBucket
<1>. DEFINE hits == {i \in DOMAIN Bounds : h.counts[i] > 0 /\ Reaches(h, q, i)}
<1>6. \A i : Reaches(h, q, i) <=> 100 * (Below(h, i) + h.counts[i]) >= target
  BY <1>2, <1>3 DEF Reaches
<1>7. DOMAIN Bounds = 1..Len(Bounds) /\ Len(Bounds) \in Nat /\ Overflow = Len(Bounds) + 1
  BY BoundsTyped
<1>8. \A i \in DOMAIN Bounds : Below(h, i) \in Nat /\ h.counts[i] \in Nat
  <2>1. \A i \in DOMAIN Bounds : i \in 1..Overflow
    BY <1>7
  <2>. QED
    BY <2>1, BelowIs
<1>9. \A i \in hits : b <= i
  <2>1. SUFFICES ASSUME NEW i \in hits, i < b PROVE FALSE
    BY <1>5, <1>7
  <2>2. i \in 1..(b - 1)
    BY <1>5, <1>7, <2>1
  <2>. QED
    BY <1>5, <1>6, <1>8, <2>2
<1>10. ASSUME h.count = 1
       PROVE  Percentile(h, q) = <<h.min, 1>>
  BY <1>10 DEF Percentile
<1>11. ASSUME h.count # 1, b = Overflow
       PROVE  Percentile(h, q) = <<h.max, 1>>
  <2>1. hits = {}
    BY <1>7, <1>9, <1>11
  <2>. QED
    BY <1>11, <2>1 DEF Percentile
<1>12. ASSUME h.count # 1, b # Overflow
       PROVE  Percentile(h, q) = Interpolated(h, q, b)
  <2>1. b \in DOMAIN Bounds
    BY <1>5, <1>7, <1>12
  <2>2. Below(h, b) \in Nat /\ h.counts[b] \in Nat
    BY <1>8, <2>1
  <2>3. b \in hits
    BY <1>5, <1>6, <1>12, <2>1, <2>2
  <2>4. hits \in SUBSET Int
    BY <1>7
  <2>5. Min(hits) = b /\ hits # {}
    <3>. HIDE DEF hits
    <3>. QED
      BY <1>9, <2>3, <2>4, MinIs
  <2>. QED
    BY <1>12, <2>5 DEF Percentile
<1>. QED
  BY <1>10, <1>11, <1>12 DEF Estimates

\* Between two limits, part of the way.
LEMMA Interpolates ==
  ASSUME NEW a \in Int, NEW b \in Int, a <= b, NEW d \in Nat, NEW t \in 0..d
  PROVE  /\ a * d + (b - a) * t \in Int
         /\ a * d <= a * d + (b - a) * t
         /\ a * d + (b - a) * t <= b * d
<1>1. 0 * t <= (b - a) * t /\ 0 * t = 0
  <2>1. t \in Nat /\ 0 <= b - a /\ b - a \in Int
    OBVIOUS
  <2>2. 0 * t <= (b - a) * t
    BY <2>1, TimesKeeps
  <2>. QED
    BY <2>1, <2>2
<1>2. t * (b - a) <= d * (b - a)
  <2>1. b - a \in Nat /\ t \in Int /\ t <= d
    OBVIOUS
  <2>. QED
    BY <2>1, TimesKeeps
<1>3. (b - a) * t = t * (b - a) /\ d * (b - a) = b * d - a * d
  BY SMT
<1>4. a * d \in Int /\ b * d \in Int /\ (b - a) * t \in Int
  OBVIOUS
<1>. QED
  BY <1>1, <1>2, <1>3, <1>4

\* The limits lie in the bucket and between the extremes.
LEMMA LimitsAre ==
  ASSUME NEW l, Family(l), NEW h, HistOf(h, l), NEW r \in Nat, h.min <= r, r <= h.max,
         NEW b, b = BucketOf(r), b # Overflow
  PROVE  /\ Lower(h, b) \in Int /\ Upper(h, b) \in Int /\ Lower(h, b) <= Upper(h, b)
         /\ h.min <= Lower(h, b) /\ Upper(h, b) <= h.max
         /\ Upper(h, b) <= Bounds[b]
         /\ b # 1 => Bounds[b - 1] <= Lower(h, b)
<1>1. b \in DOMAIN Bounds /\ b \in 1..Overflow /\ Bounds[b] \in Int /\ r <= Bounds[b]
  <2>1. b \in 1..Overflow /\ r <= Bounds[b]
    BY BucketIs
  <2>2. b \in 1..Len(Bounds)
    BY <2>1, BoundsTyped
  <2>. QED
    BY <2>1, <2>2, BoundsTyped
<1>2. h.min \in Nat /\ h.max \in Nat
  BY DEF HistOf, Family
<1>3. ASSUME b # 1
      PROVE  Bounds[b - 1] \in Int /\ Bounds[b - 1] < r
  <2>1. b - 1 \in 1..(b - 1) /\ b - 1 \in 1..Len(Bounds)
    BY <1>1, <1>3, BoundsTyped
  <2>. QED
    BY <2>1, BucketIs, BoundsTyped
<1>4. ASSUME b # 1, Below(h, b) # 0
      PROVE  h.min <= Bounds[b - 1]
  <2>1. Below(h, b) = Cardinality(UpTo(l, Bounds[b - 1]))
    BY <1>1, <1>4, BelowIs
  <2>2. UpTo(l, Bounds[b - 1]) # {}
    BY <1>4, <2>1, FS_EmptySet
  <2>3. PICK i \in DOMAIN l : l[i] <= Bounds[b - 1]
    BY <2>2 DEF UpTo
  <2>4. h.min <= l[i] /\ l[i] \in Nat
    BY DEF HistOf, Family
  <2>. QED
    BY <1>2, <1>3, <1>4, <2>3, <2>4
<1>5. b = 1 => Below(h, b) = 0
  BY <1>1, BelowIs
<1>. DEFINE prev == IF b = 1 THEN h.min ELSE Bounds[b - 1]
<1>6. prev \in Int /\ prev <= r
  BY <1>2, <1>3
<1>7. Lower(h, b) = IF Below(h, b) = 0 THEN Max({prev, h.min}) ELSE prev
  BY DEF Lower
<1>8. /\ Lower(h, b) \in Int /\ h.min <= Lower(h, b) /\ Lower(h, b) <= r
      /\ b # 1 => Bounds[b - 1] <= Lower(h, b)
  <2>1. Max({prev, h.min}) = IF prev <= h.min THEN h.min ELSE prev
    <3>. HIDE DEF prev
    <3>. QED
      BY <1>2, <1>6, MaxOfTwo
  <2>2. CASE Below(h, b) = 0
    <3>1. Lower(h, b) = IF prev <= h.min THEN h.min ELSE prev
      BY <1>7, <2>1, <2>2
    <3>2. b # 1 => prev = Bounds[b - 1]
      OBVIOUS
    <3>. HIDE DEF prev
    <3>. QED
      BY <1>2, <1>6, <3>1, <3>2
  <2>3. CASE Below(h, b) # 0
    <3>1. Lower(h, b) = Bounds[b - 1] /\ b # 1
      BY <1>5, <1>7, <2>3
    <3>. QED
      BY <1>3, <1>4, <2>3, <3>1
  <2>. QED
    BY <2>2, <2>3
<1>9. Min({Bounds[b], h.max}) = IF Bounds[b] <= h.max THEN Bounds[b] ELSE h.max
  BY <1>1, <1>2, MaxOfTwo
<1>10. PICK m \in Int : m = Min({Bounds[b], h.max})
  BY <1>1, <1>2, <1>9
<1>11. m <= Bounds[b] /\ m <= h.max /\ r <= m
  BY <1>1, <1>2, <1>9, <1>10
<1>12. Upper(h, b) = IF Lower(h, b) <= m THEN m ELSE Lower(h, b)
  <2>1. Upper(h, b) = Max({Lower(h, b), m})
    BY <1>10 DEF Upper
  <2>. QED
    BY <1>8, <2>1, MaxOfTwo
<1>13. Upper(h, b) = m
  BY <1>8, <1>11, <1>12
<1>. QED
  BY <1>8, <1>11, <1>13

\* A fraction not above another.
LeqFraction(x, y) == x[1] * y[2] <= y[1] * x[2]

Fraction(x) == x[1] \in Int /\ x[2] \in Nat \ {0}

\* An estimate between the extremes of a histogram and in a bucket.
LiesIn(e, h, b) ==
  /\ Fraction(e)
  /\ LeqFraction(<<h.min, 1>>, e) /\ LeqFraction(e, <<h.max, 1>>)
  /\ b > 1 => LeqFraction(<<Bounds[b - 1], 1>>, e)
  /\ b < Overflow => LeqFraction(e, <<Bounds[b], 1>>)

\* A percentile lies between the extremes and in the bucket of its nearest rank.
LEMMA PercentileLies ==
  ASSUME NEW l, Family(l), NEW h, HistOf(h, l), NEW q \in 1..100
  PROVE  LET b == BucketOf(Nearest(l, q * Cardinality(DOMAIN l), 100))
         IN  b \in 1..Overflow /\ LiesIn(Percentile(h, q), h, b)
<1>1. PICK n \in Nat \ {0} : n = Cardinality(DOMAIN l)
  BY UpToTyped
<1>2. h.count = n
  BY <1>1 DEF HistOf
<1>3. PICK target \in Nat \ {0} : target = q * n /\ target <= 100 * n
  <2>1. 1 * n <= q * n /\ q * n <= 100 * n
    BY TimesKeeps
  <2>2. q * n \in Int /\ 1 * n = n
    OBVIOUS
  <2>. QED
    BY <2>1, <2>2
<1>4. PICK r : r = Nearest(l, target, 100)
  OBVIOUS
<1>5. PICK b : b = BucketOf(r)
  OBVIOUS
<1>6. /\ r \in Nat /\ h.min <= r /\ r <= h.max /\ b \in 1..Overflow
      /\ 100 * Below(h, b) < target
      /\ b # Overflow => target <= 100 * (Below(h, b) + h.counts[b]) /\ h.counts[b] > 0
  BY <1>1, <1>3, <1>4, <1>5, RankBucket
<1>7. h.min \in Nat /\ h.max \in Nat /\ Overflow \in Nat
  BY BoundsTyped DEF HistOf, Family
<1>8. ASSUME b # 1
      PROVE  Bounds[b - 1] \in Int /\ Bounds[b - 1] < r
  <2>1. b - 1 \in 1..(b - 1) /\ b - 1 \in 1..Len(Bounds)
    BY <1>6, <1>8, BoundsTyped
  <2>. QED
    BY <1>5, <1>6, <2>1, BucketIs, BoundsTyped
<1>9. ASSUME b # Overflow
      PROVE  r <= Bounds[b] /\ Bounds[b] \in Int
  <2>1. b \in 1..Len(Bounds)
    BY <1>6, <1>9, BoundsTyped
  <2>. QED
    BY <1>5, <1>6, <1>9, <2>1, BucketIs, BoundsTyped
<1>10. /\ n = 1 => Percentile(h, q) = <<h.min, 1>>
       /\ n # 1 /\ b = Overflow => Percentile(h, q) = <<h.max, 1>>
       /\ n # 1 /\ b # Overflow =>
            Percentile(h, q) =
              <<Lower(h, b) * (100 * h.counts[b])
                  + (Upper(h, b) - Lower(h, b)) * (target - 100 * Below(h, b)),
                100 * h.counts[b]>>
  <2>1. b = BucketOf(Nearest(l, q * Cardinality(DOMAIN l), 100))
    BY <1>1, <1>3, <1>4, <1>5
  <2>2. q * h.count = target
    BY <1>2, <1>3
  <2>3. Estimates(Percentile(h, q), h, q, b)
    BY <2>1, PercentileIs
  <2>. QED
    BY <1>2, <2>2, <2>3 DEF Estimates, Interpolated
<1>0. PICK e : e = Percentile(h, q)
  OBVIOUS
<1>11. ASSUME NEW v \in Int, e = <<v, 1>>, h.min <= v, v <= h.max, r <= v,
              b # Overflow => v <= Bounds[b]
       PROVE  LiesIn(e, h, b)
  <2>1. e[1] = v /\ e[2] = 1
    BY <1>11
  <2>2. b > 1 => Bounds[b - 1] \in Int /\ Bounds[b - 1] <= v
    BY <1>6, <1>8, <1>11
  <2>3. b < Overflow => Bounds[b] \in Int /\ v <= Bounds[b]
    BY <1>6, <1>7, <1>9, <1>11
  <2>. QED
    BY <1>7, <1>11, <2>1, <2>2, <2>3 DEF LeqFraction, Fraction, LiesIn
<1>12. ASSUME n = 1
       PROVE  LiesIn(e, h, b)
  <2>1. h.min = h.max
    <3>1. PICK i, j \in DOMAIN l : h.min = l[i] /\ h.max = l[j]
      BY DEF HistOf
    <3>2. IsFiniteSet(DOMAIN l)
      BY DEF Family
    <3>3. \E x : DOMAIN l = {x}
      BY <1>1, <1>12, <3>2, FS_Singleton
    <3>4. i = j
      BY <3>3
    <3>. QED
      BY <3>1, <3>4
  <2>2. h.min = r
    BY <1>6, <1>7, <2>1
  <2>3. e = <<r, 1>>
    BY <1>0, <1>10, <1>12, <2>2
  <2>. QED
    BY <1>6, <1>9, <1>11, <2>2, <2>3
<1>13. ASSUME n # 1 /\ b = Overflow
       PROVE  LiesIn(e, h, b)
  <2>1. e = <<h.max, 1>>
    BY <1>0, <1>10, <1>13
  <2>2. h.min <= h.max
    BY <1>6, <1>7
  <2>. QED
    BY <1>6, <1>7, <1>11, <1>13, <2>1, <2>2
<1>14. ASSUME n # 1 /\ b # Overflow
       PROVE  LiesIn(e, h, b)
  <2>1. PICK lo, hi : lo = Lower(h, b) /\ hi = Upper(h, b)
    OBVIOUS
  <2>2. /\ lo \in Int /\ hi \in Int /\ lo <= hi /\ h.min <= lo /\ hi <= h.max
        /\ hi <= Bounds[b]
        /\ b # 1 => Bounds[b - 1] <= lo
    BY <1>5, <1>6, <1>14, <2>1, LimitsAre
  <2>3. Below(h, b) \in Nat /\ h.counts[b] \in Nat
    BY <1>6, BelowIs
  <2>4. PICK d \in Nat \ {0} : d = 100 * h.counts[b]
    BY <1>6, <1>14, <2>3
  <2>5. PICK t \in 0..d : t = target - 100 * Below(h, b)
    BY <1>6, <1>14, <2>3, <2>4
  <2>6. PICK x : x = lo * d + (hi - lo) * t
    OBVIOUS
  <2>7. x \in Int /\ lo * d <= x /\ x <= hi * d
    BY <2>2, <2>6, Interpolates
  <2>8. e = <<x, d>>
    BY <1>0, <1>10, <1>14, <2>1, <2>4, <2>5, <2>6
  <2>9. e[1] = x /\ e[2] = d
    BY <2>8
  <2>10. ASSUME NEW v \in Int, v <= lo
         PROVE  LeqFraction(<<v, 1>>, e)
    <3>1. v * d <= lo * d
      BY <2>2, <2>10, TimesKeeps
    <3>2. v * d \in Int /\ lo * d \in Int
      BY <2>2
    <3>3. v * d <= x
      BY <2>7, <3>1, <3>2
    <3>. QED
      BY <2>7, <2>9, <3>3 DEF LeqFraction
  <2>11. ASSUME NEW v \in Int, hi <= v
         PROVE  LeqFraction(e, <<v, 1>>)
    <3>1. hi * d <= v * d
      BY <2>2, <2>11, TimesKeeps
    <3>2. v * d \in Int /\ hi * d \in Int
      BY <2>2
    <3>3. x <= v * d
      BY <2>7, <3>1, <3>2
    <3>. QED
      BY <2>7, <2>9, <3>3 DEF LeqFraction
  <2>12. LeqFraction(<<h.min, 1>>, e) /\ LeqFraction(e, <<h.max, 1>>)
    BY <1>7, <2>2, <2>10, <2>11
  <2>13. b > 1 => LeqFraction(<<Bounds[b - 1], 1>>, e)
    BY <1>6, <1>8, <2>2, <2>10
  <2>14. b < Overflow => LeqFraction(e, <<Bounds[b], 1>>)
    BY <1>6, <1>7, <1>9, <1>14, <2>2, <2>11
  <2>. QED
    BY <2>7, <2>9, <2>12, <2>13, <2>14 DEF Fraction, LiesIn
<1>15. LiesIn(Percentile(h, q), h, b)
  BY <1>0, <1>12, <1>13, <1>14
<1>16. BucketOf(Nearest(l, q * Cardinality(DOMAIN l), 100)) = b
  BY <1>1, <1>3, <1>4, <1>5
<1>. QED
  BY <1>6, <1>15, <1>16

\* A fraction not above a number and one not below a greater number.
LEMMA LeqThrough ==
  ASSUME NEW e, Fraction(e), NEW f, Fraction(f), NEW v \in Int, NEW w \in Int, v <= w,
         LeqFraction(e, <<v, 1>>), LeqFraction(<<w, 1>>, f)
  PROVE  LeqFraction(e, f)
<1>1. PICK x \in Int, y \in Nat \ {0} : x = e[1] /\ y = e[2]
  BY DEF Fraction
<1>2. PICK a \in Int, b \in Nat \ {0} : a = f[1] /\ b = f[2]
  BY DEF Fraction
<1>3. x <= v * y /\ w * b <= a
  <2>1. x * 1 <= v * y /\ w * b <= a * 1
    BY <1>1, <1>2 DEF LeqFraction
  <2>. QED
    BY <2>1
<1>4. v * y \in Int /\ w * b \in Int
  OBVIOUS
<1>5. x * b <= (v * y) * b
  BY <1>3, <1>4, TimesKeeps
<1>6. v * (y * b) <= w * (y * b)
  <2>1. y * b \in Nat
    OBVIOUS
  <2>. QED
    BY <2>1, TimesKeeps
<1>7. (w * b) * y <= a * y
  BY <1>3, <1>4, TimesKeeps
<1>8. (v * y) * b = v * (y * b) /\ w * (y * b) = (w * b) * y
  BY SMT
<1>9. x * b \in Int /\ (v * y) * b \in Int /\ w * (y * b) \in Int /\ a * y \in Int
  BY <1>4
<1>10. x * b <= a * y
  BY <1>5, <1>6, <1>7, <1>8, <1>9
<1>. QED
  BY <1>1, <1>2, <1>10 DEF LeqFraction

\* A greater rank has no smaller nearest value.
LEMMA NearestMonotone ==
  ASSUME NEW l, Family(l), NEW s \in Nat, NEW t \in Nat, s <= t,
         t <= 100 * Cardinality(DOMAIN l)
  PROVE  Nearest(l, s, 100) <= Nearest(l, t, 100)
<1>1. Cardinality(DOMAIN l) \in Nat
  BY UpToTyped
<1>2. \A i \in DOMAIN l : 100 * Cardinality(UpTo(l, l[i])) >= s => Nearest(l, s, 100) <= l[i]
  BY <1>1, NearestIs
<1>3. PICK m : m = Nearest(l, t, 100)
  OBVIOUS
<1>4. (\E i \in DOMAIN l : m = l[i]) /\ 100 * Cardinality(UpTo(l, m)) >= t
  BY <1>3, NearestIs
<1>5. Cardinality(UpTo(l, m)) \in Nat
  BY UpToTyped
<1>. QED
  BY <1>2, <1>3, <1>4, <1>5

\* The percentiles of a histogram are ordered.
LEMMA PercentilesOrdered ==
  ASSUME NEW l, Family(l), NEW h, HistOf(h, l), NEW q \in 1..100, NEW p \in 1..100, q <= p
  PROVE  LeqFraction(Percentile(h, q), Percentile(h, p))
<1>1. PICK n \in Nat \ {0} : n = Cardinality(DOMAIN l)
  BY UpToTyped
<1>2. h.count = n
  BY <1>1 DEF HistOf
<1>3. PICK s, t : s = q * n /\ t = p * n
  OBVIOUS
<1>4. /\ s \in Nat \ {0} /\ t \in Nat \ {0} /\ s <= t
      /\ s <= 100 * n /\ t <= 100 * n
  <2>1. 1 * n <= q * n /\ q * n <= p * n /\ p * n <= 100 * n
    BY TimesKeeps
  <2>2. q * n \in Int /\ p * n \in Int /\ 1 * n = n
    OBVIOUS
  <2>. QED
    BY <1>3, <2>1, <2>2
<1>5. PICK b, c : b = BucketOf(Nearest(l, s, 100)) /\ c = BucketOf(Nearest(l, t, 100))
  OBVIOUS
<1>6. PICK e, f : e = Percentile(h, q) /\ f = Percentile(h, p)
  OBVIOUS
<1>7. b = BucketOf(Nearest(l, q * Cardinality(DOMAIN l), 100))
      /\ c = BucketOf(Nearest(l, p * Cardinality(DOMAIN l), 100))
  BY <1>1, <1>3, <1>5
<1>8. /\ b \in 1..Overflow /\ LiesIn(e, h, b) /\ Estimates(e, h, q, b)
      /\ c \in 1..Overflow /\ LiesIn(f, h, c) /\ Estimates(f, h, p, c)
  BY <1>6, <1>7, PercentileLies, PercentileIs
<1>9. b <= c
  <2>1. Nearest(l, s, 100) <= Nearest(l, t, 100)
    BY <1>1, <1>4, NearestMonotone
  <2>2. Nearest(l, s, 100) \in Nat /\ Nearest(l, t, 100) \in Nat
    BY <1>1, <1>4, RankBucket
  <2>. QED
    BY <1>5, <2>1, <2>2, BucketMonotone
<1>10. Fraction(e) /\ Fraction(f)
  BY <1>8 DEF LiesIn
<1>11. ASSUME b < c
       PROVE  LeqFraction(e, f)
  <2>1. b \in 1..Len(Bounds) /\ c - 1 \in 1..Len(Bounds) /\ b <= c - 1 /\ b < Overflow /\ c > 1
    BY <1>8, <1>11, BoundsTyped
  <2>2. Bounds[b] \in Int /\ Bounds[c - 1] \in Int
    BY <2>1, BoundsTyped
  <2>3. Bounds[b] <= Bounds[c - 1]
    <3>1. b = c - 1 \/ b < c - 1
      BY <2>1
    <3>2. b < c - 1 => Bounds[b] < Bounds[c - 1]
      BY <2>1, BoundsTyped, BoundsAssumption
    <3>. QED
      BY <2>2, <3>1, <3>2
  <2>4. LeqFraction(e, <<Bounds[b], 1>>) /\ LeqFraction(<<Bounds[c - 1], 1>>, f)
    BY <1>8, <2>1 DEF LiesIn
  <2>. QED
    BY <1>10, <2>2, <2>3, <2>4, LeqThrough
<1>12. ASSUME e = f
       PROVE  LeqFraction(e, f)
  <2>1. e[1] \in Int /\ e[2] \in Int
    BY <1>10 DEF Fraction
  <2>2. e[1] * e[2] \in Int
    BY <2>1
  <2>. QED
    BY <1>12, <2>2 DEF LeqFraction
<1>13. ASSUME b = c, n # 1, b # Overflow
       PROVE  LeqFraction(e, f)
  <2>1. PICK lo, hi : lo = Lower(h, b) /\ hi = Upper(h, b)
    OBVIOUS
  <2>2. PICK r \in Nat : r = Nearest(l, s, 100) /\ h.min <= r /\ r <= h.max
    BY <1>1, <1>4, RankBucket
  <2>3. lo \in Int /\ hi \in Int /\ lo <= hi
    BY <1>5, <1>13, <2>1, <2>2, LimitsAre
  <2>4. Below(h, b) \in Nat /\ h.counts[b] \in Nat
    BY <1>8, BelowIs
  <2>5. PICK d \in Nat : d = 100 * h.counts[b]
    BY <2>4
  <2>6. PICK u, v \in Int : u = s - 100 * Below(h, b) /\ v = t - 100 * Below(h, b)
    BY <1>4, <2>4
  <2>7. /\ e = <<lo * d + (hi - lo) * u, d>>
        /\ f = <<lo * d + (hi - lo) * v, d>>
    BY <1>2, <1>3, <1>8, <1>13, <2>1, <2>5, <2>6 DEF Estimates, Interpolated
  <2>8. u * (hi - lo) <= v * (hi - lo)
    <3>1. u <= v /\ hi - lo \in Nat
      BY <1>4, <2>3, <2>4, <2>6
    <3>. QED
      BY <3>1, TimesKeeps
  <2>9. PICK x, y \in Int : x = lo * d + (hi - lo) * u /\ y = lo * d + (hi - lo) * v
    <3>1. lo * d \in Int /\ (hi - lo) * u \in Int /\ (hi - lo) * v \in Int
      BY <2>3
    <3>. QED
      BY <3>1
  <2>10. x <= y
    <3>1. (hi - lo) * u = u * (hi - lo) /\ (hi - lo) * v = v * (hi - lo)
      BY <2>3, SMT
    <3>2. lo * d \in Int /\ u * (hi - lo) \in Int /\ v * (hi - lo) \in Int
      BY <2>3
    <3>. QED
      BY <2>8, <2>9, <3>1, <3>2
  <2>11. x * d <= y * d
    BY <2>10, TimesKeeps
  <2>12. e[1] = x /\ e[2] = d /\ f[1] = y /\ f[2] = d
    BY <2>7, <2>9
  <2>. QED
    BY <2>11, <2>12 DEF LeqFraction
<1>14. n = 1 \/ (b = c /\ b = Overflow) => e = f
  BY <1>2, <1>8 DEF Estimates
<1>15. b < c \/ b = c
  <2>1. b \in Int /\ c \in Int
    BY <1>8, BoundsTyped
  <2>. QED
    BY <1>9, <2>1
<1>. QED
  BY <1>6, <1>11, <1>12, <1>13, <1>14, <1>15

\* The percentiles of every series lie where its latencies put them.
LEMMA PercentilesLie ==
  ASSUME LoopInv, HistInv, Opened(agg, quality, added)
  PROVE  PercentilesTrackRanks
<1>. SUFFICES ASSUME NEW k \in DOMAIN agg.dur
     PROVE  LET h    == agg.dur[k]
                mine == {i \in DOMAIN added : added[i].dims = k}
                latencies == [i \in mine |-> added[i].latency]
                rank(q) == Nearest(latencies, q * Cardinality(mine), 100)
                e(q) == Percentile(h, q)
                leq(x, y) == x[1] * y[2] <= y[1] * x[2]
            IN  /\ \A q \in {50, 95, 99} :
                     LET b == BucketOf(rank(q))
                     IN  /\ leq(<<h.min, 1>>, e(q)) /\ leq(e(q), <<h.max, 1>>)
                         /\ b > 1 => leq(<<Bounds[b - 1], 1>>, e(q))
                         /\ b < Overflow => leq(e(q), <<Bounds[b], 1>>)
                /\ leq(e(50), e(95)) /\ leq(e(95), e(99))
  BY DEF PercentilesTrackRanks
<1>1. PICK h : h = agg.dur[k]
  OBVIOUS
<1>2. PICK s \in Seq(Parsed) : s = added
  BY DEF LoopInv, SeenInv
<1>3. PICK o \in ToSet(s) : k = o.dims
  BY <1>2 DEF Opened
<1>4. o \in Parsed
  BY <1>2, AddedParsed
<1>5. At(agg.dur, k, EmptyHist) = h
  BY <1>1 DEF At
<1>6. Summarises(h, s, k)
  BY <1>2, <1>3, <1>4, <1>5 DEF HistInv
<1>. DEFINE mine == PlacesOf(s, k)
            l == [i \in mine |-> s[i].latency]
<1>7. \A i \in mine : s[i].latency \in Nat
  BY <1>2 DEF HistInv, PlacesOf
<1>8. mine # {} /\ IsFiniteSet(mine)
  <2>1. PICK i \in DOMAIN s : s[i] = o
    BY DEF ToSet
  <2>2. i \in mine
    BY <1>3, <2>1 DEF PlacesOf
  <2>. QED
    BY <2>2, PlacesOfTyped
<1>9. Family(l)
  <2>. HIDE DEF mine
  <2>. QED
    BY <1>7, <1>8 DEF Family
<1>10. HistOf(h, l)
  <2>1. DOMAIN l = mine /\ \A i \in mine : l[i] = s[i].latency
    OBVIOUS
  <2>2. \A b : {i \in DOMAIN l : BucketOf(l[i]) = b} = {i \in mine : BucketOf(s[i].latency) = b}
    BY <2>1
  <2>3. /\ h.count = Cardinality(mine)
        /\ h.counts = [b \in 1..Overflow |->
                         Cardinality({i \in mine : BucketOf(s[i].latency) = b})]
        /\ \E i \in mine : h.min = s[i].latency
        /\ \E i \in mine : h.max = s[i].latency
        /\ \A i \in mine : h.min <= s[i].latency /\ s[i].latency <= h.max
    BY <1>6, <1>8 DEF Summarises
  <2>. HIDE DEF l, mine
  <2>. QED
    BY <2>1, <2>2, <2>3 DEF HistOf
<1>11. PICK n : n = Cardinality(mine)
  OBVIOUS
<1>12. ASSUME NEW q \in 1..100
       PROVE  LiesIn(Percentile(h, q), h, BucketOf(Nearest(l, q * n, 100)))
  <2>1. DOMAIN l = mine
    OBVIOUS
  <2>. HIDE DEF l, mine
  <2>2. n = Cardinality(DOMAIN l)
    BY <1>11, <2>1
  <2>. QED
    BY <1>9, <1>10, <2>2, PercentileLies
<1>13. LeqFraction(Percentile(h, 50), Percentile(h, 95))
       /\ LeqFraction(Percentile(h, 95), Percentile(h, 99))
  <2>. HIDE DEF l, mine
  <2>1. ASSUME NEW q \in 1..100, NEW p \in 1..100, q <= p
        PROVE  LeqFraction(Percentile(h, q), Percentile(h, p))
    BY <1>9, <1>10, <2>1, PercentilesOrdered
  <2>2. 50 \in 1..100 /\ 95 \in 1..100 /\ 99 \in 1..100 /\ 50 <= 95 /\ 95 <= 99
    OBVIOUS
  <2>3. LeqFraction(Percentile(h, 50), Percentile(h, 95))
    BY <2>1, <2>2, Zenon
  <2>4. LeqFraction(Percentile(h, 95), Percentile(h, 99))
    BY <2>1, <2>2, Zenon
  <2>. QED
    BY <2>3, <2>4
<1>14. PICK places : places = {i \in DOMAIN added : added[i].dims = k}
  OBVIOUS
<1>15. places = mine /\ [i \in places |-> added[i].latency] = l
  BY <1>2, <1>14 DEF PlacesOf
<1>16. ASSUME NEW q \in {50, 95, 99}
       PROVE  LiesIn(Percentile(h, q), h,
                     BucketOf(Nearest([i \in places |-> added[i].latency],
                                      q * Cardinality(places), 100)))
  <2>1. q \in 1..100
    OBVIOUS
  <2>. HIDE DEF l, mine
  <2>. QED
    BY <1>11, <1>12, <1>15, <2>1
<1>. HIDE DEF l, mine
<1>. QED
  BY <1>1, <1>13, <1>14, <1>16 DEF LiesIn, LeqFraction

\* A percentile estimated from the buckets lies in the bucket of the nearest-rank
\* percentile of the latencies themselves and between their extremes, and the estimates
\* are ordered, for every input and whatever the bounds of the buckets are.
THEOREM PercentilesTrack == Spec => []PercentilesTrackRanks
<1>. DEFINE Inv == LoopInv /\ TallyInv /\ HistInv /\ byProvider \in BOOLEAN /\ byModel \in BOOLEAN
<1>1. Init => Inv
  BY LoopStarts, TallyStarts, HistStarts
<1>2. Inv /\ [Next]_vars => Inv'
  <2>1. [Next]_vars => byProvider' = byProvider /\ byModel' = byModel
    BY DEF Next, vars, config, RejectMalformed, Quarantine, RejectBlankId, DropDuplicate,
       DropCrossRun, Process, Pulled, EndOfInput, Truncate, SourceFails, Finish, Over
  <2>. QED
    BY <2>1, LoopStep, TallyStep, HistStep
<1>3. Inv => PercentilesTrackRanks
  BY PercentilesLie DEF TallyInv
<1>. QED
  BY <1>1, <1>2, <1>3, PTL DEF Spec

-----------------------------------------------------------------------------
(* AnomaliesAreOutliers                                                    *)

\* The same values at other places.
Reindexed(f, g, p) ==
  /\ IsFiniteSet(DOMAIN f)
  /\ \A i \in DOMAIN f : p[i] \in DOMAIN g /\ f[i] = g[p[i]]
  /\ \A i, j \in DOMAIN f : p[i] = p[j] => i = j
  /\ \A x \in DOMAIN g : \E i \in DOMAIN f : p[i] = x

\* Places that correspond one to one are equally many.
LEMMA SameCount ==
  ASSUME NEW A, NEW B, NEW p, IsFiniteSet(A), \A i \in A : p[i] \in B,
         \A i, j \in A : p[i] = p[j] => i = j, \A x \in B : \E i \in A : p[i] = x
  PROVE  IsFiniteSet(B) /\ Cardinality(B) = Cardinality(A)
<1>. DEFINE q == [i \in A |-> p[i]]
<1>1. q \in Bijection(A, B)
  BY DEF Bijection, Injection, Surjection, IsInjective
<1>2. ExistsBijection(A, B)
  BY <1>1 DEF ExistsBijection
<1>. QED
  BY <1>2, FS_Bijection

\* The same values at other places have the same nearest value.
LEMMA NearestAgain ==
  ASSUME NEW f, NEW g, NEW p, Reindexed(f, g, p), NEW num, NEW den
  PROVE  Nearest(f, num, den) = Nearest(g, num, den)
<1>1. Range(f) = Range(g)
  BY DEF Range, Reindexed
<1>2. ASSUME NEW v
      PROVE  Cardinality({i \in DOMAIN f : f[i] <= v}) = Cardinality({i \in DOMAIN g : g[i] <= v})
  <2>. DEFINE A == {i \in DOMAIN f : f[i] <= v}
              B == {i \in DOMAIN g : g[i] <= v}
  <2>1. IsFiniteSet(A)
    BY FS_Subset DEF Reindexed
  <2>2. \A i \in A : p[i] \in B
    BY DEF Reindexed
  <2>3. \A i, j \in A : p[i] = p[j] => i = j
    BY DEF Reindexed
  <2>4. \A x \in B : \E i \in A : p[i] = x
    BY DEF Reindexed
  <2>. HIDE DEF A, B
  <2>5. Cardinality(B) = Cardinality(A)
    BY <2>1, <2>2, <2>3, <2>4, SameCount
  <2>. QED
    BY <2>5 DEF A, B
<1>3. \A v : den * Cardinality({i \in DOMAIN f : f[i] <= v}) >= num
               <=> den * Cardinality({i \in DOMAIN g : g[i] <= v}) >= num
  BY <1>2
<1>4. {v \in Range(f) : den * Cardinality({i \in DOMAIN f : f[i] <= v}) >= num}
        = {v \in Range(g) : den * Cardinality({i \in DOMAIN g : g[i] <= v}) >= num}
  BY <1>1, <1>3
<1>. QED
  BY <1>4 DEF Nearest

\* The same values at other places have the same median.
LEMMA MedianAgain ==
  ASSUME NEW f, NEW g, NEW p, Reindexed(f, g, p)
  PROVE  TwiceMedian(f) = TwiceMedian(g) /\ Cardinality(DOMAIN f) = Cardinality(DOMAIN g)
<1>1. Cardinality(DOMAIN g) = Cardinality(DOMAIN f)
  <2>1. PICK A, B : A = DOMAIN f /\ B = DOMAIN g
    OBVIOUS
  <2>2. /\ IsFiniteSet(A) /\ \A i \in A : p[i] \in B
        /\ \A i, j \in A : p[i] = p[j] => i = j
        /\ \A x \in B : \E i \in A : p[i] = x
    BY <2>1 DEF Reindexed
  <2>3. Cardinality(B) = Cardinality(A)
    BY <2>2, SameCount
  <2>. QED
    BY <2>1, <2>3
<1>2. \A n : Nearest(f, n, 2) = Nearest(g, n, 2)
  BY NearestAgain
<1>. QED
  BY <1>1, <1>2 DEF TwiceMedian

\* The distances of a family from a doubled value, doubled.
Deviations(l, med) == [i \in DOMAIN l |-> Distance(2 * l[i], med)]

\* The score of a value, given what is known of its baseline.
ScoreFrom(v, n, med, mad, total) ==
  IF mad > 0 THEN OkScore(6745 * Distance(4 * v, 2 * med), 1000 * mad)
  ELSE IF total > 0 THEN OkScore(100000 * n * Distance(2 * v, med), 12533 * total)
  ELSE [status |-> "degenerate_constant_baseline",
        z |-> IF 2 * v = med THEN 0 ELSE NoScore, anomaly |-> 2 * v # med]

\* A score depends on the size, the median and the deviations of the baseline.
LEMMA ScoreIs ==
  ASSUME NEW v, NEW l
  PROVE  Score(v, l) = ScoreFrom(v, Cardinality(DOMAIN l), TwiceMedian(l),
                                 TwiceMedian(Deviations(l, TwiceMedian(l))),
                                 Sum(Deviations(l, TwiceMedian(l)), DOMAIN l))
<1>1. PICK devs : devs = Deviations(l, TwiceMedian(l))
  OBVIOUS
<1>2. DOMAIN devs = DOMAIN l
  BY <1>1 DEF Deviations
<1>3. Score(v, l) = ScoreFrom(v, Cardinality(DOMAIN l), TwiceMedian(l),
                              TwiceMedian(Deviations(l, TwiceMedian(l))),
                              Sum(Deviations(l, TwiceMedian(l)),
                                  DOMAIN Deviations(l, TwiceMedian(l))))
  BY SMT DEF Score, ScoreFrom, Deviations, Sum, FoldFunction, FoldFunctionOnSet, MapThenFoldSet
<1>. QED
  BY <1>1, <1>2, <1>3

\* A value is scored alike against the same values at other places.
LEMMA ScoreAgain ==
  ASSUME NEW f, NEW g, NEW p, Reindexed(f, g, p), \A x \in DOMAIN g : g[x] \in Nat, NEW v,
         TwiceMedian(g) \in Int
  PROVE  Score(v, f) = Score(v, g)
<1>1. PICK med \in Int : med = TwiceMedian(g)
  OBVIOUS
<1>2. TwiceMedian(f) = med /\ Cardinality(DOMAIN f) = Cardinality(DOMAIN g)
  BY <1>1, MedianAgain
<1>3. PICK df, dg : df = Deviations(f, med) /\ dg = Deviations(g, med)
  OBVIOUS
<1>4. DOMAIN df = DOMAIN f /\ DOMAIN dg = DOMAIN g
  BY <1>3 DEF Deviations
<1>5. (\A i \in DOMAIN f : df[i] = Distance(2 * f[i], med))
      /\ \A i \in DOMAIN g : dg[i] = Distance(2 * g[i], med)
  BY <1>3 DEF Deviations
<1>6. Reindexed(df, dg, p)
  BY <1>4, <1>5 DEF Reindexed
<1>7. TwiceMedian(df) = TwiceMedian(dg)
  BY <1>6, MedianAgain
<1>8. \A x \in DOMAIN dg : dg[x] \in Int
  BY <1>4, <1>5 DEF Distance
<1>9. Sum(df, DOMAIN df) = Sum(dg, DOMAIN dg)
  <2>1. PICK S : S = DOMAIN df
    OBVIOUS
  <2>2. {p[i] : i \in S} = DOMAIN dg /\ IsFiniteSet(S)
    BY <1>6, <2>1 DEF Reindexed
  <2>3. \A x \in S : dg[p[x]] \in Int /\ df[x] = dg[p[x]]
    BY <1>6, <1>8, <2>1 DEF Reindexed
  <2>4. \A x, y \in S : p[x] = p[y] => x = y
    BY <1>6, <2>1 DEF Reindexed
  <2>5. Sum(df, S) = Sum(dg, {p[i] : i \in S})
    BY <2>2, <2>3, <2>4, SumImage
  <2>. QED
    BY <2>1, <2>2, <2>5
<1>10. Score(v, f) = ScoreFrom(v, Cardinality(DOMAIN f), med, TwiceMedian(df), Sum(df, DOMAIN df))
  BY <1>2, <1>3, <1>4, ScoreIs
<1>11. Score(v, g) = ScoreFrom(v, Cardinality(DOMAIN g), med, TwiceMedian(dg), Sum(dg, DOMAIN dg))
  BY <1>1, <1>3, <1>4, ScoreIs
<1>. QED
  BY <1>2, <1>7, <1>9, <1>10, <1>11

\* The places of a sequence are as many as it is long.
LEMMA Places ==
  ASSUME NEW n \in Nat
  PROVE  IsFiniteSet(1..n) /\ Cardinality(1..n) = n
<1>1. n \in Int /\ 1 \in Int
  OBVIOUS
<1>2. IsFiniteSet(1..n) /\ Cardinality(1..n) = IF 1 > n THEN 0 ELSE n - 1 + 1
  BY <1>1, FS_Interval, Zenon
<1>3. (IF 1 > n THEN 0 ELSE n - 1 + 1) = n
  OBVIOUS
<1>. QED
  BY <1>2, <1>3

\* In a group that is not large, the baseline of a value is all the others.
LEMMA BaselineIs ==
  ASSUME NEW s \in Seq(Nat), Len(s) \in 2..CrossFitAbove, NEW i \in 1..Len(s)
  PROVE  /\ Baseline(s, i) = [j \in (1..Len(s)) \ {i} |-> s[j]]
         /\ Family(Baseline(s, i))
         /\ Cardinality(DOMAIN Baseline(s, i)) = Len(s) - 1
<1>1. Len(s) \in Nat /\ DOMAIN s = 1..Len(s) /\ \A j \in 1..Len(s) : s[j] \in Nat
  OBVIOUS
<1>2. Len(s) <= CrossFitAbove
  BY QualityAssumption
<1>3. Baseline(s, i) = [j \in (1..Len(s)) \ {i} |-> s[j]]
  <2>1. {j \in DOMAIN s : IF Len(s) <= CrossFitAbove THEN j # i ELSE j % 2 # i % 2}
          = (1..Len(s)) \ {i}
    BY <1>1, <1>2
  <2>. QED
    BY <2>1 DEF Baseline, Restrict
<1>4. IsFiniteSet(1..Len(s)) /\ Cardinality(1..Len(s)) = Len(s)
  BY <1>1, Places
<1>5. IsFiniteSet((1..Len(s)) \ {i}) /\ Cardinality((1..Len(s)) \ {i}) = Len(s) - 1
  BY <1>4, FS_RemoveElement
<1>6. (1..Len(s)) \ {i} # {}
  <2>1. 1 \in 1..Len(s) /\ 2 \in 1..Len(s)
    BY <1>1
  <2>. QED
    BY <2>1
<1>7. PICK B : B = Baseline(s, i)
  OBVIOUS
<1>8. DOMAIN B = (1..Len(s)) \ {i} /\ \A j \in DOMAIN B : B[j] = s[j]
  BY <1>3, <1>7
<1>9. Family(B)
  BY <1>1, <1>5, <1>6, <1>8 DEF Family
<1>10. Cardinality(DOMAIN B) = Len(s) - 1
  BY <1>5, <1>8
<1>. QED
  BY <1>3, <1>7, <1>9, <1>10

\* The median of a family is between two of its values, around which there is none.
LEMMA MedianIs ==
  ASSUME NEW l, Family(l), NEW n, n = Cardinality(DOMAIN l)
  PROVE  LET a == Nearest(l, n, 2)
             b == Nearest(l, n + 1, 2)
         IN  /\ a \in Nat /\ b \in Nat /\ a <= b /\ TwiceMedian(l) = a + b
             /\ \A i \in DOMAIN l : l[i] <= a \/ l[i] >= b
<1>1. n \in Nat \ {0} /\ \A v : Cardinality(UpTo(l, v)) \in Nat /\ IsFiniteSet(UpTo(l, v))
  BY UpToTyped
<1>2. \A i \in DOMAIN l : l[i] \in Nat
  BY DEF Family
<1>3. PICK a, b : a = Nearest(l, n, 2) /\ b = Nearest(l, n + 1, 2)
  OBVIOUS
<1>4. /\ \E i \in DOMAIN l : a = l[i]
      /\ 2 * Cardinality(UpTo(l, a)) >= n
      /\ \A i \in DOMAIN l : 2 * Cardinality(UpTo(l, l[i])) >= n => a <= l[i]
  BY <1>1, <1>3, NearestIs
<1>5. /\ \E i \in DOMAIN l : b = l[i]
      /\ 2 * Cardinality(UpTo(l, b)) >= n + 1
      /\ \A i \in DOMAIN l : 2 * Cardinality(UpTo(l, l[i])) >= n + 1 => b <= l[i]
  <2>1. n + 1 \in Nat /\ n + 1 <= 2 * n
    BY <1>1
  <2>. QED
    BY <1>3, <2>1, NearestIs
<1>6. a \in Nat /\ b \in Nat /\ a <= b
  BY <1>1, <1>2, <1>4, <1>5
<1>7. ASSUME NEW i \in DOMAIN l, a < l[i]
      PROVE  b <= l[i]
  <2>1. UpTo(l, a) \cup {i} \subseteq UpTo(l, l[i]) /\ i \notin UpTo(l, a)
    BY <1>2, <1>6, <1>7 DEF UpTo
  <2>2. Cardinality(UpTo(l, a) \cup {i}) = Cardinality(UpTo(l, a)) + 1
    BY <1>1, <2>1, FS_AddElement
  <2>3. Cardinality(UpTo(l, a) \cup {i}) <= Cardinality(UpTo(l, l[i]))
    BY <1>1, <2>1, FS_Subset
  <2>4. 2 * Cardinality(UpTo(l, l[i])) >= n + 1
    BY <1>1, <1>4, <2>2, <2>3
  <2>. QED
    BY <1>5, <2>4
<1>8. \A i \in DOMAIN l : l[i] <= a \/ l[i] >= b
  BY <1>2, <1>6, <1>7
<1>9. TwiceMedian(l) = a + b
  BY <1>3 DEF TwiceMedian
<1>. QED
  BY <1>3, <1>6, <1>8, <1>9

\* The deviations of a family are a family.
LEMMA DeviationsTyped ==
  ASSUME NEW l, Family(l), NEW med \in Int
  PROVE  /\ DOMAIN Deviations(l, med) = DOMAIN l /\ Family(Deviations(l, med))
         /\ \A i \in DOMAIN l : Deviations(l, med)[i] = Distance(2 * l[i], med)
<1>1. DOMAIN Deviations(l, med) = DOMAIN l
      /\ \A i \in DOMAIN l : Deviations(l, med)[i] = Distance(2 * l[i], med)
  BY DEF Deviations
<1>2. \A i \in DOMAIN l : Distance(2 * l[i], med) \in Nat
  BY DEF Distance, Family
<1>. QED
  BY <1>1, <1>2 DEF Family

\* A score whose condition fails is no anomaly.
LEMMA NoAnomaly ==
  ASSUME NEW r, NEW st, NEW z, NEW p, r = [status |-> st, z |-> z, anomaly |-> p], p = FALSE
  PROVE  ~r.anomaly
OBVIOUS

\* A score whose comparison fails is no anomaly.
LEMMA BelowThreshold ==
  ASSUME NEW num, NEW den, ~(num >= den * Threshold)
  PROVE  ~OkScore(num, den).anomaly
<1>1. PICK r, p, z : r = OkScore(num, den) /\ p = (num >= den * Threshold) /\ z = num \div den
  OBVIOUS
<1>2. r = [status |-> "ok", z |-> z, anomaly |-> p]
  BY <1>1, Zenon DEF OkScore
<1>3. (num >= den * Threshold) = FALSE
  OBVIOUS
<1>4. p = FALSE
  BY <1>1, <1>3
<1>. QED
  BY <1>1, <1>2, <1>4, NoAnomaly

\* A score whose value is the doubled median is no anomaly.
LEMMA AtMedian ==
  ASSUME NEW r, NEW st, NEW z, NEW a, NEW b, r = [status |-> st, z |-> z, anomaly |-> a # b],
         a = b
  PROVE  ~r.anomaly
<1>1. PICK p : p = (a # b)
  OBVIOUS
<1>2. r = [status |-> st, z |-> z, anomaly |-> p] /\ p = FALSE
  BY <1>1
<1>. QED
  BY <1>2, NoAnomaly

\* A value between the two middle ones of its baseline is no anomaly, with a threshold
\* above the score of the median deviation itself.
LEMMA Unflagged ==
  ASSUME NEW l, Family(l), NEW v \in Nat, 1000 * Threshold > 6745,
         Nearest(l, Cardinality(DOMAIN l), 2) <= v,
         v <= Nearest(l, Cardinality(DOMAIN l) + 1, 2)
  PROVE  ~Score(v, l).anomaly
<1>1. PICK n \in Nat \ {0} : n = Cardinality(DOMAIN l)
  BY UpToTyped
<1>2. PICK a, b : a = Nearest(l, n, 2) /\ b = Nearest(l, n + 1, 2)
  OBVIOUS
<1>3. /\ a \in Nat /\ b \in Nat /\ a <= v /\ v <= b /\ TwiceMedian(l) = a + b
      /\ \A i \in DOMAIN l : l[i] <= a \/ l[i] >= b
  BY <1>1, <1>2, MedianIs
<1>4. PICK devs : devs = Deviations(l, a + b)
  OBVIOUS
<1>5. DOMAIN devs = DOMAIN l /\ Family(devs)
      /\ \A i \in DOMAIN l : devs[i] = Distance(2 * l[i], a + b)
  BY <1>3, <1>4, DeviationsTyped
<1>6. \A i \in DOMAIN l : devs[i] >= b - a
  <2>1. \A i \in DOMAIN l : l[i] \in Nat
    BY DEF Family
  <2>. QED
    BY <1>3, <1>5, <2>1 DEF Distance
<1>7. PICK mad : mad = TwiceMedian(devs)
  OBVIOUS
<1>8. mad \in Nat /\ mad >= 2 * (b - a)
  <2>1. PICK c, d : c = Nearest(devs, n, 2) /\ d = Nearest(devs, n + 1, 2)
    OBVIOUS
  <2>2. c \in Nat /\ d \in Nat /\ mad = c + d /\ c <= d
    BY <1>1, <1>5, <1>7, <2>1, MedianIs
  <2>3. n <= 2 * Cardinality(DOMAIN devs)
    BY <1>1, <1>5
  <2>4. \E i \in DOMAIN devs : c = devs[i]
    BY <1>5, <2>1, <2>3, NearestIs
  <2>5. c >= b - a
    BY <1>5, <1>6, <2>4
  <2>. QED
    BY <1>3, <2>2, <2>5
<1>9. PICK total : total = Sum(devs, DOMAIN l)
  OBVIOUS
<1>10. total \in Nat
  BY <1>5, <1>9, SumNatural DEF Family
<1>11. Score(v, l) = ScoreFrom(v, n, a + b, mad, total)
  BY <1>1, <1>3, <1>4, <1>7, <1>9, ScoreIs
<1>12. Threshold \in Nat
  BY QualityAssumption
<1>13. ASSUME mad > 0
       PROVE  ~(6745 * Distance(4 * v, 2 * (a + b)) >= 1000 * mad * Threshold)
  <2>1. PICK x : x = Distance(4 * v, 2 * (a + b))
    OBVIOUS
  <2>2. x \in Nat /\ x <= mad
    BY <1>3, <1>8, <2>1 DEF Distance
  <2>3. 6746 * mad <= (1000 * Threshold) * mad
    BY <1>8, <1>12, TimesKeeps
  <2>4. (1000 * Threshold) * mad \in Int
    BY <1>8, <1>12
  <2>5. 6745 * x < (1000 * Threshold) * mad
    BY <1>8, <1>13, <2>2, <2>3, <2>4
  <2>6. 1000 * mad * Threshold = (1000 * Threshold) * mad
    BY <1>8, <1>12
  <2>. QED
    BY <2>1, <2>2, <2>4, <2>5, <2>6
<1>14. ASSUME mad = 0
       PROVE  Distance(2 * v, a + b) = 0 /\ 2 * v = a + b
  BY <1>3, <1>8, <1>14 DEF Distance
<1>15. ASSUME mad = 0, total > 0
       PROVE  ~(100000 * n * Distance(2 * v, a + b) >= 12533 * total * Threshold)
  <2>1. 100000 * n * Distance(2 * v, a + b) = 0
    BY <1>14, <1>15
  <2>2. 1 * total <= (12533 * Threshold) * total
    <3>1. 12533 * Threshold \in Int /\ 1 <= 12533 * Threshold
      BY <1>12
    <3>. QED
      BY <1>10, <3>1, TimesKeeps
  <2>3. (12533 * Threshold) * total \in Int /\ 1 * total = total
        /\ 12533 * total * Threshold = (12533 * Threshold) * total
    BY <1>10, <1>12
  <2>. QED
    BY <1>10, <1>15, <2>1, <2>2, <2>3
<1>16. ASSUME mad > 0
       PROVE  ~Score(v, l).anomaly
  <2>1. ScoreFrom(v, n, a + b, mad, total)
          = OkScore(6745 * Distance(4 * v, 2 * (a + b)), 1000 * mad)
    BY <1>16 DEF ScoreFrom
  <2>. QED
    BY <1>11, <1>13, <1>16, <2>1, BelowThreshold
<1>17. ASSUME mad = 0, ~(mad > 0), total > 0
       PROVE  ~Score(v, l).anomaly
  <2>1. ScoreFrom(v, n, a + b, mad, total)
          = OkScore(100000 * n * Distance(2 * v, a + b), 12533 * total)
    BY <1>17 DEF ScoreFrom
  <2>. QED
    BY <1>11, <1>15, <1>17, <2>1, BelowThreshold
<1>18. ASSUME mad = 0, ~(mad > 0), ~(total > 0)
       PROVE  ~Score(v, l).anomaly
  <2>1. PICK x, y : x = 2 * v /\ y = a + b
    OBVIOUS
  <2>2. PICK z : z = IF x = y THEN 0 ELSE NoScore
    OBVIOUS
  <2>3. ScoreFrom(v, n, a + b, mad, total)
          = [status |-> "degenerate_constant_baseline", z |-> z, anomaly |-> x # y]
    BY <1>18, <2>1, <2>2 DEF ScoreFrom
  <2>4. x = y
    BY <1>14, <1>18, <2>1
  <2>. QED
    BY <1>11, <2>3, <2>4, AtMedian
<1>19. mad > 0 \/ (mad = 0 /\ ~(mad > 0))
  BY <1>8
<1>. QED
  BY <1>16, <1>17, <1>18, <1>19

\* The score of a value of a group against its baseline.
ScoreAt(s, i) == Score(s[i], Baseline(s, i))

\* The values of a group that are anomalies.
Flagged(s) == {i \in DOMAIN s : ScoreAt(s, i).anomaly}

\* The status of a group that is large enough to be scored.
StatusOf(s) ==
  IF \E i \in DOMAIN s : ScoreAt(s, i).status = "ok" THEN "ok"
  ELSE "degenerate_constant_baseline"

\* The largest score of a group.
LargestOf(s) == Max({ScoreAt(s, i).z : i \in DOMAIN s})

\* A group that is large enough is scored value by value.
LEMMA GroupIs ==
  ASSUME NEW s, ~(Len(s) < MinSample)
  PROVE  ScoreGroup(s) = [status |-> StatusOf(s), anomalies |-> Cardinality(Flagged(s)),
                          max |-> LargestOf(s)]
<1>1. PICK scored : scored = [i \in DOMAIN s |-> Score(s[i], Baseline(s, i))]
  OBVIOUS
<1>2. \A i \in DOMAIN s : scored[i] = ScoreAt(s, i)
  BY <1>1 DEF ScoreAt
<1>3. {i \in DOMAIN s : scored[i].anomaly} = Flagged(s)
  BY <1>2 DEF Flagged
<1>4. (IF \E i \in DOMAIN s : scored[i].status = "ok" THEN "ok"
       ELSE "degenerate_constant_baseline") = StatusOf(s)
  BY <1>2 DEF StatusOf
<1>5. ScoreGroup(s)
        = [status |-> IF \E i \in DOMAIN s : scored[i].status = "ok" THEN "ok"
                      ELSE "degenerate_constant_baseline",
           anomalies |-> Cardinality({i \in DOMAIN s : scored[i].anomaly}),
           max |-> Max({scored[i].z : i \in DOMAIN s})]
  BY <1>1, Zenon DEF ScoreGroup
<1>6. {scored[i].z : i \in DOMAIN s} = {ScoreAt(s, i).z : i \in DOMAIN s}
  BY <1>2
<1>7. Max({scored[i].z : i \in DOMAIN s}) = LargestOf(s)
  BY <1>6, Zenon DEF LargestOf
<1>. QED
  BY <1>3, <1>4, <1>5, <1>7

\* The baseline of a value in a group that is read in another order.
LEMMA BaselineAgain ==
  ASSUME NEW s \in Seq(Nat), NEW t \in Seq(Nat), NEW n \in Nat, n = Len(s), n = Len(t),
         n \in 2..CrossFitAbove, NEW p \in Bijection(1..n, 1..n),
         \A i \in 1..n : t[i] = s[p[i]], NEW i \in 1..n
  PROVE  p[i] \in 1..n /\ Reindexed(Baseline(t, i), Baseline(s, p[i]), p)
<1>1. n \in Nat
  BY QualityAssumption
<1>2. /\ p \in [1..n -> 1..n] /\ \A x \in 1..n : \E j \in 1..n : p[j] = x
      /\ \A j, k \in 1..n : p[j] = p[k] => j = k
  BY DEF Bijection, Injection, IsInjective, Surjection
<1>3. Baseline(t, i) = [j \in (1..n) \ {i} |-> t[j]]
  BY BaselineIs
<1>4. Baseline(s, p[i]) = [j \in (1..n) \ {p[i]} |-> s[j]]
  <2>1. PICK x : x = p[i] /\ x \in 1..n
    BY <1>2
  <2>2. Baseline(s, x) = [j \in (1..n) \ {x} |-> s[j]]
    BY <2>1, BaselineIs
  <2>. QED
    BY <2>1, <2>2
<1>5. IsFiniteSet((1..n) \ {i})
  <2>1. IsFiniteSet(1..n)
    BY <1>1, FS_Interval
  <2>. QED
    BY <2>1, FS_RemoveElement
<1>6. PICK f, g : f = Baseline(t, i) /\ g = Baseline(s, p[i])
  OBVIOUS
<1>7. /\ DOMAIN f = (1..n) \ {i} /\ DOMAIN g = (1..n) \ {p[i]}
      /\ \A j \in DOMAIN f : f[j] = t[j]
      /\ \A j \in DOMAIN g : g[j] = s[j]
  BY <1>3, <1>4, <1>6
<1>8. \A j \in DOMAIN f : p[j] \in DOMAIN g /\ f[j] = g[p[j]]
  BY <1>2, <1>7
<1>9. \A x \in DOMAIN g : \E j \in DOMAIN f : p[j] = x
  BY <1>2, <1>7
<1>10. \A j, k \in DOMAIN f : p[j] = p[k] => j = k
  BY <1>2, <1>7
<1>11. IsFiniteSet(DOMAIN f)
  BY <1>5, <1>7
<1>12. Reindexed(f, g, p)
  BY <1>8, <1>9, <1>10, <1>11 DEF Reindexed
<1>. QED
  BY <1>2, <1>6, <1>12

\* A value is scored alike in a group that is read in another order.
LEMMA ScoreInOrder ==
  ASSUME NEW s \in Seq(Nat), NEW t \in Seq(Nat), NEW n \in Nat, n = Len(s), n = Len(t),
         n \in 2..CrossFitAbove, NEW p \in Bijection(1..n, 1..n),
         \A i \in 1..n : t[i] = s[p[i]]
  PROVE  \A i \in 1..n : ScoreAt(t, i) = ScoreAt(s, p[i])
<1>. SUFFICES ASSUME NEW i \in 1..n
              PROVE  ScoreAt(t, i) = ScoreAt(s, p[i])
  OBVIOUS
<1>1. p[i] \in 1..n
  BY BaselineAgain
<1>2. Reindexed(Baseline(t, i), Baseline(s, p[i]), p)
  BY BaselineAgain
<1>3. PICK g : g = Baseline(s, p[i])
  OBVIOUS
<1>4. Family(g)
  BY <1>1, <1>3, BaselineIs
<1>5. TwiceMedian(g) \in Int /\ \A x \in DOMAIN g : g[x] \in Nat
  <2>1. PICK c, d : c = Nearest(g, Cardinality(DOMAIN g), 2)
                    /\ d = Nearest(g, Cardinality(DOMAIN g) + 1, 2)
    OBVIOUS
  <2>2. c \in Nat /\ d \in Nat /\ TwiceMedian(g) = c + d
    BY <1>4, <2>1, MedianIs
  <2>. QED
    BY <1>4, <2>2 DEF Family
<1>6. Score(t[i], Baseline(t, i)) = Score(t[i], g)
  BY <1>2, <1>3, <1>5, ScoreAgain
<1>. QED
  BY <1>3, <1>6 DEF ScoreAt

\* A group scores the same in whatever order it is read.
LEMMA InAnyOrder ==
  ASSUME NEW s \in Seq(Nat), NEW n \in Nat, n = Len(s), n \in 2..CrossFitAbove, ~(n < MinSample),
         NEW p \in Bijection(1..n, 1..n)
  PROVE  ScoreGroup([i \in 1..n |-> s[p[i]]]) = ScoreGroup(s)
<1>1. PICK t : t = [i \in 1..n |-> s[p[i]]]
  OBVIOUS
<1>3. /\ p \in [1..n -> 1..n] /\ \A x \in 1..n : \E i \in 1..n : p[i] = x
      /\ \A i, j \in 1..n : p[i] = p[j] => i = j
  BY DEF Bijection, Injection, IsInjective, Surjection
<1>4. t \in Seq(Nat) /\ Len(t) = n /\ DOMAIN t = 1..n /\ DOMAIN s = 1..n
  <2>1. DOMAIN s = 1..n /\ \A i \in 1..n : s[i] \in Nat
    OBVIOUS
  <2>2. \A i \in 1..n : s[p[i]] \in Nat
    BY <1>3, <2>1
  <2>3. t \in [1..n -> Nat]
    BY <1>1, <2>2
  <2>4. t \in Seq(Nat)
    BY <2>3
  <2>5. Len(t) = n
    BY <2>3, <2>4
  <2>. QED
    BY <2>1, <2>3, <2>4, <2>5
<1>5. \A i \in 1..n : t[i] = s[p[i]]
  BY <1>1
<1>6. \A i \in 1..n : ScoreAt(t, i) = ScoreAt(s, p[i])
  <2>1. PICK r \in Seq(Nat) : r = t
    BY <1>4
  <2>2. n = Len(r)
    BY <1>4, <2>1
  <2>3. \A i \in 1..n : r[i] = s[p[i]]
    BY <1>5, <2>1
  <2>4. \A i \in 1..n : ScoreAt(r, i) = ScoreAt(s, p[i])
    BY <2>2, <2>3, ScoreInOrder
  <2>. QED
    BY <2>1, <2>4
<1>7. Cardinality(Flagged(s)) = Cardinality(Flagged(t))
  <2>1. PICK F, G : F = Flagged(t) /\ G = Flagged(s)
    OBVIOUS
  <2>2. \A i \in 1..n : i \in F <=> p[i] \in G
    BY <1>3, <1>4, <1>6, <2>1 DEF Flagged
  <2>3. F \subseteq 1..n /\ G \subseteq 1..n
    BY <1>4, <2>1 DEF Flagged
  <2>4. IsFiniteSet(F)
    <3>1. IsFiniteSet(1..n)
      BY FS_Interval
    <3>. QED
      BY <2>3, <3>1, FS_Subset
  <2>5. \A i \in F : p[i] \in G
    BY <2>2, <2>3
  <2>6. \A i, j \in F : p[i] = p[j] => i = j
    BY <1>3, <2>3
  <2>7. \A x \in G : \E i \in F : p[i] = x
    BY <1>3, <2>2, <2>3
  <2>8. Cardinality(G) = Cardinality(F)
    BY <2>4, <2>5, <2>6, <2>7, SameCount
  <2>. QED
    BY <2>1, <2>8
<1>8. StatusOf(t) = StatusOf(s)
  <2>1. (\E i \in 1..n : ScoreAt(t, i).status = "ok")
          <=> \E i \in 1..n : ScoreAt(s, i).status = "ok"
    <3>1. ASSUME NEW i \in 1..n, ScoreAt(t, i).status = "ok"
          PROVE  p[i] \in 1..n /\ ScoreAt(s, p[i]).status = "ok"
      BY <1>3, <1>6, <3>1
    <3>2. ASSUME NEW x \in 1..n, ScoreAt(s, x).status = "ok"
          PROVE  \E i \in 1..n : ScoreAt(t, i).status = "ok"
      <4>1. PICK i \in 1..n : p[i] = x
        BY <1>3
      <4>2. ScoreAt(t, i) = ScoreAt(s, x)
        BY <1>6, <4>1
      <4>. QED
        BY <3>2, <4>2
    <3>. QED
      BY <3>1, <3>2
  <2>. QED
    BY <1>4, <2>1 DEF StatusOf
<1>9. LargestOf(t) = LargestOf(s)
  <2>1. PICK A, B : A = {ScoreAt(t, i).z : i \in 1..n} /\ B = {ScoreAt(s, i).z : i \in 1..n}
    OBVIOUS
  <2>2. ASSUME NEW i \in 1..n
        PROVE  ScoreAt(t, i).z \in B
    <3>1. p[i] \in 1..n /\ ScoreAt(t, i).z = ScoreAt(s, p[i]).z
      BY <1>3, <1>6
    <3>. QED
      BY <2>1, <3>1
  <2>3. ASSUME NEW x \in 1..n
        PROVE  ScoreAt(s, x).z \in A
    <3>1. PICK i \in 1..n : p[i] = x
      BY <1>3
    <3>2. ScoreAt(t, i).z = ScoreAt(s, x).z
      BY <1>6, <3>1
    <3>. QED
      BY <2>1, <3>2
  <2>4. \A y \in A : y \in B
    BY <2>1, <2>2
  <2>5. \A y \in B : y \in A
    BY <2>1, <2>3
  <2>6. A = B
    BY <2>4, <2>5
  <2>. QED
    BY <1>4, <2>1, <2>6 DEF LargestOf
<1>10. ScoreGroup(s) = [status |-> StatusOf(s), anomalies |-> Cardinality(Flagged(s)),
                        max |-> LargestOf(s)]
  BY GroupIs
<1>11. ScoreGroup(t) = [status |-> StatusOf(t), anomalies |-> Cardinality(Flagged(t)),
                        max |-> LargestOf(t)]
  BY <1>4, GroupIs
<1>12. ScoreGroup(t) = ScoreGroup(s)
  BY <1>7, <1>8, <1>9, <1>10, <1>11
<1>. QED
  BY <1>1, <1>12

\* A value that at most half of its baseline exceeds, and at most half falls short of,
\* is between the two middle ones.
LEMMA BetweenMiddles ==
  ASSUME NEW l, Family(l), NEW n, n = Cardinality(DOMAIN l), NEW v \in Nat,
         2 * Cardinality(UpTo(l, v)) >= n,
         \A w \in Nat : w < v => 2 * Cardinality(UpTo(l, w)) <= n
  PROVE  Nearest(l, n, 2) <= v /\ v <= Nearest(l, n + 1, 2)
<1>1. n \in Nat \ {0} /\ \A w : Cardinality(UpTo(l, w)) \in Nat /\ IsFiniteSet(UpTo(l, w))
  BY UpToTyped
<1>2. \A i \in DOMAIN l : l[i] \in Nat
  BY DEF Family
<1>3. PICK a, b : a = Nearest(l, n, 2) /\ b = Nearest(l, n + 1, 2)
  OBVIOUS
<1>4. \A i \in DOMAIN l : 2 * Cardinality(UpTo(l, l[i])) >= n => a <= l[i]
  BY <1>1, <1>3, NearestIs
<1>5. (\E i \in DOMAIN l : b = l[i]) /\ 2 * Cardinality(UpTo(l, b)) >= n + 1
  <2>1. n + 1 \in Nat /\ n + 1 <= 2 * n
    BY <1>1
  <2>. QED
    BY <1>3, <2>1, NearestIs
<1>6. b \in Nat /\ v <= b
  <2>1. b \in Nat
    BY <1>2, <1>5
  <2>2. ~(b < v)
    BY <1>1, <1>5, <2>1
  <2>. QED
    BY <2>1, <2>2
<1>7. a <= v
  <2>1. UpTo(l, v) # {}
    <3>1. ASSUME UpTo(l, v) = {}
          PROVE  FALSE
      <4>1. Cardinality(UpTo(l, v)) = 0
        BY <3>1, FS_EmptySet
      <4>. QED
        BY <1>1, <4>1
    <3>. QED
      BY <3>1
  <2>2. PICK m \in DOMAIN l : l[m] <= v /\ UpTo(l, l[m]) = UpTo(l, v)
    BY <2>1, GreatestUpTo
  <2>4. a <= l[m]
    BY <1>4, <2>2
  <2>5. a \in Nat
    <3>1. \E i \in DOMAIN l : a = l[i]
      BY <1>1, <1>3, NearestIs
    <3>. QED
      BY <1>2, <3>1
  <2>. QED
    BY <1>2, <2>2, <2>4, <2>5
<1>. QED
  BY <1>3, <1>6, <1>7

\* A family without one of its values.
Without(f, i) == [j \in DOMAIN f \ {i} |-> f[j]]

\* It has one value less.
LEMMA WithoutIs ==
  ASSUME NEW f, Family(f), NEW n \in Nat, n = Cardinality(DOMAIN f), n > 1, NEW i \in DOMAIN f
  PROVE  /\ Family(Without(f, i)) /\ Cardinality(DOMAIN Without(f, i)) = n - 1
         /\ \A w : UpTo(Without(f, i), w) = UpTo(f, w) \ {i}
         /\ \A j \in DOMAIN Without(f, i) : Without(f, i)[j] = f[j] /\ j \in DOMAIN f /\ j # i
<1>1. PICK l : l = Without(f, i)
  OBVIOUS
<1>2. DOMAIN l = DOMAIN f \ {i} /\ \A j \in DOMAIN l : l[j] = f[j]
  BY <1>1 DEF Without
<1>3. IsFiniteSet(DOMAIN f) /\ \A j \in DOMAIN f : f[j] \in Nat
  BY DEF Family
<1>4. IsFiniteSet(DOMAIN f \ {i}) /\ Cardinality(DOMAIN f \ {i}) = Cardinality(DOMAIN f) - 1
  BY <1>3, FS_RemoveElement
<1>5. IsFiniteSet(DOMAIN l) /\ Cardinality(DOMAIN l) = n - 1
  BY <1>2, <1>4
<1>6. DOMAIN l # {}
  <2>1. ASSUME DOMAIN l = {}
        PROVE  FALSE
    <3>1. Cardinality(DOMAIN l) = 0
      BY <2>1, FS_EmptySet
    <3>. QED
      BY <1>5, <3>1
  <2>. QED
    BY <2>1
<1>7. Family(l)
  BY <1>2, <1>3, <1>5, <1>6 DEF Family
<1>8. \A w : UpTo(l, w) = UpTo(f, w) \ {i}
  BY <1>2 DEF UpTo
<1>9. \A j \in DOMAIN l : l[j] = f[j] /\ j \in DOMAIN f /\ j # i
  BY <1>2
<1>. QED
  BY <1>1, <1>5, <1>7, <1>8, <1>9

\* Among an odd number of values there is one between the middle ones of the others.
LEMMA MiddleIs ==
  ASSUME NEW f, Family(f), NEW n \in Nat, n = Cardinality(DOMAIN f), n > 1, n % 2 = 1
  PROVE  \E i \in DOMAIN f : LET l == Without(f, i)
                             IN  Nearest(l, n - 1, 2) <= f[i] /\ f[i] <= Nearest(l, n, 2)
<1>1. \A v : Cardinality(UpTo(f, v)) \in Nat /\ IsFiniteSet(UpTo(f, v))
  BY UpToTyped
<1>2. PICK m : m = Nearest(f, n, 2)
  OBVIOUS
<1>3. n <= 2 * Cardinality(DOMAIN f)
  OBVIOUS
<1>4. (\E i \in DOMAIN f : m = f[i]) /\ 2 * Cardinality(UpTo(f, m)) >= n
      /\ \A j \in DOMAIN f : 2 * Cardinality(UpTo(f, f[j])) >= n => m <= f[j]
  BY <1>2, <1>3, NearestIs
<1>5. PICK i \in DOMAIN f : m = f[i]
  BY <1>4
<1>6. m \in Nat /\ \A j \in DOMAIN f : f[j] \in Nat
  BY <1>5 DEF Family
<1>7. PICK l : l = Without(f, i)
  OBVIOUS
<1>8. Family(l) /\ Cardinality(DOMAIN l) = n - 1 /\ \A w : UpTo(l, w) = UpTo(f, w) \ {i}
  BY <1>7, WithoutIs
<1>9. 2 * Cardinality(UpTo(l, m)) >= n - 1
  <2>1. i \in UpTo(f, m)
    BY <1>5, <1>6 DEF UpTo
  <2>2. Cardinality(UpTo(f, m) \ {i}) = Cardinality(UpTo(f, m)) - 1
    BY <1>1, <2>1, FS_RemoveElement
  <2>3. PICK c \in Nat : c = Cardinality(UpTo(f, m))
    BY <1>1
  <2>4. 2 * c >= n /\ 2 * c # n
    BY <1>4, <2>3
  <2>5. Cardinality(UpTo(l, m)) = c - 1
    BY <1>8, <2>2, <2>3
  <2>. QED
    BY <2>4, <2>5
<1>10. ASSUME NEW w \in Nat, w < m
       PROVE  2 * Cardinality(UpTo(l, w)) <= n - 1
  <2>1. 2 * Cardinality(UpTo(f, w)) <= n - 1
    <3>1. CASE UpTo(f, w) = {}
      <4>1. Cardinality(UpTo(f, w)) = 0
        BY <3>1, FS_EmptySet
      <4>. QED
        BY <4>1
    <3>2. CASE UpTo(f, w) # {}
      <4>1. PICK j \in DOMAIN f : f[j] <= w /\ UpTo(f, f[j]) = UpTo(f, w)
        BY <3>2, GreatestUpTo
      <4>2. ~(m <= f[j])
        BY <1>6, <1>10, <4>1
      <4>3. ~(2 * Cardinality(UpTo(f, w)) >= n)
        BY <1>4, <4>1, <4>2
      <4>. QED
        BY <1>1, <4>3
    <3>. QED
      BY <3>1, <3>2
  <2>2. UpTo(l, w) \subseteq UpTo(f, w)
    BY <1>8
  <2>3. Cardinality(UpTo(l, w)) <= Cardinality(UpTo(f, w))
    BY <1>1, <2>2, FS_Subset
  <2>4. Cardinality(UpTo(l, w)) \in Nat
    BY <1>8, UpToTyped
  <2>. QED
    BY <1>1, <2>1, <2>3, <2>4
<1>11. PICK k \in Nat : k = n - 1
  OBVIOUS
<1>12. Nearest(l, k, 2) <= m /\ m <= Nearest(l, k + 1, 2)
  <2>1. k = Cardinality(DOMAIN l) /\ 2 * Cardinality(UpTo(l, m)) >= k
    BY <1>8, <1>9, <1>11
  <2>2. \A w \in Nat : w < m => 2 * Cardinality(UpTo(l, w)) <= k
    BY <1>10, <1>11
  <2>. QED
    BY <1>6, <1>8, <2>1, <2>2, BetweenMiddles
<1>13. k + 1 = n
  BY <1>11
<1>14. Nearest(l, n - 1, 2) <= m /\ m <= Nearest(l, n, 2)
  BY <1>11, <1>12, <1>13
<1>. QED
  BY <1>5, <1>7, <1>14

\* The lengths of a group are a family, and a baseline lacks one of them.
LEMMA GroupFamily ==
  ASSUME NEW s \in Seq(Nat), NEW n \in Nat, n = Len(s), n \in 2..CrossFitAbove
  PROVE  /\ DOMAIN s = 1..n /\ Family(s) /\ Cardinality(DOMAIN s) = n /\ n > 1
         /\ \A i \in 1..n : Baseline(s, i) = Without(s, i)
<1>1. DOMAIN s = 1..n /\ \A j \in 1..n : s[j] \in Nat
  OBVIOUS
<1>2. IsFiniteSet(1..n) /\ Cardinality(1..n) = n
  BY Places
<1>3. n > 1
  BY QualityAssumption
<1>4. Family(s)
  <2>1. 1..n # {}
    BY <1>3
  <2>. QED
    BY <1>1, <1>2, <2>1 DEF Family
<1>5. ASSUME NEW i \in 1..n
      PROVE  Baseline(s, i) = Without(s, i)
  <2>1. Baseline(s, i) = [j \in (1..n) \ {i} |-> s[j]]
    BY BaselineIs
  <2>. QED
    BY <1>1, <2>1 DEF Without
<1>. QED
  BY <1>1, <1>2, <1>3, <1>4, <1>5

\* A family of equal values has that value as its median.
LEMMA ConstantMedian ==
  ASSUME NEW l, Family(l), NEW c \in Nat, \A i \in DOMAIN l : l[i] = c
  PROVE  TwiceMedian(l) = 2 * c
<1>1. PICK n : n = Cardinality(DOMAIN l) /\ n \in Nat \ {0}
  BY UpToTyped
<1>2. Nearest(l, n, 2) = c
  <2>1. n \in Nat /\ n <= 2 * n
    BY <1>1
  <2>2. \E i \in DOMAIN l : Nearest(l, n, 2) = l[i]
    BY <1>1, <2>1, NearestIs
  <2>. QED
    BY <2>2
<1>3. Nearest(l, n + 1, 2) = c
  <2>1. n + 1 \in Nat /\ n + 1 <= 2 * n
    BY <1>1
  <2>2. \E i \in DOMAIN l : Nearest(l, n + 1, 2) = l[i]
    BY <1>1, <2>1, NearestIs
  <2>. QED
    BY <2>2
<1>. QED
  BY <1>1, <1>2, <1>3 DEF TwiceMedian

\* Some of the values, without one of them, are fewer.
LEMMA Fewer ==
  ASSUME NEW D, IsFiniteSet(D), NEW F, F \subseteq D, NEW x \in D, x \notin F
  PROVE  Cardinality(F) < Cardinality(D)
<1>1. F \in SUBSET D /\ F # D
  OBVIOUS
<1>2. Cardinality(F) <= Cardinality(D) /\ (Cardinality(D) = Cardinality(F) => D = F)
      /\ IsFiniteSet(F)
  BY <1>1, FS_Subset
<1>3. Cardinality(F) \in Nat /\ Cardinality(D) \in Nat
  BY <1>2, FS_CardinalityType
<1>. QED
  BY <1>1, <1>2, <1>3

\* A set of one value.
LEMMA OneValue ==
  ASSUME NEW S, IsFiniteSet(S), Cardinality(S) = 1
  PROVE  \E x : S = {x}
BY FS_Singleton

\* A set without one of its values.
LEMMA WithoutOne ==
  ASSUME NEW S, IsFiniteSet(S), NEW x \in S
  PROVE  IsFiniteSet(S \ {x}) /\ Cardinality(S \ {x}) = Cardinality(S) - 1
BY FS_RemoveElement

\* One value differs from the others, which are equal.
Alone(s, x, w) == x \in DOMAIN s /\ s[x] # w /\ \A i \in DOMAIN s : i # x => s[i] = w

\* Of two values one occurs once, and the other everywhere else.
LEMMA OnceAmong ==
  ASSUME NEW s, IsFiniteSet(DOMAIN s), NEW v \in ToSet(s), Occurrences(s, v) = 1,
         Cardinality(ToSet(s)) = 2
  PROVE  \E x, w : Alone(s, x, w)
<1>. DEFINE P == {i \in DOMAIN s : s[i] = v}
            S == ToSet(s)
<1>1. IsFiniteSet(P) /\ Cardinality(P) = 1
  BY FS_Subset DEF Occurrences
<1>2. S = Range(s)
  BY DEF ToSet, Range
<1>3. IsFiniteSet(S) /\ v \in S /\ Cardinality(S) = 2
  BY <1>2, FamilyRange
<1>. HIDE DEF P, S
<1>4. PICK x : P = {x}
  BY <1>1, OneValue
<1>5. IsFiniteSet(S \ {v}) /\ Cardinality(S \ {v}) = 1
  BY <1>3, WithoutOne
<1>6. PICK w : S \ {v} = {w}
  BY <1>5, OneValue
<1>7. x \in DOMAIN s /\ \A i \in DOMAIN s : s[i] = v <=> i = x
  BY <1>4 DEF P
<1>8. \A i \in DOMAIN s : s[i] \in S
  BY DEF S, ToSet
<1>9. w # v /\ \A i \in DOMAIN s : s[i] = v \/ s[i] = w
  BY <1>6, <1>8
<1>10. Alone(s, x, w)
  BY <1>7, <1>9 DEF Alone
<1>. QED
  BY <1>10

\* In an odd group the value in the middle is no anomaly, so not all are.
LEMMA OddGroup ==
  ASSUME NEW s \in Seq(Nat), NEW n \in Nat, n = Len(s), n \in 2..CrossFitAbove, n % 2 = 1,
         1000 * Threshold > 6745
  PROVE  Cardinality(Flagged(s)) < n
<1>1. DOMAIN s = 1..n /\ Family(s) /\ Cardinality(DOMAIN s) = n /\ n > 1
      /\ \A i \in 1..n : Baseline(s, i) = Without(s, i)
  BY GroupFamily
<1>2. PICK i \in DOMAIN s : LET l == Without(s, i)
                            IN  Nearest(l, n - 1, 2) <= s[i] /\ s[i] <= Nearest(l, n, 2)
  <2>1. PICK f : f = s /\ Family(f) /\ n = Cardinality(DOMAIN f) /\ n > 1
    BY <1>1
  <2>2. \E i \in DOMAIN f : LET l == Without(f, i)
                            IN  Nearest(l, n - 1, 2) <= f[i] /\ f[i] <= Nearest(l, n, 2)
    BY <2>1, MiddleIs
  <2>. QED
    BY <2>1, <2>2
<1>3. PICK l : l = Without(s, i)
  OBVIOUS
<1>4. Family(l) /\ Cardinality(DOMAIN l) = n - 1
  BY <1>1, <1>3, WithoutIs
<1>5. ~Score(s[i], l).anomaly
  <2>1. PICK k \in Nat : k = n - 1 /\ k + 1 = n
    BY <1>1
  <2>2. k = Cardinality(DOMAIN l) /\ Nearest(l, k, 2) <= s[i] /\ s[i] <= Nearest(l, k + 1, 2)
    BY <1>2, <1>3, <1>4, <2>1
  <2>3. s[i] \in Nat
    BY <1>1 DEF Family
  <2>. QED
    BY <1>4, <2>2, <2>3, Unflagged
<1>6. i \notin Flagged(s)
  BY <1>1, <1>3, <1>5 DEF Flagged, ScoreAt
<1>7. PICK F, D : F = Flagged(s) /\ D = DOMAIN s
  OBVIOUS
<1>8. IsFiniteSet(D) /\ F \subseteq D /\ i \in D /\ i \notin F
  BY <1>1, <1>6, <1>7 DEF Flagged, Family
<1>9. Cardinality(F) < Cardinality(D)
  BY <1>8, Fewer
<1>. QED
  BY <1>1, <1>7, <1>9

\* Against a constant baseline every other value is an anomaly.
LEMMA AgainstConstant ==
  ASSUME NEW l, Family(l), NEW w \in Nat, \A j \in DOMAIN l : l[j] = w, NEW v \in Nat, v # w
  PROVE  Score(v, l).anomaly
<1>1. TwiceMedian(l) = 2 * w
  BY ConstantMedian
<1>2. PICK devs : devs = Deviations(l, 2 * w)
  OBVIOUS
<1>3. DOMAIN devs = DOMAIN l /\ Family(devs)
      /\ \A j \in DOMAIN l : devs[j] = Distance(2 * l[j], 2 * w)
  BY <1>2, DeviationsTyped
<1>4. \A j \in DOMAIN devs : devs[j] = 0
  BY <1>3 DEF Distance
<1>5. TwiceMedian(devs) = 0
  <2>1. TwiceMedian(devs) = 2 * 0
    BY <1>3, <1>4, ConstantMedian
  <2>. QED
    BY <2>1
<1>6. Sum(devs, DOMAIN l) = 0
  <2>1. PICK S : S = DOMAIN l
    OBVIOUS
  <2>2. IsFiniteSet(S) /\ \A x \in S : devs[x] \in Nat /\ devs[x] = 0
    BY <1>3, <1>4, <2>1 DEF Family
  <2>3. Sum(devs, S) = 0
    BY <2>2, SumNatural
  <2>. QED
    BY <2>1, <2>3
<1>7. Score(v, l) = ScoreFrom(v, Cardinality(DOMAIN l), 2 * w, 0, 0)
  BY <1>1, <1>2, <1>5, <1>6, ScoreIs
<1>8. PICK z : z = IF 2 * v = 2 * w THEN 0 ELSE NoScore
  OBVIOUS
<1>9. ScoreFrom(v, Cardinality(DOMAIN l), 2 * w, 0, 0)
        = [status |-> "degenerate_constant_baseline", z |-> z, anomaly |-> 2 * v # 2 * w]
  BY <1>8 DEF ScoreFrom
<1>10. PICK p : p = (2 * v # 2 * w) /\ (2 * v # 2 * w) = TRUE
  OBVIOUS
<1>11. Score(v, l) = [status |-> "degenerate_constant_baseline", z |-> z, anomaly |-> p]
  BY <1>7, <1>9, <1>10
<1>12. p = TRUE
  BY <1>10
<1>. QED
  BY <1>11, <1>12

\* A value that all but one of the others equal is between the middle ones of those.
LEMMA AmongEquals ==
  ASSUME NEW l, Family(l), NEW n \in Nat, n = Cardinality(DOMAIN l), n > 1, NEW w \in Nat,
         NEW x, \A j \in DOMAIN l : j # x => l[j] = w
  PROVE  Nearest(l, n, 2) <= w /\ w <= Nearest(l, n + 1, 2)
<1>1. \A v : Cardinality(UpTo(l, v)) \in Nat /\ IsFiniteSet(UpTo(l, v))
  BY UpToTyped
<1>2. IsFiniteSet(DOMAIN l) /\ IsFiniteSet(DOMAIN l \ {x})
      /\ Cardinality(DOMAIN l \ {x}) \in Nat /\ Cardinality(DOMAIN l \ {x}) >= n - 1
  <2>1. IsFiniteSet(DOMAIN l)
    BY DEF Family
  <2>2. CASE x \in DOMAIN l
    <3>1. IsFiniteSet(DOMAIN l \ {x}) /\ Cardinality(DOMAIN l \ {x}) = Cardinality(DOMAIN l) - 1
      BY <2>1, <2>2, WithoutOne
    <3>2. Cardinality(DOMAIN l \ {x}) \in Nat
      BY <3>1, FS_CardinalityType
    <3>. QED
      BY <2>1, <3>1, <3>2
  <2>3. CASE x \notin DOMAIN l
    <3>1. DOMAIN l \ {x} = DOMAIN l
      BY <2>3
    <3>. QED
      BY <2>1, <3>1, FS_CardinalityType
  <2>. QED
    BY <2>2, <2>3
<1>3. 2 * Cardinality(UpTo(l, w)) >= n
  <2>1. DOMAIN l \ {x} \subseteq UpTo(l, w)
    BY DEF UpTo
  <2>2. Cardinality(DOMAIN l \ {x}) <= Cardinality(UpTo(l, w))
    BY <1>1, <2>1, FS_Subset
  <2>. QED
    BY <1>1, <1>2, <2>2
<1>4. ASSUME NEW u \in Nat, u < w
      PROVE  2 * Cardinality(UpTo(l, u)) <= n
  <2>1. UpTo(l, u) \subseteq {x}
    BY <1>4 DEF UpTo
  <2>2. IsFiniteSet({x}) /\ Cardinality({x}) = 1
    BY FS_Singleton
  <2>3. Cardinality(UpTo(l, u)) <= Cardinality({x})
    BY <2>1, <2>2, FS_Subset
  <2>. QED
    BY <1>1, <2>2, <2>3
<1>. QED
  BY <1>3, <1>4, BetweenMiddles

\* A value alone among equal ones is an anomaly.
LEMMA AloneIs ==
  ASSUME NEW f, Family(f), NEW n \in Nat, n = Cardinality(DOMAIN f), n > 2,
         NEW x \in DOMAIN f, NEW w \in Nat, f[x] # w, \A i \in DOMAIN f : i # x => f[i] = w
  PROVE  Score(f[x], Without(f, x)).anomaly
<1>1. PICK l, v : l = Without(f, x) /\ v = f[x]
  OBVIOUS
<1>2. n > 1
  OBVIOUS
<1>3. Family(l)
  BY <1>1, <1>2, WithoutIs
<1>4. \A j \in DOMAIN l : l[j] = f[j] /\ j \in DOMAIN f /\ j # x
  BY <1>1, <1>2, WithoutIs
<1>5. \A j \in DOMAIN l : l[j] = w
  BY <1>4
<1>6. v \in Nat /\ v # w
  BY <1>1 DEF Family
<1>7. Score(v, l).anomaly
  BY <1>3, <1>5, <1>6, AgainstConstant
<1>. QED
  BY <1>1, <1>7

\* The values that are equal are none.
LEMMA OthersAre ==
  ASSUME NEW f, Family(f), NEW n \in Nat, n = Cardinality(DOMAIN f), n > 2,
         NEW x \in DOMAIN f, NEW w \in Nat, \A i \in DOMAIN f : i # x => f[i] = w,
         NEW y \in DOMAIN f, y # x, 1000 * Threshold > 6745
  PROVE  ~Score(f[y], Without(f, y)).anomaly
<1>1. PICK l : l = Without(f, y)
  OBVIOUS
<1>2. n > 1
  OBVIOUS
<1>3. Family(l) /\ Cardinality(DOMAIN l) = n - 1
  BY <1>1, <1>2, WithoutIs
<1>4. \A j \in DOMAIN l : l[j] = f[j] /\ j \in DOMAIN f /\ j # y
  BY <1>1, <1>2, WithoutIs
<1>5. PICK k \in Nat : k = Cardinality(DOMAIN l) /\ k > 1
  BY <1>3
<1>6. \A j \in DOMAIN l : j # x => l[j] = w
  BY <1>4
<1>7. Nearest(l, k, 2) <= w /\ w <= Nearest(l, k + 1, 2)
  BY <1>3, <1>5, <1>6, AmongEquals
<1>8. ~Score(w, l).anomaly
  BY <1>3, <1>5, <1>7, Unflagged
<1>9. f[y] = w
  OBVIOUS
<1>. QED
  BY <1>1, <1>8, <1>9

\* So in a group a value alone among equal ones is the only anomaly.
LEMMA OneFlagged ==
  ASSUME NEW s, NEW x \in DOMAIN s, ScoreAt(s, x).anomaly,
         \A i \in DOMAIN s : i # x => ~ScoreAt(s, i).anomaly
  PROVE  Cardinality(Flagged(s)) = 1
<1>1. Flagged(s) = {x}
  BY DEF Flagged
<1>2. Cardinality({x}) = 1
  BY FS_Singleton
<1>. QED
  BY <1>1, <1>2

\* A value alone among equal ones is the only anomaly of its group.
LEMMA AloneIsFlagged ==
  ASSUME NEW s \in Seq(Nat), NEW n \in Nat, n = Len(s), n \in 2..CrossFitAbove, n > 2,
         1000 * Threshold > 6745, NEW v \in ToSet(s), Occurrences(s, v) = 1,
         Cardinality(ToSet(s)) = 2
  PROVE  Cardinality(Flagged(s)) = 1
<1>1. DOMAIN s = 1..n /\ Family(s) /\ Cardinality(DOMAIN s) = n
      /\ \A i \in 1..n : Baseline(s, i) = Without(s, i)
  BY GroupFamily
<1>2. PICK f : f = s
  OBVIOUS
<1>3. Family(f) /\ n = Cardinality(DOMAIN f) /\ IsFiniteSet(DOMAIN f)
      /\ v \in ToSet(f) /\ Occurrences(f, v) = 1 /\ Cardinality(ToSet(f)) = 2
  BY <1>1, <1>2 DEF Family
<1>4. PICK x, w : Alone(f, x, w)
  BY <1>3, OnceAmong
<1>5. w \in Nat
  <2>1. PICK j \in DOMAIN f : j # x
    <3>1. 1 \in 1..n /\ 2 \in 1..n
      OBVIOUS
    <3>. QED
      BY <1>1, <1>2, <3>1
  <2>. QED
    BY <1>3, <1>4, <2>1 DEF Family, Alone
<1>6. Score(f[x], Without(f, x)).anomaly
  BY <1>3, <1>4, <1>5, AloneIs DEF Alone
<1>7. \A y \in DOMAIN f : y # x => ~Score(f[y], Without(f, y)).anomaly
  BY <1>3, <1>4, <1>5, OthersAre DEF Alone
<1>8. ScoreAt(f, x).anomaly
  BY <1>1, <1>2, <1>4, <1>6 DEF ScoreAt, Alone
<1>9. \A y \in DOMAIN f : y # x => ~ScoreAt(f, y).anomaly
  BY <1>1, <1>2, <1>7 DEF ScoreAt
<1>. QED
  BY <1>2, <1>4, <1>8, <1>9, OneFlagged DEF Alone

\* What AnomaliesAreOutliers says of the lengths of one group.
OutliersOf(s, n) ==
  LET flagged == ScoreGroup(s).anomalies
      alone(v) == Occurrences(s, v) = 1 /\ Cardinality(ToSet(s)) = 2
  IN  n \in Max({3, MinSample})..CrossFitAbove =>
        /\ \A order \in Bijection(1..n, 1..n) :
             ScoreGroup([i \in 1..n |-> s[order[i]]]) = ScoreGroup(s)
        /\ 1000 * Threshold > 6745 =>
             /\ (\E v \in ToSet(s) : alone(v)) => flagged = 1
             /\ n % 2 = 1 => flagged < n

\* It is true of all sequences of lengths.
LEMMA OutliersAre ==
  ASSUME NEW s \in Seq(Nat), NEW n \in Nat, n = Len(s)
  PROVE  OutliersOf(s, n)
<1>. SUFFICES ASSUME n \in Max({3, MinSample})..CrossFitAbove
     PROVE  /\ \A order \in Bijection(1..n, 1..n) :
                 ScoreGroup([i \in 1..n |-> s[order[i]]]) = ScoreGroup(s)
            /\ 1000 * Threshold > 6745 =>
                 /\ (\E v \in ToSet(s) : Occurrences(s, v) = 1 /\ Cardinality(ToSet(s)) = 2)
                      => ScoreGroup(s).anomalies = 1
                 /\ n % 2 = 1 => ScoreGroup(s).anomalies < n
  BY Zenon DEF OutliersOf
<1>2. PICK m : m = Max({3, MinSample}) /\ m \in Int /\ 3 <= m /\ MinSample <= m
  BY QualityAssumption, MaxOfTwo
<1>3. n > 2 /\ n \in 2..CrossFitAbove /\ ~(n < MinSample)
  BY <1>2, QualityAssumption
<1>4. ASSUME NEW order \in Bijection(1..n, 1..n)
      PROVE  ScoreGroup([i \in 1..n |-> s[order[i]]]) = ScoreGroup(s)
  BY <1>3, InAnyOrder
<1>5. ScoreGroup(s).anomalies = Cardinality(Flagged(s))
  <2>1. ScoreGroup(s) = [status |-> StatusOf(s), anomalies |-> Cardinality(Flagged(s)),
                         max |-> LargestOf(s)]
    BY <1>3, GroupIs
  <2>. QED
    BY <2>1
<1>6. ASSUME 1000 * Threshold > 6745, NEW v \in ToSet(s), Occurrences(s, v) = 1,
             Cardinality(ToSet(s)) = 2
      PROVE  ScoreGroup(s).anomalies = 1
  <2>1. Cardinality(Flagged(s)) = 1
    BY <1>3, <1>6, AloneIsFlagged
  <2>. QED
    BY <1>5, <2>1
<1>7. ASSUME 1000 * Threshold > 6745, n % 2 = 1
      PROVE  ScoreGroup(s).anomalies < n
  <2>1. Cardinality(Flagged(s)) < n
    BY <1>3, <1>7, OddGroup
  <2>. QED
    BY <1>5, <2>1
<1>. QED
  BY <1>4, <1>6, <1>7

\* Anomalies are scored of what the accumulator holds, which are lengths.
LEMMA AccumulatedLengths ==
  ASSUME LoopInv, SampleInv
  PROVE  AnomaliesAreOutliers
<1>1. ASSUME NEW k \in DOMAIN quality.groups
      PROVE  OutliersOf(quality.groups[k], Len(quality.groups[k]))
  <2>1. At(quality.groups, k, <<>>) \in Seq(Nat)
    BY Groups DEF GroupInv
  <2>2. quality.groups[k] \in Seq(Nat)
    BY <2>1 DEF At
  <2>. QED
    <3>1. PICK s \in Seq(Nat) : s = quality.groups[k]
      BY <2>2
    <3>2. OutliersOf(s, Len(s))
      <4>1. Len(s) \in Nat
        OBVIOUS
      <4>. QED
        BY <4>1, OutliersAre
    <3>. QED
      BY <3>1, <3>2
<1>. QED
  BY <1>1, Zenon DEF AnomaliesAreOutliers, OutliersOf

\* In whatever order the lengths of a group were read the same number are anomalies, a
\* length alone among equal ones is the only one, and in an odd group not all are:
\* QualityAccumulator.add and score_group, for every bound of the sample, every
\* threshold and every stream of records.
THEOREM Outliers == Spec => []AnomaliesAreOutliers
<1>1. Init => LoopInv /\ SampleInv
  BY SampleStarts
<1>2. LoopInv /\ SampleInv /\ [Next]_vars => LoopInv' /\ SampleInv'
  BY LoopStep, SampleStep
<1>3. LoopInv /\ SampleInv => AnomaliesAreOutliers
  BY AccumulatedLengths
<1>. QED
  BY <1>1, <1>2, <1>3, PTL DEF Spec
=============================================================================
