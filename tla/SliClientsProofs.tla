--------------------------- MODULE SliClientsProofs ---------------------------
(***************************************************************************)
(* The two HTTP clients of the SLI job, for any limits and any number of   *)
(* records: the paginated read of LangfuseSource, and the retried          *)
(* documents of OtlpExport.                                                *)
(***************************************************************************)
EXTENDS LangfuseSource, OtlpExport, FiniteSetTheorems, SequenceTheorems, TLAPS

-----------------------------------------------------------------------------
(* OtlpExport                                                              *)

\* The places of the documents of one kind.
Places(k) == {i \in DOMAIN received : received[i].kind = k}

\* How many copies the collector has is a number.
LEMMA CopiesCounted ==
  ASSUME ExportTypeOK, NEW k
  PROVE  /\ IsFiniteSet(Places(k)) /\ Copies(k) = Cardinality(Places(k))
         /\ Copies(k) \in Nat
<1>1. DOMAIN received = 1..Len(received) /\ Len(received) \in Nat
  BY DEF ExportTypeOK
<1>2. IsFiniteSet(1..Len(received)) /\ Places(k) \in SUBSET (1..Len(received))
  BY <1>1, FS_Interval DEF Places
<1>3. IsFiniteSet(Places(k))
  BY <1>2, FS_Subset
<1>4. Copies(k) = Cardinality(Places(k))
  BY DEF Copies, Places
<1>. QED
  BY <1>3, <1>4, FS_CardinalityType

\* One document more is one copy more of its kind, and none of another.
LEMMA CopiesAppended ==
  ASSUME ExportTypeOK, NEW d \in Documents, received' = Append(received, d), NEW k
  PROVE  Copies(k)' = Copies(k) + (IF d.kind = k THEN 1 ELSE 0)
<1>. DEFINE n == Len(received) + 1
<1>1. /\ received \in Seq(Documents) /\ Len(received) \in Nat
      /\ received' \in Seq(Documents)
      /\ DOMAIN received = 1..Len(received) /\ DOMAIN received' = 1..n
      /\ \A i \in 1..Len(received) : received'[i] = received[i]
      /\ received'[n] = d
  <2>1. received \in Seq(Documents)
    BY DEF ExportTypeOK
  <2>2. /\ received' \in Seq(Documents) /\ Len(received') = n
        /\ \A i \in 1..Len(received) : received'[i] = received[i]
        /\ received'[n] = d
    BY <2>1, AppendProperties
  <2>. QED
    BY <2>1, <2>2, LenProperties
<1>2. IsFiniteSet(Places(k)) /\ n \notin Places(k)
  <2>1. IsFiniteSet(Places(k))
    BY CopiesCounted
  <2>2. n \notin Places(k)
    BY <1>1 DEF Places
  <2>. QED
    BY <2>1, <2>2
<1>3. Places(k)' = IF d.kind = k THEN Places(k) \cup {n} ELSE Places(k)
  <2>1. \A i \in 1..n : i \in 1..Len(received) \/ i = n
    BY <1>1
  <2>2. 1..Len(received) \subseteq 1..n /\ n \in 1..n
    BY <1>1
  <2>. QED
    BY <1>1, <2>1, <2>2 DEF Places
<1>4. Cardinality(Places(k)') = Cardinality(Places(k)) + (IF d.kind = k THEN 1 ELSE 0)
  <2>1. Cardinality(Places(k)) \in Nat
    BY CopiesCounted
  <2>2. Cardinality(Places(k) \cup {n}) = Cardinality(Places(k)) + 1
    BY <1>2, FS_AddElement
  <2>. QED
    BY <1>3, <2>1, <2>2
<1>5. Copies(k)' = Cardinality(Places(k)')
  BY DEF Copies, Places
<1>. QED
  BY <1>4, <1>5, CopiesCounted

\* The document of a stage is of its kind, and the heartbeat carries the export flag.
LEMMA DocumentOfStage ==
  ASSUME ExportTypeOK, stage # "returned"
  PROVE  /\ Document \in Documents /\ Document.kind = stage
         /\ stage = "health" => Document.success = exportOk
BY DEF ExportTypeOK, Kinds, Document, Documents

\* What the collector may receive in a step: nothing, or the document of the stage.
LEMMA Received ==
  ASSUME ExportTypeOK, stage # "returned",
         received' \in {received, Append(received, Document)}
  PROVE  /\ \A k : \/ Copies(k)' = Copies(k)
                   \/ k = stage /\ Copies(k)' = Copies(k) + 1
         /\ received' = Append(received, Document)
              => \A k : k = stage => Copies(k)' = Copies(k) + 1
         /\ \A k : Copies(k) \in Nat
         /\ received' \in Seq(Documents)
<1>1. \A k : Copies(k) \in Nat
  BY CopiesCounted
<1>0. Append(received, Document) # received
  <2>1. received \in Seq(Documents) /\ Document \in Documents
    BY DocumentOfStage DEF ExportTypeOK
  <2>2. Len(received) \in Nat /\ Len(Append(received, Document)) = Len(received) + 1
    BY <2>1, AppendProperties, LenProperties
  <2>. QED
    BY <2>2
<1>2. CASE received' = received
  BY <1>0, <1>1, <1>2 DEF Copies, ExportTypeOK
<1>3. CASE received' = Append(received, Document)
  <2>1. Document \in Documents /\ Document.kind = stage
    BY DocumentOfStage
  <2>2. ASSUME NEW k
        PROVE  Copies(k)' = Copies(k) + (IF stage = k THEN 1 ELSE 0)
    BY <1>3, <2>1, CopiesAppended
  <2>3. received' \in Seq(Documents)
    BY <1>3, <2>1, AppendProperties DEF ExportTypeOK
  <2>. QED
    BY <1>1, <1>3, <2>2, <2>3
<1>. QED
  BY <1>2, <1>3

\* The health heartbeats that report success stay behind a flush, whatever is received.
LEMMA HealthAfterFlush ==
  ASSUME ExportTypeOK, FlagsInv, stage # "returned",
         received' \in {received, Append(received, Document)}
  PROVE  \A i \in DOMAIN received' :
           received'[i].kind = "health" /\ received'[i].success
             => \E j \in 1..(i - 1) : received'[j].kind = "flush"
<1>1. CASE received' = received
  BY <1>1 DEF FlagsInv
<1>2. CASE received' = Append(received, Document)
  <2>. DEFINE n == Len(received)
  <2>1. /\ received \in Seq(Documents) /\ n \in Nat /\ DOMAIN received = 1..n
        /\ DOMAIN received' = 1..(n + 1)
        /\ \A i \in 1..n : received'[i] = received[i]
        /\ received'[n + 1] = Document
    <3>1. received \in Seq(Documents) /\ Document \in Documents
      BY DocumentOfStage DEF ExportTypeOK
    <3>. QED
      BY <1>2, <3>1, AppendProperties, LenProperties
  <2>2. ASSUME NEW i \in 1..n, received'[i].kind = "health", received'[i].success
        PROVE  \E j \in 1..(i - 1) : received'[j].kind = "flush"
    <3>1. PICK j \in 1..(i - 1) : received[j].kind = "flush"
      BY <2>1, <2>2 DEF FlagsInv
    <3>2. received'[j] = received[j]
      BY <2>1, <3>1
    <3>. QED
      BY <3>1, <3>2
  <2>3. ASSUME received'[n + 1].kind = "health", received'[n + 1].success
        PROVE  \E j \in 1..n : received'[j].kind = "flush"
    <3>1. stage = "health" /\ exportOk
      BY <2>1, <2>3, DocumentOfStage
    <3>2. Copies("flush") >= 1
      BY <3>1 DEF FlagsInv, Past
    <3>3. Places("flush") # {}
      BY <3>2, CopiesCounted, FS_EmptySet
    <3>4. PICK j \in 1..n : received[j].kind = "flush"
      BY <2>1, <3>3 DEF Places
    <3>. QED
      BY <2>1, <3>4
  <2>4. \A i \in 1..(n + 1) : i \in 1..n \/ (i = n + 1 /\ i - 1 = n)
    BY <2>1
  <2>. QED
    BY <2>1, <2>2, <2>3, <2>4
<1>. QED
  BY <1>1, <1>2

\* Every step of the exporter keeps its invariant.
LEMMA ExportStep ==
  ASSUME ExportInv, [ExportNext]_exportVars
  PROVE  ExportInv'
<1>. USE DEF ExportInv
<1>1. CASE UNCHANGED exportVars \/ Returned
  <2>1. UNCHANGED <<stage, exportAttempt, sourceOk, exportOk, heartbeatOk, conflict, received>>
    BY <1>1 DEF exportVars, Returned
  <2>. QED
    BY <2>1 DEF ExportTypeOK, CopiesInv, FlagsInv, Copies, Past
<1>2. CASE Retryable \/ Accepted \/ Raised
  <2>1. /\ stage # "returned" /\ sourceOk' = sourceOk
        /\ received' \in {received, Append(received, Document)}
    BY <1>2 DEF Retryable, Accepted, Raised
  <2>2. /\ exportAttempt \in 0..ExportRetries /\ ExportRetries \in Nat
        /\ stage \in Kinds
        /\ \A k : Copies(k) \in Nat
        /\ \A k : \/ Copies(k)' = Copies(k)
                  \/ k = stage /\ Copies(k)' = Copies(k) + 1
    BY <2>1, Received, OtlpAssumption DEF ExportTypeOK, Kinds
  <2>3. received' \in Seq(Documents)
    BY <2>1, Received
  <2>4. \A i \in DOMAIN received' :
          received'[i].kind = "health" /\ received'[i].success
            => \E j \in 1..(i - 1) : received'[j].kind = "flush"
    BY <2>1, HealthAfterFlush
  <2>5. CASE Retryable
    <3>1. /\ UNCHANGED <<stage, exportOk, heartbeatOk, conflict>>
          /\ exportAttempt' = exportAttempt + 1 /\ exportAttempt < ExportRetries
      BY <2>5 DEF Retryable, MayRetry
    <3>2. ExportTypeOK'
      BY <2>1, <2>2, <2>3, <3>1 DEF ExportTypeOK
    <3>3. CopiesInv'
      BY <2>1, <2>2, <3>1 DEF CopiesInv, Past, Kinds
    <3>4. FlagsInv'
      BY <2>1, <2>2, <2>4, <3>1 DEF FlagsInv, Past, Kinds
    <3>. QED
      BY <3>2, <3>3, <3>4
  <2>6. CASE Accepted \/ Raised
    <3>1. /\ exportAttempt' = 0
          /\ \/ stage = "flush" /\ stage' = "health"
             \/ stage = "health" /\ stage' = "final"
             \/ stage = "final" /\ stage' = "returned"
      BY <2>2, <2>6 DEF Accepted, Raised, NextStage, Kinds
    <3>2. conflict' \in BOOLEAN
      BY <2>2, <2>6, OtlpAssumption
      DEF Accepted, Raised, NextStage, Kinds, ExportTypeOK
    <3>3. \/ /\ UNCHANGED <<exportOk, heartbeatOk>>
             /\ received' = Append(received, Document)
          \/ /\ exportOk' = (exportOk /\ stage # "flush")
             /\ heartbeatOk' = (heartbeatOk /\ stage = "flush")
      BY <2>6 DEF Accepted, Raised, FlagsAfterFailure
    <3>4. \A k : k = stage => Copies(k)' <= ExportRetries + 1
      BY <2>2 DEF CopiesInv, Past
    <3>5. ExportTypeOK'
      <4>1. exportOk' \in BOOLEAN /\ heartbeatOk' \in BOOLEAN
        BY <3>3 DEF ExportTypeOK
      <4>2. stage' \in Kinds \cup {"returned"} /\ exportAttempt' \in 0..ExportRetries
        BY <2>2, <3>1 DEF Kinds
      <4>. QED
        BY <2>1, <2>3, <3>2, <4>1, <4>2 DEF ExportTypeOK
    <3>6. CopiesInv'
      BY <2>1, <2>2, <3>1, <3>4 DEF CopiesInv, Past, Kinds
    <3>7. FlagsInv'
      <4>1. CASE /\ UNCHANGED <<exportOk, heartbeatOk>>
                 /\ received' = Append(received, Document)
        <5>1. \A k : k = stage => Copies(k)' >= 1
          BY <2>1, <2>2, <4>1, Received
        <5>. QED
          BY <2>1, <2>2, <2>4, <3>1, <4>1, <5>1
          DEF FlagsInv, Past, Kinds
      <4>2. CASE /\ exportOk' = (exportOk /\ stage # "flush")
                 /\ heartbeatOk' = (heartbeatOk /\ stage = "flush")
        BY <2>1, <2>2, <2>4, <3>1, <4>2 DEF FlagsInv, Past, Kinds
      <4>. QED
        BY <3>3, <4>1, <4>2
    <3>. QED
      BY <3>5, <3>6, <3>7
  <2>. QED
    BY <1>2, <2>5, <2>6
<1>. QED
  BY <1>1, <1>2 DEF ExportNext

\* The inductive invariant of the exporter.
LEMMA ExportInvariant == ExportSpec => []ExportInv
<1>1. ExportInit => ExportInv
  <2>. SUFFICES ASSUME ExportInit PROVE ExportInv
    OBVIOUS
  <2>1. ExportTypeOK
    <3>1. <<>> \in Seq(Documents)
      BY EmptySeq
    <3>2. /\ sourceOk \in BOOLEAN /\ exportOk \in BOOLEAN /\ heartbeatOk \in BOOLEAN
          /\ conflict \in BOOLEAN
      BY OtlpAssumption DEF ExportInit
    <3>3. stage \in Kinds /\ exportAttempt \in 0..ExportRetries
      BY OtlpAssumption DEF ExportInit, Kinds
    <3>4. received = <<>>
      BY DEF ExportInit
    <3>. QED
      BY <3>1, <3>2, <3>3, <3>4 DEF ExportTypeOK
  <2>2. \A k : Copies(k) = 0
    <3>1. \A k : Places(k) = {}
      BY DEF ExportInit, Places
    <3>. QED
      BY <2>1, <3>1, CopiesCounted, FS_EmptySet
  <2>3. CopiesInv
    BY <2>1, <2>2, OtlpAssumption DEF ExportInit, CopiesInv, ExportTypeOK
  <2>4. FlagsInv
    BY <2>1, OtlpAssumption DEF ExportInit, FlagsInv, Past
  <2>. QED
    BY <2>1, <2>3, <2>4 DEF ExportInv
<1>2. ExportInv /\ [ExportNext]_exportVars => ExportInv'
  BY ExportStep
<1>. QED
  BY <1>1, <1>2, PTL DEF ExportSpec

\* A health heartbeat that reports success is preceded by an accepted flush, and a flag
\* that is still set when run returns means its documents arrived, however many attempts
\* are made and whichever requests and answers are lost.
THEOREM HealthTruthful == ExportSpec => []HealthIsTruthful
<1>1. ExportInv => HealthIsTruthful
  BY DEF ExportInv, FlagsInv, HealthIsTruthful, Past, Kinds
<1>. QED
  BY <1>1, ExportInvariant, PTL

\* No document is accepted more than max_retries times too often, for any max_retries, and
\* nothing is flushed when the source failed.
THEOREM Duplication == ExportSpec => []DuplicationBounded
<1>1. ExportInv => DuplicationBounded
  <2>. SUFFICES ASSUME ExportInv PROVE DuplicationBounded
    OBVIOUS
  <2>1. /\ \A k : Copies(k) \in Nat
        /\ exportAttempt \in 0..ExportRetries /\ ExportRetries \in Nat
    BY CopiesCounted, OtlpAssumption DEF ExportInv, ExportTypeOK
  <2>. QED
    BY <2>1 DEF ExportInv, CopiesInv, DuplicationBounded, Kinds
<1>. QED
  BY <1>1, ExportInvariant, PTL

-----------------------------------------------------------------------------
(* LangfuseSource: listings, pages and positions                           *)

\* A page holds just the records behind a place, as many as fit.
LEMMA PageProperties ==
  ASSUME db \in Seq(Nat), NEW n \in Nat
  PROVE  /\ PageAfter(n) \in Seq(Nat)
         /\ Len(PageAfter(n)) \in Nat
         /\ PageAfter(n) = <<>> <=> n >= Len(db)
         /\ Len(PageAfter(n)) < PageLimit <=> n + PageLimit > Len(db)
         /\ \A i \in DOMAIN db : n < i /\ i <= n + PageLimit => db[i] \in ToSet(PageAfter(n))
<1>. DEFINE m == IF n + PageLimit < Len(db) THEN n + PageLimit ELSE Len(db)
            data == PageAfter(n)
<1>0. DOMAIN db = 1..Len(db) /\ \A i \in 1..Len(db) : db[i] \in Nat
  OBVIOUS
<1>1. PageLimit \in Nat \ {0} /\ Len(db) \in Nat
  BY SourceAssumption
<1>2. m \in Nat /\ m <= Len(db) /\ m <= n + PageLimit /\ (m = Len(db) \/ m = n + PageLimit)
  BY <1>1
<1>3. data = SubSeq(db, n + 1, m)
  BY DEF PageAfter
<1>. HIDE DEF m, data
<1>4. /\ data \in Seq(Nat) /\ Len(data) = IF n < m THEN m - n ELSE 0
      /\ \A i \in 1..(m - n) : data[i] = db[n + i]
  <2>0. \A i \in (n + 1)..m : i \in 1..Len(db)
    BY <1>1, <1>2
  <2>1. \A i \in (n + 1)..m : db[i] \in Nat
    BY <1>0, <2>0
  <2>4. n + 1 \in Int /\ m \in Int
    BY <1>2
  <2>2. /\ data \in Seq(Nat)
        /\ Len(data) = IF n + 1 <= m THEN m - (n + 1) + 1 ELSE 0
        /\ \A i \in 1..(m - (n + 1) + 1) : data[i] = db[n + 1 + i - 1]
    BY <1>3, <2>1, <2>4, SubSeqProperties
  <2>3. /\ m - (n + 1) + 1 = m - n /\ (n + 1 <= m <=> n < m)
        /\ \A i \in 1..(m - n) : n + 1 + i - 1 = n + i
    BY <1>2
  <2>. QED
    BY <2>2, <2>3
<1>5. Len(data) \in Nat /\ DOMAIN data = 1..Len(data) /\ (data = <<>> <=> Len(data) = 0)
  BY <1>4, EmptySeq, LenProperties
<1>6. Len(data) = 0 <=> n >= Len(db)
  BY <1>1, <1>2, <1>4
<1>7. Len(data) < PageLimit <=> n + PageLimit > Len(db)
  BY <1>1, <1>2, <1>4
<1>8. ASSUME NEW i \in DOMAIN db, n < i, i <= n + PageLimit
      PROVE  db[i] \in ToSet(data)
  <2>0. i \in 1..Len(db)
    BY <1>0
  <2>1. i - n \in 1..(m - n) /\ n + (i - n) = i /\ n < m
    BY <1>1, <1>2, <1>8, <2>0
  <2>2. data[i - n] = db[i] /\ i - n \in DOMAIN data
    BY <1>4, <1>5, <2>1
  <2>. QED
    BY <2>2 DEF ToSet
<1>. QED
  BY <1>4, <1>5, <1>6, <1>7, <1>8 DEF data

\* What is yielded before and after.
LEMMA ConcatSet ==
  ASSUME NEW s \in Seq(Nat), NEW t \in Seq(Nat)
  PROVE  ToSet(s) \subseteq ToSet(s \o t) /\ ToSet(t) \subseteq ToSet(s \o t)
<1>1. /\ DOMAIN s = 1..Len(s) /\ DOMAIN t = 1..Len(t) /\ Len(s) \in Nat /\ Len(t) \in Nat
      /\ DOMAIN (s \o t) = 1..(Len(s) + Len(t))
  BY ConcatProperties, LenProperties
<1>2. \A i \in DOMAIN s : i \in DOMAIN (s \o t) /\ (s \o t)[i] = s[i]
  BY <1>1, ConcatProperties
<1>3. ASSUME NEW i \in DOMAIN t
      PROVE  Len(s) + i \in DOMAIN (s \o t) /\ (s \o t)[Len(s) + i] = t[i]
  <2>1. /\ Len(s) + i \in 1..(Len(s) + Len(t)) /\ ~(Len(s) + i <= Len(s))
        /\ Len(s) + i - Len(s) = i
    BY <1>1
  <2>. QED
    BY <1>1, <2>1, ConcatProperties
<1>. QED
  BY <1>2, <1>3 DEF ToSet

\* The page that was yielded last is the end of what was yielded.
LEMMA LastPage ==
  ASSUME NEW s \in Seq(Nat), NEW t \in Seq(Nat), t # <<>>
  PROVE  SubSeq(s \o t, Len(s \o t) - Len(t) + 1, Len(s \o t)) = t
<1>1. /\ Len(s) \in Nat /\ Len(t) \in Nat \ {0} /\ Len(s \o t) = Len(s) + Len(t)
  BY ConcatProperties, EmptySeq
<1>2. SubSeq(s \o t, Len(s) + 1, Len(s) + Len(t)) = SubSeq(t, 1, Len(t))
  <2>1. Len(s) + 1 \in Len(s)+1 .. Len(s)+Len(t) /\ Len(s) + Len(t) \in Len(s)+1 .. Len(s)+Len(t)
    BY <1>1
  <2>2. Len(s) + 1 - Len(s) = 1 /\ Len(s) + Len(t) - Len(s) = Len(t)
    BY <1>1
  <2>. QED
    BY <2>1, <2>2, SubSeqOfConcat2
<1>3. Len(s \o t) - Len(t) + 1 = Len(s) + 1
  BY <1>1
<1>. QED
  BY <1>1, <1>2, <1>3, SubSeqFull

\* A page continues what was yielded in order.
LEMMA NextPrefix ==
  ASSUME db \in Seq(Nat), NEW n \in Nat
  PROVE  SubSeq(db, 1, IF n < Len(db) THEN n ELSE Len(db)) \o PageAfter(n)
           = SubSeq(db, 1, IF n + PageLimit < Len(db) THEN n + PageLimit ELSE Len(db))
<1>. DEFINE m == IF n + PageLimit < Len(db) THEN n + PageLimit ELSE Len(db)
<1>1. PageLimit \in Nat \ {0} /\ Len(db) \in Nat
  BY SourceAssumption
<1>2. CASE n < Len(db)
  <2>1. 1 \in 1..Len(db)+1 /\ n \in 1-1..Len(db) /\ m \in n..Len(db)
    BY <1>1, <1>2
  <2>2. SubSeq(db, 1, n) \o SubSeq(db, n + 1, m) = SubSeq(db, 1, m)
    BY <2>1, ConcatAdjacentSubSeq
  <2>. QED
    BY <1>2, <2>2 DEF PageAfter
<1>3. CASE n >= Len(db)
  <2>1. PageAfter(n) = <<>>
    BY <1>3, PageProperties
  <2>3. m = Len(db) /\ ~(n < Len(db))
    BY <1>1, <1>3
  <2>2. SubSeq(db, 1, Len(db)) = db /\ db \o <<>> = db
    BY SubSeqFull, ConcatEmptySeq
  <2>. QED
    BY <2>1, <2>2, <2>3
<1>. QED
  BY <1>1, <1>2, <1>3

\* A record of a listing without repetitions has one position.
LEMMA PositionProperties ==
  ASSUME \A i, j \in DOMAIN db : db[i] = db[j] => i = j, NEW i \in DOMAIN db
  PROVE  Position(db[i]) = i
BY DEF Position

\* As many records are listed as the listing is long.
LEMMA ListingSize ==
  ASSUME db \in Seq(Nat), \A i, j \in DOMAIN db : db[i] = db[j] => i = j
  PROVE  IsFiniteSet(ToSet(db)) /\ Cardinality(ToSet(db)) = Len(db)
<1>. DEFINE g == [i \in 1..Len(db) |-> db[i]]
<1>1. Len(db) \in Nat /\ DOMAIN db = 1..Len(db)
  OBVIOUS
<1>2. g \in Bijection(1..Len(db), ToSet(db))
  BY <1>1 DEF Bijection, Injection, Surjection, IsInjective, ToSet
<1>3. ExistsBijection(1..Len(db), ToSet(db))
  BY <1>2 DEF ExistsBijection
<1>4. IsFiniteSet(1..Len(db)) /\ Cardinality(1..Len(db)) = Len(db)
  BY <1>1, FS_Interval
<1>. QED
  BY <1>3, <1>4, FS_Bijection

\* What a read that yielded every first record up to place n may have missed.
LEMMA MissedBound ==
  ASSUME TypeOK, NEW n \in Nat, NEW o \in Seq(Nat),
         \A i \in DOMAIN db : i <= n /\ db[i] \in initial => db[i] \in ToSet(o)
  PROVE  /\ n >= Len(db) => initial \ ToSet(o) = {}
         /\ Cardinality(initial \ ToSet(o)) \in Nat
         /\ Cardinality(initial) \in Nat /\ Cardinality(initial) <= Len(db)
         /\ Cardinality(ToSet(db) \ initial) \in Nat
         /\ n >= Cardinality(initial) =>
              Cardinality(initial \ ToSet(o)) <= Cardinality(ToSet(db) \ initial)
<1>. DEFINE M == initial \ ToSet(o)
            f == [x \in M |-> Position(x)]
<1>1. /\ db \in Seq(Nat) /\ \A i, j \in DOMAIN db : db[i] = db[j] => i = j
      /\ initial \subseteq ToSet(db)
      /\ Len(db) \in Nat /\ DOMAIN db = 1..Len(db)
  BY DEF TypeOK
<1>2. IsFiniteSet(ToSet(db)) /\ Cardinality(ToSet(db)) = Len(db)
  BY <1>1, ListingSize
<1>3. ASSUME NEW x \in M
      PROVE  /\ Position(x) \in (n + 1)..Len(db) /\ db[Position(x)] = x
  <2>1. PICK i \in DOMAIN db : db[i] = x
    BY <1>1 DEF ToSet
  <2>2. Position(x) = i
    BY <1>1, <2>1, PositionProperties
  <2>3. ~(i <= n)
    BY <2>1
  <2>. QED
    BY <1>1, <2>1, <2>2, <2>3
<1>4. ASSUME n >= Len(db)
      PROVE  M = {}
  <2>1. (n + 1)..Len(db) = {}
    BY <1>1, <1>4
  <2>. QED
    BY <1>3, <2>1
<1>5. IsFiniteSet((n + 1)..Len(db)) /\
        Cardinality((n + 1)..Len(db)) = IF n + 1 > Len(db) THEN 0 ELSE Len(db) - (n + 1) + 1
  <2>1. n + 1 \in Int /\ Len(db) \in Int
    BY <1>1
  <2>. QED
    BY <2>1, FS_Interval
<1>6. f \in Injection(M, (n + 1)..Len(db))
  BY <1>3 DEF Injection, IsInjective
<1>7. IsFiniteSet(M) /\ Cardinality(M) <= Cardinality((n + 1)..Len(db))
  BY <1>5, <1>6, FS_Injection
<1>8. IsFiniteSet(initial) /\ Cardinality(initial) <= Len(db)
  BY <1>1, <1>2, FS_Subset
<1>9. /\ IsFiniteSet(ToSet(db) \ initial)
      /\ Cardinality(ToSet(db) \ initial) = Len(db) - Cardinality(initial)
  <2>1. IsFiniteSet(ToSet(db) \ initial)
    BY <1>2, FS_Subset
  <2>2. /\ (ToSet(db) \ initial) \cup initial = ToSet(db)
        /\ (ToSet(db) \ initial) \cap initial = {}
    BY <1>1
  <2>3. Cardinality(ToSet(db)) = Cardinality(ToSet(db) \ initial) + Cardinality(initial) - 0
    BY <1>8, <2>1, <2>2, FS_Union, FS_EmptySet
  <2>. QED
    BY <1>2, <1>8, <2>1, <2>3, FS_CardinalityType
<1>10. /\ Cardinality(M) \in Nat /\ Cardinality(initial) \in Nat
       /\ Cardinality(ToSet(db) \ initial) \in Nat
  BY <1>7, <1>8, <1>9, FS_CardinalityType
<1>. QED
  BY <1>1, <1>4, <1>5, <1>7, <1>8, <1>9, <1>10

\* A record that enters a listing moves those behind its place by one.
LEMMA InsertProperties ==
  ASSUME NEW s \in Seq(Nat), \A i, j \in DOMAIN s : s[i] = s[j] => i = j,
         NEW k \in 1..(Len(s) + 1), NEW e \in Nat \ ToSet(s)
  PROVE  LET t == InsertAt(s, k, e)
         IN  /\ t \in Seq(Nat)
             /\ DOMAIN t = 1..(Len(s) + 1)
             /\ \A i \in DOMAIN t : /\ i < k => i \in DOMAIN s /\ t[i] = s[i]
                                    /\ i = k => t[i] = e
                                    /\ i > k => i - 1 \in DOMAIN s /\ t[i] = s[i - 1]
             /\ \A i, j \in DOMAIN t : t[i] = t[j] => i = j
             /\ ToSet(t) = ToSet(s) \cup {e}
<1>. DEFINE n == Len(s)
            t == InsertAt(s, k, e)
            a == SubSeq(s, 1, k - 1)
            b == SubSeq(s, k, n)
<1>1. n \in Nat /\ DOMAIN s = 1..n /\ k \in Nat \ {0} /\ k <= n + 1
  OBVIOUS
<1>2. a \in Seq(Nat) /\ Len(a) = k - 1 /\ \A i \in 1..(k - 1) : a[i] = s[i]
  <2>1. \A i \in 1..(k - 1) : s[i] \in Nat
    BY <1>1
  <2>2. 1 \in Int /\ k - 1 \in Int /\ (k - 1) - 1 + 1 = k - 1
        /\ (IF 1 <= k - 1 THEN k - 1 ELSE 0) = k - 1 /\ \A i \in 1..(k - 1) : 1 + i - 1 = i
    BY <1>1
  <2>3. /\ a \in Seq(Nat)
        /\ Len(a) = IF 1 <= k - 1 THEN (k - 1) - 1 + 1 ELSE 0
        /\ \A i \in 1..((k - 1) - 1 + 1) : a[i] = s[1 + i - 1]
    BY <2>1, <2>2, SubSeqProperties
  <2>. QED
    BY <2>2, <2>3
<1>3. b \in Seq(Nat) /\ Len(b) = n - k + 1 /\ \A i \in 1..(n - k + 1) : b[i] = s[k + i - 1]
  <2>1. \A i \in k..n : s[i] \in Nat
    BY <1>1
  <2>2. k \in Int /\ n \in Int /\ (IF k <= n THEN n - k + 1 ELSE 0) = n - k + 1
    BY <1>1
  <2>3. /\ b \in Seq(Nat)
        /\ Len(b) = IF k <= n THEN n - k + 1 ELSE 0
        /\ \A i \in 1..(n - k + 1) : b[i] = s[k + i - 1]
    BY <2>1, <2>2, SubSeqProperties
  <2>. QED
    BY <2>2, <2>3
<1>4. t = (a \o <<e>>) \o b
  BY DEF InsertAt
<1>. HIDE DEF a, b, t, n
<1>5. <<e>> \in Seq(Nat) /\ Len(<<e>>) = 1 /\ <<e>>[1] = e
  OBVIOUS
<1>6. /\ a \o <<e>> \in Seq(Nat)
      /\ Len(a \o <<e>>) = k
      /\ \A i \in 1..k : (a \o <<e>>)[i] = IF i < k THEN s[i] ELSE e
  <2>1. /\ a \o <<e>> \in Seq(Nat) /\ Len(a \o <<e>>) = (k - 1) + 1
        /\ \A i \in 1..((k - 1) + 1) :
             (a \o <<e>>)[i] = IF i <= k - 1 THEN a[i] ELSE <<e>>[i - (k - 1)]
    BY <1>2, <1>5, ConcatProperties
  <2>2. /\ (k - 1) + 1 = k
        /\ \A i \in 1..k : /\ i < k => i <= k - 1 /\ i \in 1..(k - 1)
                           /\ ~(i < k) => ~(i <= k - 1) /\ i - (k - 1) = 1
    BY <1>1
  <2>. QED
    BY <1>2, <1>5, <2>1, <2>2
<1>7. /\ t \in Seq(Nat)
      /\ Len(t) = n + 1
      /\ \A i \in 1..(n + 1) : t[i] = IF i < k THEN s[i] ELSE IF i = k THEN e ELSE s[i - 1]
  <2>. DEFINE c == a \o <<e>>
  <2>0. c \in Seq(Nat) /\ Len(c) = k /\ Len(b) = n - k + 1 /\ t = c \o b
    BY <1>3, <1>4, <1>6
  <2>1. /\ t \in Seq(Nat) /\ Len(t) = Len(c) + Len(b)
        /\ \A i \in 1..(Len(c) + Len(b)) : t[i] = IF i <= Len(c) THEN c[i] ELSE b[i - Len(c)]
    <3>. HIDE DEF c
    <3>1. c \in Seq(Nat) /\ b \in Seq(Nat)
      BY <1>3, <2>0
    <3>2. /\ c \o b \in Seq(Nat) /\ Len(c \o b) = Len(c) + Len(b)
          /\ \A i \in 1..(Len(c) + Len(b)) : (c \o b)[i] = IF i <= Len(c) THEN c[i] ELSE b[i - Len(c)]
      BY <3>1, ConcatProperties
    <3>. QED
      BY <2>0, <3>2
  <2>2. k + (n - k + 1) = n + 1
    BY <1>1
  <2>3. /\ t \in Seq(Nat) /\ Len(t) = n + 1
        /\ \A i \in 1..(n + 1) : t[i] = IF i <= k THEN c[i] ELSE b[i - k]
    <3>. HIDE DEF c
    <3>. QED
      BY <2>0, <2>1, <2>2
  <2>4. ASSUME NEW i \in 1..(n + 1)
        PROVE  t[i] = IF i < k THEN s[i] ELSE IF i = k THEN e ELSE s[i - 1]
    <3>1. CASE i < k
      <4>1. i <= k /\ i \in 1..k
        BY <1>1, <3>1
      <4>2. t[i] = c[i] /\ c[i] = s[i]
        BY <1>6, <2>3, <3>1, <4>1
      <4>. QED
        BY <3>1, <4>2
    <3>2. CASE i = k
      <4>1. i <= k /\ i \in 1..k /\ ~(i < k)
        BY <1>1, <3>2
      <4>2. t[i] = c[i] /\ c[i] = e
        BY <1>6, <2>3, <4>1
      <4>. QED
        BY <3>2, <4>1, <4>2
    <3>3. CASE i > k
      <4>1. ~(i <= k) /\ ~(i < k) /\ i # k /\ i - k \in 1..(n - k + 1) /\ k + (i - k) - 1 = i - 1
        BY <1>1, <3>3
      <4>2. t[i] = b[i - k] /\ b[i - k] = s[k + (i - k) - 1]
        BY <1>3, <2>3, <4>1
      <4>. QED
        BY <4>1, <4>2
    <3>. QED
      BY <1>1, <3>1, <3>2, <3>3
  <2>. QED
    BY <2>3, <2>4
<1>8. DOMAIN t = 1..(n + 1)
  BY <1>7
<1>9. \A i \in DOMAIN t : /\ i < k => i \in DOMAIN s /\ t[i] = s[i]
                          /\ i = k => t[i] = e
                          /\ i > k => i - 1 \in DOMAIN s /\ t[i] = s[i - 1]
  <2>1. \A i \in 1..(n + 1) : /\ i < k => i \in 1..n
                              /\ i = k => ~(i < k)
                              /\ i > k => i - 1 \in 1..n /\ ~(i < k) /\ i # k
    BY <1>1
  <2>. QED
    BY <1>1, <1>7, <1>8, <2>1
<1>10. \A i \in DOMAIN s : s[i] # e
  BY DEF ToSet
<1>11. \A i, j \in DOMAIN t : t[i] = t[j] => i = j
  <2>. SUFFICES ASSUME NEW i \in DOMAIN t, NEW j \in DOMAIN t, t[i] = t[j]
                PROVE  i = j
    OBVIOUS
  <2>1. i \in Int /\ j \in Int
    BY <1>1, <1>8
  <2>2. (i < k \/ i = k \/ i > k) /\ (j < k \/ j = k \/ j > k)
    BY <1>1, <2>1
  <2>3. CASE i = k \/ j = k
    BY <1>9, <1>10, <2>2, <2>3
  <2>4. CASE i < k /\ j < k
    BY <1>9, <2>4
  <2>5. CASE i > k /\ j > k
    <3>1. i - 1 = j - 1
      BY <1>9, <2>5
    <3>. QED
      BY <2>1, <3>1
  <2>6. CASE i < k /\ j > k
    <3>1. i = j - 1
      BY <1>9, <2>6
    <3>. QED
      BY <1>1, <2>1, <2>6, <3>1
  <2>7. CASE i > k /\ j < k
    <3>1. j = i - 1
      BY <1>9, <2>7
    <3>. QED
      BY <1>1, <2>1, <2>7, <3>1
  <2>. QED
    BY <2>2, <2>3, <2>4, <2>5, <2>6, <2>7
<1>12. ToSet(t) = ToSet(s) \cup {e}
  <2>1. k \in DOMAIN t /\ t[k] = e
    BY <1>1, <1>8, <1>9
  <2>2. ASSUME NEW i \in DOMAIN t
        PROVE  t[i] \in ToSet(s) \cup {e}
    <3>1. i < k \/ i = k \/ i > k
      BY <1>1, <1>8
    <3>. QED
      BY <1>9, <3>1 DEF ToSet
  <2>3. ASSUME NEW i \in DOMAIN s
        PROVE  \E j \in DOMAIN t : t[j] = s[i]
    <3>1. CASE i < k
      <4>1. i \in DOMAIN t
        BY <1>1, <1>8
      <4>. QED
        BY <1>9, <3>1, <4>1
    <3>2. CASE ~(i < k)
      <4>1. i + 1 \in DOMAIN t /\ i + 1 > k /\ (i + 1) - 1 = i
        BY <1>1, <1>8, <3>2
      <4>. QED
        BY <1>9, <4>1
    <3>. QED
      BY <3>1, <3>2
  <2>. QED
    BY <2>1, <2>2, <2>3 DEF ToSet
<1>. QED
  BY <1>7, <1>8, <1>9, <1>11, <1>12 DEF t, n

-----------------------------------------------------------------------------
(* LangfuseSource: its steps                                               *)

\* Fewer pages allow for no more requests.
LEMMA ProductBound ==
  ASSUME NEW a \in Nat, NEW b \in Nat, a <= b, NEW k \in Nat
  PROVE  a * k \in Nat /\ b * k \in Nat /\ a * k <= b * k /\ (a + 1) * k = a * k + k
OBVIOUS

\* A late record keeps the invariant: it shifts places, and is none of the first records.
LEMMA InsertStep ==
  ASSUME SourceInv, Insert
  PROVE  SourceInv'
<1>1. /\ db \in Seq(Nat) /\ \A i, j \in DOMAIN db : db[i] = db[j] => i = j
      /\ initial \subseteq ToSet(db)
  BY DEF SourceInv, TypeOK
<1>2. PICK e \in LateIds \ ToSet(db), k \in 1..(Len(db) + 1) : db' = InsertAt(db, k, e)
  BY DEF Insert
<1>3. e \in Nat \ ToSet(db)
  BY <1>2, SourceAssumption
<1>4. /\ db' \in Seq(Nat) /\ \A i, j \in DOMAIN db' : db'[i] = db'[j] => i = j
      /\ DOMAIN db' = 1..(Len(db) + 1)
      /\ \A i \in DOMAIN db' : /\ i < k => i \in DOMAIN db /\ db'[i] = db[i]
                               /\ i = k => db'[i] = e
                               /\ i > k => i - 1 \in DOMAIN db /\ db'[i] = db[i - 1]
      /\ ToSet(db') = ToSet(db) \cup {e}
  BY <1>1, <1>2, <1>3, InsertProperties
<1>5. Len(db) \in Nat /\ DOMAIN db = 1..Len(db)
  BY <1>1
<1>6. /\ Reading
      /\ UNCHANGED <<mode, glitches, initial, pc, out, page, total, prevLen, cursor, cursors,
                     sigs, pages, requests, attempt>>
  BY DEF Insert
<1>7. Reading' /\ pc' # "complete"
  BY <1>6 DEF Reading, Done
<1>8. ToSet(db)' = ToSet(db') /\ ToSet(db') # initial'
  BY <1>1, <1>3, <1>4, <1>6 DEF ToSet
<1>9. TypeOK'
  BY <1>4, <1>6, <1>8 DEF SourceInv, TypeOK
<1>10. RequestsInv'
  BY <1>6, <1>7 DEF SourceInv, RequestsInv, RequestsBounded
<1>11. PlaceInv'
  BY <1>4, <1>6, <1>8 DEF SourceInv, PlaceInv
<1>12. /\ pc # "cursor" => Offset' = Offset
       /\ pc = "cursor" => /\ Offset \in DOMAIN db
                           /\ Offset' = IF Offset < k THEN Offset ELSE Offset + 1
  <2>1. CASE pc = "cursor"
    <3>1. cursor \in ToSet(db)
      BY <2>1 DEF SourceInv, PlaceInv
    <3>2. PICK p \in DOMAIN db : db[p] = cursor
      BY <3>1 DEF ToSet
    <3>3. Offset = p
      BY <1>1, <2>1, <3>2, PositionProperties DEF Offset
    <3>4. ASSUME NEW q \in DOMAIN db', db'[q] = cursor
          PROVE  Offset' = q
      <4>1. (CHOOSE i \in DOMAIN db' : db'[i] = cursor) = q
        BY <1>4, <3>4
      <4>2. pc' = "cursor" /\ cursor' = cursor
        BY <1>6, <2>1
      <4>. QED
        BY <4>1, <4>2 DEF Offset, Position
    <3>5. CASE p < k
      <4>1. p \in DOMAIN db'
        BY <1>4, <1>5
      <4>2. db'[p] = cursor
        BY <1>4, <3>2, <3>5, <4>1
      <4>. QED
        BY <2>1, <3>2, <3>3, <3>4, <3>5, <4>1, <4>2
    <3>6. CASE ~(p < k)
      <4>1. p + 1 \in DOMAIN db' /\ p + 1 > k /\ (p + 1) - 1 = p
        BY <1>4, <1>5, <3>6
      <4>2. db'[p + 1] = cursor
        BY <1>4, <3>2, <4>1
      <4>. QED
        BY <2>1, <3>2, <3>3, <3>4, <3>6, <4>1, <4>2
    <3>. QED
      BY <3>5, <3>6
  <2>2. CASE pc # "cursor"
    <3>1. pc = "first" \/ pc = "numbered"
      BY <1>6, <2>2 DEF SourceInv, TypeOK, Reading, Done
    <3>. QED
      BY <1>6, <2>2, <3>1 DEF Offset
  <2>. QED
    BY <2>1, <2>2
<1>13. pc # "cursor" => Offset \in Nat
  <2>1. page \in Nat /\ PageLimit \in Nat
    BY SourceAssumption DEF SourceInv, TypeOK
  <2>2. page * PageLimit \in Nat
    BY <2>1
  <2>. QED
    BY <1>6, <2>2 DEF SourceInv, TypeOK, Offset, Reading, Done
<1>14. WholeInv'
  <2>1. TrustedReadIsWhole'
    BY <1>7 DEF TrustedReadIsWhole
  <2>2. ASSUME "empty" \notin glitches, NEW i \in DOMAIN db', i <= Offset', db'[i] \in initial
        PROVE  db'[i] \in ToSet(out)
    <3>1. \A j \in DOMAIN db : j <= Offset /\ db[j] \in initial => db[j] \in ToSet(out)
      BY <1>6, <2>2 DEF SourceInv, WholeInv
    <3>2. i \in Nat /\ k \in Nat /\ Offset \in Nat
      BY <1>4, <1>5, <1>12, <1>13
    <3>3. Offset' = Offset \/ Offset' = Offset + 1
      BY <1>12
    <3>4. i # k
      BY <1>1, <1>3, <1>4, <2>2
    <3>5. CASE i < k
      <4>1. i <= Offset
        BY <1>12, <2>2, <3>2, <3>5
      <4>. QED
        BY <1>4, <2>2, <3>1, <3>5, <4>1
    <3>6. CASE i > k
      <4>1. i - 1 <= Offset
        BY <2>2, <3>2, <3>3
      <4>. QED
        BY <1>4, <2>2, <3>1, <3>6, <4>1
    <3>. QED
      BY <3>2, <3>4, <3>5, <3>6
  <2>3. pc = "numbered" /\ "empty" \notin glitches => prevLen > 0
    BY <1>6 DEF SourceInv, WholeInv
  <2>4. ToSet(out)' = ToSet(out)
    BY <1>6
  <2>. QED
    BY <1>6, <1>7, <2>1, <2>2, <2>3, <2>4 DEF WholeInv
<1>15. ExactInv'
  BY <1>6, <1>7, <1>8 DEF ExactInv, StableReadIsExact
<1>. QED
  BY <1>9, <1>10, <1>11, <1>14, <1>15 DEF SourceInv

\* A read that ends without being complete keeps what it has.
LEMMA StopStep ==
  ASSUME SourceInv, Reading, NEW status \in {"incomplete", "error"}, Stop(status),
         UNCHANGED <<db, mode, initial>>, attempt' \in 0..MaxRetries,
         requests' \in Nat, requests' <= MaxPages * (MaxRetries + 1)
  PROVE  SourceInv'
<1>1. /\ pc' = status /\ pc' \in Done /\ pc' \notin {"complete", "first", "cursor", "numbered"}
      /\ ~Reading'
      /\ UNCHANGED <<out, page, total, prevLen, cursor, cursors, sigs, pages>>
  BY DEF Stop, Done, Reading
<1>2. TypeOK'
  BY <1>1 DEF SourceInv, TypeOK
<1>3. RequestsInv'
  BY <1>1 DEF RequestsInv, RequestsBounded
<1>4. PlaceInv'
  BY <1>1 DEF PlaceInv
<1>5. WholeInv'
  BY <1>1 DEF WholeInv, TrustedReadIsWhole
<1>6. ExactInv'
  BY <1>1 DEF ExactInv, StableReadIsExact
<1>. QED
  BY <1>2, <1>3, <1>4, <1>5, <1>6 DEF SourceInv

\* One more request stays within the limit of the page that is being fetched.
LEMMA RequestSent ==
  ASSUME SourceInv, MayFetch, requests' = requests + 1
  PROVE  /\ requests' \in Nat
         /\ requests' <= pages * (MaxRetries + 1) + attempt + 1
         /\ requests' <= (pages + 1) * (MaxRetries + 1)
         /\ requests' <= MaxPages * (MaxRetries + 1)
         /\ attempt \in 0..MaxRetries /\ pages \in 0..MaxPages /\ pages + 1 <= MaxPages
         /\ MaxRetries \in Nat /\ MaxPages \in Nat
<1>1. /\ requests \in Nat /\ attempt \in 0..MaxRetries /\ pages \in 0..MaxPages
      /\ pages < MaxPages /\ MaxRetries \in Nat /\ MaxPages \in Nat
      /\ requests <= pages * (MaxRetries + 1) + attempt
  BY SourceAssumption DEF SourceInv, TypeOK, RequestsInv, MayFetch
<1>2. pages + 1 \in Nat /\ pages \in Nat /\ pages + 1 <= MaxPages /\ MaxRetries + 1 \in Nat
  BY <1>1
<1>. DEFINE k == MaxRetries + 1
            x == pages * k
            y == (pages + 1) * k
            z == MaxPages * k
<1>3. x \in Nat /\ y = x + k
  BY <1>2, ProductBound
<1>4. y \in Nat /\ z \in Nat /\ y <= z
  BY <1>1, <1>2, ProductBound
<1>5. requests <= x + attempt
  BY <1>1
<1>. HIDE DEF x, y, z
<1>6. requests + 1 <= x + attempt + 1 /\ requests + 1 <= y /\ requests + 1 <= z
  BY <1>1, <1>3, <1>4, <1>5
<1>. QED
  BY <1>1, <1>2, <1>6 DEF x, y, z

\* A retry spends one of the attempts.
LEMMA RetryStep ==
  ASSUME SourceInv, Retry
  PROVE  SourceInv'
<1>1. /\ MayFetch /\ attempt < MaxRetries /\ requests' = requests + 1 /\ attempt' = attempt + 1
      /\ UNCHANGED <<db, mode, glitches, initial, pc, out, page, total, prevLen, cursor,
                     cursors, sigs, pages>>
  BY DEF Retry, serverVars
<1>2. /\ requests' \in Nat
      /\ requests' <= pages * (MaxRetries + 1) + attempt + 1
      /\ requests' <= MaxPages * (MaxRetries + 1)
      /\ attempt \in 0..MaxRetries /\ pages \in 0..MaxPages /\ MaxRetries \in Nat
  BY <1>1, RequestSent
<1>3. attempt' \in 0..MaxRetries
  BY <1>1, <1>2
<1>4. TypeOK'
  BY <1>1, <1>2, <1>3 DEF SourceInv, TypeOK
<1>5. RequestsInv'
  <2>1. pages # MaxPages
    BY <1>1, <1>2 DEF MayFetch
  <2>2. pages * (MaxRetries + 1) \in Nat
    BY <1>2
  <2>3. pages * (MaxRetries + 1) + attempt + 1 = pages * (MaxRetries + 1) + attempt'
    BY <1>1, <1>2, <2>2
  <2>. QED
    BY <1>1, <1>2, <2>1, <2>3 DEF RequestsInv, RequestsBounded
<1>6. PlaceInv'
  BY <1>1 DEF SourceInv, PlaceInv
<1>7. Offset' = Offset
  BY <1>1 DEF Offset, Position
<1>8. WholeInv'
  BY <1>1, <1>7 DEF SourceInv, WholeInv, TrustedReadIsWhole, Reading
<1>9. ExactInv'
  BY <1>1, <1>7 DEF SourceInv, ExactInv, StableReadIsExact, Reading
<1>. QED
  BY <1>4, <1>5, <1>6, <1>8, <1>9 DEF SourceInv

\* An honest answer is the next page, and says whether the listing goes on behind it.
LEMMA HonestAnswer ==
  ASSUME SourceInv, Reading
  PROVE  /\ Offset \in Nat /\ PageLimit \in Nat \ {0} /\ Len(db) \in Nat
         /\ HonestData \in Seq(Nat)
         /\ HonestCursor \in Nat \cup {NoCursor}
         /\ HonestTotal \in Nat \cup {NoTotal}
         /\ HonestCursor # NoCursor =>
              /\ mode = "cursor" /\ HonestCursor \in ToSet(db)
              /\ Position(HonestCursor) = Offset + PageLimit
         /\ HonestCursor = NoCursor /\ mode = "cursor" => Offset + PageLimit >= Len(db)
         /\ HonestTotal # NoTotal => mode = "total" /\ HonestTotal * PageLimit >= Len(db)
         /\ mode # "total" => HonestTotal = NoTotal
         /\ Len(db) = 0 => HonestTotal \in {0, NoTotal}
<1>1. /\ db \in Seq(Nat) /\ \A i, j \in DOMAIN db : db[i] = db[j] => i = j
      /\ DOMAIN db = 1..Len(db) /\ Len(db) \in Nat
      /\ pc \in {"first", "cursor", "numbered"}
      /\ page \in Nat
  BY DEF SourceInv, TypeOK, Reading
<1>2. PageLimit \in Nat \ {0} /\ NoCursor = -1 /\ NoTotal = -1
  BY SourceAssumption DEF NoCursor, NoTotal
<1>3. Offset \in Nat
  <2>1. CASE pc = "cursor"
    <3>1. PICK i \in DOMAIN db : db[i] = cursor
      BY <2>1 DEF SourceInv, PlaceInv, ToSet
    <3>2. Position(cursor) = i
      BY <1>1, <3>1, PositionProperties
    <3>3. i \in Nat
      BY <1>1
    <3>. QED
      BY <2>1, <3>2, <3>3 DEF Offset
  <2>2. page * PageLimit \in Nat
    BY <1>1, <1>2
  <2>. QED
    BY <1>1, <2>1, <2>2 DEF Offset
<1>4. HonestData \in Seq(Nat)
  BY <1>1, <1>3, PageProperties DEF HonestData
<1>5. CASE mode = "cursor" /\ Offset + PageLimit < Len(db)
  <2>1. Offset + PageLimit \in DOMAIN db
    BY <1>1, <1>2, <1>3, <1>5
  <2>2. HonestCursor = db[Offset + PageLimit]
    BY <1>5 DEF HonestCursor
  <2>3. Position(db[Offset + PageLimit]) = Offset + PageLimit
    BY <1>1, <2>1, PositionProperties
  <2>4. HonestCursor \in ToSet(db) /\ db[Offset + PageLimit] \in Nat
    BY <1>1, <2>1, <2>2 DEF ToSet
  <2>5. HonestCursor # NoCursor
    BY <1>2, <2>2, <2>4
  <2>6. HonestTotal = NoTotal
    BY <1>5 DEF HonestTotal
  <2>. QED
    BY <1>1, <1>2, <1>3, <1>4, <1>5, <2>2, <2>3, <2>4, <2>5, <2>6
<1>6. CASE ~(mode = "cursor" /\ Offset + PageLimit < Len(db))
  <2>1. HonestCursor = NoCursor
    BY <1>6 DEF HonestCursor
  <2>2. mode = "cursor" => Offset + PageLimit >= Len(db)
    BY <1>1, <1>2, <1>3, <1>6
  <2>3. mode # "total" => HonestTotal = NoTotal
    BY DEF HonestTotal
  <2>4. /\ TotalPages \in Nat /\ TotalPages * PageLimit >= Len(db)
        /\ Len(db) = 0 => TotalPages = 0
    <3>. DEFINE q == (Len(db) + PageLimit - 1) \div PageLimit
                r == (Len(db) + PageLimit - 1) % PageLimit
    <3>1. /\ q \in Nat /\ r \in 0..(PageLimit - 1)
          /\ Len(db) + PageLimit - 1 = PageLimit * q + r
      BY <1>1, <1>2
    <3>2. q * PageLimit >= Len(db)
      BY <1>1, <1>2, <3>1
    <3>3. Len(db) = 0 => q = 0
      <4>1. ASSUME Len(db) = 0, q >= 1
            PROVE  FALSE
        <5>1. PageLimit * q >= PageLimit
          BY <1>2, <3>1, <4>1
        <5>. QED
          BY <1>2, <3>1, <4>1, <5>1
      <4>. QED
        BY <3>1, <4>1
    <3>. QED
      BY <3>1, <3>2, <3>3 DEF TotalPages
  <2>5. /\ HonestTotal \in Nat \cup {NoTotal}
        /\ HonestTotal # NoTotal => mode = "total" /\ HonestTotal * PageLimit >= Len(db)
        /\ Len(db) = 0 => HonestTotal \in {0, NoTotal}
    BY <2>4 DEF HonestTotal
  <2>. QED
    BY <1>1, <1>2, <1>3, <1>4, <2>1, <2>2, <2>3, <2>5
<1>. QED
  BY <1>5, <1>6

\* Where an accepted page leaves a read that it does not spoil.
LEMMA PageTaken ==
  ASSUME SourceInv, NEW data \in Seq(Nat), NEW c \in Nat \cup {NoCursor},
         NEW t \in Nat \cup {NoTotal},
         FirstPage(data, c, t) \/ CursorPage(data, c) \/ NumberedPage(data, c),
         pc' # "incomplete"
  PROVE  /\ pc' \in {"cursor", "numbered", "complete"}
         /\ out' = out \o data
         /\ pc' = "cursor" =>
              /\ pc \in {"first", "cursor"} /\ c # NoCursor
              /\ cursor' = c /\ prevLen' = Len(data)
         /\ pc' = "numbered" =>
              /\ prevLen' = Len(data) /\ c = NoCursor /\ cursor' = NoCursor
              /\ \/ /\ pc = "first" /\ page' = 1 /\ total' = t
                    /\ t # 0 /\ MorePages(1, t, Len(data))
                 \/ /\ pc = "numbered" /\ page' = page + 1 /\ total' = total /\ data # <<>>
         /\ pc' = "complete" =>
              /\ c = NoCursor
              /\ \/ pc = "first" /\ (t = 0 \/ ~MorePages(1, t, Len(data)))
                 \/ pc = "cursor"
                 \/ /\ pc = "numbered"
                    /\ data = <<>> \/ ~MorePages(page + 1, total, Len(data))
<1>1. <<>> \o data = data /\ out \in Seq(Nat) /\ out \o <<>> = out
  BY ConcatEmptySeq DEF SourceInv, TypeOK
<1>2. CASE FirstPage(data, c, t)
  <2>1. out = <<>>
    BY <1>2 DEF FirstPage, SourceInv, PlaceInv
  <2>. QED
    BY <1>1, <1>2, <2>1 DEF FirstPage
<1>3. CASE CursorPage(data, c)
  BY <1>1, <1>3 DEF CursorPage
<1>4. CASE NumberedPage(data, c)
  <2>1. cursor = NoCursor
    BY <1>4 DEF NumberedPage, SourceInv, PlaceInv
  <2>. QED
    BY <1>1, <1>4, <2>1 DEF NumberedPage
<1>. QED
  BY <1>2, <1>3, <1>4

\* A well-formed response keeps the types and the count of requests.
LEMMA HandleTyped ==
  ASSUME SourceInv, MayFetch, NEW data \in Seq(Nat), NEW c \in Nat \cup {NoCursor},
         NEW t \in Nat \cup {NoTotal},
         FirstPage(data, c, t) \/ CursorPage(data, c) \/ NumberedPage(data, c),
         UNCHANGED <<db, mode, initial>>,
         pages' = pages + 1, requests' = requests + 1, attempt' = 0
  PROVE  TypeOK' /\ RequestsInv'
<1>1. /\ requests' \in Nat
      /\ requests' <= (pages + 1) * (MaxRetries + 1)
      /\ requests' <= MaxPages * (MaxRetries + 1)
      /\ pages \in 0..MaxPages /\ pages + 1 <= MaxPages
      /\ MaxRetries \in Nat /\ MaxPages \in Nat
  BY RequestSent
<1>2. RequestsInv'
  <2>1. pages' * (MaxRetries + 1) + attempt' = (pages + 1) * (MaxRetries + 1)
    <3>1. (pages + 1) * (MaxRetries + 1) \in Nat
      BY <1>1
    <3>. QED
      BY <3>1
  <2>. QED
    BY <1>1, <2>1 DEF RequestsInv, RequestsBounded
<1>3. pages' \in 0..MaxPages /\ attempt' \in 0..MaxRetries
  BY <1>1
<1>4. /\ out \in Seq(Nat) /\ Len(out) \in Nat /\ Len(data) \in Nat
      /\ out \o data \in Seq(Nat) /\ Len(out \o data) = Len(out) + Len(data)
  BY ConcatProperties DEF SourceInv, TypeOK
<1>5. out' \in Seq(Nat) /\ prevLen' \in 0..Len(out')
  <2>1. prevLen \in 0..Len(out)
    BY DEF SourceInv, TypeOK
  <2>2. \/ out' = out /\ prevLen' = prevLen
        \/ out' = data /\ prevLen' = Len(data)
        \/ out' = out \o data /\ prevLen' = Len(data)
    BY DEF FirstPage, CursorPage, NumberedPage
  <2>3. Len(data) \in 0..Len(data) /\ Len(data) \in 0..Len(out \o data)
    BY <1>4
  <2>. QED
    BY <1>4, <2>1, <2>2, <2>3
<1>6. /\ pc' \in {"first", "cursor", "numbered"} \cup Done
      /\ page' \in Nat /\ total' \in Nat \cup {NoTotal} /\ cursor' \in Nat \cup {NoCursor}
  <2>1. page \in Nat /\ page + 1 \in Nat /\ total \in Nat \cup {NoTotal}
        /\ cursor \in Nat \cup {NoCursor}
    BY DEF SourceInv, TypeOK
  <2>2. pc' \in {"cursor", "numbered", "complete", "incomplete"}
    BY DEF FirstPage, CursorPage, NumberedPage
  <2>. QED
    BY <2>1, <2>2 DEF FirstPage, CursorPage, NumberedPage, Done
<1>7. TypeOK'
  <2>1. ToSet(db)' = ToSet(db)
    BY DEF ToSet
  <2>. QED
    BY <1>1, <1>3, <1>5, <1>6, <2>1 DEF SourceInv, TypeOK
<1>. QED
  BY <1>2, <1>7

\* A response that ends the read early keeps the invariant.
LEMMA IncompleteStep ==
  ASSUME SourceInv, TypeOK', RequestsInv', pc' = "incomplete"
  PROVE  SourceInv'
<1>1. PlaceInv' /\ ~Reading' /\ pc' # "complete"
  BY DEF PlaceInv, Reading, Done
<1>2. WholeInv' /\ ExactInv'
  BY <1>1 DEF WholeInv, ExactInv, TrustedReadIsWhole, StableReadIsExact
<1>. QED
  BY <1>1, <1>2 DEF SourceInv

\* What the server may send again is remembered.
LEMMA PageRemembered ==
  ASSUME SourceInv, NEW data \in Seq(Nat), out' = out \o data, prevLen' = Len(data),
         sigs' = sigs \cup ({data} \ {<<>>})
  PROVE  prevLen' > 0 => SubSeq(out', Len(out') - prevLen' + 1, Len(out')) \in sigs'
<1>. SUFFICES ASSUME prevLen' > 0
              PROVE  SubSeq(out', Len(out') - prevLen' + 1, Len(out')) \in sigs'
  OBVIOUS
<1>1. data # <<>>
  OBVIOUS
<1>2. out \in Seq(Nat)
  BY DEF SourceInv, TypeOK
<1>3. SubSeq(out \o data, Len(out \o data) - Len(data) + 1, Len(out \o data)) = data
  BY <1>1, <1>2, LastPage
<1>4. data \in sigs'
  BY <1>1
<1>. QED
  BY <1>3, <1>4

\* After an honest page the read stands a page further, or has covered what it had to.
LEMMA PlaceAfterPage ==
  ASSUME SourceInv, Reading, UNCHANGED <<db, mode, initial>>,
         FirstPage(HonestData, HonestCursor, HonestTotal)
           \/ CursorPage(HonestData, HonestCursor)
           \/ NumberedPage(HonestData, HonestCursor),
         pc' # "incomplete"
  PROVE  /\ pc' \in {"cursor", "numbered"} => Offset' = Offset + PageLimit
         /\ pc' = "numbered" => HonestData # <<>>
         /\ pc' = "complete" => \/ Offset + PageLimit >= Len(db)
                                \/ mode # "cursor" /\ Offset + PageLimit >= Cardinality(initial)
<1>. DEFINE data == HonestData
            c == HonestCursor
            t == HonestTotal
<1>1. /\ Offset \in Nat /\ PageLimit \in Nat \ {0} /\ Len(db) \in Nat
      /\ data \in Seq(Nat) /\ c \in Nat \cup {NoCursor} /\ t \in Nat \cup {NoTotal}
      /\ c # NoCursor => Position(c) = Offset + PageLimit
      /\ c = NoCursor /\ mode = "cursor" => Offset + PageLimit >= Len(db)
      /\ t # NoTotal => mode = "total" /\ t * PageLimit >= Len(db)
      /\ Len(db) = 0 => t \in {0, NoTotal}
  BY HonestAnswer
<1>2. /\ db \in Seq(Nat) /\ data = PageAfter(Offset)
  BY DEF SourceInv, TypeOK, HonestData
<1>3. /\ data = <<>> <=> Offset >= Len(db)
      /\ Len(data) < PageLimit <=> Offset + PageLimit > Len(db)
      /\ Len(data) \in Nat
  BY <1>1, <1>2, PageProperties
<1>. HIDE DEF data, c, t
<1>4. /\ pc' \in {"cursor", "numbered", "complete"}
      /\ pc' = "cursor" => c # NoCursor /\ cursor' = c
      /\ pc' = "numbered" =>
           \/ /\ pc = "first" /\ page' = 1
              /\ t # 0 /\ MorePages(1, t, Len(data))
           \/ /\ pc = "numbered" /\ page' = page + 1 /\ data # <<>>
      /\ pc' = "complete" =>
           /\ c = NoCursor
           /\ \/ pc = "first" /\ (t = 0 \/ ~MorePages(1, t, Len(data)))
              \/ pc = "cursor"
              \/ /\ pc = "numbered"
                 /\ data = <<>> \/ ~MorePages(page + 1, total, Len(data))
  <2>1. FirstPage(data, c, t) \/ CursorPage(data, c) \/ NumberedPage(data, c)
    BY DEF data, c, t
  <2>. QED
    BY <1>1, <2>1, PageTaken
<1>5. page \in Nat /\ total \in Nat \cup {NoTotal} /\ NoTotal = -1
  BY DEF SourceInv, TypeOK, NoTotal
<1>6. pc = "numbered" => Offset = page * PageLimit /\ Offset + PageLimit = (page + 1) * PageLimit
  <2>1. (page + 1) * PageLimit = page * PageLimit + PageLimit
    BY <1>1, <1>5
  <2>. QED
    BY <2>1 DEF Offset
<1>7. pc = "first" => Offset = 0 /\ Offset + PageLimit = 1 * PageLimit
  <2>1. 0 + PageLimit = 1 * PageLimit
    BY <1>1
  <2>. QED
    BY <2>1 DEF Offset
<1>8. ASSUME pc' = "cursor"
      PROVE  Offset' = Offset + PageLimit
  <2>1. Offset' = Position(cursor')
    BY <1>8 DEF Offset, Position
  <2>. QED
    BY <1>1, <1>4, <1>8, <2>1
<1>9. ASSUME pc' = "numbered"
      PROVE  Offset' = Offset + PageLimit
  <2>1. Offset' = page' * PageLimit
    BY <1>9 DEF Offset
  <2>2. CASE pc = "first" /\ page' = 1
    BY <1>7, <2>1, <2>2
  <2>3. CASE pc = "numbered" /\ page' = page + 1
    BY <1>6, <2>1, <2>3
  <2>. QED
    BY <1>4, <1>9, <2>2, <2>3
<1>10. ASSUME pc' = "numbered"
       PROVE  data # <<>>
  <2>1. CASE pc = "first" /\ t # 0 /\ MorePages(1, t, Len(data))
    <3>1. CASE t = NoTotal
      <4>1. Len(data) >= PageLimit
        BY <2>1, <3>1 DEF MorePages
      <4>2. Len(data) # 0
        BY <1>1, <1>3, <4>1
      <4>. QED
        BY <1>1, <4>2, EmptySeq
    <3>2. CASE t # NoTotal
      <4>1. Len(db) # 0
        BY <1>1, <2>1, <3>2
      <4>2. ~(Offset >= Len(db))
        BY <1>1, <1>7, <2>1, <4>1
      <4>. QED
        BY <1>3, <4>2
    <3>. QED
      BY <3>1, <3>2
  <2>. QED
    BY <1>4, <1>10, <2>1
<1>11. ASSUME pc' = "complete"
       PROVE  \/ Offset + PageLimit >= Len(db)
              \/ mode # "cursor" /\ Offset + PageLimit >= Cardinality(initial)
  <2>0. c = NoCursor
    BY <1>4, <1>11
  <2>1. CASE mode = "cursor"
    BY <1>1, <2>0, <2>1
  <2>2. CASE mode # "cursor"
    <3>1. pc # "cursor"
      BY <2>2 DEF SourceInv, PlaceInv
    <3>2. CASE Len(data) < PageLimit
      BY <1>1, <1>3, <3>2
    <3>3. CASE pc = "first" /\ t # NoTotal /\ ~(1 < t) /\ mode = "total"
      <4>1. t * PageLimit >= Len(db) /\ (t = 0 \/ t = 1)
        BY <1>1, <1>5, <3>3
      <4>2. PageLimit >= Len(db)
        BY <1>1, <4>1
      <4>. QED
        BY <1>1, <1>7, <3>3, <4>2
    <3>4. CASE pc = "numbered" /\ total # NoTotal /\ ~(page + 1 < total)
      <4>1. total * PageLimit >= Cardinality(initial)
        BY <3>4 DEF SourceInv, PlaceInv
      <4>2. total \in Nat /\ page + 1 \in Nat /\ total <= page + 1
        BY <1>5, <3>4
      <4>3. total * PageLimit \in Nat /\ (page + 1) * PageLimit \in Nat
            /\ total * PageLimit <= (page + 1) * PageLimit
        BY <1>1, <4>2, ProductBound
      <4>4. Cardinality(initial) \in Nat
        BY ListingSize, FS_Subset, FS_CardinalityType DEF SourceInv, TypeOK
      <4>5. (page + 1) * PageLimit >= Cardinality(initial)
        <5>. DEFINE x == total * PageLimit
                    y == (page + 1) * PageLimit
        <5>1. x \in Nat /\ y \in Nat /\ x <= y /\ x >= Cardinality(initial)
          BY <4>1, <4>3
        <5>. HIDE DEF x, y
        <5>2. y >= Cardinality(initial)
          BY <4>4, <5>1
        <5>. QED
          BY <5>2 DEF y
      <4>. QED
        BY <1>6, <2>2, <3>4, <4>5
    <3>5. ASSUME ~(Len(data) < PageLimit)
          PROVE  data # <<>> /\ \A p, q : ~MorePages(p, q, Len(data)) <=> q # NoTotal /\ ~(p < q)
      <4>1. Len(data) >= PageLimit /\ Len(data) # 0
        BY <1>1, <1>3, <3>5
      <4>. QED
        BY <4>1, EmptySeq DEF MorePages
    <3>6. ASSUME ~(Len(data) < PageLimit)
          PROVE  \/ pc = "first" /\ t # NoTotal /\ ~(1 < t)
                 \/ pc = "numbered" /\ total # NoTotal /\ ~(page + 1 < total)
      <4>1. t = 0 => t # NoTotal /\ ~(1 < t)
        BY <1>5
      <4>. QED
        BY <1>4, <1>11, <3>1, <3>5, <3>6, <4>1
    <3>. QED
      BY <1>1, <3>2, <3>3, <3>4, <3>6
  <2>. QED
    BY <2>1, <2>2
<1>. QED
  BY <1>4, <1>8, <1>9, <1>10, <1>11 DEF data

\* An honest answer keeps the invariant.
LEMMA FetchStep ==
  ASSUME SourceInv, Fetch
  PROVE  SourceInv'
<1>. DEFINE data == HonestData
            c == HonestCursor
            t == HonestTotal
<1>1. /\ MayFetch /\ Reading /\ requests' = requests + 1 /\ attempt' = 0
      /\ UNCHANGED <<db, mode, initial, glitches>>
      /\ Handle(data, c, t)
  BY DEF Fetch, MayFetch, serverVars
<1>2. /\ Offset \in Nat /\ PageLimit \in Nat \ {0} /\ Len(db) \in Nat
      /\ data \in Seq(Nat) /\ c \in Nat \cup {NoCursor} /\ t \in Nat \cup {NoTotal}
      /\ c # NoCursor => mode = "cursor" /\ c \in ToSet(db)
      /\ t # NoTotal => mode = "total" /\ t * PageLimit >= Len(db)
  BY <1>1, HonestAnswer
<1>3. data = PageAfter(Offset) /\ db \in Seq(Nat)
  BY DEF HonestData, SourceInv, TypeOK
<1>4. CASE Stop("incomplete")
  BY <1>1, <1>4, RequestSent, StopStep
<1>5. CASE /\ sigs' = sigs \cup ({data} \ {<<>>})
           /\ pages' = pages + 1
           /\ FirstPage(data, c, t) \/ CursorPage(data, c) \/ NumberedPage(data, c)
  <2>1. TypeOK' /\ RequestsInv'
    BY <1>1, <1>2, <1>5, HandleTyped
  <2>2. CASE pc' = "incomplete"
    BY <2>1, <2>2, IncompleteStep
  <2>3. CASE pc' # "incomplete"
    <3>1. /\ pc' \in {"cursor", "numbered", "complete"}
          /\ out' = out \o data
          /\ pc' = "cursor" => c # NoCursor /\ cursor' = c /\ prevLen' = Len(data)
          /\ pc' = "numbered" =>
               /\ prevLen' = Len(data) /\ cursor' = NoCursor
               /\ (pc = "first" /\ total' = t) \/ (pc = "numbered" /\ total' = total)
      BY <1>2, <1>5, <2>3, PageTaken
    <3>2. /\ pc' \in {"cursor", "numbered"} => Offset' = Offset + PageLimit
          /\ pc' = "numbered" => data # <<>>
          /\ pc' = "complete" => \/ Offset + PageLimit >= Len(db)
                                 \/ mode # "cursor" /\ Offset + PageLimit >= Cardinality(initial)
      BY <1>1, <1>5, <2>3, PlaceAfterPage
    <3>. HIDE DEF data, c, t
    <3>3. ToSet(db)' = ToSet(db) /\ ToSet(out)' = ToSet(out') /\ DOMAIN db' = DOMAIN db
      BY <1>1 DEF ToSet
    <3>4. ToSet(out) \subseteq ToSet(out') /\ ToSet(data) \subseteq ToSet(out')
      BY <1>2, <3>1, ConcatSet DEF SourceInv, TypeOK
    <3>5. PlaceInv'
      <4>1. pc' = "cursor" => mode' = "cursor" /\ cursor' \in ToSet(db')
        BY <1>1, <1>2, <3>1
      <4>2. ASSUME pc' = "numbered", total' # NoTotal
            PROVE  mode' = "total" /\ total' * PageLimit >= Cardinality(initial')
        <5>1. CASE pc = "first" /\ total' = t
          <6>1. mode = "total" /\ t * PageLimit >= Len(db)
            BY <1>2, <4>2, <5>1
          <6>2. Cardinality(initial) \in Nat /\ Cardinality(initial) <= Len(db)
            BY <1>3, ListingSize, FS_Subset, FS_CardinalityType DEF SourceInv, TypeOK
          <6>3. t * PageLimit \in Nat
            BY <1>2, <4>2, <5>1
          <6>4. t * PageLimit >= Cardinality(initial)
            <7>. DEFINE x == t * PageLimit
            <7>1. x \in Nat /\ x >= Len(db)
              BY <6>1, <6>3
            <7>. HIDE DEF x
            <7>2. x >= Cardinality(initial)
              BY <1>2, <6>2, <7>1
            <7>. QED
              BY <7>2 DEF x
          <6>. QED
            BY <1>1, <5>1, <6>1, <6>4
        <5>2. CASE pc = "numbered" /\ total' = total
          BY <1>1, <4>2, <5>2 DEF SourceInv, PlaceInv
        <5>. QED
          BY <3>1, <4>2, <5>1, <5>2
      <4>3. ASSUME pc' \in {"cursor", "numbered"}, prevLen' > 0
            PROVE  SubSeq(out', Len(out') - prevLen' + 1, Len(out')) \in sigs'
        BY <1>2, <1>5, <3>1, <4>3, PageRemembered
      <4>. QED
        BY <3>1, <4>1, <4>2, <4>3 DEF PlaceInv
    <3>6. ASSUME "empty" \notin glitches, NEW i \in DOMAIN db, i <= Offset + PageLimit,
                 db[i] \in initial
          PROVE  db[i] \in ToSet(out')
      <4>1. i \in Nat
        BY <1>3
      <4>2. CASE i <= Offset
        BY <1>1, <3>4, <3>6, <4>2 DEF SourceInv, WholeInv
      <4>3. CASE i > Offset
        <5>1. db[i] \in ToSet(PageAfter(Offset))
          BY <1>2, <1>3, <3>6, <4>3, PageProperties
        <5>. QED
          BY <1>3, <3>4, <5>1
      <4>. QED
        BY <1>2, <4>1, <4>2, <4>3
    <3>7. WholeInv'
      <4>1. TrustedReadIsWhole'
        <5>. SUFFICES ASSUME pc' = "complete", "empty" \notin glitches
                      PROVE  Cardinality(initial \ ToSet(out'))
                               <= IF mode = "cursor" THEN 0 ELSE Cardinality(ToSet(db) \ initial)
          BY <1>1, <3>3 DEF TrustedReadIsWhole
        <5>1. Offset + PageLimit \in Nat /\ out' \in Seq(Nat)
          BY <1>2, <2>1 DEF TypeOK
        <5>2. /\ Offset + PageLimit >= Len(db) => initial \ ToSet(out') = {}
              /\ Cardinality(ToSet(db) \ initial) \in Nat
              /\ Offset + PageLimit >= Cardinality(initial) =>
                   Cardinality(initial \ ToSet(out')) <= Cardinality(ToSet(db) \ initial)
          <6>1. TypeOK
            BY DEF SourceInv
          <6>. QED
            BY <3>6, <5>1, <6>1, MissedBound
        <5>3. CASE Offset + PageLimit >= Len(db)
          <6>1. Cardinality(initial \ ToSet(out')) = 0
            BY <5>2, <5>3, FS_EmptySet
          <6>. QED
            BY <5>2, <6>1
        <5>. QED
          BY <3>2, <5>2, <5>3
      <4>2. pc' = "numbered" => prevLen' > 0
        BY <1>2, <3>1, <3>2, EmptySeq
      <4>3. ASSUME Reading', "empty" \notin glitches, NEW i \in DOMAIN db, i <= Offset',
                   db[i] \in initial
            PROVE  db[i] \in ToSet(out')
        <5>1. Offset' = Offset + PageLimit
          BY <3>1, <3>2, <4>3 DEF Reading, Done
        <5>. QED
          BY <3>6, <4>3, <5>1
      <4>. QED
        BY <1>1, <3>3, <4>1, <4>2, <4>3 DEF WholeInv
    <3>8. ExactInv'
      <4>. SUFFICES ASSUME glitches = {}, ToSet(db) = initial
                    PROVE  /\ pc' = "complete" => out' = db
                           /\ Reading' => out' = SubSeq(db, 1, IF Offset' < Len(db) THEN Offset'
                                                               ELSE Len(db))
        BY <1>1, <3>3 DEF ExactInv, StableReadIsExact
      <4>1. out = SubSeq(db, 1, IF Offset < Len(db) THEN Offset ELSE Len(db))
        BY <1>1 DEF SourceInv, ExactInv
      <4>2. out' = SubSeq(db, 1, IF Offset + PageLimit < Len(db) THEN Offset + PageLimit
                                 ELSE Len(db))
        BY <1>2, <1>3, <3>1, <4>1, NextPrefix
      <4>3. ASSUME pc' = "complete"
            PROVE  out' = db
        <5>1. Cardinality(initial) = Len(db)
          BY ListingSize DEF SourceInv, TypeOK
        <5>2. ~(Offset + PageLimit < Len(db))
          BY <1>2, <3>2, <4>3, <5>1
        <5>. QED
          BY <1>3, <4>2, <5>2, SubSeqFull
      <4>4. Reading' => Offset' = Offset + PageLimit
        BY <3>1, <3>2 DEF Reading, Done
      <4>. QED
        BY <4>2, <4>3, <4>4
    <3>. QED
      BY <2>1, <3>5, <3>7, <3>8 DEF SourceInv
  <2>. QED
    BY <2>2, <2>3
<1>. QED
  BY <1>1, <1>4, <1>5 DEF Handle

\* An honest page with a cursor where none may come ends a numbered read.
LEMMA SwitchStep ==
  ASSUME SourceInv, FetchSwitch
  PROVE  SourceInv'
<1>. DEFINE data == HonestData
            c == Last(HonestData)
            t == HonestTotal
<1>1. /\ MayFetch /\ Reading /\ requests' = requests + 1 /\ attempt' = 0
      /\ UNCHANGED <<db, mode, initial>>
      /\ pc = "numbered" /\ data # <<>> /\ Handle(data, c, t)
  BY DEF FetchSwitch, Glitch, MayFetch
<1>2. data \in Seq(Nat) /\ t \in Nat \cup {NoTotal}
  BY <1>1, HonestAnswer
<1>3. c \in Nat /\ c # NoCursor
  <2>1. Len(data) \in 1..Len(data)
    BY <1>1, <1>2, EmptySeq
  <2>2. data[Len(data)] \in Nat
    BY <1>2, <2>1, ElementOfSeq
  <2>. QED
    BY <2>2 DEF Last, NoCursor
<1>. HIDE DEF data, c, t
<1>4. CASE Stop("incomplete")
  BY <1>1, <1>4, RequestSent, StopStep
<1>5. CASE /\ pages' = pages + 1
           /\ FirstPage(data, c, t) \/ CursorPage(data, c) \/ NumberedPage(data, c)
  <2>1. TypeOK' /\ RequestsInv'
    BY <1>1, <1>2, <1>3, <1>5, HandleTyped
  <2>2. pc' = "incomplete"
    BY <1>1, <1>3, <1>5 DEF FirstPage, CursorPage, NumberedPage
  <2>. QED
    BY <2>1, <2>2, IncompleteStep
<1>. QED
  BY <1>1, <1>4, <1>5 DEF Handle

\* A page that was sent before ends the read, unless it was empty.
LEMMA StuckStep ==
  ASSUME SourceInv, FetchStuck
  PROVE  SourceInv'
<1>. DEFINE data == SubSeq(out, Len(out) - prevLen + 1, Len(out))
<1>1. /\ MayFetch /\ Reading /\ requests' = requests + 1 /\ attempt' = 0
      /\ UNCHANGED <<db, mode, initial>>
      /\ pc \in {"cursor", "numbered"} /\ Handle(data, cursor, total)
      /\ glitches' = glitches \cup {"stuck"}
  BY DEF FetchStuck, Glitch, MayFetch, SourceInv, TypeOK, Reading
<1>2. /\ out \in Seq(Nat) /\ Len(out) \in Nat /\ prevLen \in 0..Len(out)
      /\ cursor \in Nat \cup {NoCursor} /\ total \in Nat \cup {NoTotal}
  BY DEF SourceInv, TypeOK
<1>3. data \in Seq(Nat) /\ (prevLen = 0 => data = <<>>) /\ (prevLen > 0 => data # <<>>)
  <2>1. Len(out) - prevLen + 1 \in Int /\ Len(out) \in Int
        /\ \A i \in (Len(out) - prevLen + 1)..Len(out) : i \in 1..Len(out)
    BY <1>2
  <2>2. \A i \in (Len(out) - prevLen + 1)..Len(out) : out[i] \in Nat
    BY <1>2, <2>1, ElementOfSeq
  <2>3. /\ data \in Seq(Nat)
        /\ Len(data) = IF Len(out) - prevLen + 1 <= Len(out)
                       THEN Len(out) - (Len(out) - prevLen + 1) + 1 ELSE 0
    BY <2>1, <2>2, SubSeqProperties
  <2>. HIDE DEF data
  <2>4. (prevLen = 0 => Len(data) = 0) /\ (prevLen > 0 => Len(data) # 0)
    BY <1>2, <2>3
  <2>. QED
    BY <2>3, <2>4, EmptySeq
<1>4. prevLen > 0 => Repeated(data)
  BY <1>1, <1>3 DEF Repeated, SourceInv, PlaceInv
<1>. HIDE DEF data
<1>5. CASE Stop("incomplete")
  BY <1>1, <1>5, RequestSent, StopStep
<1>6. CASE /\ ~Repeated(data) /\ pages' = pages + 1
           /\ FirstPage(data, cursor, total) \/ CursorPage(data, cursor)
                \/ NumberedPage(data, cursor)
  <2>1. TypeOK' /\ RequestsInv'
    BY <1>1, <1>2, <1>3, <1>6, HandleTyped
  <2>2. data = <<>> /\ ~(prevLen > 0)
    BY <1>2, <1>3, <1>4, <1>6
  <2>3. CASE pc = "cursor"
    <3>1. cursor \in ToSet(db) /\ cursor # NoCursor
      <4>1. cursor \in ToSet(db)
        BY <2>3 DEF SourceInv, PlaceInv
      <4>2. PICK i \in DOMAIN db : cursor = db[i]
        BY <4>1 DEF ToSet
      <4>3. db[i] \in Nat
        BY <4>2 DEF SourceInv, TypeOK
      <4>. QED
        BY <4>1, <4>2, <4>3 DEF NoCursor
    <3>2. pc' = "incomplete"
      BY <1>6, <2>2, <2>3, <3>1 DEF FirstPage, CursorPage, NumberedPage
    <3>. QED
      BY <2>1, <3>2, IncompleteStep
  <2>4. CASE pc = "numbered"
    <3>1. "empty" \in glitches /\ "empty" \in glitches' /\ glitches' # {}
      BY <1>1, <2>2, <2>4 DEF SourceInv, WholeInv
    <3>2. pc' \in {"complete", "incomplete"}
      BY <1>6, <2>2, <2>4 DEF FirstPage, CursorPage, NumberedPage
    <3>3. PlaceInv' /\ ~Reading'
      BY <3>2 DEF PlaceInv, Reading, Done
    <3>4. WholeInv' /\ ExactInv'
      BY <3>1, <3>3 DEF WholeInv, ExactInv, TrustedReadIsWhole, StableReadIsExact
    <3>. QED
      BY <2>1, <3>3, <3>4 DEF SourceInv
  <2>. QED
    BY <1>1, <2>3, <2>4
<1>. QED
  BY <1>1, <1>5, <1>6 DEF Handle

\* An empty page may mislead the read, which then only keeps its place.
LEMMA EmptyStep ==
  ASSUME SourceInv, FetchEmpty
  PROVE  SourceInv'
<1>. DEFINE c == HonestCursor
            t == HonestTotal
<1>1. /\ MayFetch /\ Reading /\ requests' = requests + 1 /\ attempt' = 0
      /\ UNCHANGED <<db, mode, initial>>
      /\ Handle(<<>>, c, t)
      /\ "empty" \in glitches' /\ glitches' # {}
  BY DEF FetchEmpty, Glitch, MayFetch
<1>2. /\ <<>> \in Seq(Nat) /\ Len(<<>>) = 0
      /\ c \in Nat \cup {NoCursor} /\ t \in Nat \cup {NoTotal}
      /\ c # NoCursor => mode = "cursor" /\ c \in ToSet(db)
      /\ t # NoTotal => mode = "total" /\ t * PageLimit >= Len(db)
  BY <1>1, HonestAnswer, EmptySeq
<1>. HIDE DEF c, t
<1>3. CASE Stop("incomplete")
  BY <1>1, <1>3, RequestSent, StopStep
<1>4. CASE /\ pages' = pages + 1
           /\ FirstPage(<<>>, c, t) \/ CursorPage(<<>>, c) \/ NumberedPage(<<>>, c)
  <2>1. TypeOK' /\ RequestsInv'
    BY <1>1, <1>2, <1>4, HandleTyped
  <2>2. CASE pc' = "incomplete"
    BY <2>1, <2>2, IncompleteStep
  <2>3. CASE pc' # "incomplete"
    <3>1. /\ pc' \in {"cursor", "numbered", "complete"}
          /\ pc' = "cursor" => c # NoCursor /\ cursor' = c
          /\ pc' \in {"cursor", "numbered"} => prevLen' = 0
          /\ pc' = "numbered" =>
               cursor' = NoCursor /\ ((pc = "first" /\ total' = t) \/ (pc = "numbered" /\ total' = total))
      BY <1>2, <1>4, <2>3, PageTaken
    <3>2. ToSet(db)' = ToSet(db) /\ ToSet(db') = ToSet(db)
      BY <1>1 DEF ToSet
    <3>3. ASSUME pc' = "numbered", total' # NoTotal
          PROVE  mode' = "total" /\ total' * PageLimit >= Cardinality(initial')
      <4>1. CASE pc = "first" /\ total' = t
        <5>1. mode = "total" /\ t * PageLimit >= Len(db)
          BY <1>2, <3>3, <4>1
        <5>2. /\ Cardinality(initial) \in Nat /\ Cardinality(initial) <= Len(db)
              /\ Len(db) \in Nat /\ PageLimit \in Nat
          BY SourceAssumption, ListingSize, FS_Subset, FS_CardinalityType DEF SourceInv, TypeOK
        <5>. DEFINE x == t * PageLimit
        <5>3. x \in Nat /\ x >= Len(db)
          BY <1>2, <3>3, <4>1, <5>1, <5>2
        <5>. HIDE DEF x
        <5>4. x >= Cardinality(initial)
          BY <5>2, <5>3
        <5>. QED
          BY <1>1, <4>1, <5>1, <5>4 DEF x
      <4>2. CASE pc = "numbered" /\ total' = total
        BY <1>1, <3>3, <4>2 DEF SourceInv, PlaceInv
      <4>. QED
        BY <3>1, <3>3, <4>1, <4>2
    <3>4. PlaceInv'
      BY <1>1, <1>2, <3>1, <3>2, <3>3 DEF PlaceInv
    <3>5. WholeInv' /\ ExactInv'
      BY <1>1 DEF WholeInv, ExactInv, TrustedReadIsWhole, StableReadIsExact
    <3>. QED
      BY <2>1, <3>4, <3>5 DEF SourceInv
  <2>. QED
    BY <2>2, <2>3
<1>. QED
  BY <1>1, <1>3, <1>4 DEF Handle

\* Every step keeps the invariant.
LEMMA SourceStep ==
  ASSUME SourceInv, [Next]_vars
  PROVE  SourceInv'
<1>1. CASE UNCHANGED vars \/ Over
  <2>1. UNCHANGED <<db, mode, glitches, initial, pc, out, page, total, prevLen, cursor,
                    cursors, sigs, pages, requests, attempt>>
    BY <1>1 DEF vars, serverVars, Over
  <2>2. Offset' = Offset
    BY <2>1 DEF Offset, Position
  <2>3. TypeOK' /\ RequestsInv' /\ PlaceInv'
    BY <2>1 DEF SourceInv, TypeOK, RequestsInv, RequestsBounded, PlaceInv, Reading
  <2>4. WholeInv'
    BY <2>1, <2>2 DEF SourceInv, WholeInv, TrustedReadIsWhole, Reading
  <2>5. ExactInv'
    BY <2>1, <2>2 DEF SourceInv, ExactInv, StableReadIsExact, Reading
  <2>. QED
    BY <2>3, <2>4, <2>5 DEF SourceInv
<1>2. CASE Insert
  BY <1>2, InsertStep
<1>3. CASE TooManyPages
  <2>1. /\ Reading /\ Stop("incomplete") /\ UNCHANGED <<db, mode, initial, requests, attempt>>
    BY <1>3 DEF TooManyPages, serverVars
  <2>2. /\ attempt' \in 0..MaxRetries /\ requests' \in Nat
        /\ requests' <= MaxPages * (MaxRetries + 1)
    BY <2>1 DEF SourceInv, TypeOK, RequestsInv, RequestsBounded
  <2>. QED
    BY <2>1, <2>2, StopStep
<1>4. CASE Retry
  BY <1>4, RetryStep
<1>5. CASE GiveUp
  <2>1. /\ MayFetch /\ Reading /\ requests' = requests + 1 /\ Stop("error")
        /\ UNCHANGED <<db, mode, initial, attempt>>
    BY <1>5 DEF GiveUp, MayFetch, serverVars
  <2>. QED
    BY <2>1, RequestSent, StopStep
<1>6. CASE Fetch
  BY <1>6, FetchStep
<1>7. CASE FetchMalformed
  <2>1. /\ MayFetch /\ Reading /\ requests' = requests + 1 /\ Stop("incomplete")
        /\ UNCHANGED <<db, mode, initial>> /\ attempt' = 0
    BY <1>7 DEF FetchMalformed, Glitch, MayFetch
  <2>2. attempt' \in 0..MaxRetries
    BY <2>1, SourceAssumption
  <2>. QED
    BY <2>1, <2>2, RequestSent, StopStep
<1>8. CASE FetchStuck
  BY <1>8, StuckStep
<1>9. CASE FetchEmpty
  BY <1>9, EmptyStep
<1>10. CASE FetchSwitch
  BY <1>10, SwitchStep
<1>. QED
  BY <1>1, <1>2, <1>3, <1>4, <1>5, <1>6, <1>7, <1>8, <1>9, <1>10 DEF Next, Client

\* The inductive invariant of the read.
LEMMA SourceInvariant == Spec => []SourceInv
<1>1. Init => SourceInv
  <2>. SUFFICES ASSUME Init PROVE SourceInv
    OBVIOUS
  <2>1. /\ db \in Seq(Nat) /\ \A i, j \in DOMAIN db : db[i] = db[j] => i = j
        /\ MaxRetries \in Nat /\ MaxPages \in Nat /\ PageLimit \in Nat \ {0}
    BY SourceAssumption DEF Init
  <2>2. /\ out = <<>> /\ out \in Seq(Nat) /\ Len(out) = 0
    BY EmptySeq DEF Init
  <2>3. TypeOK
    BY <2>1, <2>2 DEF Init, TypeOK, NoTotal, NoCursor
  <2>4. RequestsInv
    <3>1. MaxPages * (MaxRetries + 1) \in Nat /\ 0 * (MaxRetries + 1) = 0
      BY <2>1
    <3>. QED
      BY <3>1 DEF Init, RequestsInv, RequestsBounded
  <2>5. PlaceInv
    BY DEF Init, PlaceInv
  <2>6. pc = "first" /\ Offset = 0
    BY DEF Init, Offset
  <2>7. WholeInv
    <3>1. \A i \in DOMAIN db : ~(i <= 0)
      BY <2>1
    <3>. QED
      BY <2>6, <3>1 DEF WholeInv, TrustedReadIsWhole
  <2>8. ExactInv
    <3>1. SubSeq(db, 1, 0) = <<>>
      BY SubSeqEmpty
    <3>2. (IF 0 < Len(db) THEN 0 ELSE Len(db)) = 0
      <4>1. Len(db) \in Nat
        BY <2>1
      <4>. QED
        BY <4>1
    <3>. QED
      BY <2>2, <2>6, <3>1, <3>2 DEF ExactInv, StableReadIsExact
  <2>. QED
    BY <2>3, <2>4, <2>5, <2>7, <2>8 DEF SourceInv
<1>2. SourceInv /\ [Next]_vars => SourceInv'
  BY SourceStep
<1>. QED
  BY <1>1, <1>2, PTL DEF Spec

\* The client never sends more than max_retries + 1 requests for each of max_pages pages,
\* for any limits, any listing and whatever the server answers.
THEOREM Requests == Spec => []RequestsBounded
<1>1. SourceInv => RequestsBounded
  BY DEF SourceInv, RequestsInv
<1>. QED
  BY <1>1, SourceInvariant, PTL

\* A cursor read that ends normally misses none of the records that were listed when it
\* began, and a numbered read no more than entered the listing meanwhile, for any listing,
\* any number of late records and any page_limit, unless an empty page misled it.
THEOREM ReadIsWhole == Spec => []TrustedReadIsWhole
<1>1. SourceInv => TrustedReadIsWhole
  BY DEF SourceInv, WholeInv
<1>. QED
  BY <1>1, SourceInvariant, PTL

\* A read of an unchanging, fault-free listing of any length that ends normally yielded
\* every record once and in order, in each pagination mode and whatever was retried.
THEOREM ReadIsExact == Spec => []StableReadIsExact
<1>1. SourceInv => StableReadIsExact
  BY DEF SourceInv, ExactInv
<1>. QED
  BY <1>1, SourceInvariant, PTL
=============================================================================
