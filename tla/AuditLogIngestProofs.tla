------------------------ MODULE AuditLogIngestProofs ------------------------
(***************************************************************************)
(* Safety of AuditLogIngest: its types, that nothing leaves the stream     *)
(* unhandled, that the outbox never runs ahead of the audit log, and that  *)
(* drains overlap only when a lock ran out.                                *)
(***************************************************************************)
EXTENDS AuditLogIngest, FiniteSetTheorems, WellFoundedInduction, TLAPS

\* What a consumer has collected is still a prefix of the stream: whatever is
\* in the stream up to one of its entries, it has as well.
BatchesArePrefixes ==
  \A c \in Consumers : \A b \in batch[c] : \A e \in stream : e <= b => e \in batch[c]

\* A consumer past the insert has inserted its batch; past the fanout, it has
\* fanned it out.
InsertedFirst ==
  \A c \in Consumers : pc[c] \in {"fanout", "trim"} => Enriched(c) \subseteq persisted

FannedOutFirst ==
  \A c \in Consumers : pc[c] = "trim" /\ StreamsEnabled => Enriched(c) \subseteq fanned

\* A run whose lock did not expire holds it.
LockHeld == \A c \in Consumers : pc[c] # "idle" /\ c \notin overrun => lock = c

Handling == NothingLost /\ FannedIsPersisted
Progress == InsertedFirst /\ FannedOutFirst

Ingest == TypeOK /\ BatchesArePrefixes /\ Progress /\ Handling /\ LockHeld

-----------------------------------------------------------------------------
(* The maximum of a batch, and a page of the stream.                       *)

\* Max of a set of naturals that is bounded and not empty is its last element.
LEMMA MaxOfBounded ==
  ASSUME NEW n \in Nat, NEW S \in SUBSET (1..n), S # {}
  PROVE  Max(S) \in S /\ \A e \in S : e <= Max(S)
  <1> DEFINE Bounds == {k \in Nat : \A e \in S : e <= k}
  <1>1. n \in Bounds  OBVIOUS
  <1>2. PICK k \in Bounds : \A j \in Bounds : <<j, k>> \notin OpToRel(<, Nat)
    <2>1. Bounds \subseteq Nat /\ Bounds # {}  BY <1>1
    <2> HIDE DEF Bounds
    <2>2. QED  BY <2>1, NatLessThanWellFounded, WFMin
  <1>3. \A j \in Bounds : ~(j < k)
    BY <1>2 DEF OpToRel
  <1>4. k \in S
    <2>1. SUFFICES ASSUME k \notin S  PROVE FALSE  OBVIOUS
    <2>2. k > 0
      <3>1. PICK e \in S : TRUE  OBVIOUS
      <3>2. e \in 1..n /\ e <= k /\ k \in Nat  BY <3>1
      <3>3. QED  BY <3>2
    <2>3. k - 1 \in Bounds
      <3>1. \A e \in S : e <= k - 1
        <4>1. TAKE e \in S
        <4>2. e \in 1..n /\ e <= k /\ e # k  BY <2>1
        <4>3. QED  BY <4>2
      <3>2. k - 1 \in Nat  BY <2>2
      <3>3. QED  BY <3>1, <3>2
    <2>4. QED  BY <1>3, <2>2, <2>3
  <1>5. \E x \in S : \A y \in S : x >= y  BY <1>4
  <1>6. Max(S) \in S /\ \A y \in S : Max(S) >= y  BY <1>5 DEF Max
  <1>7. QED  BY <1>6

\* An empty batch has no last id, and the last id of another is one of its own.
LEMMA LastIdOf ==
  ASSUME TypeOK, NEW c \in Consumers
  PROVE  /\ batch[c] = {} => LastId(c) = 0
         /\ batch[c] # {} => LastId(c) \in batch[c]
         /\ \A e \in batch[c] : e <= LastId(c)
         /\ LastId(c) \in Nat
  <1>1. pushed \in Nat /\ batch[c] \in SUBSET (1..pushed)
    BY IngestAssumption DEF TypeOK
  <1>2. CASE batch[c] = {}  BY <1>2 DEF LastId
  <1>3. CASE batch[c] # {}
    <2>1. LastId(c) = Max(batch[c])  BY <1>3 DEF LastId
    <2>2. Max(batch[c]) \in batch[c] /\ \A e \in batch[c] : e <= Max(batch[c])
      BY <1>1, <1>3, MaxOfBounded
    <2>3. LastId(c) \in 1..pushed  BY <1>1, <2>1, <2>2
    <2>4. QED  BY <1>1, <1>3, <2>1, <2>2, <2>3
  <1>4. QED  BY <1>2, <1>3

\* A page has everything the stream holds between the last id and one of the
\* page's entries: fewer entries than the page size lie below an earlier one.
LEMMA PageIsPrefix ==
  ASSUME TypeOK, NEW c \in Consumers, NEW b \in Page(c), NEW e \in stream,
         e > LastId(c), e <= b
  PROVE  e \in Page(c)
  <1> DEFINE rest == {d \in stream : d > LastId(c)}
             below(x) == {d \in rest : d < x}
  <1>1. pushed \in Nat /\ stream \subseteq 1..pushed
    BY IngestAssumption DEF TypeOK
  <1>2. b \in rest /\ Cardinality(below(b)) < PageSize /\ e \in rest  BY DEF Page
  <1>3. IsFiniteSet(below(b))
    <2>1. IsFiniteSet(1..pushed)  BY <1>1, FS_Interval
    <2>2. below(b) \subseteq 1..pushed  BY <1>1
    <2>3. QED  BY <2>1, <2>2, FS_Subset
  <1>4. below(e) \subseteq below(b)
    <2>1. rest \subseteq 1..pushed  BY <1>1
    <2>2. \A d \in rest : d < e => d < b  BY <1>1, <1>2, <2>1
    <2>3. QED  BY <2>2
  <1>5. IsFiniteSet(below(e)) /\ Cardinality(below(e)) <= Cardinality(below(b))
    BY <1>3, <1>4, FS_Subset
  <1>6. Cardinality(below(e)) \in Nat /\ Cardinality(below(b)) \in Nat
    BY <1>3, <1>5, FS_CardinalityType
  <1>7. Cardinality(below(e)) < PageSize  BY <1>2, <1>5, <1>6, IngestAssumption
  <1>8. QED  BY <1>2, <1>7 DEF Page

-----------------------------------------------------------------------------
(* What the invariant says of a batch.                                     *)

\* Whatever is in the stream up to a consumer's last id, it has collected.
LEMMA TrimmedIsCollected ==
  ASSUME TypeOK, BatchesArePrefixes, NEW c \in Consumers
  PROVE  Trimmed(c) \subseteq batch[c]
  <1>1. SUFFICES ASSUME NEW e \in stream, e <= LastId(c)  PROVE e \in batch[c]
    BY DEF Trimmed
  <1>2. pushed \in Nat /\ e \in 1..pushed  BY IngestAssumption DEF TypeOK
  <1>3. batch[c] # {}
    <2>1. SUFFICES ASSUME batch[c] = {}  PROVE FALSE  OBVIOUS
    <2>2. LastId(c) = 0  BY <2>1, LastIdOf
    <2>3. QED  BY <1>1, <1>2, <2>2
  <1>4. LastId(c) \in batch[c]  BY <1>3, LastIdOf
  <1>5. QED  BY <1>1, <1>4 DEF BatchesArePrefixes

\* What a consumer trims after its fanout is handled.
LEMMA TrimmedIsHandled ==
  ASSUME Ingest, NEW c \in Consumers, pc[c] = "trim", NEW e \in Trimmed(c)
  PROVE  Handled(e)
  <1>1. e \in batch[c]  BY TrimmedIsCollected DEF Ingest
  <1>2. e \in corrupt \/ e \in Enriched(c)  BY <1>1 DEF Enriched
  <1>3. Enriched(c) \subseteq persisted /\ (StreamsEnabled => Enriched(c) \subseteq fanned)
    BY DEF Ingest, Progress, InsertedFirst, FannedOutFirst
  <1>4. QED  BY <1>2, <1>3 DEF Handled

\* The types of what a consumer has in hand.
LEMMA BatchTypes ==
  ASSUME TypeOK, NEW c \in Consumers
  PROVE  /\ Enriched(c) \subseteq 1..pushed /\ batch[c] \subseteq 1..pushed
         /\ Page(c) \subseteq stream /\ Page(c) \subseteq 1..pushed
         /\ Trimmed(c) \subseteq stream
         /\ pushed \in Nat
  <1>1. batch[c] \subseteq 1..pushed /\ pushed \in Nat  BY IngestAssumption DEF TypeOK
  <1>2. Enriched(c) \subseteq 1..pushed  BY <1>1 DEF Enriched
  <1>3. stream \subseteq 1..pushed  BY DEF TypeOK
  <1>4. Page(c) \subseteq stream  BY DEF Page
  <1>5. Trimmed(c) \subseteq stream  BY DEF Trimmed
  <1>6. QED  BY <1>1, <1>2, <1>3, <1>4, <1>5

-----------------------------------------------------------------------------
(* Steps.                                                                  *)

\* Nothing is in the stream at the start.
LEMMA InitIngest == Init => Ingest
  BY IngestAssumption
     DEF Init, Ingest, TypeOK, BatchesArePrefixes, Progress, InsertedFirst, FannedOutFirst,
         Handling, NothingLost, FannedIsPersisted, LockHeld

\* A push gets an id after all others; the cap evicts what it removes.
LEMMA PushKeepsIngest ==
  ASSUME Ingest, NEW bad \in BOOLEAN, Push(bad)
  PROVE  Ingest'
  <1> DEFINE i == pushed + 1
             all == stream \cup {i}
  <1>1. PICK oldest \in 0..pushed :
          /\ stream' = all \ {e \in all : e <= oldest}
          /\ evicted' = evicted \cup {e \in all : e <= oldest}
    BY DEF Push
  <1>2. /\ pushed < MaxPushes /\ pushed' = i
        /\ corrupt' \in {corrupt, corrupt \cup {i}}
        /\ UNCHANGED <<persisted, fanned, lock, pc, batch, overrun, faults>>
    BY DEF Push
  <1>3. /\ pushed \in Nat /\ pushed' \in 0..MaxPushes
        /\ 1..pushed' = (1..pushed) \cup {i} /\ i \notin 1..pushed
    BY <1>2, IngestAssumption DEF Ingest, TypeOK
  <1>4. TypeOK'
    <2>1. stream' \subseteq 1..pushed' /\ evicted' \subseteq 1..pushed'
      BY <1>1, <1>3 DEF Ingest, TypeOK
    <2>2. corrupt' \subseteq 1..pushed'  BY <1>2, <1>3 DEF Ingest, TypeOK
    <2>3. batch' \in [Consumers -> SUBSET (1..pushed')]  BY <1>2, <1>3 DEF Ingest, TypeOK
    <2>4. QED  BY <1>2, <1>3, <2>1, <2>2, <2>3 DEF Ingest, TypeOK
  <1>5. BatchesArePrefixes'
    <2>1. SUFFICES ASSUME NEW c \in Consumers, NEW b \in batch[c], NEW e \in stream', e <= b
                   PROVE  e \in batch[c]
      BY <1>2 DEF BatchesArePrefixes
    <2>2. b \in 1..pushed  BY DEF Ingest, TypeOK
    <2>3. e \in stream \/ e = i  BY <1>1
    <2>4. e # i  BY <1>3, <2>1, <2>2
    <2>5. QED  BY <2>1, <2>3, <2>4 DEF Ingest, BatchesArePrefixes
  <1>6. \A c \in Consumers : Enriched(c)' = Enriched(c)
    BY <1>2, <1>3 DEF Ingest, TypeOK, Enriched
  <1>7. Progress'
    BY <1>2, <1>6 DEF Ingest, Progress, InsertedFirst, FannedOutFirst
  <1>8. Handling'
    <2>1. \A e \in 1..pushed : Handled(e) => Handled(e)'  BY <1>2 DEF Handled
    <2>2. \A e \in all : e \in stream' \/ e \in evicted'  BY <1>1
    <2>3. evicted \subseteq evicted'  BY <1>1
    <2>4. NothingLost'
      BY <1>3, <2>1, <2>2, <2>3 DEF Ingest, Handling, NothingLost
    <2>5. QED  BY <1>2, <2>4 DEF Ingest, Handling, FannedIsPersisted
  <1>9. LockHeld'  BY <1>2 DEF Ingest, LockHeld
  <1>10. QED  BY <1>4, <1>5, <1>7, <1>8, <1>9 DEF Ingest

\* The steps of the lock: an acquisition, its end, a release, a death.
LEMMA LockKeepsIngest ==
  ASSUME Ingest, NEW c \in Consumers,
         AcquireLock(c) \/ LockExpires \/ ReleaseLock(c) \/ Crash(c)
  PROVE  Ingest'
  <1>1. UNCHANGED <<stream, pushed, corrupt, evicted, persisted, fanned>>
    BY DEF AcquireLock, LockExpires, ReleaseLock, Crash
  <1>2. /\ pc' \in {pc, [pc EXCEPT ![c] = "collect"], [pc EXCEPT ![c] = "idle"]}
        /\ batch' \in {batch, [batch EXCEPT ![c] = {}]}
    BY DEF AcquireLock, LockExpires, ReleaseLock, Crash, Goto
  <1>3. \A d \in Consumers : batch'[d] = batch[d] \/ batch'[d] = {}
    BY <1>2 DEF Ingest, TypeOK
  <1>4. \A d \in Consumers : pc'[d] \in {"fanout", "trim"} => pc'[d] = pc[d]
    BY <1>2 DEF Ingest, TypeOK
  <1>5. TypeOK'
    <2>1. /\ pc' \in [Consumers -> {"idle", "collect", "insert", "fanout", "trim", "release"}]
          /\ batch' \in [Consumers -> SUBSET (1..pushed)]
      BY <1>2 DEF Ingest, TypeOK
    <2>2. lock' \in Consumers \cup {Nobody}
      BY DEF Ingest, TypeOK, AcquireLock, LockExpires, ReleaseLock, Crash, Released
    <2>3. overrun' \subseteq Consumers
      BY DEF Ingest, TypeOK, AcquireLock, LockExpires, ReleaseLock, Crash
    <2>4. faults' \in Nat
      BY DEF Ingest, TypeOK, AcquireLock, LockExpires, ReleaseLock, Crash
    <2>5. QED  BY <1>1, <2>1, <2>2, <2>3, <2>4 DEF Ingest, TypeOK
  <1>6. BatchesArePrefixes'  BY <1>1, <1>3 DEF Ingest, BatchesArePrefixes
  <1>7. \A d \in Consumers : Enriched(d)' \subseteq Enriched(d)
    BY <1>1, <1>3 DEF Enriched
  <1>8. Progress'
    BY <1>1, <1>4, <1>7 DEF Ingest, Progress, InsertedFirst, FannedOutFirst
  <1>9. Handling'
    BY <1>1 DEF Ingest, Handling, NothingLost, FannedIsPersisted, Handled
  <1>10. LockHeld'
    <2>1. CASE AcquireLock(c)
      BY <2>1, IngestAssumption DEF Ingest, TypeOK, LockHeld, AcquireLock, Goto
    <2>2. CASE LockExpires
      BY <2>2, IngestAssumption DEF Ingest, TypeOK, LockHeld, LockExpires
    <2>3. CASE ReleaseLock(c)
      BY <2>3 DEF Ingest, TypeOK, LockHeld, ReleaseLock, Released, Goto
    <2>4. CASE Crash(c)
      BY <2>4 DEF Ingest, TypeOK, LockHeld, Crash, Goto
    <2>5. QED  BY <2>1, <2>2, <2>3, <2>4
  <1>11. QED  BY <1>5, <1>6, <1>8, <1>9, <1>10 DEF Ingest

\* A page extends the prefix its consumer has.
LEMMA CollectKeepsIngest ==
  ASSUME Ingest, NEW c \in Consumers, CollectPage(c)
  PROVE  Ingest'
  <1>1. /\ batch' = [batch EXCEPT ![c] = @ \cup Page(c)]
        /\ pc[c] = "collect"
        /\ pc' \in {pc, [pc EXCEPT ![c] = "release"], [pc EXCEPT ![c] = "insert"]}
        /\ UNCHANGED <<stream, pushed, corrupt, evicted, persisted, fanned, lock, overrun,
                       faults>>
    BY DEF CollectPage, Goto
  <1>2. TypeOK  BY DEF Ingest
  <1>3. /\ batch'[c] = batch[c] \cup Page(c)
        /\ \A d \in Consumers : d # c => batch'[d] = batch[d]
    BY <1>1, <1>2 DEF TypeOK
  <1>4. TypeOK'
    <2>1. batch' \in [Consumers -> SUBSET (1..pushed)]
      BY <1>1, <1>2, BatchTypes DEF TypeOK
    <2>2. pc' \in [Consumers -> {"idle", "collect", "insert", "fanout", "trim", "release"}]
      BY <1>1, <1>2 DEF TypeOK
    <2>3. QED  BY <1>1, <1>2, <2>1, <2>2 DEF TypeOK
  <1>5. BatchesArePrefixes'
    <2>1. SUFFICES ASSUME NEW d \in Consumers, NEW b \in batch'[d], NEW e \in stream, e <= b
                   PROVE  e \in batch'[d]
      BY <1>1 DEF BatchesArePrefixes
    <2>2. CASE d # c \/ b \in batch[d]
      <3>1. b \in batch[d] /\ batch[d] \subseteq batch'[d]  BY <1>3, <2>1, <2>2
      <3>2. QED  BY <2>1, <3>1 DEF Ingest, BatchesArePrefixes
    <2>3. CASE d = c /\ b \in Page(c)
      <3>1. CASE e > LastId(c)
        BY <1>2, <1>3, <2>1, <2>3, <3>1, PageIsPrefix
      <3>2. CASE ~(e > LastId(c))
        <4>1. e \in Nat /\ LastId(c) \in Nat  BY <1>2, LastIdOf, BatchTypes DEF TypeOK
        <4>2. e \in Trimmed(c)  BY <3>2, <4>1 DEF Trimmed
        <4>3. QED  BY <1>3, <2>3, <4>2, TrimmedIsCollected DEF Ingest
      <3>3. QED  BY <3>1, <3>2
    <2>4. QED  BY <1>3, <2>2, <2>3
  <1>6. \A d \in Consumers : pc'[d] \in {"fanout", "trim"} => d # c /\ pc'[d] = pc[d]
    BY <1>1, <1>2 DEF TypeOK
  <1>7. \A d \in Consumers : d # c => Enriched(d)' = Enriched(d)
    BY <1>1, <1>3 DEF Enriched
  <1>8. Progress'
    BY <1>1, <1>6, <1>7 DEF Ingest, Progress, InsertedFirst, FannedOutFirst
  <1>9. Handling'
    BY <1>1 DEF Ingest, Handling, NothingLost, FannedIsPersisted, Handled
  <1>10. LockHeld'  BY <1>1, <1>2 DEF Ingest, TypeOK, LockHeld
  <1>11. QED  BY <1>4, <1>5, <1>8, <1>9, <1>10 DEF Ingest

\* The rest of a drain: a step that inserts or fans out entries of its batch, or
\* trims what it may, and goes on where what it has done allows.
LEMMA WorkKeepsIngest ==
  ASSUME Ingest, NEW c \in Consumers, pc[c] # "idle",
         NEW P \in SUBSET Enriched(c), NEW F \in SUBSET Enriched(c),
         NEW X \in SUBSET Trimmed(c),
         F # {} => pc[c] = "fanout",
         X # {} => pc[c] = "trim",
         NEW l \in {"fanout", "trim", "release"}, pc' = [pc EXCEPT ![c] = l],
         persisted' = persisted \cup P,
         fanned' = fanned \cup F,
         stream' = stream \ X,
         l # "release" => Enriched(c) \subseteq persisted',
         l = "trim" /\ StreamsEnabled => Enriched(c) \subseteq fanned',
         faults' \in Nat,
         UNCHANGED <<pushed, corrupt, evicted, lock, batch, overrun>>
  PROVE  Ingest'
  <1>1. TypeOK  BY DEF Ingest
  <1>2. TypeOK'
    <2>1. pc' \in [Consumers -> {"idle", "collect", "insert", "fanout", "trim", "release"}]
      BY <1>1 DEF TypeOK
    <2>2. persisted' \subseteq 1..pushed /\ fanned' \subseteq 1..pushed
      BY <1>1, BatchTypes DEF TypeOK
    <2>3. QED  BY <1>1, <2>1, <2>2 DEF TypeOK
  <1>3. BatchesArePrefixes'  BY DEF Ingest, BatchesArePrefixes
  <1>4. \A d \in Consumers : Enriched(d)' = Enriched(d)  BY DEF Enriched
  <1>5. \A d \in Consumers : d # c => pc'[d] = pc[d]  BY <1>1 DEF TypeOK
  <1>6. pc'[c] = l  BY <1>1 DEF TypeOK
  <1>7. Progress'
    <2>1. InsertedFirst'
      BY <1>4, <1>5, <1>6 DEF Ingest, Progress, InsertedFirst
    <2>2. FannedOutFirst'
      BY <1>4, <1>5, <1>6 DEF Ingest, Progress, FannedOutFirst
    <2>3. QED  BY <2>1, <2>2 DEF Progress
  <1>8. Handling'
    <2>1. FannedIsPersisted'
      BY DEF Ingest, Handling, Progress, FannedIsPersisted, InsertedFirst
    <2>2. \A e \in 1..pushed : Handled(e) => Handled(e)'  BY DEF Handled
    <2>3. \A e \in X : Handled(e)  BY TrimmedIsHandled
    <2>4. NothingLost'  BY <2>2, <2>3 DEF Ingest, Handling, NothingLost
    <2>5. QED  BY <2>1, <2>4 DEF Handling
  <1>9. LockHeld'
    <2>1. SUFFICES ASSUME NEW d \in Consumers, pc'[d] # "idle", d \notin overrun
                   PROVE  lock = d
      BY DEF LockHeld
    <2>2. pc[d] # "idle"  BY <1>5, <2>1
    <2>3. QED  BY <2>1, <2>2 DEF Ingest, LockHeld
  <1>10. QED  BY <1>2, <1>3, <1>7, <1>8, <1>9 DEF Ingest

\* The insert, the fanout and the trim.
LEMMA DrainKeepsIngest ==
  ASSUME Ingest, NEW c \in Consumers, Insert(c) \/ Fanout(c) \/ Trim(c)
  PROVE  Ingest'
  <1>1. faults \in Nat  BY DEF Ingest, TypeOK
  <1>2. CASE Insert(c)
    <2> DEFINE l == IF StreamsEnabled /\ Enriched(c) # {} THEN "fanout" ELSE "trim"
    <2>1. /\ pc[c] = "insert" /\ pc' = [pc EXCEPT ![c] = l]
          /\ persisted' = persisted \cup Enriched(c)
          /\ UNCHANGED <<stream, pushed, corrupt, evicted, fanned, lock, batch, overrun,
                         faults>>
      BY <1>2 DEF Insert, Goto
    <2>2. l \in {"fanout", "trim", "release"} /\ l # "release"  OBVIOUS
    <2>3. l = "trim" /\ StreamsEnabled => Enriched(c) = {}  OBVIOUS
    <2> HIDE DEF l
    <2>4. fanned' = fanned \cup {} /\ stream' = stream \ {}  BY <2>1
    <2>5. QED  BY <1>1, <2>1, <2>2, <2>3, <2>4, WorkKeepsIngest
  <1>3. CASE Fanout(c)
    <2>1. /\ pc[c] = "fanout" /\ pc' = [pc EXCEPT ![c] = "trim"]
          /\ fanned' = fanned \cup Enriched(c)
          /\ UNCHANGED <<stream, pushed, corrupt, evicted, persisted, lock, batch, overrun,
                         faults>>
      BY <1>3 DEF Fanout, Goto
    <2>2. Enriched(c) \subseteq persisted  BY <2>1 DEF Ingest, Progress, InsertedFirst
    <2>3. persisted' = persisted \cup {} /\ stream' = stream \ {}  BY <2>1
    <2>4. QED  BY <1>1, <2>1, <2>2, <2>3, WorkKeepsIngest
  <1>4. CASE Trim(c)
    <2>1. /\ pc[c] = "trim" /\ pc' = [pc EXCEPT ![c] = "release"]
          /\ stream' = stream \ Trimmed(c)
          /\ UNCHANGED <<pushed, corrupt, evicted, persisted, fanned, lock, batch, overrun,
                         faults>>
      BY <1>4 DEF Trim, Goto
    <2>2. persisted' = persisted \cup {} /\ fanned' = fanned \cup {}  BY <2>1
    <2>3. QED  BY <1>1, <2>1, <2>2, WorkKeepsIngest
  <1>5. QED  BY <1>2, <1>3, <1>4

\* A call that fails: what it may have done is what its step does, and the run
\* goes to its release.
LEMMA FailureKeepsIngest ==
  ASSUME Ingest, NEW c \in Consumers, CallFails(c)
  PROVE  Ingest'
  <1>1. PICK done \in BOOLEAN :
          LET Done(label, es) == IF done /\ pc[c] = label THEN es ELSE {} IN
          /\ persisted' = persisted \cup Done("insert", Enriched(c))
          /\ fanned' = fanned \cup Done("fanout", Enriched(c))
          /\ stream' = stream \ Done("trim", Trimmed(c))
    BY DEF CallFails
  <1> DEFINE P == IF done /\ pc[c] = "insert" THEN Enriched(c) ELSE {}
             F == IF done /\ pc[c] = "fanout" THEN Enriched(c) ELSE {}
             X == IF done /\ pc[c] = "trim" THEN Trimmed(c) ELSE {}
  <1>2. persisted' = persisted \cup P /\ fanned' = fanned \cup F /\ stream' = stream \ X
    BY <1>1
  <1>3. /\ P \in SUBSET Enriched(c) /\ F \in SUBSET Enriched(c) /\ X \in SUBSET Trimmed(c)
        /\ (F # {} => pc[c] = "fanout") /\ (X # {} => pc[c] = "trim")
    OBVIOUS
  <1>4. /\ pc[c] # "idle" /\ pc' = [pc EXCEPT ![c] = "release"] /\ faults' = faults + 1
        /\ UNCHANGED <<pushed, corrupt, evicted, lock, batch, overrun>>
    BY DEF CallFails, Goto, AfterFailure
  <1>5. faults' \in Nat  BY <1>4 DEF Ingest, TypeOK
  <1> HIDE DEF P, F, X
  <1>6. QED  BY <1>2, <1>3, <1>4, <1>5, WorkKeepsIngest

\* Every step keeps the invariant, action by action.
LEMMA NextKeepsIngest == Ingest /\ [Next]_vars => Ingest'
  <1> SUFFICES ASSUME Ingest, [Next]_vars  PROVE Ingest'  OBVIOUS
  <1>1. CASE UNCHANGED vars
    BY <1>1 DEF Ingest, TypeOK, BatchesArePrefixes, Progress, InsertedFirst, FannedOutFirst,
                Handling, NothingLost, FannedIsPersisted, Handled, LockHeld, Enriched, vars
  <1>2. CASE \E bad \in BOOLEAN : Push(bad)  BY <1>2, PushKeepsIngest
  <1>3. CASE LockExpires
    <2>1. lock \in Consumers  BY <1>3 DEF LockExpires, Ingest, TypeOK
    <2>2. QED  BY <1>3, <2>1, LockKeepsIngest
  <1>4. ASSUME NEW c \in Consumers, AcquireLock(c) \/ Drain(c) \/ CallFails(c) \/ Crash(c)
        PROVE  Ingest'
    BY <1>4, LockKeepsIngest, CollectKeepsIngest, DrainKeepsIngest, FailureKeepsIngest
       DEF Drain
  <1>5. QED  BY <1>1, <1>2, <1>3, <1>4 DEF Next

-----------------------------------------------------------------------------
(* Theorems.                                                               *)

\* Every variable has its type; the ids in the stream, in the batches and in
\* the tables are ids Redis gave out.
THEOREM TypeCorrect == Spec => []TypeOK
  <1>1. Ingest => TypeOK  BY DEF Ingest
  <1>2. QED  BY <1>1, InitIngest, NextKeepsIngest, PTL DEF Spec

\* An entry leaves the stream inserted and fanned out, or corrupt, or evicted
\* by the cap, for any number of overlapping consumers: the trim removes by
\* range, and the range holds nothing that its consumer had not collected,
\* because pages are read upwards and Redis appends only above them.
THEOREM NoEntryLost == Spec => []NothingLost
  <1>1. Ingest => NothingLost  BY DEF Ingest, Handling
  <1>2. QED  BY <1>1, InitIngest, NextKeepsIngest, PTL DEF Spec

\* The outbox takes a log only after the audit log has it: the fanout of a
\* drain comes after its insert, and a failed insert ends the drain.
THEOREM InsertBeforeFanout == Spec => []FannedIsPersisted
  <1>1. Ingest => FannedIsPersisted  BY DEF Ingest, Handling
  <1>2. QED  BY <1>1, InitIngest, NextKeepsIngest, PTL DEF Spec

\* Of two drains at once, one has outlived its lock: the token check of the
\* release keeps a late one from freeing its successor's.
THEOREM OneDrain == Spec => []OneDrainPerLock
  <1>1. Ingest => OneDrainPerLock  BY DEF Ingest, LockHeld, OneDrainPerLock
  <1>2. QED  BY <1>1, InitIngest, NextKeepsIngest, PTL DEF Spec
=============================================================================
