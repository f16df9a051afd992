------------------------ MODULE AuditLogOutboxProofs ------------------------
(***************************************************************************)
(* Proofs about AuditLogOutbox, for every value of its constants: its      *)
(* safety, and that it implements AtLeastOnceDelivery.  Also, from         *)
(* AuditLogClaimTiming, when a stale claim is that of a dead worker.       *)
(***************************************************************************)
EXTENDS AuditLogOutbox, AuditLogClaimTiming, TLAPS

USE DEF Pairs, Callers

-----------------------------------------------------------------------------
(* Type correctness.                                                       *)

\* An absent row is a row.
LEMMA NoRowType == \A id \in Nat : NoRow(id) \in Row
  BY DEF NoRow, Row

\* The empty table is well typed.
LEMMA InitType == ASSUME Init PROVE TypeOK
  BY NoRowType, OutboxAssumption DEF OutboxAssumption, Init, TypeOK

\* Leaving drainStream keeps the worker's variables typed.
LEMMA LeaveType ==
  ASSUME TypeOK, NEW w \in Workers, Leave(w)
  PROVE  /\ pc' \in [Workers -> {"idle", "claim", "send", "commit"}]
         /\ flushing' \in [Workers -> Streams]
         /\ batchIdx' \in [Workers -> Nat]
         /\ claimed' \in [Workers -> SUBSET Claim]
         /\ success' \in [Workers -> SUBSET Claim]
         /\ fail' \in [Workers -> SUBSET Claim]
  BY DEF TypeOK, Leave

\* The updates the code makes to a row keep it a row.
LEMMA RowUpdates ==
  ASSUME NEW row \in Row
  PROVE  /\ row.id \in Nat
         /\ [row EXCEPT !.status = "processing", !.old = FALSE] \in Row
         /\ [row EXCEPT !.status = "delivered", !.old = FALSE] \in Row
         /\ [row EXCEPT !.status = "retry", !.attempts = @ + 1, !.due = FALSE,
                        !.old = FALSE] \in Row
         /\ [row EXCEPT !.status = "retry", !.attempts = @ + 1, !.due = TRUE,
                        !.old = FALSE] \in Row
         /\ [row EXCEPT !.due = TRUE] \in Row
         /\ [row EXCEPT !.old = TRUE] \in Row
<1> DEFINE n == row.attempts + 1
<1>1. n \in Nat /\ row.id \in Nat
  BY DEF Row
<1>2. ASSUME NEW d \in BOOLEAN
      PROVE  [row EXCEPT !.status = "retry", !.attempts = n, !.due = d, !.old = FALSE] \in Row
  <2> HIDE DEF n
  <2> QED
    BY <1>1 DEF Row
<1>3. /\ [row EXCEPT !.status = "processing", !.old = FALSE] \in Row
      /\ [row EXCEPT !.status = "delivered", !.old = FALSE] \in Row
  BY DEF Row
<1>4. [row EXCEPT !.due = TRUE] \in Row /\ [row EXCEPT !.old = TRUE] \in Row
  BY DEF Row
<1> QED
  BY <1>1, <1>2, <1>3, <1>4

\* The statuses those updates leave.
LEMMA RowStatuses ==
  ASSUME NEW row \in Row
  PROVE  /\ [row EXCEPT !.status = "processing", !.old = FALSE].status = "processing"
         /\ [row EXCEPT !.status = "delivered", !.old = FALSE].status = "delivered"
         /\ [row EXCEPT !.status = "retry", !.attempts = @ + 1, !.due = FALSE,
                        !.old = FALSE].status = "retry"
         /\ [row EXCEPT !.status = "retry", !.attempts = @ + 1, !.due = TRUE,
                        !.old = FALSE].status = "retry"
         /\ \A id : NoRow(id).status = "none"
  BY DEF Row, NoRow

\* What a commit writes is a row.
LEMMA SettledType ==
  ASSUME TypeOK, NEW w \in Workers, NEW c \in Claim, NEW row \in Row
  PROVE  Settled(w, c, row) \in Row
<1>1. row.id \in Nat /\ NoRow(row.id) \in Row
  BY RowUpdates, NoRowType
<1> QED
  BY <1>1, RowUpdates DEF Settled

\* Every step keeps the types, action by action.
LEMMA TypeStep == ASSUME TypeOK, [Next]_vars PROVE TypeOK'
<1> USE OutboxAssumption DEF OutboxAssumption
<1>1. ASSUME NEW c \in Consumers, BatchInsert(c) PROVE TypeOK'
  <2>1. outbox' \in [Pairs -> Row]
    BY <1>1 DEF TypeOK, BatchInsert, Row
  <2>2. wake' \in [Callers -> SUBSET Streams]
    BY <1>1 DEF TypeOK, BatchInsert
  <2> QED
    BY <1>1, <2>1, <2>2 DEF TypeOK, BatchInsert, jobVars, workVars
<1>2. ASSUME NEW c \in Consumers, NEW logs \in SUBSET Logs, FindStreams(c, logs)
      PROVE  TypeOK'
  BY <1>2 DEF TypeOK, FindStreams, rowVars, jobVars, workVars
<1>3. ASSUME NEW c \in Callers, NEW s \in Streams, CallerStep(c, s) PROVE TypeOK'
  <2>1. CASE DebounceWon(c, s)
    BY <2>1 DEF TypeOK, DebounceWon, rowVars, workVars
  <2>2. CASE DebounceLost(c, s)
    BY <2>2 DEF TypeOK, DebounceLost, rowVars, jobVars, workVars
  <2>3. CASE QueueFlush(c, s)
    BY <2>3 DEF TypeOK, QueueFlush, rowVars, workVars
  <2> QED
    BY <1>3, <2>1, <2>2, <2>3 DEF CallerStep
<1>4. ASSUME NEW w \in Workers, DrainStep(w) PROVE TypeOK'
  <2>1. CASE ClaimBatch(w)
    <3>1. PICK batch \in SUBSET Ready(flushing[w]) :
            /\ outbox' = [p \in Pairs |->
                 IF p \in batch
                 THEN [outbox[p] EXCEPT !.status = "processing", !.old = FALSE]
                 ELSE outbox[p]]
            /\ claimed' = [claimed EXCEPT ![w] =
                 {[pair |-> p, id |-> outbox[p].id, attempts |-> outbox[p].attempts]
                    : p \in batch}]
      BY <2>1 DEF ClaimBatch
    <3>2. batch \subseteq Pairs
      BY DEF TypeOK, Ready
    <3>3. outbox' \in [Pairs -> Row]
      BY <3>1, RowUpdates DEF TypeOK
    <3>4. claimed' \in [Workers -> SUBSET Claim]
      <4>1. ASSUME NEW p \in batch
            PROVE  [pair |-> p, id |-> outbox[p].id, attempts |-> outbox[p].attempts] \in Claim
        <5>1. outbox[p] \in Row
          BY <3>2 DEF TypeOK
        <5>2. outbox[p].id \in Nat /\ outbox[p].attempts \in Nat
          BY <5>1 DEF Row
        <5> QED
          BY <3>2, <5>2 DEF Claim
      <4> DEFINE read == {[pair |-> p, id |-> outbox[p].id, attempts |-> outbox[p].attempts]
                            : p \in batch}
      <4>2. read \in SUBSET Claim
        BY <4>1
      <4>3. claimed' = [claimed EXCEPT ![w] = read]
        BY <3>1
      <4> HIDE DEF read
      <4> QED
        BY <4>2, <4>3 DEF TypeOK
    <3> QED
      BY <2>1, <3>3, <3>4 DEF TypeOK, ClaimBatch, jobVars, callVars
  <2>2. CASE NothingToClaim(w)
    BY <2>2, LeaveType DEF TypeOK, NothingToClaim, JobDone, rowVars, callVars
  <2>3. ASSUME NEW chunk \in SUBSET Unsent(w), SendSucceeds(w, chunk) PROVE TypeOK'
    BY <2>3 DEF TypeOK, SendSucceeds, Unsent, PairsOf, Claim, jobVars, callVars
  <2>4. ASSUME NEW chunk \in SUBSET Unsent(w), SendFails(w, chunk) PROVE TypeOK'
    BY <2>4 DEF TypeOK, SendFails, Unsent, PairsOf, Claim, jobVars, callVars
  <2>5. CASE Commit(w)
    <3>1. outbox' \in [Pairs -> Row]
      <4>1. ASSUME NEW p \in Pairs, ClaimOf(w, p) # {}
            PROVE  Settled(w, CHOOSE c \in ClaimOf(w, p) : TRUE, outbox[p]) \in Row
        <5>1. (CHOOSE c \in ClaimOf(w, p) : TRUE) \in Claim
          BY <4>1 DEF ClaimOf, TypeOK
        <5> QED
          BY <5>1, SettledType DEF TypeOK
      <4> QED
        BY <2>5, <4>1 DEF TypeOK, Commit
    <3>2. dropped' \subseteq Pairs /\ uncounted' \subseteq Pairs
      BY <2>5 DEF TypeOK, Commit
    <3>3. CASE fail[w] = {} /\ batchIdx[w] + 1 < MaxBatches
      <4>1. /\ pc' = [pc EXCEPT ![w] = "claim"]
            /\ batchIdx' = [batchIdx EXCEPT ![w] = @ + 1]
            /\ claimed' = [claimed EXCEPT ![w] = {}]
            /\ success' = [success EXCEPT ![w] = {}]
            /\ fail' = [fail EXCEPT ![w] = {}]
            /\ UNCHANGED <<flushing, active, streams, received, accepted, debounce,
                           delayed, waiting, callVars, faults>>
        BY <2>5, <3>3 DEF Commit
      <4> QED
        BY <4>1, <3>1, <3>2 DEF TypeOK, callVars
    <3>4. CASE ~(fail[w] = {} /\ batchIdx[w] + 1 < MaxBatches)
      BY <2>5, <3>1, <3>2, <3>4, LeaveType DEF TypeOK, Commit, JobDone, callVars
    <3> QED
      BY <3>3, <3>4
  <2>6. CASE CountExhausted(w)
    <3>1. PairsOf({c \in fail[w] : Exhausted(c.attempts)}) \subseteq Pairs
      BY DEF TypeOK, PairsOf, Claim
    <3> QED
      BY <2>6, <3>1 DEF TypeOK, CountExhausted, jobVars, callVars
  <2> QED
    BY <1>4, <2>1, <2>2, <2>3, <2>4, <2>5, <2>6 DEF DrainStep
<1>5. ASSUME NEW w \in Workers, NEW s \in Streams, StartFlush(w, s) PROVE TypeOK'
  <2>1. CASE s \in streams
    BY <1>5, <2>1 DEF TypeOK, StartFlush, rowVars, callVars
  <2>2. CASE s \notin streams
    BY <1>5, <2>2 DEF TypeOK, StartFlush, rowVars, callVars
  <2> QED
    BY <2>1, <2>2
<1>6. ASSUME NEW s \in Streams, DebounceExpires(s) \/ JobStalls(s) \/ DeleteStream(s)
      PROVE  TypeOK'
  <2>1. CASE DebounceExpires(s)
    BY <2>1 DEF TypeOK, DebounceExpires, rowVars, callVars, workVars
  <2>2. CASE JobStalls(s)
    BY <2>2 DEF TypeOK, JobStalls, rowVars, callVars, workVars
  <2>3. CASE DeleteStream(s)
    BY <2>3 DEF TypeOK, DeleteStream, rowVars, jobVars, callVars, workVars
  <2> QED
    BY <1>6, <2>1, <2>2, <2>3
<1>7. ASSUME NEW p \in Pairs, RetryBecomesDue(p) \/ RowAges(p) PROVE TypeOK'
  <2>1. outbox[p] \in Row /\ outbox \in [Pairs -> Row]
    BY DEF TypeOK
  <2>2. [outbox[p] EXCEPT !.due = TRUE] \in Row /\ [outbox[p] EXCEPT !.old = TRUE] \in Row
    BY <2>1, RowUpdates
  <2>3. \/ outbox' = [outbox EXCEPT ![p] = [outbox[p] EXCEPT !.due = TRUE]]
        \/ outbox' = [outbox EXCEPT ![p] = [outbox[p] EXCEPT !.old = TRUE]]
    BY <1>7, <2>1 DEF RetryBecomesDue, RowAges
  <2>4. outbox' \in [Pairs -> Row]
    BY <2>1, <2>2, <2>3
  <2> QED
    BY <1>7, <2>4 DEF TypeOK, RetryBecomesDue, RowAges, jobVars, callVars, workVars
<1>8. ASSUME NEW c \in Sweepers,
             RecoverStaleClaims(c) \/ CountDropped(c) \/ FindOverdueStreams(c)
      PROVE  TypeOK'
  <2>1. CASE RecoverStaleClaims(c)
    <3>1. outbox' \in [Pairs -> Row]
      BY <2>1, NoRowType, RowUpdates DEF TypeOK, RecoverStaleClaims
    <3>2. tally' \in [Callers -> SUBSET Pairs]
      BY <2>1 DEF TypeOK, RecoverStaleClaims, StaleClaims
    <3> QED
      BY <2>1, <3>1, <3>2 DEF TypeOK, RecoverStaleClaims, jobVars, workVars
  <2>2. CASE FindOverdueStreams(c)
    BY <2>2 DEF TypeOK, FindOverdueStreams, Overdue, rowVars, jobVars, workVars
  <2>3. CASE CountDropped(c)
    BY <2>3 DEF TypeOK, CountDropped, jobVars, workVars
  <2> QED
    BY <1>8, <2>1, <2>2, <2>3
<1>9. ASSUME PruneDelivered PROVE TypeOK'
  <2>1. outbox' \in [Pairs -> Row]
    BY <1>9, NoRowType, RowUpdates DEF TypeOK, PruneDelivered
  <2> QED
    BY <1>9, <2>1 DEF TypeOK, PruneDelivered, jobVars, callVars, workVars
<1>10. ASSUME Fault PROVE TypeOK'
  <2>1. ASSUME NEW c \in Callers, CallerFails(c) PROVE TypeOK'
    BY <2>1 DEF TypeOK, CallerFails, rowVars, jobVars, workVars
  <2>2. ASSUME NEW c \in Callers, NEW s \in Streams, QueueFlushFails(c, s) PROVE TypeOK'
    BY <2>2 DEF TypeOK, QueueFlushFails, rowVars, jobVars, workVars
  <2>3. ASSUME NEW w \in Workers, JobThrows(w) PROVE TypeOK'
    BY <2>3, LeaveType DEF TypeOK, JobThrows, JobDone, rowVars, callVars
  <2>4. ASSUME NEW w \in Workers, WorkerCrashes(w) PROVE TypeOK'
    BY <2>4, LeaveType DEF TypeOK, WorkerCrashes, rowVars, jobVars, callVars
  <2> QED
    BY <1>10, <2>1, <2>2, <2>3, <2>4 DEF Fault
<1>11. CASE UNCHANGED vars
  BY <1>11 DEF TypeOK, vars, rowVars, jobVars, callVars, workVars
<1> QED
  BY <1>1, <1>2, <1>3, <1>4, <1>5, <1>6, <1>7, <1>8, <1>9, <1>10, <1>11 DEF Next

\* Type correctness: the table never holds a row its schema forbids.
THEOREM TypeCorrect == Spec => []TypeOK
  BY InitType, TypeStep, PTL DEF Spec

-----------------------------------------------------------------------------
(* A worker about to commit has sorted its claims and counted its drops.   *)

\* What CountExhausted leaves, and what nobody takes back before the commit.
CountedAt(w) ==
  /\ Unsent(w) = {}
  /\ \A c \in fail[w] : Exhausted(c.attempts) => c.pair \in dropped

DropsCounted == \A w \in Workers : pc[w] = "commit" => CountedAt(w)

\* A worker that is not about to commit, or did not move, has nothing to show.
LEMMA KeepsCounted ==
  ASSUME DropsCounted, dropped \subseteq dropped',
         \A w \in Workers :
           \/ pc'[w] # "commit"
           \/ CountedAt(w)'
           \/ /\ pc'[w] = pc[w] /\ claimed'[w] = claimed[w]
              /\ success'[w] = success[w] /\ fail'[w] = fail[w]
  PROVE  DropsCounted'
  BY DEF DropsCounted, CountedAt, Unsent

\* A worker that leaves drainStream is idle, and the others did not move.
LEMMA LeaveCounts ==
  ASSUME TypeOK, DropsCounted, NEW w \in Workers, Leave(w), dropped \subseteq dropped'
  PROVE  DropsCounted'
<1>1. pc'[w] = "idle"
  BY DEF TypeOK, Leave
<1>2. \A v \in Workers : v # w =>
        /\ pc'[v] = pc[v] /\ claimed'[v] = claimed[v]
        /\ success'[v] = success[v] /\ fail'[v] = fail[v]
  BY DEF TypeOK, Leave
<1> QED
  BY <1>1, <1>2, KeepsCounted

\* Every step keeps it, action by action.
LEMMA CountedStep ==
  ASSUME TypeOK, DropsCounted, [Next]_vars
  PROVE  DropsCounted'
<1> USE DEF rowVars, workVars
<1>1. ASSUME UNCHANGED <<pc, claimed, success, fail>>, dropped \subseteq dropped'
      PROVE  DropsCounted'
  BY <1>1, KeepsCounted
<1>2. ASSUME NEW w \in Workers, DrainStep(w) PROVE DropsCounted'
  <2>1. CASE ClaimBatch(w)
    <3>1. pc'[w] # "commit" /\ UNCHANGED <<success, fail, dropped>>
      BY <2>1 DEF TypeOK, ClaimBatch
    <3>2. \A v \in Workers : v # w => pc'[v] = pc[v] /\ claimed'[v] = claimed[v]
      BY <2>1 DEF TypeOK, ClaimBatch
    <3> QED
      BY <3>1, <3>2, KeepsCounted
  <2>2. CASE NothingToClaim(w)
    BY <2>2, LeaveCounts DEF NothingToClaim
  <2>3. ASSUME NEW chunk \in SUBSET Unsent(w), SendSucceeds(w, chunk) PROVE DropsCounted'
    <3>1. pc'[w] # "commit" /\ UNCHANGED <<pc, claimed, fail, dropped>>
      BY <2>3 DEF SendSucceeds
    <3>2. \A v \in Workers : v # w => success'[v] = success[v]
      BY <2>3 DEF TypeOK, SendSucceeds
    <3> QED
      BY <3>1, <3>2, KeepsCounted
  <2>4. ASSUME NEW chunk \in SUBSET Unsent(w), SendFails(w, chunk) PROVE DropsCounted'
    <3>1. pc'[w] # "commit" /\ UNCHANGED <<pc, claimed, success, dropped>>
      BY <2>4 DEF SendFails
    <3>2. \A v \in Workers : v # w => fail'[v] = fail[v]
      BY <2>4 DEF TypeOK, SendFails
    <3> QED
      BY <3>1, <3>2, KeepsCounted
  <2>5. CASE CountExhausted(w)
    <3>1. UNCHANGED <<claimed, success, fail>> /\ dropped \subseteq dropped'
      BY <2>5 DEF CountExhausted
    <3>2. \A v \in Workers : v # w => pc'[v] = pc[v]
      BY <2>5 DEF TypeOK, CountExhausted
    <3>3. CountedAt(w)'
      BY <2>5, <3>1 DEF CountExhausted, CountedAt, Unsent, PairsOf
    <3> QED
      BY <3>1, <3>2, <3>3, KeepsCounted
  <2>6. CASE Commit(w)
    <3>1. dropped' = dropped
      BY <2>6 DEF Commit
    <3>2. CASE fail[w] = {} /\ batchIdx[w] + 1 < MaxBatches
      <4>1. /\ pc' = [pc EXCEPT ![w] = "claim"]
            /\ claimed' = [claimed EXCEPT ![w] = {}]
            /\ success' = [success EXCEPT ![w] = {}]
            /\ fail' = [fail EXCEPT ![w] = {}]
        BY <2>6, <3>2 DEF Commit
      <4>2. pc'[w] # "commit"
        BY <4>1 DEF TypeOK
      <4>3. \A v \in Workers : v # w =>
              /\ pc'[v] = pc[v] /\ claimed'[v] = claimed[v]
              /\ success'[v] = success[v] /\ fail'[v] = fail[v]
        BY <4>1 DEF TypeOK
      <4> QED
        BY <3>1, <4>2, <4>3, KeepsCounted
    <3>3. CASE ~(fail[w] = {} /\ batchIdx[w] + 1 < MaxBatches)
      BY <2>6, <3>1, <3>3, LeaveCounts DEF Commit
    <3> QED
      BY <3>2, <3>3
  <2> QED
    BY <1>2, <2>1, <2>2, <2>3, <2>4, <2>5, <2>6 DEF DrainStep
<1>3. ASSUME NEW w \in Workers, NEW s \in Streams, StartFlush(w, s) PROVE DropsCounted'
  <2>1. UNCHANGED <<claimed, success, fail, dropped>>
    BY <1>3 DEF StartFlush
  <2>2. pc'[w] # "commit" /\ \A v \in Workers : v # w => pc'[v] = pc[v]
    BY <1>3 DEF TypeOK, StartFlush
  <2> QED
    BY <2>1, <2>2, KeepsCounted
<1>4. ASSUME Fault PROVE DropsCounted'
  <2>1. ASSUME NEW w \in Workers, JobThrows(w) \/ WorkerCrashes(w) PROVE DropsCounted'
    BY <2>1, LeaveCounts DEF JobThrows, WorkerCrashes
  <2>2. ASSUME NEW c \in Callers, CallerFails(c) \/ \E s \in Streams : QueueFlushFails(c, s)
        PROVE  DropsCounted'
    BY <1>1, <2>2 DEF CallerFails, QueueFlushFails
  <2> QED
    BY <1>4, <2>1, <2>2 DEF Fault
<1>5. ASSUME NEW c \in Consumers,
             BatchInsert(c) \/ \E logs \in SUBSET Logs : FindStreams(c, logs)
      PROVE  DropsCounted'
  BY <1>1, <1>5 DEF BatchInsert, FindStreams
<1>6. ASSUME NEW c \in Callers, NEW s \in Streams, CallerStep(c, s) PROVE DropsCounted'
  BY <1>1, <1>6 DEF CallerStep, DebounceWon, DebounceLost, QueueFlush
<1>7. ASSUME NEW s \in Streams, DebounceExpires(s) \/ JobStalls(s) \/ DeleteStream(s)
      PROVE  DropsCounted'
  BY <1>1, <1>7 DEF DebounceExpires, JobStalls, DeleteStream
<1>8. ASSUME NEW p \in Pairs, RetryBecomesDue(p) \/ RowAges(p) PROVE DropsCounted'
  BY <1>1, <1>8 DEF RetryBecomesDue, RowAges
<1>9. ASSUME NEW c \in Sweepers,
             RecoverStaleClaims(c) \/ CountDropped(c) \/ FindOverdueStreams(c)
      PROVE  DropsCounted'
  BY <1>1, <1>9 DEF RecoverStaleClaims, CountDropped, FindOverdueStreams
<1>10. ASSUME PruneDelivered PROVE DropsCounted'
  BY <1>1, <1>10 DEF PruneDelivered
<1>11. CASE UNCHANGED vars
  BY <1>1, <1>11 DEF vars
<1> QED
  BY <1>2, <1>3, <1>4, <1>5, <1>6, <1>7, <1>8, <1>9, <1>10, <1>11 DEF Next

\* No worker commits a drop it has not counted.
LEMMA CountedHolds == Spec => []DropsCounted
<1>1. Init => DropsCounted
  BY DEF Init, DropsCounted
<1>2. TypeOK /\ DropsCounted /\ [Next]_vars => DropsCounted'
  BY CountedStep
<1> QED
  BY <1>1, <1>2, TypeCorrect, PTL DEF Spec

-----------------------------------------------------------------------------
(* Accounting: what was accepted is present, received or dropped.          *)

\* Both properties rest on this: what a worker counts as sent was received.
SuccessWasReceived == \A w \in Workers : \A c \in success[w] : c.pair \in received

Accounting == SuccessWasReceived /\ DeliveredWasReceived /\ NothingVanishes

\* Nothing is accepted at the start.
LEMMA InitAccounting == Init => Accounting
  BY DEF Init, Accounting, SuccessWasReceived, DeliveredWasReceived, NothingVanishes, NoRow

\* What a step has to respect: rows become delivered, vanish and appear only
\* with the histories keeping pace.
LEMMA KeepsAccount ==
  ASSUME TypeOK, TypeOK', Accounting,
         received \subseteq received',
         Dropped \subseteq Dropped',
         \A p \in Pairs : outbox'[p].status = "delivered" =>
           outbox[p].status = "delivered" \/ p \in received',
         \A p \in accepted : Present(p) =>
           Present(p)' \/ p \in received' \/ p \in Dropped',
         \A p \in accepted' \ accepted : Present(p)',
         \A w \in Workers : \A c \in success'[w] : c \in success[w] \/ c.pair \in received'
  PROVE  Accounting'
  BY DEF Accounting, SuccessWasReceived, DeliveredWasReceived, NothingVanishes, TypeOK

\* Nothing leaves the set of what is dropped; what a sweeper had in hand it has
\* counted or will never count.
LEMMA SameDropped ==
  ASSUME UNCHANGED <<dropped, uncounted, tally>>
  PROVE  Dropped' = Dropped
  BY DEF Dropped

LEMMA TallyMoves ==
  ASSUME TypeOK, NEW c \in Callers, tally' = [tally EXCEPT ![c] = {}],
         dropped' \cup uncounted' = dropped \cup uncounted \cup tally[c]
  PROVE  Dropped' = Dropped
<1>1. \A d \in Callers : d # c => tally'[d] = tally[d]
  BY DEF TypeOK
<1>2. tally'[c] = {}
  BY DEF TypeOK
<1>3. ASSUME NEW p PROVE p \in Dropped' <=> p \in Dropped
  <2>1. p \in Dropped <=> p \in dropped \cup uncounted \/ \E d \in Callers : p \in tally[d]
    BY DEF Dropped
  <2>2. p \in Dropped' <=>
          p \in dropped' \cup uncounted' \/ \E d \in Callers : p \in tally'[d]
    BY DEF Dropped
  <2> QED
    BY <1>1, <1>2, <2>1, <2>2
<1> QED
  BY <1>3

LEMMA TallyGrows ==
  ASSUME TypeOK, NEW c \in Callers, NEW spent,
         tally' = [tally EXCEPT ![c] = @ \cup spent], UNCHANGED <<dropped, uncounted>>
  PROVE  Dropped' = Dropped \cup spent
<1>1. \A d \in Callers : d # c => tally'[d] = tally[d]
  BY DEF TypeOK
<1>2. tally'[c] = tally[c] \cup spent
  BY DEF TypeOK
<1>3. ASSUME NEW p PROVE p \in Dropped' <=> p \in Dropped \cup spent
  <2>1. p \in Dropped <=> p \in dropped \cup uncounted \/ \E d \in Callers : p \in tally[d]
    BY DEF Dropped
  <2>2. p \in Dropped' <=>
          p \in dropped' \cup uncounted' \/ \E d \in Callers : p \in tally'[d]
    BY DEF Dropped
  <2> QED
    BY <1>1, <1>2, <2>1, <2>2
<1> QED
  BY <1>3

\* Steps that only reset or keep the workers' sets and touch no row.
LEMMA NoRowTouched ==
  ASSUME TypeOK, TypeOK', Accounting, UNCHANGED <<outbox, received, accepted>>,
         Dropped \subseteq Dropped',
         \A w \in Workers : success'[w] \subseteq success[w]
  PROVE  Accounting'
  BY DEF Present, Accounting, SuccessWasReceived, DeliveredWasReceived,
         NothingVanishes, TypeOK

\* Leaving drainStream only forgets.
LEMMA LeaveShrinks ==
  ASSUME TypeOK, NEW w \in Workers, Leave(w)
  PROVE  \A v \in Workers : /\ success'[v] \subseteq success[v]
                            /\ claimed'[v] \subseteq claimed[v]
  BY DEF TypeOK, Leave

\* Every step keeps the account, action by action.
LEMMA AccountingStep ==
  ASSUME TypeOK, TypeOK', Accounting, DropsCounted, [Next]_vars
  PROVE  Accounting'
<1> USE DEF rowVars, callVars
<1>1. ASSUME NEW c \in Consumers, BatchInsert(c) PROVE Accounting'
  <2>1. \A p \in Pairs : outbox'[p].status =
          IF p \in Fresh(plan[c]) THEN "pending" ELSE outbox[p].status
    BY <1>1 DEF BatchInsert, TypeOK
  <2>2. \A p \in accepted' \ accepted : Present(p)'
    BY <1>1, <2>1 DEF BatchInsert, Present, Fresh, TypeOK
  <2>3. \A w \in Workers : success'[w] = success[w]
    BY <1>1 DEF BatchInsert, workVars
  <2>4. received' = received /\ Dropped' = Dropped
    BY <1>1, SameDropped DEF BatchInsert
  <2>5. \A p \in accepted : Present(p) => Present(p)'
    BY <2>1 DEF Present, TypeOK
  <2> QED
    BY <2>1, <2>2, <2>3, <2>4, <2>5, KeepsAccount
<1>2. ASSUME NEW w \in Workers, DrainStep(w) PROVE Accounting'
  <2>1. CASE ClaimBatch(w)
    <3>1. PICK batch \in SUBSET Ready(flushing[w]) :
            outbox' = [p \in Pairs |->
              IF p \in batch
              THEN [outbox[p] EXCEPT !.status = "processing", !.old = FALSE]
              ELSE outbox[p]]
      BY <2>1 DEF ClaimBatch
    <3>2. \A p \in Pairs : outbox'[p].status =
            IF p \in batch THEN "processing" ELSE outbox[p].status
      <4>1. ASSUME NEW p \in Pairs
            PROVE  [outbox[p] EXCEPT !.status = "processing", !.old = FALSE].status = "processing"
        BY RowStatuses DEF TypeOK
      <4> QED
        BY <3>1, <4>1
    <3>3. \A p \in accepted : Present(p) => Present(p)'
      BY <3>2 DEF Present, TypeOK
    <3>4. UNCHANGED <<received, accepted, success>> /\ Dropped' = Dropped
      BY <2>1, SameDropped DEF ClaimBatch
    <3> QED
      BY <3>2, <3>3, <3>4, KeepsAccount
  <2>2. CASE NothingToClaim(w)
    BY <2>2, LeaveShrinks, SameDropped, NoRowTouched DEF NothingToClaim
  <2>3. ASSUME NEW chunk \in SUBSET Unsent(w), SendSucceeds(w, chunk) PROVE Accounting'
    <3>1. UNCHANGED <<outbox, accepted>> /\ Dropped' = Dropped
      BY <2>3, SameDropped DEF SendSucceeds
    <3>2. \A v \in Workers : \A c \in success'[v] : c \in success[v] \/ c.pair \in received'
      BY <2>3 DEF SendSucceeds, PairsOf, TypeOK
    <3>3. received \subseteq received'
      BY <2>3 DEF SendSucceeds
    <3> QED
      BY <3>1, <3>2, <3>3, KeepsAccount DEF Present
  <2>4. ASSUME NEW chunk \in SUBSET Unsent(w), SendFails(w, chunk) PROVE Accounting'
    <3>1. /\ UNCHANGED <<outbox, accepted, success>> /\ received \subseteq received'
          /\ Dropped' = Dropped
      BY <2>4, SameDropped DEF SendFails
    <3> QED
      BY <3>1, KeepsAccount DEF Present
  <2>5. CASE Commit(w)
    <3>1. ASSUME NEW p \in Pairs, ClaimOf(w, p) # {}
          PROVE  \/ outbox'[p].status = "delivered" /\ p \in received
                 \/ outbox'[p].status = "retry"
                 \/ outbox'[p].status = "none" /\ p \in Dropped'
      <4>1. PICK c \in ClaimOf(w, p) : outbox'[p] = Settled(w, c, outbox[p])
        <5>1. (CHOOSE c \in ClaimOf(w, p) : TRUE) \in ClaimOf(w, p)
          BY <3>1
        <5> QED
          BY <2>5, <3>1, <5>1 DEF Commit
      <4>2. c \in claimed[w] /\ c.pair = p /\ outbox[p] \in Row
        BY DEF ClaimOf, TypeOK
      <4>3. CASE c \in success[w]
        BY <4>1, <4>2, <4>3 DEF Settled, Row, Accounting, SuccessWasReceived
      <4>4. CASE c \notin success[w] /\ Exhausted(c.attempts)
        <5>1. c \in fail[w]
          BY <2>5, <4>2, <4>4 DEF Commit, DropsCounted, CountedAt, Unsent
        <5>2. p \in Dropped'
          BY <2>5, <4>2, <4>4, <5>1 DEF Commit, DropsCounted, CountedAt, Dropped
        <5> QED
          BY <4>1, <4>4, <5>2 DEF Settled, NoRow
      <4>5. CASE c \notin success[w] /\ ~Exhausted(c.attempts)
        BY <4>1, <4>2, <4>5 DEF Settled, Row
      <4> QED
        BY <4>3, <4>4, <4>5
    <3>2. ASSUME NEW p \in Pairs, ClaimOf(w, p) = {} PROVE outbox'[p] = outbox[p]
      BY <2>5, <3>2 DEF Commit
    <3>3. received' = received /\ accepted' = accepted /\ Dropped' = Dropped
      BY <2>5, SameDropped DEF Commit
    <3>4. \A v \in Workers : success'[v] \subseteq success[v]
      BY <2>5, LeaveShrinks DEF Commit, TypeOK
    <3>5. \A p \in Pairs : outbox'[p].status = "delivered" =>
            outbox[p].status = "delivered" \/ p \in received'
      BY <3>1, <3>2, <3>3
    <3>6. \A p \in accepted : Present(p) =>
            Present(p)' \/ p \in received' \/ p \in Dropped'
      BY <3>1, <3>2, <3>3 DEF Present, TypeOK
    <3> QED
      BY <3>3, <3>4, <3>5, <3>6, KeepsAccount
  <2>6. CASE CountExhausted(w)
    <3>1. UNCHANGED <<outbox, received, accepted, success>> /\ Dropped \subseteq Dropped'
      BY <2>6 DEF CountExhausted, Dropped
    <3> QED
      BY <3>1, NoRowTouched
  <2> QED
    BY <1>2, <2>1, <2>2, <2>3, <2>4, <2>5, <2>6 DEF DrainStep
<1>3. ASSUME NEW p \in Pairs, RetryBecomesDue(p) \/ RowAges(p) PROVE Accounting'
  <2>1. outbox \in [Pairs -> Row]
    BY DEF TypeOK
  <2>2. \A q \in Pairs : outbox'[q].status = outbox[q].status
    BY <1>3, <2>1 DEF RetryBecomesDue, RowAges, Row
  <2>3. UNCHANGED <<received, accepted, success>> /\ Dropped' = Dropped
    BY <1>3, SameDropped DEF RetryBecomesDue, RowAges, workVars
  <2>4. \A q \in accepted : Present(q) => Present(q)'
    BY <2>2 DEF Present, TypeOK
  <2> QED
    BY <2>2, <2>3, <2>4, KeepsAccount
<1>4. ASSUME NEW c \in Sweepers, RecoverStaleClaims(c) PROVE Accounting'
  <2> DEFINE spent == {p \in StaleClaims : Exhausted(outbox[p].attempts)}
  <2>1. \A p \in Pairs : \/ outbox'[p].status = "none" /\ p \in spent
                         \/ outbox'[p].status = "retry"
                         \/ outbox'[p] = outbox[p]
    <3>1. outbox \in [Pairs -> Row]
      BY DEF TypeOK
    <3> QED
      BY <1>4, <3>1, RowStatuses DEF RecoverStaleClaims
  <2>2. UNCHANGED <<received, accepted, success>>
    BY <1>4 DEF RecoverStaleClaims, workVars
  <2>3. tally' = [tally EXCEPT ![c] = @ \cup spent] /\ UNCHANGED <<dropped, uncounted>>
    BY <1>4 DEF RecoverStaleClaims
  <2> HIDE DEF spent
  <2>4. Dropped' = Dropped \cup spent
    BY <2>3, TallyGrows
  <2>5. \A p \in accepted : Present(p) => Present(p)' \/ p \in Dropped'
    BY <2>1, <2>4 DEF Present, TypeOK
  <2>6. \A p \in Pairs : outbox'[p].status = "delivered" => outbox[p].status = "delivered"
    BY <2>1
  <2> QED
    BY <2>2, <2>4, <2>5, <2>6, KeepsAccount
<1>5. ASSUME PruneDelivered PROVE Accounting'
  <2>1. \A p \in Pairs : \/ outbox'[p].status = "none" /\ outbox[p].status = "delivered"
                         \/ outbox'[p] = outbox[p]
    BY <1>5 DEF PruneDelivered, NoRow
  <2>2. UNCHANGED <<received, accepted, success>> /\ Dropped' = Dropped
    BY <1>5, SameDropped DEF PruneDelivered, workVars
  <2>3. \A p \in accepted : Present(p) => Present(p)' \/ p \in received'
    BY <2>1, <2>2 DEF Present, TypeOK, Accounting, DeliveredWasReceived
  <2> QED
    BY <2>1, <2>2, <2>3, KeepsAccount
<1>6. ASSUME Fault PROVE Accounting'
  <2>1. ASSUME NEW w \in Workers, JobThrows(w) \/ WorkerCrashes(w) PROVE Accounting'
    BY <2>1, LeaveShrinks, SameDropped, NoRowTouched DEF JobThrows, WorkerCrashes
  <2>2. ASSUME NEW c \in Callers, NEW s \in Streams, QueueFlushFails(c, s)
        PROVE  Accounting'
    BY <2>2, SameDropped, NoRowTouched DEF QueueFlushFails, workVars
  <2>3. ASSUME NEW c \in Callers, CallerFails(c) PROVE Accounting'
    <3>1. Dropped' = Dropped
      BY <2>3, TallyMoves DEF CallerFails
    <3> QED
      BY <2>3, <3>1, NoRowTouched DEF CallerFails, workVars
  <2> QED
    BY <1>6, <2>1, <2>2, <2>3 DEF Fault
<1>7. ASSUME UNCHANGED rowVars, UNCHANGED tally, UNCHANGED success PROVE Accounting'
  BY <1>7, SameDropped, NoRowTouched
<1>8. ASSUME NEW c \in Callers, NEW s \in Streams, CallerStep(c, s) PROVE Accounting'
  BY <1>7, <1>8 DEF CallerStep, DebounceWon, DebounceLost, QueueFlush, workVars
<1>9. ASSUME NEW c \in Consumers, NEW logs \in SUBSET Logs, FindStreams(c, logs)
      PROVE  Accounting'
  BY <1>7, <1>9 DEF FindStreams, workVars
<1>10. ASSUME NEW w \in Workers, NEW s \in Streams, StartFlush(w, s) PROVE Accounting'
  BY <1>7, <1>10 DEF StartFlush
<1>11. ASSUME NEW s \in Streams, DebounceExpires(s) \/ JobStalls(s) \/ DeleteStream(s)
       PROVE  Accounting'
  BY <1>7, <1>11 DEF DebounceExpires, JobStalls, DeleteStream, workVars
<1>12. ASSUME NEW c \in Sweepers, CountDropped(c) \/ FindOverdueStreams(c)
       PROVE  Accounting'
  <2>1. CASE CountDropped(c)
    <3>1. Dropped' = Dropped
      BY <2>1, TallyMoves DEF CountDropped
    <3> QED
      BY <2>1, <3>1, NoRowTouched DEF CountDropped, workVars
  <2>2. CASE FindOverdueStreams(c)
    BY <1>7, <2>2 DEF FindOverdueStreams, workVars
  <2> QED
    BY <1>12, <2>1, <2>2
<1>13. CASE UNCHANGED vars
  BY <1>7, <1>13 DEF vars, workVars
<1> QED
  BY <1>1, <1>2, <1>3, <1>4, <1>5, <1>6, <1>8, <1>9, <1>10, <1>11, <1>12, <1>13 DEF Next

\* The account is kept over crashes, stalls, late commits and deletions.
THEOREM AccountingHolds == Spec => []Accounting
  BY InitAccounting, TypeCorrect, CountedHolds, AccountingStep, PTL DEF Spec

\* Delivered means received, over crashes, stalls and late commits.
THEOREM DeliveredReceived == Spec => []DeliveredWasReceived
  BY AccountingHolds, PTL DEF Accounting

\* No accepted event vanishes without being received or counted as dropped, but for
\* what a sweeper deleted and failed to count.
THEOREM NoneVanishes == Spec => []NothingVanishes
  BY AccountingHolds, PTL DEF Accounting

-----------------------------------------------------------------------------
(* Ownership: if no live worker outlives the stale threshold, a claim is   *)
(* what the table says it is for as long as its worker remembers it.       *)

\* Only a worker that is sending or committing remembers claims.
ClaimsOnlyWhileSending ==
  \A w \in Workers : pc[w] \notin {"send", "commit"} => claimed[w] = {}

\* The row of a claim is still as the worker read it, processing and fresh.
ClaimsHeld ==
  \A w \in Workers : \A c \in claimed[w] :
    /\ outbox[c.pair].status = "processing"
    /\ outbox[c.pair].id = c.id
    /\ outbox[c.pair].attempts = c.attempts
    /\ ~outbox[c.pair].old

Ownership ==
  ClaimsOnlyWhileSending /\ ClaimsHeld /\ ClaimsExclusive /\ AttemptsBounded

\* Nothing is claimed at the start.
LEMMA InitOwnership == Init => Ownership
  BY OutboxAssumption
  DEF OutboxAssumption, Init, Ownership, ClaimsOnlyWhileSending, ClaimsHeld, ClaimsExclusive,
      AttemptsBounded, NoRow

\* Steps that touch no row and under which claims are at most forgotten.
LEMMA ClaimsForgotten ==
  ASSUME TypeOK, Ownership, UNCHANGED outbox,
         \A w \in Workers : claimed'[w] \subseteq claimed[w],
         ClaimsOnlyWhileSending'
  PROVE  Ownership'
  BY DEF TypeOK, Ownership, ClaimsOnlyWhileSending, ClaimsHeld, ClaimsExclusive, AttemptsBounded

\* Steps that touch only rows nobody has claimed.
LEMMA OnlyUnclaimed ==
  ASSUME TypeOK, Ownership, UNCHANGED <<claimed, pc>>,
         \A p \in Pairs : \/ outbox'[p] = outbox[p]
                         \/ /\ outbox'[p].attempts < MaxAttempts
                            /\ \A w \in Workers : \A c \in claimed[w] : c.pair # p
  PROVE  Ownership'
<1>1. AttemptsBounded'
  BY DEF Ownership, AttemptsBounded
<1>2. \A w \in Workers : \A c \in claimed[w] : c.pair \in Pairs
  BY DEF TypeOK, Claim
<1>3. ClaimsHeld'
  BY <1>2 DEF Ownership, ClaimsHeld
<1> QED
  BY <1>1, <1>3 DEF Ownership, ClaimsOnlyWhileSending, ClaimsExclusive

\* A worker that leaves drainStream gives up its claims.
LEMMA LeaveForgets ==
  ASSUME TypeOK, Ownership, NEW w \in Workers, Leave(w), UNCHANGED outbox
  PROVE  Ownership'
<1>1. ClaimsOnlyWhileSending'
  BY DEF TypeOK, Leave, Ownership, ClaimsOnlyWhileSending
<1> QED
  BY <1>1, LeaveShrinks, ClaimsForgotten

\* A commit settles the rows of its own claims and touches no row of another.
LEMMA CommitOwnership ==
  ASSUME TypeOK, Ownership, NEW w \in Workers, Commit(w)
  PROVE  Ownership'
<1>1. ASSUME NEW p \in Pairs, ClaimOf(w, p) # {}
      PROVE  outbox'[p].attempts < MaxAttempts
  <2>1. PICK c \in ClaimOf(w, p) : outbox'[p] = Settled(w, c, outbox[p])
    <3>1. (CHOOSE c \in ClaimOf(w, p) : TRUE) \in ClaimOf(w, p)
      BY <1>1
    <3> QED
      BY <1>1, <3>1 DEF Commit
  <2>2. c \in claimed[w] /\ c.pair = p /\ outbox[p] \in Row
    BY DEF ClaimOf, TypeOK
  <2>3. outbox[p].attempts = c.attempts /\ c.attempts < MaxAttempts /\ c.attempts \in Nat
    BY <2>2 DEF Ownership, ClaimsHeld, AttemptsBounded, Row
  <2>4. CASE c \in success[w]
    BY <2>1, <2>2, <2>3, <2>4 DEF Settled, Row
  <2>5. CASE c \notin success[w] /\ Exhausted(c.attempts)
    BY <2>1, <2>5, OutboxAssumption DEF OutboxAssumption, Settled, NoRow
  <2>6. CASE c \notin success[w] /\ ~Exhausted(c.attempts)
    <3>1. outbox'[p] = [outbox[p] EXCEPT !.status = "retry", !.attempts = @ + 1,
                                         !.due = FALSE, !.old = FALSE]
      BY <2>1, <2>6 DEF Settled
    <3>2. outbox'[p].attempts = c.attempts + 1
      BY <3>1, <2>2, <2>3 DEF Row
    <3> QED
      BY <2>3, <2>6, <3>2, OutboxAssumption DEF OutboxAssumption, Exhausted
  <2> QED
    BY <2>4, <2>5, <2>6
<1>2. \A p \in Pairs : ClaimOf(w, p) = {} => outbox'[p] = outbox[p]
  BY DEF Commit
<1>3. AttemptsBounded'
  BY <1>1, <1>2 DEF Ownership, AttemptsBounded
<1>4. claimed' = [claimed EXCEPT ![w] = {}]
  BY DEF Commit, Leave
<1>5. ClaimsHeld'
  <2>1. SUFFICES ASSUME NEW v \in Workers, NEW c \in claimed'[v]
                 PROVE  /\ outbox'[c.pair].status = "processing"
                        /\ outbox'[c.pair].id = c.id
                        /\ outbox'[c.pair].attempts = c.attempts
                        /\ ~outbox'[c.pair].old
    BY DEF ClaimsHeld
  <2>2. v # w /\ c \in claimed[v] /\ c.pair \in Pairs
    BY <2>1, <1>4 DEF TypeOK, Claim
  <2>3. ClaimOf(w, c.pair) = {}
    BY <2>2 DEF ClaimOf, Ownership, ClaimsExclusive
  <2> QED
    BY <1>2, <2>2, <2>3 DEF Ownership, ClaimsHeld
<1>6. ClaimsExclusive'
  BY <1>4 DEF TypeOK, Ownership, ClaimsExclusive
<1>7. ClaimsOnlyWhileSending'
  BY <1>4 DEF TypeOK, Commit, Leave, Ownership, ClaimsOnlyWhileSending
<1> QED
  BY <1>3, <1>5, <1>6, <1>7 DEF Ownership

\* A claim takes rows that nobody holds: a held row is processing.
LEMMA ClaimOwnership ==
  ASSUME TypeOK, Ownership, NEW w \in Workers, ClaimBatch(w)
  PROVE  Ownership'
<1>1. PICK batch \in SUBSET Ready(flushing[w]) :
        /\ outbox' = [p \in Pairs |->
             IF p \in batch
             THEN [outbox[p] EXCEPT !.status = "processing", !.old = FALSE]
             ELSE outbox[p]]
        /\ claimed' = [claimed EXCEPT ![w] =
             {[pair |-> p, id |-> outbox[p].id, attempts |-> outbox[p].attempts] : p \in batch}]
  BY DEF ClaimBatch
<1>2. batch \subseteq Pairs /\ \A p \in batch : outbox[p].status \in {"pending", "retry"}
  BY DEF TypeOK, Ready
<1>3. ASSUME NEW p \in batch
      PROVE  /\ outbox'[p].status = "processing"
             /\ outbox'[p].id = outbox[p].id
             /\ outbox'[p].attempts = outbox[p].attempts
             /\ ~outbox'[p].old
  <2>1. outbox[p] \in Row
    BY <1>2 DEF TypeOK
  <2>2. outbox'[p] = [outbox[p] EXCEPT !.status = "processing", !.old = FALSE]
    BY <1>1, <1>2
  <2> QED
    BY <2>1, <2>2 DEF Row
<1>4. \A p \in Pairs \ batch : outbox'[p] = outbox[p]
  BY <1>1
<1>5. ASSUME NEW v \in Workers, NEW c \in claimed[v]
      PROVE  c.pair \in Pairs \ batch
  BY <1>2 DEF Ownership, ClaimsHeld, TypeOK, Claim
<1>6. ASSUME NEW c \in claimed'[w]
      PROVE  c.pair \in batch /\ c.id = outbox[c.pair].id /\ c.attempts = outbox[c.pair].attempts
  <2>1. claimed'[w] =
          {[pair |-> p, id |-> outbox[p].id, attempts |-> outbox[p].attempts] : p \in batch}
    BY <1>1 DEF TypeOK
  <2>2. PICK p \in batch :
          c = [pair |-> p, id |-> outbox[p].id, attempts |-> outbox[p].attempts]
    BY <2>1, <1>6
  <2> QED
    BY <2>2
<1>7. \A v \in Workers : v # w => claimed'[v] = claimed[v]
  BY <1>1 DEF TypeOK
<1>8. ClaimsHeld'
  BY <1>3, <1>4, <1>5, <1>6, <1>7 DEF Ownership, ClaimsHeld
<1>9. ClaimsExclusive'
  BY <1>5, <1>6, <1>7 DEF Ownership, ClaimsExclusive
<1>10. AttemptsBounded'
  BY <1>2, <1>3, <1>4 DEF Ownership, AttemptsBounded
<1>11. ClaimsOnlyWhileSending'
  BY <1>7 DEF TypeOK, ClaimBatch, Ownership, ClaimsOnlyWhileSending
<1> QED
  BY <1>8, <1>9, <1>10, <1>11 DEF Ownership

\* Every step keeps ownership, as long as no held row becomes old.
LEMMA OwnershipStep ==
  ASSUME ~SlowWorkers, TypeOK, Ownership, [Next]_vars
  PROVE  Ownership'
<1>1. ASSUME NEW c \in Consumers, BatchInsert(c) PROVE Ownership'
  <2>1. \A p \in Pairs : \/ outbox'[p] = outbox[p]
                         \/ outbox'[p].attempts = 0 /\ outbox[p].status = "none"
    BY <1>1 DEF BatchInsert, Fresh, Present
  <2>2. UNCHANGED <<claimed, pc>>
    BY <1>1 DEF BatchInsert, workVars
  <2> QED
    BY <2>1, <2>2, OnlyUnclaimed, OutboxAssumption DEF OutboxAssumption, Ownership, ClaimsHeld
<1>2. ASSUME NEW w \in Workers, DrainStep(w) PROVE Ownership'
  <2>1. CASE NothingToClaim(w)
    BY <2>1, LeaveForgets DEF NothingToClaim, rowVars
  <2>2. ASSUME NEW chunk \in SUBSET Unsent(w), SendSucceeds(w, chunk) \/ SendFails(w, chunk)
        PROVE  Ownership'
    BY <2>2, OnlyUnclaimed DEF SendSucceeds, SendFails
  <2>3. CASE CountExhausted(w)
    <3>1. ClaimsOnlyWhileSending'
      BY <2>3 DEF CountExhausted, TypeOK, Ownership, ClaimsOnlyWhileSending
    <3> QED
      BY <2>3, <3>1, ClaimsForgotten DEF CountExhausted
  <2> QED
    BY <1>2, <2>1, <2>2, <2>3, ClaimOwnership, CommitOwnership DEF DrainStep
<1>3. ASSUME NEW p \in Pairs, RetryBecomesDue(p) PROVE Ownership'
  <2>1. outbox[p] \in Row /\ outbox' = [outbox EXCEPT ![p] = [outbox[p] EXCEPT !.due = TRUE]]
    BY <1>3 DEF TypeOK, RetryBecomesDue
  <2>2. outbox'[p].attempts = outbox[p].attempts /\ \A q \in Pairs : q # p => outbox'[q] = outbox[q]
    BY <2>1 DEF TypeOK, Row
  <2>3. \A w \in Workers : \A c \in claimed[w] : c.pair # p
    BY <1>3 DEF RetryBecomesDue, Ownership, ClaimsHeld
  <2>4. UNCHANGED <<claimed, pc>> /\ outbox[p].attempts < MaxAttempts
    BY <1>3 DEF RetryBecomesDue, workVars, Ownership, AttemptsBounded
  <2> QED
    BY <2>2, <2>3, <2>4, OnlyUnclaimed
<1>4. ASSUME NEW p \in Pairs, RowAges(p) PROVE Ownership'
  <2>1. outbox[p] \in Row /\ outbox' = [outbox EXCEPT ![p] = [outbox[p] EXCEPT !.old = TRUE]]
    BY <1>4 DEF TypeOK, RowAges
  <2>2. outbox'[p].attempts = outbox[p].attempts /\ \A q \in Pairs : q # p => outbox'[q] = outbox[q]
    BY <2>1 DEF TypeOK, Row
  <2>3. \A w \in Workers : \A c \in claimed[w] : c.pair # p
    BY <1>4 DEF RowAges, Held, Ownership, ClaimsHeld
  <2>4. UNCHANGED <<claimed, pc>> /\ outbox[p].attempts < MaxAttempts
    BY <1>4 DEF RowAges, workVars, Ownership, AttemptsBounded
  <2> QED
    BY <2>2, <2>3, <2>4, OnlyUnclaimed
<1>5. ASSUME NEW c \in Sweepers, RecoverStaleClaims(c) PROVE Ownership'
  <2>1. ASSUME NEW p \in StaleClaims PROVE outbox'[p].attempts < MaxAttempts
    <3>1. p \in Pairs /\ outbox[p] \in Row /\ outbox[p].attempts \in Nat
      BY DEF StaleClaims, TypeOK, Row
    <3>2. CASE Exhausted(outbox[p].attempts)
      <4>1. outbox'[p] = NoRow(outbox[p].id)
        BY <1>5, <3>1, <3>2 DEF RecoverStaleClaims
      <4> QED
        BY <4>1, OutboxAssumption DEF OutboxAssumption, NoRow
    <3>3. CASE ~Exhausted(outbox[p].attempts)
      <4>1. outbox'[p] = [outbox[p] EXCEPT !.status = "retry", !.attempts = @ + 1,
                                           !.due = TRUE, !.old = FALSE]
        BY <1>5, <3>1, <3>3 DEF RecoverStaleClaims
      <4>2. outbox'[p].attempts = outbox[p].attempts + 1
        BY <3>1, <4>1 DEF Row
      <4> QED
        BY <3>1, <3>3, <4>2, OutboxAssumption DEF OutboxAssumption, Exhausted
    <3> QED
      BY <3>2, <3>3
  <2>2. \A p \in Pairs \ StaleClaims : outbox'[p] = outbox[p]
    BY <1>5 DEF RecoverStaleClaims
  <2>3. \A p \in StaleClaims : \A w \in Workers : \A d \in claimed[w] : d.pair # p
    BY DEF StaleClaims, Ownership, ClaimsHeld
  <2>4. UNCHANGED <<claimed, pc>>
    BY <1>5 DEF RecoverStaleClaims, workVars
  <2> QED
    BY <2>1, <2>2, <2>3, <2>4, OnlyUnclaimed
<1>6. ASSUME PruneDelivered PROVE Ownership'
  <2>1. \A p \in Pairs : \/ outbox'[p] = outbox[p]
                         \/ outbox'[p].attempts = 0 /\ outbox[p].status = "delivered"
    BY <1>6 DEF PruneDelivered, NoRow
  <2>2. UNCHANGED <<claimed, pc>>
    BY <1>6 DEF PruneDelivered, workVars
  <2> QED
    BY <2>1, <2>2, OnlyUnclaimed, OutboxAssumption DEF OutboxAssumption, Ownership, ClaimsHeld
<1>7. ASSUME Fault PROVE Ownership'
  <2>1. ASSUME NEW w \in Workers, JobThrows(w) \/ WorkerCrashes(w) PROVE Ownership'
    BY <2>1, LeaveForgets DEF JobThrows, WorkerCrashes, rowVars
  <2>2. ASSUME NEW c \in Callers, CallerFails(c) PROVE Ownership'
    BY <2>2, OnlyUnclaimed DEF CallerFails, rowVars, workVars
  <2>3. ASSUME NEW c \in Callers, NEW s \in Streams, QueueFlushFails(c, s) PROVE Ownership'
    BY <2>3, OnlyUnclaimed DEF QueueFlushFails, rowVars, workVars
  <2> QED
    BY <1>7, <2>1, <2>2, <2>3 DEF Fault
<1>8. ASSUME UNCHANGED <<outbox, claimed, pc>> PROVE Ownership'
  BY <1>8, OnlyUnclaimed
<1>9. ASSUME NEW w \in Workers, NEW s \in Streams, StartFlush(w, s) PROVE Ownership'
  <2>1. ClaimsOnlyWhileSending'
    BY <1>9 DEF StartFlush, TypeOK, Ownership, ClaimsOnlyWhileSending
  <2>2. UNCHANGED <<outbox, claimed>>
    BY <1>9 DEF StartFlush, rowVars
  <2> QED
    BY <2>1, <2>2, ClaimsForgotten
<1>10. ASSUME NEW c \in Callers, NEW s \in Streams, CallerStep(c, s) PROVE Ownership'
  BY <1>8, <1>10 DEF CallerStep, DebounceWon, DebounceLost, QueueFlush, rowVars, workVars
<1>11. ASSUME NEW c \in Consumers, NEW logs \in SUBSET Logs, FindStreams(c, logs)
       PROVE  Ownership'
  BY <1>8, <1>11 DEF FindStreams, rowVars, workVars
<1>12. ASSUME NEW s \in Streams, DebounceExpires(s) \/ JobStalls(s) \/ DeleteStream(s)
       PROVE  Ownership'
  BY <1>8, <1>12 DEF DebounceExpires, JobStalls, DeleteStream, rowVars, workVars
<1>13. ASSUME NEW c \in Sweepers, CountDropped(c) \/ FindOverdueStreams(c)
       PROVE  Ownership'
  BY <1>8, <1>13 DEF CountDropped, FindOverdueStreams, rowVars, workVars
<1>14. CASE UNCHANGED vars
  BY <1>8, <1>14 DEF vars, rowVars, workVars
<1> QED
  BY <1>1, <1>2, <1>3, <1>4, <1>5, <1>6, <1>7, <1>9, <1>10, <1>11, <1>12, <1>13, <1>14 DEF Next

\* If no worker outlives the stale-claim threshold, its claims stay its own.
THEOREM OwnershipHolds == ~SlowWorkers => (Spec => []Ownership)
<1>1. ASSUME ~SlowWorkers PROVE TypeOK /\ Ownership /\ [Next]_vars => Ownership'
  BY <1>1, OwnershipStep
<1>2. SUFFICES ASSUME ~SlowWorkers PROVE Spec => []Ownership
  OBVIOUS
<1>3. TypeOK /\ Ownership /\ [Next]_vars => Ownership'
  BY <1>1, <1>2
<1> QED
  BY <1>3, InitOwnership, TypeCorrect, PTL DEF Spec

\* No two workers deliver the same row at the same time, if no worker
\* outlives the stale-claim threshold.
THEOREM ExclusiveClaims == ~SlowWorkers => (Spec => []ClaimsExclusive)
  BY OwnershipHolds, PTL DEF Ownership

\* Under the same assumption no row outlives its attempts.
THEOREM BoundedAttempts == ~SlowWorkers => (Spec => []AttemptsBounded)
  BY OwnershipHolds, PTL DEF Ownership

-----------------------------------------------------------------------------
(* A delivered row is final, under the same assumption.                    *)

\* No step takes a delivered row anywhere but out of the table.
LEMMA FinalStep ==
  ASSUME TypeOK, Ownership, [Next]_vars, NEW p \in Pairs, outbox[p].status = "delivered"
  PROVE  outbox'[p].status \in {"delivered", "none"}
<1> USE DEF rowVars
<1>1. \A w \in Workers : ClaimOf(w, p) = {}
  BY DEF ClaimOf, Ownership, ClaimsHeld
<1>2. ASSUME NEW c \in Consumers, BatchInsert(c) PROVE outbox'[p] = outbox[p]
  BY <1>2 DEF BatchInsert, Fresh, Present
<1>3. ASSUME NEW w \in Workers, ClaimBatch(w) PROVE outbox'[p] = outbox[p]
  BY <1>3 DEF ClaimBatch, Ready
<1>4. ASSUME NEW w \in Workers, Commit(w) PROVE outbox'[p] = outbox[p]
  BY <1>1, <1>4 DEF Commit
<1>5. ASSUME NEW w \in Workers, DrainStep(w) PROVE outbox'[p] = outbox[p]
  BY <1>3, <1>4, <1>5 DEF DrainStep, NothingToClaim, SendSucceeds, SendFails, CountExhausted
<1>6. ASSUME NEW q \in Pairs, RetryBecomesDue(q) \/ RowAges(q)
      PROVE  outbox'[p].status = outbox[p].status
  BY <1>6 DEF RetryBecomesDue, RowAges, TypeOK, Row
<1>7. ASSUME NEW c \in Sweepers, RecoverStaleClaims(c) PROVE outbox'[p] = outbox[p]
  BY <1>7 DEF RecoverStaleClaims, StaleClaims
<1>8. ASSUME PruneDelivered PROVE outbox'[p] = outbox[p] \/ outbox'[p].status = "none"
  BY <1>8 DEF PruneDelivered, NoRow
<1>9. ASSUME Fault PROVE outbox'[p] = outbox[p]
  BY <1>9 DEF Fault, CallerFails, QueueFlushFails, JobThrows, WorkerCrashes
<1>10. ASSUME NEW c \in Callers, NEW s \in Streams, CallerStep(c, s) PROVE outbox' = outbox
  BY <1>10 DEF CallerStep, DebounceWon, DebounceLost, QueueFlush
<1>11. ASSUME NEW c \in Consumers, NEW logs \in SUBSET Logs, FindStreams(c, logs)
       PROVE  outbox' = outbox
  BY <1>11 DEF FindStreams
<1>12. ASSUME NEW w \in Workers, NEW s \in Streams, StartFlush(w, s) PROVE outbox' = outbox
  BY <1>12 DEF StartFlush
<1>13. ASSUME NEW s \in Streams, DebounceExpires(s) \/ JobStalls(s) \/ DeleteStream(s)
       PROVE  outbox' = outbox
  BY <1>13 DEF DebounceExpires, JobStalls, DeleteStream
<1>14. ASSUME NEW c \in Sweepers, CountDropped(c) \/ FindOverdueStreams(c)
       PROVE  outbox' = outbox
  BY <1>14 DEF CountDropped, FindOverdueStreams
<1>15. CASE UNCHANGED vars
  BY <1>15 DEF vars
<1> QED
  BY <1>2, <1>5, <1>6, <1>7, <1>8, <1>9, <1>10, <1>11, <1>12, <1>13, <1>14, <1>15 DEF Next

\* A delivered row never becomes deliverable again.
THEOREM DeliveredFinal == ~SlowWorkers => (Spec => DeliveredIsFinal)
<1>1. TypeOK /\ Ownership /\ [Next]_vars =>
        [\A p \in Pairs : outbox[p].status = "delivered" =>
           outbox'[p].status \in {"delivered", "none"}]_vars
  BY FinalStep
<1> QED
  BY <1>1, TypeCorrect, OwnershipHolds, PTL DEF Spec, DeliveredIsFinal

-----------------------------------------------------------------------------
(* Drops are never early, even when workers outlive the stale threshold.   *)

\* A worker's copy of a row never runs ahead of the table.
ClaimsLag ==
  \A w \in Workers : \A c \in claimed[w] :
    /\ c.id <= outbox[c.pair].id
    /\ c.id = outbox[c.pair].id /\ Present(c.pair) => c.attempts <= outbox[c.pair].attempts

\* How any step may change a row: ids and attempts only grow, and a row that
\* is gone comes back under a new id only.
RowGrows(p) ==
  /\ outbox[p].id <= outbox'[p].id
  /\ outbox'[p].id = outbox[p].id /\ Present(p)' =>
       Present(p) /\ outbox[p].attempts <= outbox'[p].attempts

\* Every row, in every step.
LEMMA RowsGrow ==
  ASSUME TypeOK, TypeOK', [Next]_vars, NEW p \in Pairs
  PROVE  RowGrows(p)
<1> USE DEF rowVars
<1>1. /\ outbox[p] \in Row /\ outbox[p].id \in Nat /\ outbox[p].attempts \in Nat
      /\ outbox \in [Pairs -> Row]
  BY DEF TypeOK, Row
<1>2. outbox' = outbox => RowGrows(p)
  BY <1>1 DEF RowGrows, Present
<1>3. ASSUME outbox'[p] = outbox[p] PROVE RowGrows(p)
  BY <1>1, <1>3 DEF RowGrows, Present
<1>4. ASSUME outbox'[p] = NoRow(outbox[p].id) PROVE RowGrows(p)
  BY <1>1, <1>4 DEF RowGrows, Present, NoRow
<1>5. ASSUME Present(p), NEW n \in {0, 1},
             outbox'[p].id = outbox[p].id, outbox'[p].attempts = outbox[p].attempts + n
      PROVE  RowGrows(p)
  BY <1>1, <1>5 DEF RowGrows
<1>6. ASSUME NEW c \in Consumers, BatchInsert(c) PROVE RowGrows(p)
  <2>1. CASE p \in Fresh(plan[c])
    BY <1>1, <1>6, <2>1 DEF BatchInsert, RowGrows
  <2>2. CASE p \notin Fresh(plan[c])
    BY <1>3, <1>6, <2>2 DEF BatchInsert
  <2> QED
    BY <2>1, <2>2
<1>7. ASSUME NEW w \in Workers, ClaimBatch(w) PROVE RowGrows(p)
  <2>1. PICK batch \in SUBSET Ready(flushing[w]) :
          outbox' = [q \in Pairs |->
            IF q \in batch
            THEN [outbox[q] EXCEPT !.status = "processing", !.old = FALSE]
            ELSE outbox[q]]
    BY <1>7 DEF ClaimBatch
  <2>2. CASE p \in batch
    <3>1. outbox'[p] = [outbox[p] EXCEPT !.status = "processing", !.old = FALSE]
      BY <2>1, <2>2
    <3>2. outbox'[p].id = outbox[p].id /\ outbox'[p].attempts = outbox[p].attempts + 0
      BY <1>1, <3>1 DEF Row
    <3>3. Present(p)
      BY <2>2 DEF Ready, Present
    <3> QED
      BY <1>5, <3>2, <3>3
  <2>3. CASE p \notin batch
    BY <1>3, <2>1, <2>3
  <2> QED
    BY <2>2, <2>3
<1>8. ASSUME NEW w \in Workers, Commit(w) PROVE RowGrows(p)
  <2>1. CASE ClaimOf(w, p) = {}
    BY <1>3, <1>8, <2>1 DEF Commit
  <2>2. CASE ClaimOf(w, p) # {}
    <3>1. PICK c : outbox'[p] = Settled(w, c, outbox[p])
      BY <1>8, <2>2 DEF Commit
    <3>2. Present(p)
      BY <2>2 DEF ClaimOf
    <3>3. CASE c \in success[w]
      <4>1. outbox'[p] = [outbox[p] EXCEPT !.status = "delivered", !.old = FALSE]
        BY <3>1, <3>3 DEF Settled
      <4>2. outbox'[p].id = outbox[p].id /\ outbox'[p].attempts = outbox[p].attempts + 0
        BY <1>1, <4>1 DEF Row
      <4> QED
        BY <1>5, <3>2, <4>2
    <3>4. CASE c \notin success[w] /\ Exhausted(c.attempts)
      BY <1>4, <3>1, <3>4 DEF Settled
    <3>5. CASE c \notin success[w] /\ ~Exhausted(c.attempts)
      <4>1. outbox'[p] = [outbox[p] EXCEPT !.status = "retry", !.attempts = @ + 1,
                                           !.due = FALSE, !.old = FALSE]
        BY <3>1, <3>5 DEF Settled
      <4>2. outbox'[p].id = outbox[p].id /\ outbox'[p].attempts = outbox[p].attempts + 1
        BY <1>1, <4>1 DEF Row
      <4> QED
        BY <1>5, <3>2, <4>2
    <3> QED
      BY <3>3, <3>4, <3>5
  <2> QED
    BY <2>1, <2>2
<1>9. ASSUME NEW w \in Workers, DrainStep(w) PROVE RowGrows(p)
  BY <1>2, <1>7, <1>8, <1>9 DEF DrainStep, NothingToClaim, SendSucceeds, SendFails, CountExhausted
<1>10. ASSUME NEW q \in Pairs, RetryBecomesDue(q) \/ RowAges(q) PROVE RowGrows(p)
  <2>1. CASE q = p
    <3>1. Present(p)
      BY <1>10, <2>1 DEF RetryBecomesDue, RowAges, Present
    <3>2. \/ outbox'[p] = [outbox[p] EXCEPT !.due = TRUE]
          \/ outbox'[p] = [outbox[p] EXCEPT !.old = TRUE]
      BY <1>1, <1>10, <2>1 DEF RetryBecomesDue, RowAges
    <3>3. outbox'[p].id = outbox[p].id /\ outbox'[p].attempts = outbox[p].attempts + 0
      BY <1>1, <3>2 DEF Row
    <3> QED
      BY <1>5, <3>1, <3>3
  <2>2. CASE q # p
    BY <1>1, <1>3, <1>10, <2>2 DEF RetryBecomesDue, RowAges
  <2> QED
    BY <2>1, <2>2
<1>11. ASSUME NEW c \in Sweepers, RecoverStaleClaims(c) PROVE RowGrows(p)
  <2>1. CASE p \notin StaleClaims
    BY <1>3, <1>11, <2>1 DEF RecoverStaleClaims
  <2>2. CASE p \in StaleClaims /\ Exhausted(outbox[p].attempts)
    BY <1>4, <1>11, <2>2 DEF RecoverStaleClaims
  <2>3. CASE p \in StaleClaims /\ ~Exhausted(outbox[p].attempts)
    <3>1. outbox'[p] = [outbox[p] EXCEPT !.status = "retry", !.attempts = @ + 1,
                                         !.due = TRUE, !.old = FALSE]
      BY <1>11, <2>3 DEF RecoverStaleClaims
    <3>2. outbox'[p].id = outbox[p].id /\ outbox'[p].attempts = outbox[p].attempts + 1
      BY <1>1, <3>1 DEF Row
    <3>3. Present(p)
      BY <2>3 DEF StaleClaims, Present
    <3> QED
      BY <1>5, <3>2, <3>3
  <2> QED
    BY <2>1, <2>2, <2>3
<1>12. ASSUME PruneDelivered PROVE RowGrows(p)
  BY <1>3, <1>4, <1>12 DEF PruneDelivered
<1>13. ASSUME Fault PROVE outbox' = outbox
  BY <1>13 DEF Fault, CallerFails, QueueFlushFails, JobThrows, WorkerCrashes
<1>14. ASSUME NEW c \in Callers, NEW s \in Streams, CallerStep(c, s) PROVE outbox' = outbox
  BY <1>14 DEF CallerStep, DebounceWon, DebounceLost, QueueFlush
<1>15. ASSUME NEW c \in Consumers, NEW logs \in SUBSET Logs, FindStreams(c, logs)
       PROVE  outbox' = outbox
  BY <1>15 DEF FindStreams
<1>16. ASSUME NEW w \in Workers, NEW s \in Streams, StartFlush(w, s) PROVE outbox' = outbox
  BY <1>16 DEF StartFlush
<1>17. ASSUME NEW s \in Streams, DebounceExpires(s) \/ JobStalls(s) \/ DeleteStream(s)
       PROVE  outbox' = outbox
  BY <1>17 DEF DebounceExpires, JobStalls, DeleteStream
<1>18. ASSUME NEW c \in Sweepers, CountDropped(c) \/ FindOverdueStreams(c)
       PROVE  outbox' = outbox
  BY <1>18 DEF CountDropped, FindOverdueStreams
<1>19. CASE UNCHANGED vars
  BY <1>2, <1>19 DEF vars
<1> QED
  BY <1>2, <1>6, <1>9, <1>10, <1>11, <1>12, <1>13, <1>14, <1>15, <1>16, <1>17, <1>18, <1>19
  DEF Next
\* An old claim lags behind the row it was taken from, since rows only grow.
LEMMA OldClaimsLag ==
  ASSUME TypeOK, TypeOK', ClaimsLag, [Next]_vars,
         NEW w \in Workers, NEW c \in claimed[w]
  PROVE  /\ c.id <= outbox'[c.pair].id
         /\ c.id = outbox'[c.pair].id /\ Present(c.pair)' => c.attempts <= outbox'[c.pair].attempts
<1>1. c \in Claim /\ c.pair \in Pairs /\ c.id \in Nat /\ c.attempts \in Nat
  BY DEF TypeOK, Claim
<1>2. /\ outbox[c.pair].id \in Nat /\ outbox[c.pair].attempts \in Nat
      /\ outbox'[c.pair].id \in Nat /\ outbox'[c.pair].attempts \in Nat
  BY <1>1 DEF TypeOK, Row
<1>3. RowGrows(c.pair)
  BY <1>1, RowsGrow
<1>4. /\ c.id <= outbox[c.pair].id
      /\ c.id = outbox[c.pair].id /\ Present(c.pair) => c.attempts <= outbox[c.pair].attempts
  BY DEF ClaimsLag
<1> QED
  BY <1>1, <1>2, <1>3, <1>4 DEF RowGrows

\* A fresh claim equals the row.
LEMMA NewClaimsLag ==
  ASSUME TypeOK, NEW w \in Workers, ClaimBatch(w), NEW c \in claimed'[w]
  PROVE  /\ c.id <= outbox'[c.pair].id
         /\ c.attempts <= outbox'[c.pair].attempts
<1>1. PICK batch \in SUBSET Ready(flushing[w]) :
        /\ outbox' = [q \in Pairs |->
             IF q \in batch
             THEN [outbox[q] EXCEPT !.status = "processing", !.old = FALSE]
             ELSE outbox[q]]
        /\ claimed' = [claimed EXCEPT ![w] =
             {[pair |-> p, id |-> outbox[p].id, attempts |-> outbox[p].attempts] : p \in batch}]
  BY DEF ClaimBatch
<1>2. PICK p \in batch :
        c = [pair |-> p, id |-> outbox[p].id, attempts |-> outbox[p].attempts]
  BY <1>1 DEF TypeOK
<1>3. c.pair = p /\ c.id = outbox[p].id /\ c.attempts = outbox[p].attempts
  BY <1>2
<1>4. p \in Pairs
  BY DEF Ready, TypeOK, Pairs
<1>5. outbox[p] \in Row
  BY <1>4 DEF TypeOK
<1>6. outbox'[p] = [outbox[p] EXCEPT !.status = "processing", !.old = FALSE]
  BY <1>1, <1>4
<1>7. outbox'[p].id = outbox[p].id /\ outbox'[p].attempts = outbox[p].attempts
  BY <1>5, <1>6 DEF Row
<1> QED
  BY <1>3, <1>5, <1>7 DEF Row

\* Every step but a claim keeps or forgets claims.
LEMMA ClaimsOnlyFromClaim ==
  ASSUME TypeOK, [Next]_vars, NEW w \in Workers, ~ClaimBatch(w)
  PROVE  claimed'[w] \subseteq claimed[w]
<1> USE DEF workVars
<1>1. ASSUME NEW v \in Workers, DrainStep(v) PROVE claimed'[w] \subseteq claimed[w]
  <2>1. CASE ClaimBatch(v)
    BY <2>1 DEF ClaimBatch, TypeOK
  <2>2. CASE NothingToClaim(v)
    BY <2>2 DEF NothingToClaim, Leave, TypeOK
  <2>3. CASE Commit(v)
    BY <2>3 DEF Commit, Leave, TypeOK
  <2>4. ASSUME NEW chunk \in SUBSET Unsent(v), SendSucceeds(v, chunk) \/ SendFails(v, chunk)
        PROVE  claimed' = claimed
    BY <2>4 DEF SendSucceeds, SendFails
  <2>5. CASE CountExhausted(v)
    BY <2>5 DEF CountExhausted
  <2> QED
    BY <1>1, <2>1, <2>2, <2>3, <2>4, <2>5 DEF DrainStep
<1>2. ASSUME Fault PROVE claimed'[w] \subseteq claimed[w]
  <2>1. ASSUME NEW v \in Workers, JobThrows(v) \/ WorkerCrashes(v)
        PROVE  claimed'[w] \subseteq claimed[w]
    BY <2>1 DEF JobThrows, WorkerCrashes, Leave, TypeOK
  <2>2. ASSUME NEW c \in Callers, CallerFails(c) \/ \E s \in Streams : QueueFlushFails(c, s)
        PROVE  claimed' = claimed
    BY <2>2 DEF CallerFails, QueueFlushFails
  <2> QED
    BY <1>2, <2>1, <2>2 DEF Fault
<1>3. ASSUME NEW c \in Consumers,
             BatchInsert(c) \/ \E logs \in SUBSET Logs : FindStreams(c, logs)
      PROVE  claimed' = claimed
  BY <1>3 DEF BatchInsert, FindStreams
<1>4. ASSUME NEW c \in Callers, NEW s \in Streams, CallerStep(c, s) PROVE claimed' = claimed
  BY <1>4 DEF CallerStep, DebounceWon, DebounceLost, QueueFlush
<1>5. ASSUME NEW v \in Workers, NEW s \in Streams, StartFlush(v, s) PROVE claimed' = claimed
  BY <1>5 DEF StartFlush
<1>6. ASSUME NEW s \in Streams, DebounceExpires(s) \/ JobStalls(s) \/ DeleteStream(s)
      PROVE  claimed' = claimed
  BY <1>6 DEF DebounceExpires, JobStalls, DeleteStream
<1>7. ASSUME NEW p \in Pairs, RetryBecomesDue(p) \/ RowAges(p) PROVE claimed' = claimed
  BY <1>7 DEF RetryBecomesDue, RowAges
<1>8. ASSUME NEW c \in Sweepers,
             RecoverStaleClaims(c) \/ CountDropped(c) \/ FindOverdueStreams(c)
      PROVE  claimed' = claimed
  BY <1>8 DEF RecoverStaleClaims, CountDropped, FindOverdueStreams
<1>9. CASE PruneDelivered
  BY <1>9 DEF PruneDelivered
<1>10. CASE UNCHANGED vars
  BY <1>10 DEF vars
<1> QED
  BY <1>1, <1>2, <1>3, <1>4, <1>5, <1>6, <1>7, <1>8, <1>9, <1>10 DEF Next

\* Together: the lag is inductive.
LEMMA LagStep ==
  ASSUME TypeOK, TypeOK', ClaimsLag, [Next]_vars
  PROVE  ClaimsLag'
<1> SUFFICES ASSUME NEW w \in Workers, NEW c \in claimed'[w]
             PROVE  /\ c.id <= outbox'[c.pair].id
                    /\ c.id = outbox'[c.pair].id /\ Present(c.pair)' =>
                         c.attempts <= outbox'[c.pair].attempts
  BY DEF ClaimsLag
<1>1. CASE ClaimBatch(w)
  BY <1>1, NewClaimsLag
<1>2. CASE ~ClaimBatch(w)
  BY <1>2, ClaimsOnlyFromClaim, OldClaimsLag
<1> QED
  BY <1>1, <1>2

\* The lag of claims is an invariant in both modes.
LEMMA LagHolds == Spec => []ClaimsLag
<1>1. Init => ClaimsLag
  BY DEF Init, ClaimsLag
<1>2. TypeOK /\ TypeOK' /\ ClaimsLag /\ [Next]_vars => ClaimsLag'
  BY LagStep
<1> QED
  BY <1>1, <1>2, TypeCorrect, PTL DEF Spec

\* A row whose claim lags behind it is given up on only when it is spent.
LEMMA EarlyDropStep ==
  ASSUME TypeOK, ClaimsLag, [Next]_vars, NEW p \in Pairs,
         outbox[p].status \in {"pending", "processing", "retry"}, outbox'[p].status = "none"
  PROVE  outbox[p].attempts + 1 >= MaxAttempts
<1> USE DEF rowVars
<1>1. outbox[p] \in Row /\ outbox[p].attempts \in Nat /\ outbox'[p] # outbox[p]
  BY DEF TypeOK, Row
<1>2. ASSUME NEW w \in Workers, Commit(w) PROVE outbox[p].attempts + 1 >= MaxAttempts
  <2>1. ClaimOf(w, p) # {}
    BY <1>1, <1>2 DEF Commit
  <2>2. PICK c \in ClaimOf(w, p) : outbox'[p] = Settled(w, c, outbox[p])
    BY <1>2, <2>1 DEF Commit
  <2>3. c \in Claim /\ c.attempts \in Nat /\ c.attempts <= outbox[p].attempts
    BY <2>2 DEF ClaimOf, TypeOK, Claim, ClaimsLag
  <2>4. c \notin success[w]
    <3>1. SUFFICES ASSUME c \in success[w] PROVE FALSE
      OBVIOUS
    <3>2. outbox'[p] = [outbox[p] EXCEPT !.status = "delivered", !.old = FALSE]
      BY <2>2, <3>1 DEF Settled
    <3> QED
      BY <1>1, <3>2 DEF Row
  <2>5. Exhausted(c.attempts)
    <3>1. SUFFICES ASSUME ~Exhausted(c.attempts) PROVE FALSE
      OBVIOUS
    <3>2. outbox'[p] = [outbox[p] EXCEPT !.status = "retry", !.attempts = @ + 1,
                                         !.due = FALSE, !.old = FALSE]
      BY <2>2, <2>4, <3>1 DEF Settled
    <3>3. outbox'[p].status = "retry"
      BY <1>1, <3>2 DEF Row
    <3> QED
      BY <3>3
  <2> QED
    BY <1>1, <2>3, <2>5, OutboxAssumption DEF OutboxAssumption, Exhausted
<1>3. ASSUME NEW c \in Sweepers, RecoverStaleClaims(c)
      PROVE  outbox[p].attempts + 1 >= MaxAttempts
  <2>1. p \in StaleClaims
    BY <1>1, <1>3 DEF RecoverStaleClaims
  <2>2. SUFFICES ASSUME ~Exhausted(outbox[p].attempts) PROVE FALSE
    BY DEF Exhausted
  <2>3. outbox'[p] = [outbox[p] EXCEPT !.status = "retry", !.attempts = @ + 1,
                                       !.due = TRUE, !.old = FALSE]
    BY <1>3, <2>1, <2>2 DEF RecoverStaleClaims
  <2>4. outbox'[p].status = "retry"
    BY <1>1, <2>3 DEF Row
  <2> QED
    BY <2>4
<1>4. ASSUME NEW w \in Workers, ClaimBatch(w) PROVE FALSE
  <2>1. PICK batch \in SUBSET Ready(flushing[w]) :
          outbox' = [q \in Pairs |->
            IF q \in batch
            THEN [outbox[q] EXCEPT !.status = "processing", !.old = FALSE]
            ELSE outbox[q]]
    BY <1>4 DEF ClaimBatch
  <2>2. outbox'[p] = [outbox[p] EXCEPT !.status = "processing", !.old = FALSE]
    BY <1>1, <2>1
  <2>3. outbox'[p].status = "processing"
    BY <1>1, <2>2 DEF Row
  <2> QED
    BY <2>3
<1>5. ASSUME NEW w \in Workers, DrainStep(w) PROVE outbox[p].attempts + 1 >= MaxAttempts
  <2>1. ClaimBatch(w) \/ Commit(w)
    BY <1>1, <1>5 DEF DrainStep, NothingToClaim, SendSucceeds, SendFails, CountExhausted
  <2> QED
    BY <1>2, <1>4, <2>1
<1>6. ASSUME NEW q \in Pairs, RetryBecomesDue(q) \/ RowAges(q) PROVE FALSE
  <2>1. \/ outbox' = [outbox EXCEPT ![q].due = TRUE]
        \/ outbox' = [outbox EXCEPT ![q].old = TRUE]
    BY <1>6 DEF RetryBecomesDue, RowAges
  <2>2. outbox \in [Pairs -> Row]
    BY DEF TypeOK
  <2>3. outbox'[p].status = outbox[p].status
    BY <2>1, <2>2 DEF Row
  <2> QED
    BY <2>3
<1>7. ~PruneDelivered
  BY <1>1 DEF PruneDelivered
<1>8. ASSUME NEW c \in Consumers, BatchInsert(c) PROVE FALSE
  BY <1>1, <1>8 DEF BatchInsert
<1>9. ~Fault
  BY <1>1 DEF Fault, CallerFails, QueueFlushFails, JobThrows, WorkerCrashes
<1>10. ASSUME NEW c \in Callers, NEW s \in Streams, CallerStep(c, s) PROVE FALSE
  BY <1>1, <1>10 DEF CallerStep, DebounceWon, DebounceLost, QueueFlush
<1>11. ASSUME NEW c \in Consumers, NEW logs \in SUBSET Logs, FindStreams(c, logs)
       PROVE  FALSE
  BY <1>1, <1>11 DEF FindStreams
<1>12. ASSUME NEW w \in Workers, NEW s \in Streams, StartFlush(w, s) PROVE FALSE
  BY <1>1, <1>12 DEF StartFlush
<1>13. ASSUME NEW s \in Streams, DebounceExpires(s) \/ JobStalls(s) \/ DeleteStream(s)
       PROVE  FALSE
  BY <1>1, <1>13 DEF DebounceExpires, JobStalls, DeleteStream
<1>14. ASSUME NEW c \in Sweepers, CountDropped(c) \/ FindOverdueStreams(c) PROVE FALSE
  BY <1>1, <1>14 DEF CountDropped, FindOverdueStreams
<1>15. ~UNCHANGED vars
  BY <1>1 DEF vars
<1> QED
  BY <1>3, <1>5, <1>6, <1>7, <1>8, <1>9, <1>10, <1>11, <1>12, <1>13, <1>14, <1>15 DEF Next

\* No row is given up on while the table grants it another attempt, in either
\* mode: a claim that a live worker outlived is never more spent than its row.
THEOREM NoDropIsEarly == Spec => NoEarlyDrop
<1>1. TypeOK /\ ClaimsLag /\ [Next]_vars =>
        [\A p \in Pairs :
           /\ outbox[p].status \in {"pending", "processing", "retry"}
           /\ outbox'[p].status = "none"
           => outbox[p].attempts + 1 >= MaxAttempts]_vars
  BY EarlyDropStep
<1> QED
  BY <1>1, TypeCorrect, LagHolds, PTL DEF Spec, NoEarlyDrop

-----------------------------------------------------------------------------
(* The refinement: what AtLeastOnceDelivery sees, if no worker outlives    *)
(* the stale-claim threshold.                                              *)

\* What the refinement mapping shows of a row.
Shown(p) == IF Undelivered(p) THEN "owed" ELSE IF Present(p) THEN "delivered" ELSE "absent"

-----------------------------------------------------------------------------
(* The abstract steps, row by row.                                         *)

\* What changes neither the shown statuses nor the histories is a stutter.
LEMMA StutterMaps ==
  ASSUME \A p \in Pairs : Shown(p)' = Shown(p), UNCHANGED received, Dropped' = Dropped
  PROVE  UNCHANGED Delivery!vars
  BY DEF Delivery!vars, Shown

\* Absent rows that become owed are an Accept.
LEMMA AcceptMaps ==
  ASSUME NEW es \in SUBSET Pairs,
         \A p \in es : Shown(p) = "absent" /\ Shown(p)' = "owed",
         \A p \in Pairs \ es : Shown(p)' = Shown(p),
         UNCHANGED received, Dropped' = Dropped
  PROVE  Delivery!Next
<1>1. Delivery!Accept(es)
  BY DEF Delivery!Accept, Delivery!In, Delivery!Moved, Shown
<1> QED
  BY <1>1 DEF Delivery!Next

\* Owed rows that the provider receives are a Send.
LEMMA SendMaps ==
  ASSUME NEW es \in SUBSET Pairs,
         \A p \in es : Shown(p) = "owed",
         \A p \in Pairs : Shown(p)' = Shown(p),
         received' = received \cup es, Dropped' = Dropped
  PROVE  Delivery!Next
<1>1. Delivery!Send(es)
  BY DEF Delivery!Send, Delivery!In, Shown
<1> QED
  BY <1>1 DEF Delivery!Next

\* Owed rows that end, received or counted as dropped, are a Settle.
LEMMA SettleMaps ==
  ASSUME NEW done \in SUBSET Pairs, NEW lost \in SUBSET Pairs,
         done \cap lost = {},
         \A p \in done : Shown(p) = "owed" /\ Shown(p)' = "delivered" /\ p \in received,
         \A p \in lost : Shown(p) = "owed" /\ Shown(p)' = "absent",
         \A p \in Pairs \ (done \cup lost) : Shown(p)' = Shown(p),
         Dropped' = Dropped \cup lost, UNCHANGED received
  PROVE  Delivery!Next
<1>1. Delivery!Settle(done, lost)
  BY DEF Delivery!Settle, Delivery!In, Shown
<1> QED
  BY <1>1 DEF Delivery!Next

\* Owed rows that are counted as dropped are a Note.
LEMMA NoteMaps ==
  ASSUME NEW es \in SUBSET Pairs,
         \A p \in es : Shown(p) = "owed",
         \A p \in Pairs : Shown(p)' = Shown(p),
         Dropped' = Dropped \cup es, UNCHANGED received
  PROVE  Delivery!Next
<1>1. Delivery!Note(es)
  BY DEF Delivery!Note, Delivery!In, Shown
<1> QED
  BY <1>1 DEF Delivery!Next

\* Delivered rows that go are a Forget.
LEMMA ForgetMaps ==
  ASSUME NEW es \in SUBSET Pairs,
         \A p \in es : Shown(p) = "delivered" /\ Shown(p)' = "absent",
         \A p \in Pairs \ es : Shown(p)' = Shown(p),
         UNCHANGED received, Dropped' = Dropped
  PROVE  Delivery!Next
<1>1. Delivery!Forget(es)
  BY DEF Delivery!Forget, Delivery!In, Delivery!Moved, Shown
<1> QED
  BY <1>1 DEF Delivery!Next

\* The mapping sees the status of a row and nothing else of it.
LEMMA ShownByStatus ==
  ASSUME TypeOK, TypeOK', NEW p \in Pairs
  PROVE  /\ outbox[p].status \in {"pending", "processing", "retry"} <=> Shown(p) = "owed"
         /\ outbox[p].status = "delivered" <=> Shown(p) = "delivered"
         /\ outbox[p].status = "none" <=> Shown(p) = "absent"
         /\ outbox'[p].status \in {"pending", "processing", "retry"} <=> Shown(p)' = "owed"
         /\ outbox'[p].status = "delivered" <=> Shown(p)' = "delivered"
         /\ outbox'[p].status = "none" <=> Shown(p)' = "absent"
         /\ outbox'[p] = outbox[p] => Shown(p)' = Shown(p)
<1>1. outbox[p] \in Row /\ outbox'[p] \in Row
  BY DEF TypeOK
<1> QED
  BY <1>1 DEF Row, Shown, Undelivered, Present

-----------------------------------------------------------------------------
(* A worker sorts its claims: sent, failed, or not tried yet.              *)

Sorted == \A w \in Workers : /\ success[w] \cap fail[w] = {}
                             /\ success[w] \cup fail[w] \subseteq claimed[w]

\* A worker that leaves drainStream has nothing to sort.
LEMMA LeaveSorts ==
  ASSUME TypeOK, Sorted, NEW w \in Workers, Leave(w)
  PROVE  Sorted'
  BY DEF TypeOK, Sorted, Leave

\* A chunk is drawn from the claims not tried yet, so no claim is sorted twice.
LEMMA SortedStep ==
  ASSUME TypeOK, Sorted, Ownership, [Next]_vars
  PROVE  Sorted'
<1>1. ASSUME NEW w \in Workers, DrainStep(w) PROVE Sorted'
  <2>1. CASE ClaimBatch(w)
    <3>1. claimed[w] = {} /\ success[w] = {} /\ fail[w] = {}
      BY <2>1 DEF ClaimBatch, Ownership, ClaimsOnlyWhileSending, Sorted
    <3>2. \A v \in Workers : v # w => claimed'[v] = claimed[v]
      BY <2>1 DEF ClaimBatch, TypeOK
    <3>3. UNCHANGED <<success, fail>>
      BY <2>1 DEF ClaimBatch
    <3> QED
      BY <3>1, <3>2, <3>3 DEF Sorted
  <2>2. CASE NothingToClaim(w)
    BY <2>2, LeaveSorts DEF NothingToClaim
  <2>3. ASSUME NEW chunk \in SUBSET Unsent(w), SendSucceeds(w, chunk) PROVE Sorted'
    BY <2>3 DEF TypeOK, Sorted, SendSucceeds, Unsent
  <2>4. ASSUME NEW chunk \in SUBSET Unsent(w), SendFails(w, chunk) PROVE Sorted'
    BY <2>4 DEF TypeOK, Sorted, SendFails, Unsent
  <2>5. CASE Commit(w)
    <3>1. /\ claimed' = [claimed EXCEPT ![w] = {}]
          /\ success' = [success EXCEPT ![w] = {}]
          /\ fail' = [fail EXCEPT ![w] = {}]
      BY <2>5 DEF Commit, Leave
    <3> QED
      BY <3>1 DEF TypeOK, Sorted
  <2>6. CASE CountExhausted(w)
    BY <2>6 DEF CountExhausted, Sorted
  <2> QED
    BY <1>1, <2>1, <2>2, <2>3, <2>4, <2>5, <2>6 DEF DrainStep
<1>2. ASSUME Fault PROVE Sorted'
  <2>1. ASSUME NEW w \in Workers, JobThrows(w) \/ WorkerCrashes(w) PROVE Sorted'
    BY <2>1, LeaveSorts DEF JobThrows, WorkerCrashes
  <2>2. ASSUME NEW c \in Callers, CallerFails(c) \/ \E s \in Streams : QueueFlushFails(c, s)
        PROVE  Sorted'
    BY <2>2 DEF CallerFails, QueueFlushFails, workVars, Sorted
  <2> QED
    BY <1>2, <2>1, <2>2 DEF Fault
<1>3. ASSUME UNCHANGED <<claimed, success, fail>> PROVE Sorted'
  BY <1>3 DEF Sorted
<1>4. ASSUME NEW c \in Consumers,
             BatchInsert(c) \/ \E logs \in SUBSET Logs : FindStreams(c, logs)
      PROVE  Sorted'
  BY <1>3, <1>4 DEF BatchInsert, FindStreams, workVars
<1>5. ASSUME NEW c \in Callers, NEW s \in Streams, CallerStep(c, s) PROVE Sorted'
  BY <1>3, <1>5 DEF CallerStep, DebounceWon, DebounceLost, QueueFlush, workVars
<1>6. ASSUME NEW w \in Workers, NEW s \in Streams, StartFlush(w, s) PROVE Sorted'
  BY <1>3, <1>6 DEF StartFlush
<1>7. ASSUME NEW s \in Streams, DebounceExpires(s) \/ JobStalls(s) \/ DeleteStream(s)
      PROVE  Sorted'
  BY <1>3, <1>7 DEF DebounceExpires, JobStalls, DeleteStream, workVars
<1>8. ASSUME NEW p \in Pairs, RetryBecomesDue(p) \/ RowAges(p) PROVE Sorted'
  BY <1>3, <1>8 DEF RetryBecomesDue, RowAges, workVars
<1>9. ASSUME NEW c \in Sweepers,
             RecoverStaleClaims(c) \/ CountDropped(c) \/ FindOverdueStreams(c)
      PROVE  Sorted'
  BY <1>3, <1>9 DEF RecoverStaleClaims, CountDropped, FindOverdueStreams, workVars
<1>10. ASSUME PruneDelivered PROVE Sorted'
  BY <1>3, <1>10 DEF PruneDelivered, workVars
<1>11. CASE UNCHANGED vars
  BY <1>3, <1>11 DEF vars, workVars
<1> QED
  BY <1>1, <1>2, <1>4, <1>5, <1>6, <1>7, <1>8, <1>9, <1>10, <1>11 DEF Next

-----------------------------------------------------------------------------
(* Every step maps to an abstract step or to a stutter.                    *)

\* The fanout accepts the rows that do not exist and leaves the others alone.
LEMMA InsertMaps ==
  ASSUME TypeOK, TypeOK', NEW c \in Consumers, BatchInsert(c)
  PROVE  Delivery!Next
<1> DEFINE new == Fresh(plan[c])
<1>1. new \in SUBSET Pairs
  BY DEF TypeOK, Fresh
<1>2. \A p \in new : outbox[p].status = "none" /\ outbox'[p].status = "pending"
  BY <1>1 DEF BatchInsert, Fresh, Present
<1>3. \A p \in Pairs \ new : outbox'[p] = outbox[p]
  BY DEF BatchInsert
<1>4. UNCHANGED received /\ Dropped' = Dropped
  BY SameDropped DEF BatchInsert, callVars
<1> HIDE DEF new
<1>5. \A p \in new : Shown(p) = "absent" /\ Shown(p)' = "owed"
  BY <1>1, <1>2, ShownByStatus
<1>6. \A p \in Pairs \ new : Shown(p)' = Shown(p)
  BY <1>3, ShownByStatus
<1> QED
  BY <1>1, <1>4, <1>5, <1>6, AcceptMaps

\* A chunk is sent only for rows whose claim still stands.
LEMMA ChunkMaps ==
  ASSUME TypeOK, TypeOK', Ownership, NEW w \in Workers,
         NEW chunk \in SUBSET Unsent(w), SendSucceeds(w, chunk) \/ SendFails(w, chunk)
  PROVE  Delivery!Next \/ UNCHANGED Delivery!vars
<1>1. PairsOf(chunk) \in SUBSET Pairs
  BY DEF TypeOK, Unsent, PairsOf, Claim
<1>2. \A p \in PairsOf(chunk) : outbox[p].status = "processing"
  BY DEF Unsent, PairsOf, Ownership, ClaimsHeld
<1>3. \A p \in PairsOf(chunk) : Shown(p) = "owed"
  BY <1>1, <1>2, ShownByStatus
<1>4. UNCHANGED outbox /\ Dropped' = Dropped
  BY SameDropped DEF SendSucceeds, SendFails, callVars
<1>5. \A p \in Pairs : Shown(p)' = Shown(p)
  BY <1>4, ShownByStatus
<1>6. received' = received \/ received' = received \cup PairsOf(chunk)
  BY DEF SendSucceeds, SendFails
<1>7. CASE received' = received
  BY <1>4, <1>5, <1>7, StutterMaps
<1>8. CASE received' = received \cup PairsOf(chunk)
  BY <1>1, <1>3, <1>4, <1>5, <1>8, SendMaps
<1> QED
  BY <1>6, <1>7, <1>8

\* While claims are held, a worker has one claim per row at most.
LEMMA OneClaim ==
  ASSUME TypeOK, Ownership, NEW w \in Workers, NEW c \in claimed[w], NEW d \in claimed[w],
         c.pair = d.pair
  PROVE  c = d
<1>1. c \in Claim /\ d \in Claim
  BY DEF TypeOK
<1>2. c.id = d.id /\ c.attempts = d.attempts
  BY DEF Ownership, ClaimsHeld
<1> QED
  BY <1>1, <1>2 DEF Claim

\* The commit finds the row of each of its claims and settles it.
LEMMA CommitSettles ==
  ASSUME TypeOK, Ownership, NEW w \in Workers, Commit(w), NEW c \in claimed[w]
  PROVE  /\ c.pair \in Pairs
         /\ outbox[c.pair].status = "processing"
         /\ outbox'[c.pair] = Settled(w, c, outbox[c.pair])
<1>1. c.pair \in Pairs
  BY DEF TypeOK, Claim
<1>2. c \in ClaimOf(w, c.pair)
  BY DEF ClaimOf, Present, Ownership, ClaimsHeld
<1>3. \A d \in ClaimOf(w, c.pair) : d = c
  BY OneClaim DEF ClaimOf
<1>4. (CHOOSE d \in ClaimOf(w, c.pair) : TRUE) = c
  BY <1>2, <1>3
<1>5. outbox'[c.pair] = Settled(w, CHOOSE d \in ClaimOf(w, c.pair) : TRUE, outbox[c.pair])
  BY <1>1, <1>2 DEF Commit
<1> QED
  BY <1>1, <1>4, <1>5 DEF Ownership, ClaimsHeld

\* Only rows whose claim still stands are counted as dropped by a worker.
LEMMA CountMaps ==
  ASSUME TypeOK, TypeOK', Ownership, Sorted, NEW w \in Workers, CountExhausted(w)
  PROVE  Delivery!Next
<1> DEFINE es == PairsOf({c \in fail[w] : Exhausted(c.attempts)})
<1>1. es \in SUBSET Pairs
  BY DEF TypeOK, PairsOf, Claim
<1>2. \A p \in es : outbox[p].status = "processing"
  BY DEF PairsOf, Sorted, Ownership, ClaimsHeld
<1>3. UNCHANGED <<outbox, received, uncounted, tally>> /\ dropped' = dropped \cup es
  BY DEF CountExhausted, callVars
<1> HIDE DEF es
<1>4. Dropped' = Dropped \cup es
  BY <1>3 DEF Dropped
<1>5. \A p \in es : Shown(p) = "owed"
  BY <1>1, <1>2, ShownByStatus
<1>6. \A p \in Pairs : Shown(p)' = Shown(p)
  BY <1>3, ShownByStatus
<1> QED
  BY <1>1, <1>3, <1>4, <1>5, <1>6, NoteMaps

\* A commit settles the sent claims as delivered, the spent ones as given up.
LEMMA CommitMaps ==
  ASSUME TypeOK, TypeOK', Ownership, SuccessWasReceived, Sorted, DropsCounted,
         NEW w \in Workers, Commit(w)
  PROVE  Delivery!Next
<1> DEFINE spent == {c \in fail[w] : Exhausted(c.attempts)}
           done == PairsOf(success[w])
           lost == PairsOf(spent)
<1>1. claimed[w] = success[w] \cup fail[w] /\ success[w] \cap fail[w] = {}
  BY DEF Commit, DropsCounted, CountedAt, Unsent, Sorted
<1>2. ASSUME NEW c \in success[w]
      PROVE  /\ c.pair \in Pairs /\ c.pair \in received
             /\ outbox[c.pair].status = "processing" /\ outbox'[c.pair].status = "delivered"
  <2>1. c.pair \in Pairs /\ outbox[c.pair].status = "processing"
        /\ outbox'[c.pair] = Settled(w, c, outbox[c.pair])
    BY <1>1, CommitSettles
  <2>2. outbox'[c.pair] = [outbox[c.pair] EXCEPT !.status = "delivered", !.old = FALSE]
    BY <2>1 DEF Settled
  <2>3. outbox[c.pair] \in Row
    BY <2>1 DEF TypeOK
  <2>4. outbox'[c.pair].status = "delivered"
    BY <2>2, <2>3, RowStatuses
  <2> QED
    BY <2>1, <2>4 DEF SuccessWasReceived
<1>3. ASSUME NEW c \in fail[w]
      PROVE  /\ c.pair \in Pairs /\ outbox[c.pair].status = "processing"
             /\ outbox'[c.pair].status = IF Exhausted(c.attempts) THEN "none" ELSE "retry"
  <2>1. c.pair \in Pairs /\ outbox[c.pair].status = "processing"
        /\ outbox'[c.pair] = Settled(w, c, outbox[c.pair])
    BY <1>1, CommitSettles
  <2>2. c \notin success[w] /\ outbox[c.pair] \in Row
    BY <1>1, <2>1 DEF TypeOK
  <2>3. CASE Exhausted(c.attempts)
    BY <2>1, <2>2, <2>3, RowStatuses DEF Settled
  <2>4. CASE ~Exhausted(c.attempts)
    <3>1. outbox'[c.pair] = [outbox[c.pair] EXCEPT !.status = "retry", !.attempts = @ + 1,
                                                   !.due = FALSE, !.old = FALSE]
      BY <2>1, <2>2, <2>4 DEF Settled
    <3> QED
      BY <2>1, <2>2, <2>4, <3>1, RowStatuses
  <2> QED
    BY <2>3, <2>4
<1>4. done \in SUBSET Pairs /\ lost \in SUBSET Pairs
  BY <1>2, <1>3 DEF PairsOf
<1>5. done \cap lost = {}
  <2>1. SUFFICES ASSUME NEW c \in success[w], NEW d \in spent, c.pair = d.pair PROVE FALSE
    BY DEF PairsOf
  <2>2. c = d
    BY <1>1, <2>1, OneClaim
  <2> QED
    BY <1>1, <2>2
<1>6. ASSUME NEW p \in done
      PROVE  Shown(p) = "owed" /\ Shown(p)' = "delivered" /\ p \in received
  BY <1>2, <1>4, ShownByStatus DEF PairsOf
<1>7. ASSUME NEW p \in lost PROVE Shown(p) = "owed" /\ Shown(p)' = "absent"
  BY <1>3, <1>4, ShownByStatus DEF PairsOf
<1>8. ASSUME NEW p \in Pairs \ (done \cup lost) PROVE Shown(p)' = Shown(p)
  <2>1. CASE ClaimOf(w, p) = {}
    <3>1. outbox'[p] = outbox[p]
      BY <2>1 DEF Commit
    <3> QED
      BY <3>1, ShownByStatus
  <2>2. CASE ClaimOf(w, p) # {}
    <3>1. PICK c \in claimed[w] : c.pair = p
      BY <2>2 DEF ClaimOf
    <3>2. c \in fail[w] /\ ~Exhausted(c.attempts)
      BY <1>1, <3>1 DEF PairsOf
    <3>3. outbox[p].status = "processing" /\ outbox'[p].status = "retry"
      BY <1>3, <3>1, <3>2
    <3> QED
      BY <3>3, ShownByStatus
  <2> QED
    BY <2>1, <2>2
<1>9. Dropped' = Dropped \cup lost /\ UNCHANGED received
  <2>1. Dropped' = Dropped /\ UNCHANGED received
    BY SameDropped DEF Commit, callVars
  <2>2. lost \subseteq Dropped
    BY DEF Commit, DropsCounted, CountedAt, PairsOf, Dropped
  <2> QED
    BY <2>1, <2>2
<1> HIDE DEF done, lost
<1> QED
  BY <1>4, <1>5, <1>6, <1>7, <1>8, <1>9, SettleMaps

\* The sweeper drops the spent stale claims and owes the others still.
LEMMA RecoverMaps ==
  ASSUME TypeOK, TypeOK', NEW c \in Sweepers, RecoverStaleClaims(c)
  PROVE  Delivery!Next
<1> DEFINE spent == {p \in StaleClaims : Exhausted(outbox[p].attempts)}
<1>1. StaleClaims \subseteq Pairs /\ \A p \in StaleClaims : outbox[p].status = "processing"
  BY DEF StaleClaims
<1>2. \A p \in spent : outbox'[p].status = "none"
  BY <1>1 DEF RecoverStaleClaims, NoRow
<1>3. \A p \in StaleClaims \ spent : outbox'[p].status = "retry"
  <2>1. SUFFICES ASSUME NEW p \in StaleClaims \ spent PROVE outbox'[p].status = "retry"
    OBVIOUS
  <2>2. outbox'[p] = [outbox[p] EXCEPT !.status = "retry", !.attempts = @ + 1,
                                       !.due = TRUE, !.old = FALSE]
    BY <1>1 DEF RecoverStaleClaims
  <2> QED
    BY <1>1, <2>2, RowStatuses DEF TypeOK
<1>4. \A p \in Pairs \ StaleClaims : outbox'[p] = outbox[p]
  BY DEF RecoverStaleClaims
<1>5. /\ tally' = [tally EXCEPT ![c] = @ \cup spent]
      /\ UNCHANGED <<dropped, uncounted, received>>
  BY DEF RecoverStaleClaims
<1>6. spent \subseteq StaleClaims
  OBVIOUS
<1> HIDE DEF spent
<1>7. \A p \in spent : Shown(p) = "owed" /\ Shown(p)' = "absent"
  BY <1>1, <1>2, <1>6, ShownByStatus
<1>8. \A p \in Pairs \ spent : Shown(p)' = Shown(p)
  BY <1>1, <1>3, <1>4, ShownByStatus
<1>9. spent \in SUBSET Pairs
  BY <1>1, <1>6
<1>11. Dropped' = Dropped \cup spent
  BY <1>5, TallyGrows
<1> DEFINE done == {}
<1>10. /\ done \in SUBSET Pairs /\ done \cap spent = {}
       /\ \A p \in done : Shown(p) = "owed" /\ Shown(p)' = "delivered" /\ p \in received
       /\ \A p \in Pairs \ (done \cup spent) : Shown(p)' = Shown(p)
  BY <1>8, <1>9
<1> HIDE DEF done
<1> QED
  BY <1>5, <1>7, <1>9, <1>10, <1>11, SettleMaps

\* The prune forgets delivered rows.
LEMMA PruneMaps ==
  ASSUME TypeOK, TypeOK', PruneDelivered
  PROVE  Delivery!Next
<1> DEFINE expired == {p \in Pairs : outbox[p].status = "delivered" /\ outbox[p].old}
<1>1. \A p \in expired : outbox[p].status = "delivered" /\ outbox'[p].status = "none"
  BY DEF PruneDelivered, NoRow
<1>2. \A p \in Pairs \ expired : outbox'[p] = outbox[p]
  BY DEF PruneDelivered
<1>3. UNCHANGED received /\ Dropped' = Dropped /\ expired \in SUBSET Pairs
  BY SameDropped DEF PruneDelivered, callVars
<1> HIDE DEF expired
<1>4. \A p \in expired : Shown(p) = "delivered" /\ Shown(p)' = "absent"
  BY <1>1, <1>3, ShownByStatus
<1>5. \A p \in Pairs \ expired : Shown(p)' = Shown(p)
  BY <1>2, ShownByStatus
<1> QED
  BY <1>3, <1>4, <1>5, ForgetMaps

\* A claim turns rows that are owed into rows that are owed.
LEMMA ClaimMaps ==
  ASSUME TypeOK, TypeOK', NEW w \in Workers, ClaimBatch(w)
  PROVE  UNCHANGED Delivery!vars
<1>1. PICK batch \in SUBSET Ready(flushing[w]) :
        outbox' = [p \in Pairs |->
          IF p \in batch
          THEN [outbox[p] EXCEPT !.status = "processing", !.old = FALSE]
          ELSE outbox[p]]
  BY DEF ClaimBatch
<1>2. batch \subseteq Pairs /\ \A p \in batch : outbox[p].status \in {"pending", "retry"}
  BY DEF TypeOK, Ready
<1>3. ASSUME NEW p \in batch PROVE Shown(p)' = Shown(p)
  <2>1. outbox'[p].status = "processing"
    BY <1>1, <1>2, RowStatuses DEF TypeOK
  <2> QED
    BY <1>2, <2>1, ShownByStatus
<1>4. ASSUME NEW p \in Pairs \ batch PROVE Shown(p)' = Shown(p)
  BY <1>1, ShownByStatus
<1>5. UNCHANGED received /\ Dropped' = Dropped
  BY SameDropped DEF ClaimBatch, callVars
<1> QED
  BY <1>3, <1>4, <1>5, StutterMaps

\* The passing of time is not seen.
LEMMA TimeMaps ==
  ASSUME TypeOK, TypeOK', NEW p \in Pairs, RetryBecomesDue(p) \/ RowAges(p)
  PROVE  UNCHANGED Delivery!vars
<1>1. outbox \in [Pairs -> Row]
  BY DEF TypeOK
<1>2. \A q \in Pairs : outbox'[q].status = outbox[q].status
  BY <1>1 DEF RetryBecomesDue, RowAges, Row
<1>3. UNCHANGED received /\ Dropped' = Dropped
  BY SameDropped DEF RetryBecomesDue, RowAges, callVars
<1>4. ASSUME NEW q \in Pairs PROVE Shown(q)' = Shown(q)
  BY <1>2 DEF Shown, Undelivered, Present
<1> QED
  BY <1>3, <1>4, StutterMaps

\* Every step of the outbox, by action.
LEMMA RefinementStep ==
  ASSUME TypeOK, TypeOK', Ownership, SuccessWasReceived, Sorted, DropsCounted, [Next]_vars
  PROVE  [Delivery!Next]_(Delivery!vars)
<1> USE DEF rowVars, callVars
<1>1. ASSUME UNCHANGED <<outbox, received, dropped, uncounted, tally>>
      PROVE  UNCHANGED Delivery!vars
  BY <1>1, SameDropped, ShownByStatus, StutterMaps
<1>2. ASSUME NEW c \in Consumers, BatchInsert(c) PROVE Delivery!Next
  BY <1>2, InsertMaps
<1>3. ASSUME NEW w \in Workers, DrainStep(w)
      PROVE  Delivery!Next \/ UNCHANGED Delivery!vars
  <2>1. CASE NothingToClaim(w)
    BY <1>1, <2>1 DEF NothingToClaim
  <2>2. ASSUME NEW chunk \in SUBSET Unsent(w), SendSucceeds(w, chunk) \/ SendFails(w, chunk)
        PROVE  Delivery!Next \/ UNCHANGED Delivery!vars
    BY <2>2, ChunkMaps
  <2>3. CASE ClaimBatch(w)
    BY <2>3, ClaimMaps
  <2>4. CASE Commit(w)
    BY <2>4, CommitMaps
  <2>5. CASE CountExhausted(w)
    BY <2>5, CountMaps
  <2> QED
    BY <1>3, <2>1, <2>2, <2>3, <2>4, <2>5 DEF DrainStep
<1>4. ASSUME NEW p \in Pairs, RetryBecomesDue(p) \/ RowAges(p)
      PROVE  UNCHANGED Delivery!vars
  BY <1>4, TimeMaps
<1>5. ASSUME NEW c \in Sweepers, RecoverStaleClaims(c) PROVE Delivery!Next
  BY <1>5, RecoverMaps
<1>6. ASSUME PruneDelivered PROVE Delivery!Next
  BY <1>6, PruneMaps
<1>7. ASSUME Fault PROVE UNCHANGED Delivery!vars
  <2>1. ASSUME NEW c \in Callers, CallerFails(c) PROVE UNCHANGED Delivery!vars
    <3>1. Dropped' = Dropped /\ UNCHANGED <<outbox, received>>
      BY <2>1, TallyMoves DEF CallerFails
    <3> QED
      BY <3>1, ShownByStatus, StutterMaps
  <2>2. ASSUME NEW c \in Callers, NEW s \in Streams, QueueFlushFails(c, s)
        PROVE  UNCHANGED Delivery!vars
    BY <1>1, <2>2 DEF QueueFlushFails
  <2>3. ASSUME NEW w \in Workers, JobThrows(w) \/ WorkerCrashes(w)
        PROVE  UNCHANGED Delivery!vars
    BY <1>1, <2>3 DEF JobThrows, WorkerCrashes
  <2> QED
    BY <1>7, <2>1, <2>2, <2>3 DEF Fault
<1>8. ASSUME NEW c \in Callers, NEW s \in Streams, CallerStep(c, s)
      PROVE  UNCHANGED Delivery!vars
  BY <1>1, <1>8 DEF CallerStep, DebounceWon, DebounceLost, QueueFlush
<1>9. ASSUME NEW c \in Consumers, NEW logs \in SUBSET Logs, FindStreams(c, logs)
      PROVE  UNCHANGED Delivery!vars
  BY <1>1, <1>9 DEF FindStreams
<1>10. ASSUME NEW w \in Workers, NEW s \in Streams, StartFlush(w, s)
       PROVE  UNCHANGED Delivery!vars
  BY <1>1, <1>10 DEF StartFlush
<1>11. ASSUME NEW s \in Streams, DebounceExpires(s) \/ JobStalls(s) \/ DeleteStream(s)
       PROVE  UNCHANGED Delivery!vars
  BY <1>1, <1>11 DEF DebounceExpires, JobStalls, DeleteStream
<1>12. ASSUME NEW c \in Sweepers, CountDropped(c) \/ FindOverdueStreams(c)
       PROVE  UNCHANGED Delivery!vars
  <2>1. CASE CountDropped(c)
    <3>1. Dropped' = Dropped /\ UNCHANGED <<outbox, received>>
      BY <2>1, TallyMoves DEF CountDropped
    <3> QED
      BY <3>1, ShownByStatus, StutterMaps
  <2>2. CASE FindOverdueStreams(c)
    BY <1>1, <2>2 DEF FindOverdueStreams
  <2> QED
    BY <1>12, <2>1, <2>2
<1>13. CASE UNCHANGED vars
  BY <1>1, <1>13 DEF vars
<1> QED
  BY <1>2, <1>3, <1>4, <1>5, <1>6, <1>7, <1>8, <1>9, <1>10, <1>11, <1>12, <1>13 DEF Next

\* The empty table maps to the initial state.
LEMMA InitMaps == ASSUME Init PROVE Delivery!Init
  BY DEF Init, Delivery!Init, Undelivered, Present, NoRow, Dropped

\* The outbox implements at-least-once delivery with a dedup memory, for any
\* number of streams, logs, workers and callers, over crashes, stalls and
\* repeated fanouts, if no worker outlives the stale-claim threshold.
THEOREM RefinesDelivery == ~SlowWorkers => (Spec => ImplementsDelivery)
<1> SUFFICES ASSUME ~SlowWorkers PROVE Spec => ImplementsDelivery
  OBVIOUS
<1>1. Spec => []Ownership
  BY OwnershipHolds
<1>2. Spec => []SuccessWasReceived
  BY AccountingHolds, PTL DEF Accounting
<1>3. Init => Sorted
  BY DEF Init, Sorted
<1>4. TypeOK /\ Ownership /\ Sorted /\ [Next]_vars => Sorted'
  BY SortedStep
<1>5. Spec => []Sorted
  BY <1>1, <1>3, <1>4, TypeCorrect, PTL DEF Spec
<1>6. TypeOK /\ TypeOK' /\ Ownership /\ SuccessWasReceived /\ Sorted /\ DropsCounted
        /\ [Next]_vars => [Delivery!Next]_(Delivery!vars)
  BY RefinementStep
<1>7. Init => Delivery!Init
  BY InitMaps
<1> QED
  BY <1>1, <1>2, <1>5, <1>6, <1>7, TypeCorrect, CountedHolds, PTL
  DEF Spec, ImplementsDelivery, Delivery!Spec

-----------------------------------------------------------------------------
(* The timing of a claim.                                                  *)

\* As many waves as a batch can need end within the threshold.
WavesInTime ==
  \E waves \in Nat : ClaimSize <= waves * WaveSize /\ waves * SendTimeout <= StaleThreshold

\* A claim is as old as its waves at most: those that are done were full, the one
\* before the commit perhaps not.
AgeOfWaves(done) ==
  /\ stage = "send" =>
       /\ requests > 0 /\ requests + done * WaveSize <= ClaimSize
       /\ lockedAge <= done * SendTimeout + waveAge
  /\ stage = "commit" =>
       /\ done > 0 /\ (done - 1) * WaveSize < ClaimSize
       /\ lockedAge <= done * SendTimeout

ClaimsAge == stage \in {"send", "commit"} => \E done \in Nat : AgeOfWaves(done)

Timing == TimingTypeOK /\ ClaimsAge

\* Products of naturals grow with a factor, and by one factor at a time.
LEMMA TimesMonotone ==
  ASSUME NEW a \in Nat, NEW b \in Nat, NEW c \in Nat, a <= b
  PROVE  a * c <= b * c /\ a * c \in Nat /\ (a + 1) * c = a * c + c
  <1>1. PICK d \in Nat : b = a + d
    <2>1. b - a \in Nat /\ b = a + (b - a)  OBVIOUS
    <2>2. QED  BY <2>1
  <1>2. d * c \in Nat /\ a * c \in Nat  OBVIOUS
  <1>3. b * c = a * c + d * c  BY <1>1
  <1>4. (a + 1) * c = a * c + c  OBVIOUS
  <1>5. QED  BY <1>2, <1>3, <1>4

\* No wave is full yet when a batch is claimed.
LEMMA NoWaves ==
  ASSUME NEW n \in 1..ClaimSize
  PROVE  n + 0 * WaveSize <= ClaimSize /\ 0 <= 0 * SendTimeout + 0
  BY TimingAssumption

\* Nothing is claimed initially.
LEMMA InitTiming == TimingInit => Timing
  BY TimingAssumption DEF TimingInit, Timing, TimingTypeOK, ClaimsAge

\* Every step keeps the types.
LEMMA NextTypesTiming == TimingTypeOK /\ [TimingNext]_timingVars => TimingTypeOK'
  <1> SUFFICES ASSUME TimingTypeOK, [TimingNext]_timingVars  PROVE TimingTypeOK'
    OBVIOUS
  <1> USE TimingAssumption DEF TimingTypeOK
  <1>1. CASE TakeClaim  BY <1>1 DEF TakeClaim
  <1>2. CASE WaveSettles  BY <1>2 DEF WaveSettles, InFlight
  <1>3. CASE CommitResult  BY <1>3 DEF CommitResult
  <1>4. CASE Crash  BY <1>4 DEF Crash
  <1>5. CASE Tick
    <2>1. CASE stage = "send"  BY <1>5, <2>1 DEF Tick
    <2>2. CASE stage # "send"  BY <1>5, <2>2 DEF Tick
    <2>3. QED  BY <2>1, <2>2
  <1>6. CASE SweepClaim  BY <1>6 DEF SweepClaim
  <1>7. CASE Restart  BY <1>7 DEF Restart
  <1>8. CASE UNCHANGED timingVars  BY <1>8 DEF timingVars
  <1>9. QED  BY <1>1, <1>2, <1>3, <1>4, <1>5, <1>6, <1>7, <1>8 DEF TimingNext

\* A wave that settles is one more, or the last; time passes only within one.
LEMMA NextKeepsAge == Timing /\ [TimingNext]_timingVars => ClaimsAge'
  <1> SUFFICES ASSUME Timing, [TimingNext]_timingVars, stage' \in {"send", "commit"}
               PROVE  \E done \in Nat : AgeOfWaves(done)'
    BY DEF ClaimsAge
  <1> USE TimingAssumption
  <1>1. /\ requests \in 0..ClaimSize /\ waveAge \in 0..SendTimeout /\ lockedAge \in Nat
        /\ stage \in {"send", "commit"} => \E done \in Nat : AgeOfWaves(done)
    BY DEF Timing, TimingTypeOK, ClaimsAge
  <1>2. CASE TakeClaim
    <2>1. /\ stage' = "send" /\ requests' \in 1..ClaimSize /\ waveAge' = 0 /\ lockedAge' = 0
      BY <1>2 DEF TakeClaim
    <2>2. requests' > 0  BY <2>1
    <2>3. requests' + 0 * WaveSize <= ClaimSize /\ 0 <= 0 * SendTimeout + 0
      BY <2>1, NoWaves
    <2>4. AgeOfWaves(0)'  BY <2>1, <2>2, <2>3 DEF AgeOfWaves
    <2>5. QED  BY <2>4
  <1>3. CASE WaveSettles
    <2>1. /\ stage = "send" /\ requests' = requests - InFlight /\ waveAge' = 0
          /\ stage' = (IF requests' = 0 THEN "commit" ELSE "send") /\ lockedAge' = lockedAge
      BY <1>3 DEF WaveSettles
    <2>2. PICK done \in Nat : AgeOfWaves(done)  BY <1>1, <2>1
    <2>3. /\ requests > 0 /\ requests + done * WaveSize <= ClaimSize
          /\ lockedAge <= done * SendTimeout + waveAge
      BY <2>1, <2>2 DEF AgeOfWaves
    <2>4. /\ done * WaveSize \in Nat /\ (done + 1) * WaveSize = done * WaveSize + WaveSize
          /\ done * SendTimeout \in Nat
          /\ (done + 1) * SendTimeout = done * SendTimeout + SendTimeout
      BY TimesMonotone
    <2>5. lockedAge' <= (done + 1) * SendTimeout  BY <1>1, <2>1, <2>3, <2>4
    <2>6. CASE requests' = 0
      <3>1. (done + 1 - 1) * WaveSize < ClaimSize  BY <1>1, <2>3, <2>4
      <3>2. AgeOfWaves(done + 1)'  BY <2>1, <2>5, <2>6, <3>1 DEF AgeOfWaves
      <3>3. QED  BY <3>2
    <2>7. CASE requests' # 0
      <3>1. InFlight = WaveSize /\ requests > WaveSize
        BY <1>1, <2>1, <2>7 DEF InFlight
      <3>2. /\ requests' > 0
            /\ requests' + (done + 1) * WaveSize <= ClaimSize
        BY <1>1, <2>1, <2>3, <2>4, <3>1
      <3>3. (done + 1) * SendTimeout + waveAge' = (done + 1) * SendTimeout  BY <2>1, <2>4
      <3>4. AgeOfWaves(done + 1)'  BY <2>1, <2>5, <2>7, <3>2, <3>3 DEF AgeOfWaves
      <3>5. QED  BY <3>4
    <2>8. QED  BY <2>6, <2>7
  <1>4. CASE Tick
    <2>1. stage = "send"  BY <1>4 DEF Tick
    <2>2. /\ stage' = "send" /\ requests' = requests /\ waveAge' = waveAge + 1
          /\ lockedAge' <= lockedAge + 1 /\ lockedAge' \in Nat
      BY <1>1, <1>4, <2>1 DEF Tick
    <2>3. PICK done \in Nat : AgeOfWaves(done)  BY <1>1, <2>1
    <2>4. done * SendTimeout \in Nat  BY TimesMonotone
    <2>5. AgeOfWaves(done)'  BY <1>1, <2>1, <2>2, <2>3, <2>4 DEF AgeOfWaves
    <2>6. QED  BY <2>5
  <1>5. CASE SweepClaim
    <2>1. /\ stage' = stage /\ requests' = requests /\ waveAge' = waveAge /\ lockedAge' = 0
      BY <1>5 DEF SweepClaim
    <2>2. PICK done \in Nat : AgeOfWaves(done)  BY <1>1, <2>1
    <2>3. done * SendTimeout \in Nat  BY TimesMonotone
    <2>4. AgeOfWaves(done)'  BY <1>1, <2>1, <2>2, <2>3 DEF AgeOfWaves
    <2>5. QED  BY <2>4
  <1>6. CASE UNCHANGED timingVars
    BY <1>1, <1>6 DEF timingVars, AgeOfWaves
  <1>7. ~CommitResult /\ ~Crash /\ ~Restart  BY DEF CommitResult, Crash, Restart
  <1>8. QED  BY <1>2, <1>3, <1>4, <1>5, <1>6, <1>7 DEF TimingNext

\* A claim that a worker still sends or commits is within the threshold.
LEMMA LiveInTime ==
  ASSUME Timing, WavesInTime, stage \in {"send", "commit"}
  PROVE  lockedAge <= StaleThreshold
  <1> USE TimingAssumption
  <1>1. PICK waves \in Nat : ClaimSize <= waves * WaveSize /\ waves * SendTimeout <= StaleThreshold
    BY DEF WavesInTime
  <1>2. PICK done \in Nat : AgeOfWaves(done)  BY DEF Timing, ClaimsAge
  <1>3. waveAge \in 0..SendTimeout /\ requests \in Nat /\ lockedAge \in Nat
    BY DEF Timing, TimingTypeOK
  <1>4. PICK full \in Nat : /\ full * WaveSize < ClaimSize
                            /\ lockedAge <= full * SendTimeout + SendTimeout
    <2>1. CASE stage = "send"
      <3>1. done * WaveSize \in Nat /\ done * SendTimeout \in Nat  BY TimesMonotone
      <3>2. done * WaveSize < ClaimSize /\ lockedAge <= done * SendTimeout + SendTimeout
        BY <1>2, <1>3, <2>1, <3>1 DEF AgeOfWaves
      <3>3. QED  BY <3>2
    <2>2. CASE stage = "commit"
      <3>1. PICK d \in Nat : done = d + 1
        <4>1. done - 1 \in Nat /\ done = (done - 1) + 1  BY <1>2, <2>2 DEF AgeOfWaves
        <4>2. QED  BY <4>1
      <3>2. (d + 1) * SendTimeout = d * SendTimeout + SendTimeout  BY TimesMonotone
      <3>3. done - 1 = d  BY <3>1
      <3>4. d * WaveSize < ClaimSize /\ lockedAge <= d * SendTimeout + SendTimeout
        BY <1>2, <2>2, <3>1, <3>2, <3>3 DEF AgeOfWaves
      <3>5. QED  BY <3>4
    <2>3. QED  BY <2>1, <2>2
  <1>5. full < waves
    <2>1. SUFFICES ASSUME waves <= full  PROVE FALSE  OBVIOUS
    <2>2. waves * WaveSize <= full * WaveSize /\ waves * WaveSize \in Nat
      BY <2>1, TimesMonotone
    <2>3. full * WaveSize \in Nat  BY TimesMonotone
    <2>4. QED  BY <1>1, <1>4, <2>2, <2>3
  <1>6. (full + 1) * SendTimeout <= waves * SendTimeout
    BY <1>5, TimesMonotone
  <1>7. /\ full * SendTimeout \in Nat /\ waves * SendTimeout \in Nat
        /\ (full + 1) * SendTimeout = full * SendTimeout + SendTimeout
    BY TimesMonotone
  <1>8. QED  BY <1>1, <1>3, <1>4, <1>6, <1>7

\* STALE_CLAIM_THRESHOLD_MS says that "anything older" cannot be a live worker: that
\* is so of any batch size, wave size, timeout and threshold such that the waves of a
\* full batch, each as long as its timeout, end within the threshold.
THEOREM StaleIsDead == WavesInTime => (TimingSpec => []StaleClaimIsDead)
  <1> SUFFICES ASSUME WavesInTime  PROVE TimingSpec => []StaleClaimIsDead
    OBVIOUS
  <1>1. Timing /\ [TimingNext]_timingVars => Timing'
    BY NextTypesTiming, NextKeepsAge DEF Timing
  <1>2. Timing => StaleClaimIsDead
    <2>1. SUFFICES ASSUME Timing, Stale, stage \in {"send", "commit"}  PROVE FALSE
      BY DEF StaleClaimIsDead
    <2>2. lockedAge <= StaleThreshold  BY <2>1, LiveInTime
    <2>3. QED  BY <2>1, <2>2, TimingAssumption DEF Timing, TimingTypeOK, Stale
  <1>3. QED  BY InitTiming, <1>1, <1>2, PTL DEF TimingSpec

\* Whatever its constants, a worker that claims, sends and commits keeps its types.
THEOREM TimingTypeCorrect == TimingSpec => []TimingTypeOK
  <1>1. TimingInit => TimingTypeOK  BY InitTiming DEF Timing
  <1>2. QED  BY <1>1, NextTypesTiming, PTL DEF TimingSpec
=============================================================================
