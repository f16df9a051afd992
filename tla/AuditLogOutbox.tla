--------------------------- MODULE AuditLogOutbox ---------------------------
(***************************************************************************)
(* The transactional outbox that carries audit logs to the log streams of  *)
(* an organization: ee/services/audit-log-stream-outbox.                   *)
(*                                                                         *)
(* The ingest consumer fans a drained batch of logs out to one outbox row  *)
(* per (stream, log) and wakes a flush job per stream behind a debounce    *)
(* key.  Queue workers claim rows, send them and commit the outcome.  A    *)
(* cron sweeper recovers the claims of dead workers and wakes streams that *)
(* have overdue rows; another prunes the delivered rows.                   *)
(*                                                                         *)
(* Time is abstract: a row is `due' once its nextRetryAt has passed, `old' *)
(* once its lockedAt (processing) or updatedAt (delivered) is past the     *)
(* stale-claim threshold or the retention.                                 *)
(***************************************************************************)
EXTENDS Naturals, FiniteSets

CONSTANTS
  Streams,      \* ids of audit log streams
  Logs,         \* ids of audit logs
  Matches,      \* the (stream, log) pairs the product filters let through
  Deletable,    \* streams a user may delete
  Workers,      \* slots of the outbox queue's workers, over all pods
  NoWorker,     \* the owner of a job that is not active
  Consumers,    \* ingest consumers, the callers of enqueueForLogs
  Sweepers,     \* runs of the stale-claim sweeper
  MaxAttempts,  \* MAX_ATTEMPTS
  BatchSize,    \* BATCH_SIZE
  MaxBatches,   \* MAX_BATCHES_PER_JOB
  SlowWorkers,  \* may a live worker hold a claim beyond the stale threshold?
  MaxInserts,   \* bound: times a (stream, log) is inserted
  MaxFaults     \* bound: crashes, failed calls and false stalls

ASSUME OutboxAssumption ==
  /\ Matches \subseteq Streams \X Logs
  /\ Deletable \subseteq Streams
  /\ NoWorker \notin Workers
  /\ Consumers \cap Sweepers = {}
  /\ MaxAttempts \in Nat \ {0}
  /\ BatchSize \in Nat \ {0}
  /\ MaxBatches \in Nat \ {0}
  /\ SlowWorkers \in BOOLEAN
  /\ MaxInserts \in Nat
  /\ MaxFaults \in Nat

VARIABLES
  streams,    \* the stream rows that exist
  outbox,     \* the outbox table, by its unique key (streamId, auditLogId)
  debounce,   \* streams whose debounce key is set in Redis
  delayed,    \* streams whose flush job is delayed
  waiting,    \* streams whose flush job can be picked up
  active,     \* the worker that owns the active flush job of a stream
  plan,       \* rows a consumer has decided to insert
  wake,       \* streams a caller has still to debounce
  won,        \* streams whose debounce key a caller won, flush not queued yet
  sweeping,   \* sweepers between recovery and the overdue query
  tally,      \* rows a sweeper has deleted and has still to count
  pc,         \* where a worker is in drainStream
  flushing,   \* the stream a worker drains
  batchIdx,   \* claims the worker's job has done
  claimed,    \* rows the worker claimed, as it read them
  success,    \* streamSuccess
  fail,       \* streamFail
  received,   \* history: pairs the provider has received
  accepted,   \* history: pairs for which a row was inserted
  dropped,    \* history: pairs counted as exhausted
  uncounted,  \* history: pairs whose sweeper failed before it counted them
  faults      \* faults so far

rowVars == <<outbox, received, accepted, dropped, uncounted>>
jobVars == <<debounce, delayed, waiting, active>>
callVars == <<plan, wake, won, sweeping, tally>>
workVars == <<pc, flushing, batchIdx, claimed, success, fail>>
vars == <<streams, rowVars, jobVars, callVars, workVars, faults>>

Pairs == Streams \X Logs
Callers == Consumers \cup Sweepers

\* A row of the table; "none" stands for its absence, id for its bigserial key.
Row == [status : {"none", "pending", "processing", "retry", "delivered"},
        attempts : Nat, due : BOOLEAN, old : BOOLEAN, id : Nat]

\* What a worker keeps of a row it claimed (RETURNING * of the claim).
Claim == [pair : Pairs, id : Nat, attempts : Nat]

\* Mutant of NoRow: an exhausted row is kept under a status of its own.
NoRow_Flagged(id) == [status |-> "exhausted", attempts |-> 0, due |-> FALSE,
                      old |-> FALSE, id |-> id]

NoRow(id) == [status |-> "none", attempts |-> 0, due |-> FALSE,
              old |-> FALSE, id |-> id]

Present(p) == outbox[p].status # "none"

\* Mutant of Ready: the claim query forgets to exclude processing rows.
Ready_AnyStatus(s) == {p \in {s} \X Logs :
  outbox[p].status \in {"pending", "retry", "processing"} /\ outbox[p].due}

\* Rows the claim query and the overdue query select.
Ready(s) == {p \in {s} \X Logs : outbox[p].status \in {"pending", "retry"}
                                 /\ outbox[p].due}

\* Mutants of Exhausted: one attempt too many, one too few.
Exhausted_Late(attempts) == attempts >= MaxAttempts
Exhausted_Early(attempts) == attempts + 2 >= MaxAttempts

Exhausted(attempts) == attempts + 1 >= MaxAttempts

Init ==
  /\ streams = Streams
  /\ outbox = [p \in Pairs |-> NoRow(0)]
  /\ debounce = {}
  /\ delayed = {}
  /\ waiting = {}
  /\ active = [s \in Streams |-> NoWorker]
  /\ plan = [c \in Callers |-> {}]
  /\ wake = [c \in Callers |-> {}]
  /\ won = [c \in Callers |-> {}]
  /\ sweeping = {}
  /\ tally = [c \in Callers |-> {}]
  /\ pc = [w \in Workers |-> "idle"]
  /\ flushing \in [Workers -> Streams]
  /\ batchIdx = [w \in Workers |-> 0]
  /\ claimed = [w \in Workers |-> {}]
  /\ success = [w \in Workers |-> {}]
  /\ fail = [w \in Workers |-> {}]
  /\ received = {}
  /\ accepted = {}
  /\ dropped = {}
  /\ uncounted = {}
  /\ faults = 0

-----------------------------------------------------------------------------
(* Fanout: enqueueForLogs, called by the ingest consumer.                  *)

Free(c) == plan[c] = {} /\ wake[c] = {} /\ won[c] = {} /\ c \notin sweeping

\* The streams of the batch's orgs are looked up and filtered; the rows are
\* inserted only after that await, so the lookup can be stale by then.
FindStreams(c, logs) ==
  LET rows == Matches \cap (streams \X logs) IN
  /\ Free(c)
  /\ rows # {}
  /\ \A p \in rows : outbox[p].id < MaxInserts
  /\ plan' = [plan EXCEPT ![c] = rows]
  /\ UNCHANGED <<streams, rowVars, jobVars, wake, won, sweeping, tally, workVars, faults>>

\* Mutant of Fresh: ON CONFLICT ... MERGE, the fanout resets rows that exist.
Fresh_Merge(rows) == rows

Fresh(rows) == {p \in rows : ~Present(p)}

\* INSERT ... ON CONFLICT DO NOTHING, then the touched streams are to be woken.
BatchInsert(c) ==
  /\ plan[c] # {}
  /\ outbox' = [p \in Pairs |->
       IF p \in Fresh(plan[c])
       THEN [status |-> "pending", attempts |-> 0, due |-> TRUE, old |-> FALSE,
             id |-> outbox[p].id + 1]
       ELSE outbox[p]]
  /\ accepted' = accepted \cup plan[c]
  /\ wake' = [wake EXCEPT ![c] = {p[1] : p \in plan[c]}]
  /\ plan' = [plan EXCEPT ![c] = {}]
  /\ UNCHANGED <<streams, received, dropped, uncounted, jobVars, won, sweeping, tally,
                 workVars, faults>>

-----------------------------------------------------------------------------
(* debounceAndEnqueueFlush: SETNX with a TTL, then the delayed flush job.  *)

DebounceWon(c, s) ==
  /\ s \in wake[c]
  /\ s \notin debounce
  /\ debounce' = debounce \cup {s}
  /\ wake' = [wake EXCEPT ![c] = @ \ {s}]
  /\ won' = [won EXCEPT ![c] = @ \cup {s}]
  /\ UNCHANGED <<streams, rowVars, delayed, waiting, active, plan, sweeping, tally, workVars,
                 faults>>

DebounceLost(c, s) ==
  /\ s \in wake[c]
  /\ s \in debounce
  /\ wake' = [wake EXCEPT ![c] = @ \ {s}]
  /\ UNCHANGED <<streams, rowVars, jobVars, plan, won, sweeping, tally, workVars, faults>>

JobExists(s) == s \in delayed \cup waiting \/ active[s] # NoWorker

\* BullMQ ignores an add whose jobId belongs to a job that still exists.  The
\* delay equals the TTL of the key set just before, so it ends after the key.
QueueFlush(c, s) ==
  /\ s \in won[c]
  /\ won' = [won EXCEPT ![c] = @ \ {s}]
  /\ IF JobExists(s) THEN UNCHANGED <<delayed, waiting>>
     ELSE IF s \in debounce
     THEN delayed' = delayed \cup {s} /\ UNCHANGED waiting
     ELSE waiting' = waiting \cup {s} /\ UNCHANGED delayed
  /\ UNCHANGED <<streams, rowVars, debounce, active, plan, wake, sweeping, tally, workVars,
                 faults>>

\* A failed add is logged and swallowed; the debounce key stays.
QueueFlushFails(c, s) ==
  /\ s \in won[c]
  /\ faults < MaxFaults
  /\ faults' = faults + 1
  /\ won' = [won EXCEPT ![c] = @ \ {s}]
  /\ UNCHANGED <<streams, rowVars, jobVars, plan, wake, sweeping, tally, workVars>>

\* The caller's pod dies, or its current call (insert, recovery, query) throws: a
\* recovery that throws may have been committed, and what it deleted is not counted.
CallerFails(c) ==
  /\ ~Free(c)
  /\ faults < MaxFaults
  /\ faults' = faults + 1
  /\ plan' = [plan EXCEPT ![c] = {}]
  /\ wake' = [wake EXCEPT ![c] = {}]
  /\ won' = [won EXCEPT ![c] = {}]
  /\ sweeping' = sweeping \ {c}
  /\ tally' = [tally EXCEPT ![c] = {}]
  /\ uncounted' = uncounted \cup tally[c]
  /\ UNCHANGED <<streams, outbox, received, accepted, dropped, jobVars, workVars>>

DebounceExpires(s) ==
  /\ s \in debounce
  /\ debounce' = debounce \ {s}
  /\ delayed' = delayed \ {s}
  /\ waiting' = waiting \cup (delayed \cap {s})
  /\ UNCHANGED <<streams, rowVars, active, callVars, workVars, faults>>

-----------------------------------------------------------------------------
(* The worker: drainStream.                                                *)

\* The worker leaves drainStream; its job is removed if it still owns it.
Leave(w) ==
  /\ pc' = [pc EXCEPT ![w] = "idle"]
  /\ claimed' = [claimed EXCEPT ![w] = {}]
  /\ success' = [success EXCEPT ![w] = {}]
  /\ fail' = [fail EXCEPT ![w] = {}]
  /\ batchIdx' = [batchIdx EXCEPT ![w] = 0]
  /\ UNCHANGED flushing

JobDone(w) ==
  active' = [s \in Streams |->
    IF s = flushing[w] /\ active[s] = w THEN NoWorker ELSE active[s]]

StartFlush(w, s) ==
  /\ pc[w] = "idle"
  /\ s \in waiting
  /\ waiting' = waiting \ {s}
  /\ IF s \in streams
       THEN /\ active' = [active EXCEPT ![s] = w]
            /\ pc' = [pc EXCEPT ![w] = "claim"]
            /\ flushing' = [flushing EXCEPT ![w] = s]
       ELSE UNCHANGED <<active, pc, flushing>>
  /\ UNCHANGED <<streams, rowVars, debounce, delayed, callVars, batchIdx, claimed, success,
                 fail, faults>>

\* FOR UPDATE SKIP LOCKED: no two claims overlap, so the claim is one step.
ClaimBatch(w) ==
  LET ready == Ready(flushing[w]) IN
  /\ pc[w] = "claim"
  /\ \E batch \in SUBSET ready :
       /\ batch # {}
       /\ Cardinality(batch) = BatchSize \/ (batch = ready /\ Cardinality(batch) < BatchSize)
       /\ outbox' = [p \in Pairs |->
            IF p \in batch
            THEN [outbox[p] EXCEPT !.status = "processing", !.old = FALSE]
            ELSE outbox[p]]
       /\ claimed' = [claimed EXCEPT ![w] =
            {[pair |-> p, id |-> outbox[p].id, attempts |-> outbox[p].attempts] : p \in batch}]
  /\ pc' = [pc EXCEPT ![w] = "send"]
  /\ UNCHANGED <<streams, received, accepted, dropped, uncounted, jobVars, callVars, flushing,
                 batchIdx, success, fail, faults>>

NothingToClaim(w) ==
  /\ pc[w] = "claim"
  /\ Ready(flushing[w]) = {}
  /\ Leave(w)
  /\ JobDone(w)
  /\ UNCHANGED <<streams, rowVars, debounce, delayed, waiting, callVars, faults>>

Unsent(w) == claimed[w] \ (success[w] \cup fail[w])
PairsOf(claims) == {c.pair : c \in claims}

SendSucceeds(w, chunk) ==
  /\ pc[w] = "send"
  /\ chunk \subseteq Unsent(w)
  /\ success' = [success EXCEPT ![w] = @ \cup chunk]
  /\ received' = received \cup PairsOf(chunk)
  /\ UNCHANGED <<streams, outbox, accepted, dropped, uncounted, jobVars, callVars, pc,
                 flushing, batchIdx, claimed, fail, faults>>

\* A send that fails may have reached the provider (a timeout).
SendFails(w, chunk) ==
  /\ pc[w] = "send"
  /\ chunk \subseteq Unsent(w)
  /\ fail' = [fail EXCEPT ![w] = @ \cup chunk]
  /\ \E reached \in {{}, PairsOf(chunk)} : received' = received \cup reached
  /\ UNCHANGED <<streams, outbox, accepted, dropped, uncounted, jobVars, callVars, pc,
                 flushing, batchIdx, claimed, success, faults>>

\* Mutants of Settled: the whole batch is marked delivered; a failed row is
\* deleted at its first failure.
Settled_AllDelivered(w, c, row) == [row EXCEPT !.status = "delivered", !.old = FALSE]
Settled_DropsFailed(w, c, row) ==
  IF c \in success[w] THEN [row EXCEPT !.status = "delivered", !.old = FALSE]
  ELSE NoRow(row.id)

\* What commitDeliveryResult does to the row of a claim.  It selects by id
\* only: neither the status nor lockedAt of the row is looked at.
Settled(w, c, row) ==
  IF c \in success[w] THEN [row EXCEPT !.status = "delivered", !.old = FALSE]
  ELSE IF Exhausted(c.attempts) THEN NoRow(row.id)
  ELSE [row EXCEPT !.status = "retry", !.attempts = @ + 1, !.due = FALSE, !.old = FALSE]

ClaimOf(w, p) ==
  {c \in claimed[w] : c.pair = p /\ c.id = outbox[p].id /\ Present(p)}

\* The worker counts what it is about to drop, before it commits anything.
CountExhausted(w) ==
  /\ pc[w] = "send"
  /\ Unsent(w) = {}
  /\ pc' = [pc EXCEPT ![w] = "commit"]
  /\ dropped' = dropped \cup PairsOf({c \in fail[w] : Exhausted(c.attempts)})
  /\ UNCHANGED <<streams, outbox, received, accepted, uncounted, jobVars, callVars,
                 flushing, batchIdx, claimed, success, fail, faults>>

\* One transaction for the batch, then the next batch unless a chunk failed.
Commit(w) ==
  /\ pc[w] = "commit"
  /\ outbox' = [p \in Pairs |->
       IF ClaimOf(w, p) = {} THEN outbox[p]
       ELSE Settled(w, CHOOSE c \in ClaimOf(w, p) : TRUE, outbox[p])]
  /\ IF fail[w] = {} /\ batchIdx[w] + 1 < MaxBatches
       THEN /\ pc' = [pc EXCEPT ![w] = "claim"]
            /\ batchIdx' = [batchIdx EXCEPT ![w] = @ + 1]
            /\ claimed' = [claimed EXCEPT ![w] = {}]
            /\ success' = [success EXCEPT ![w] = {}]
            /\ fail' = [fail EXCEPT ![w] = {}]
            /\ UNCHANGED <<flushing, active>>
       ELSE Leave(w) /\ JobDone(w)
  /\ UNCHANGED <<streams, received, accepted, dropped, uncounted, debounce, delayed, waiting,
                 callVars, faults>>

\* A claim or commit transaction throws: the job fails and is removed.
JobThrows(w) ==
  /\ pc[w] \in {"claim", "commit"}
  /\ faults < MaxFaults
  /\ faults' = faults + 1
  /\ Leave(w)
  /\ JobDone(w)
  /\ UNCHANGED <<streams, rowVars, debounce, delayed, waiting, callVars>>

\* The pod dies: what the worker knew is gone, its job stays active.
WorkerCrashes(w) ==
  /\ pc[w] # "idle"
  /\ faults < MaxFaults
  /\ faults' = faults + 1
  /\ Leave(w)
  /\ UNCHANGED <<streams, rowVars, jobVars, callVars>>

Running(w, s) == pc[w] # "idle" /\ flushing[w] = s

\* BullMQ finds the lock of an active job expired: the job waits again, or
\* fails once it stalled too often.  A blocked event loop does this to a
\* worker that is still alive, which then keeps draining beside the new one.
JobStalls(s) ==
  /\ active[s] # NoWorker
  /\ IF Running(active[s], s)
       THEN faults < MaxFaults /\ faults' = faults + 1
       ELSE UNCHANGED faults
  /\ active' = [active EXCEPT ![s] = NoWorker]
  /\ waiting' \in {waiting, waiting \cup {s}}
  /\ UNCHANGED <<streams, rowVars, debounce, delayed, callVars, workVars>>

-----------------------------------------------------------------------------
(* Time, the two crons, and the deletion of a stream.                      *)

RetryBecomesDue(p) ==
  /\ outbox[p].status = "retry"
  /\ ~outbox[p].due
  /\ outbox' = [outbox EXCEPT ![p].due = TRUE]
  /\ UNCHANGED <<streams, received, accepted, dropped, uncounted, jobVars, callVars, workVars, faults>>

\* A live worker holds the row under the claim that is in the table.
Held(p) == \E w \in Workers : \E c \in claimed[w] :
             c.pair = p /\ c.id = outbox[p].id

RowAges(p) ==
  /\ \/ outbox[p].status = "processing" /\ (SlowWorkers \/ ~Held(p))
     \/ outbox[p].status = "delivered"
  /\ ~outbox[p].old
  /\ outbox' = [outbox EXCEPT ![p].old = TRUE]
  /\ UNCHANGED <<streams, received, accepted, dropped, uncounted, jobVars, callVars, workVars, faults>>

StaleClaims == {p \in Pairs : outbox[p].status = "processing" /\ outbox[p].old}

\* recoverStaleClaims: a stale claim is a consumed attempt.  What its transaction
\* deletes is counted by its caller, sweepStaleClaims, once it is committed.
RecoverStaleClaims(c) ==
  LET stale == StaleClaims
      spent == {p \in stale : Exhausted(outbox[p].attempts)} IN
  /\ Free(c)
  /\ outbox' = [p \in Pairs |->
       IF p \in spent THEN NoRow(outbox[p].id)
       ELSE IF p \in stale
       THEN [outbox[p] EXCEPT !.status = "retry", !.attempts = @ + 1,
                              !.due = TRUE, !.old = FALSE]
       ELSE outbox[p]]
  /\ tally' = [tally EXCEPT ![c] = @ \cup spent]
  /\ sweeping' = sweeping \cup {c}
  /\ UNCHANGED <<streams, received, accepted, dropped, uncounted, jobVars, plan, wake, won,
                 workVars, faults>>

CountDropped(c) ==
  /\ tally[c] # {}
  /\ dropped' = dropped \cup tally[c]
  /\ tally' = [tally EXCEPT ![c] = {}]
  /\ UNCHANGED <<streams, outbox, received, accepted, uncounted, jobVars, plan, wake, won,
                 sweeping, workVars, faults>>

\* Mutant of Overdue: the query looks for pending rows only.
Overdue_PendingOnly ==
  {s \in streams : \E p \in Ready(s) : outbox[p].status = "pending"}

Overdue == {s \in streams : Ready(s) # {}}

FindOverdueStreams(c) ==
  /\ c \in sweeping
  /\ tally[c] = {}
  /\ sweeping' = sweeping \ {c}
  /\ wake' = [wake EXCEPT ![c] = Overdue]
  /\ UNCHANGED <<streams, rowVars, jobVars, plan, won, tally, workVars, faults>>

PruneDelivered ==
  LET expired == {p \in Pairs : outbox[p].status = "delivered" /\ outbox[p].old} IN
  /\ expired # {}
  /\ outbox' = [p \in Pairs |-> IF p \in expired THEN NoRow(outbox[p].id) ELSE outbox[p]]
  /\ UNCHANGED <<streams, received, accepted, dropped, uncounted, jobVars, callVars, workVars, faults>>

\* The stream's row goes; its outbox rows have no foreign key and stay.
DeleteStream(s) ==
  /\ s \in streams \cap Deletable
  /\ streams' = streams \ {s}
  /\ UNCHANGED <<rowVars, jobVars, callVars, workVars, faults>>

-----------------------------------------------------------------------------
CallerStep(c, s) ==
  \/ DebounceWon(c, s)
  \/ DebounceLost(c, s)
  \/ QueueFlush(c, s)

DrainStep(w) ==
  \/ ClaimBatch(w)
  \/ NothingToClaim(w)
  \/ \E chunk \in SUBSET Unsent(w) \ {{}} : SendSucceeds(w, chunk) \/ SendFails(w, chunk)
  \/ CountExhausted(w)
  \/ Commit(w)

Fault ==
  \/ \E c \in Callers : CallerFails(c) \/ \E s \in Streams : QueueFlushFails(c, s)
  \/ \E w \in Workers : JobThrows(w) \/ WorkerCrashes(w)

Next ==
  \/ \E c \in Consumers :
       BatchInsert(c) \/ \E logs \in SUBSET Logs : FindStreams(c, logs)
  \/ \E c \in Callers, s \in Streams : CallerStep(c, s)
  \/ \E w \in Workers : DrainStep(w) \/ \E s \in Streams : StartFlush(w, s)
  \/ \E s \in Streams : DebounceExpires(s) \/ JobStalls(s) \/ DeleteStream(s)
  \/ \E p \in Pairs : RetryBecomesDue(p) \/ RowAges(p)
  \/ \E c \in Sweepers : RecoverStaleClaims(c) \/ CountDropped(c) \/ FindOverdueStreams(c)
  \/ PruneDelivered
  \/ Fault

Spec == Init /\ [][Next]_vars

\* Redis expiry, timers, BullMQ's stall check, the crons and the workers all
\* go on; no fault, no stream deletion and no new fanout is ever forced.
Fairness ==
  /\ \A c \in Consumers : WF_vars(BatchInsert(c))
  /\ \A c \in Callers, s \in Streams : WF_vars(CallerStep(c, s))
  /\ \A w \in Workers : WF_vars(DrainStep(w))
  /\ \A s \in Streams : /\ WF_vars(\E w \in Workers : StartFlush(w, s))
                        /\ WF_vars(DebounceExpires(s))
                        /\ WF_vars(JobStalls(s) /\ faults' = faults)
  /\ \A p \in Pairs : WF_vars(RetryBecomesDue(p)) /\ WF_vars(RowAges(p) /\ ~Held(p))
  /\ \A c \in Sweepers : /\ WF_vars(RecoverStaleClaims(c))
                         /\ WF_vars(CountDropped(c))
                         /\ WF_vars(FindOverdueStreams(c))

FairSpec == Spec /\ Fairness

-----------------------------------------------------------------------------
(* Properties.                                                             *)

\* Every variable keeps the type its column, key or local variable has.
TypeOK ==
  /\ streams \subseteq Streams
  /\ outbox \in [Pairs -> Row]
  /\ debounce \subseteq Streams
  /\ delayed \subseteq Streams
  /\ waiting \subseteq Streams
  /\ active \in [Streams -> Workers \cup {NoWorker}]
  /\ plan \in [Callers -> SUBSET Pairs]
  /\ wake \in [Callers -> SUBSET Streams]
  /\ won \in [Callers -> SUBSET Streams]
  /\ sweeping \subseteq Sweepers
  /\ tally \in [Callers -> SUBSET Pairs]
  /\ pc \in [Workers -> {"idle", "claim", "send", "commit"}]
  /\ flushing \in [Workers -> Streams]
  /\ batchIdx \in [Workers -> Nat]
  /\ claimed \in [Workers -> SUBSET Claim]
  /\ success \in [Workers -> SUBSET Claim]
  /\ fail \in [Workers -> SUBSET Claim]
  /\ received \subseteq Pairs
  /\ accepted \subseteq Pairs
  /\ dropped \subseteq Pairs
  /\ uncounted \subseteq Pairs
  /\ faults \in Nat

\* A row is flagged delivered only if the provider has received its event,
\* whatever crashes, stalls and late commits happened in between.
DeliveredWasReceived ==
  \A p \in Pairs : outbox[p].status = "delivered" => p \in received

\* Every pair that is counted as dropped, is about to be, or was to be counted by a
\* sweeper that failed after its deletions were committed.
Dropped == dropped \cup uncounted \cup UNION {tally[c] : c \in Callers}

\* No event that reached the outbox vanishes silently: it still has a row, or the
\* provider received it, or it was counted as dropped, or a sweeper that deleted its
\* row has it in hand to count it.  The exception is uncounted: the sweeper deletes in
\* a transaction and counts after it, so what it deleted goes uncounted if it dies, or
\* is not told that the transaction was committed, in between.
NothingVanishes ==
  \A p \in accepted : Present(p) \/ p \in received \/ p \in Dropped

\* No two workers ever deliver the same row at the same time: what the
\* comment on the sweeper promises of concurrent workers.
ClaimsExclusive ==
  \A v, w \in Workers : v # w =>
    \A c \in claimed[v], d \in claimed[w] : c.pair # d.pair

\* No row survives in the table with its attempts used up.
AttemptsBounded == \A p \in Pairs : outbox[p].attempts < MaxAttempts

\* A delivered row is the guard against a second fanout: it never goes back
\* to a deliverable status, it is only pruned.
DeliveredIsFinal ==
  [][\A p \in Pairs : outbox[p].status = "delivered" =>
       outbox'[p].status \in {"delivered", "none"}]_vars

\* A row that was not delivered leaves the table only when the table itself
\* says its attempts are used up, even if the worker's copy of it is stale.
NoEarlyDrop ==
  [][\A p \in Pairs :
       /\ outbox[p].status \in {"pending", "processing", "retry"}
       /\ outbox'[p].status = "none"
       => outbox[p].attempts + 1 >= MaxAttempts]_vars

Undelivered(p) == outbox[p].status \in {"pending", "processing", "retry"}

\* An undelivered row of a stream that exists is delivered or dropped in the
\* end: crashes, lost wake-ups and failed sends leave none stuck.
EveryRowSettles ==
  \A p \in Pairs : Undelivered(p) ~> ~Undelivered(p) \/ p[1] \notin streams

\* The outbox implements at-least-once delivery with a dedup memory.
Delivery == INSTANCE AtLeastOnceDelivery WITH
  Events <- Pairs,
  state <- [p \in Pairs |-> IF Undelivered(p) THEN "owed"
                            ELSE IF Present(p) THEN "delivered" ELSE "absent"],
  dropped <- Dropped

\* Refinement: every step of the outbox, its crashes, late answers and repeated
\* fanouts included, is a step of AtLeastOnceDelivery or changes nothing it shows.
ImplementsDelivery == Delivery!Spec
=============================================================================
