--------------------------- MODULE AuditLogIngest ---------------------------
(***************************************************************************)
(* The ingest stream of audit logs: ee/services/audit-log/audit-log-queue. *)
(*                                                                         *)
(* Requests append their log to a Redis stream.  Every few seconds a       *)
(* scheduled consumer takes a non-blocking lock with a TTL, collects a     *)
(* prefix of the stream page by page, inserts it, fans it out to the       *)
(* stream outbox and trims it.  A consumer that outlives its lock keeps    *)
(* going beside its successor, so consumers overlap.                       *)
(*                                                                         *)
(* Entries are numbered in the order Redis appends them.                   *)
(***************************************************************************)
EXTENDS Naturals, FiniteSets, FiniteSetsExt

CONSTANTS
  Consumers,       \* runs of consumeAuditLogStream, one per pod
  Nobody,          \* the holder of a lock that is free
  PageSize,        \* AUDIT_LOG_STREAM_BATCH_SIZE
  MaxEntries,      \* AUDIT_LOG_STREAM_MAX_ENTRIES
  MaxLen,          \* the stream's MAXLEN
  StreamsEnabled,  \* AUDIT_LOG_STREAMS_ENABLED
  MaxPushes,       \* bound: logs pushed
  MaxFaults        \* bound: failed calls and crashes

ASSUME IngestAssumption ==
  /\ Nobody \notin Consumers
  /\ PageSize \in Nat \ {0}
  /\ MaxEntries \in Nat \ {0}
  /\ MaxLen \in Nat \ {0}
  /\ StreamsEnabled \in BOOLEAN
  /\ MaxPushes \in Nat
  /\ MaxFaults \in Nat

VARIABLES
  stream,     \* entries in the Redis stream
  pushed,     \* number of entries ever appended
  corrupt,    \* entries that do not parse, or lack orgId or expiresAt
  evicted,    \* entries the MAXLEN cap removed
  persisted,  \* logs in the audit log table
  fanned,     \* logs enqueueForLogs has taken
  lock,       \* holder of the consumer lock
  pc,         \* where a consumer is
  batch,      \* entries a consumer has collected
  overrun,    \* history: running consumers whose lock expired
  faults      \* faults so far

vars == <<stream, pushed, corrupt, evicted, persisted, fanned, lock, pc, batch, overrun,
          faults>>

Entries == 1..MaxPushes

Init ==
  /\ stream = {}
  /\ pushed = 0
  /\ corrupt = {}
  /\ evicted = {}
  /\ persisted = {}
  /\ fanned = {}
  /\ lock = Nobody
  /\ pc = [c \in Consumers |-> "idle"]
  /\ batch = [c \in Consumers |-> {}]
  /\ overrun = {}
  /\ faults = 0

-----------------------------------------------------------------------------
(* The request path.                                                       *)

\* XADD MAXLEN ~: the cap is approximate, so it evicts the oldest entries or
\* lets the stream grow, but never leaves fewer entries than the cap.
Push(bad) ==
  LET i == pushed + 1
      all == stream \cup {i} IN
  /\ pushed < MaxPushes
  /\ pushed' = i
  /\ corrupt' = IF bad THEN corrupt \cup {i} ELSE corrupt
  /\ \E oldest \in 0..pushed :
       LET cut == {e \in all : e <= oldest} IN
       /\ cut = {} \/ Cardinality(all \ cut) >= MaxLen
       /\ stream' = all \ cut
       /\ evicted' = evicted \cup cut
  /\ UNCHANGED <<persisted, fanned, lock, pc, batch, overrun, faults>>

-----------------------------------------------------------------------------
(* consumeAuditLogStream: the lock around a drain.                         *)

Goto(c, label) == pc' = [pc EXCEPT ![c] = label]

\* A tick that finds the lock held is skipped.
AcquireLock(c) ==
  /\ pc[c] = "idle"
  /\ lock = Nobody
  /\ lock' = c
  /\ Goto(c, "collect")
  /\ UNCHANGED <<stream, pushed, corrupt, evicted, persisted, fanned, batch, overrun,
                 faults>>

\* The TTL ends, under a live consumer or a dead one.
LockExpires ==
  /\ lock # Nobody
  /\ overrun' = IF pc[lock] = "idle" THEN overrun ELSE overrun \cup {lock}
  /\ lock' = Nobody
  /\ UNCHANGED <<stream, pushed, corrupt, evicted, persisted, fanned, pc, batch, faults>>

\* Mutant of Released: the release deletes the key without comparing tokens.
Released_AnyHolder(c) == Nobody

\* What the fencing token leaves of the lock when c deletes it.
Released(c) == IF lock = c THEN Nobody ELSE lock

\* finally { lock.release() }
ReleaseLock(c) ==
  /\ pc[c] = "release"
  /\ lock' = Released(c)
  /\ overrun' = overrun \ {c}
  /\ batch' = [batch EXCEPT ![c] = {}]
  /\ Goto(c, "idle")
  /\ UNCHANGED <<stream, pushed, corrupt, evicted, persisted, fanned, faults>>

\* The pod dies; its lock stays until it expires.  A dead run has no token
\* left, so the run that later reuses the slot waits for the expiry.
Crash(c) ==
  /\ pc[c] # "idle"
  /\ faults < MaxFaults
  /\ faults' = faults + 1
  /\ overrun' = overrun \ {c}
  /\ batch' = [batch EXCEPT ![c] = {}]
  /\ Goto(c, "idle")
  /\ UNCHANGED <<stream, pushed, corrupt, evicted, persisted, fanned, lock>>

-----------------------------------------------------------------------------
(* drainAuditLogStream.                                                    *)

LastId(c) == IF batch[c] = {} THEN 0 ELSE Max(batch[c])

\* Mutant of Page: the next page starts at the last id instead of after it.
Page_Inclusive(c) ==
  LET rest == {e \in stream : e >= LastId(c)} IN
  {e \in rest : Cardinality({d \in rest : d < e}) < PageSize}

\* XRANGE from just after the last id collected, at most PageSize entries.
Page(c) ==
  LET rest == {e \in stream : e > LastId(c)} IN
  {e \in rest : Cardinality({d \in rest : d < e}) < PageSize}

\* The pages are separate calls: entries may come and go between them.
CollectPage(c) ==
  LET page == Page(c) IN
  /\ pc[c] = "collect"
  /\ batch' = [batch EXCEPT ![c] = @ \cup page]
  /\ IF Cardinality(page) = PageSize /\ Cardinality(batch'[c]) < MaxEntries
       THEN UNCHANGED pc
       ELSE Goto(c, IF batch'[c] = {} THEN "release" ELSE "insert")
  /\ UNCHANGED <<stream, pushed, corrupt, evicted, persisted, fanned, lock, overrun, faults>>

\* Entries that parse and carry their metadata.
Enriched(c) == batch[c] \ corrupt

\* insertBatch is idempotent on the id.  A batch with nothing left is trimmed.
Insert(c) ==
  /\ pc[c] = "insert"
  /\ persisted' = persisted \cup Enriched(c)
  /\ Goto(c, IF StreamsEnabled /\ Enriched(c) # {} THEN "fanout" ELSE "trim")
  /\ UNCHANGED <<stream, pushed, corrupt, evicted, fanned, lock, batch, overrun, faults>>

Fanout(c) ==
  /\ pc[c] = "fanout"
  /\ fanned' = fanned \cup Enriched(c)
  /\ Goto(c, "trim")
  /\ UNCHANGED <<stream, pushed, corrupt, evicted, persisted, lock, batch, overrun, faults>>

\* XTRIM MINID just after lastId: everything up to it goes.
Trimmed(c) == {e \in stream : e <= LastId(c)}

Trim(c) ==
  /\ pc[c] = "trim"
  /\ stream' = stream \ Trimmed(c)
  /\ Goto(c, "release")
  /\ UNCHANGED <<pushed, corrupt, evicted, persisted, fanned, lock, batch, overrun, faults>>

\* Mutants of AfterFailure: a failed drain trims anyway; a failed insert still
\* fans out.
AfterFailure_Trim == "trim"
AfterFailure_Fanout == "fanout"

\* Where a failed call leads: the drain returns or throws without trimming.
AfterFailure == "release"

\* A call to Redis, to the audit log store or to the outbox fails; all but the
\* answer may have happened.
CallFails(c) ==
  /\ pc[c] \in {"collect", "insert", "fanout", "trim"}
  /\ pc[c] = "insert" => Enriched(c) # {}
  /\ faults < MaxFaults
  /\ faults' = faults + 1
  /\ \E done \in BOOLEAN :
       LET Done(label, es) == IF done /\ pc[c] = label THEN es ELSE {} IN
       /\ persisted' = persisted \cup Done("insert", Enriched(c))
       /\ fanned' = fanned \cup Done("fanout", Enriched(c))
       /\ stream' = stream \ Done("trim", Trimmed(c))
  /\ Goto(c, AfterFailure)
  /\ UNCHANGED <<pushed, corrupt, evicted, lock, batch, overrun>>

-----------------------------------------------------------------------------
Drain(c) ==
  CollectPage(c) \/ Insert(c) \/ Fanout(c) \/ Trim(c) \/ ReleaseLock(c)

Next ==
  \/ \E bad \in BOOLEAN : Push(bad)
  \/ LockExpires
  \/ \E c \in Consumers : AcquireLock(c) \/ Drain(c) \/ CallFails(c) \/ Crash(c)

Spec == Init /\ [][Next]_vars

\* The scheduler keeps ticking, a run goes on unless it fails, and TTLs end.
Fairness ==
  /\ WF_vars(\E c \in Consumers : AcquireLock(c))
  /\ WF_vars(LockExpires)
  /\ \A c \in Consumers : WF_vars(Drain(c))

FairSpec == Spec /\ Fairness

-----------------------------------------------------------------------------
(* Properties.                                                             *)

\* The ids are those appended, and each variable has its type.
TypeOK ==
  /\ pushed \in 0..MaxPushes
  /\ stream \subseteq 1..pushed
  /\ corrupt \subseteq 1..pushed
  /\ evicted \subseteq 1..pushed
  /\ persisted \subseteq 1..pushed
  /\ fanned \subseteq 1..pushed
  /\ lock \in Consumers \cup {Nobody}
  /\ pc \in [Consumers -> {"idle", "collect", "insert", "fanout", "trim", "release"}]
  /\ batch \in [Consumers -> SUBSET (1..pushed)]
  /\ overrun \subseteq Consumers
  /\ faults \in Nat

Handled(i) ==
  i \in corrupt \/ (i \in persisted /\ (StreamsEnabled => i \in fanned))

\* Trim only after success: an entry leaves the stream only when it has been
\* inserted and fanned out, or was corrupt, or the cap evicted it - although
\* overlapping consumers trim by id ranges they collected at other times.
NothingLost == \A i \in 1..pushed : i \in stream \/ i \in evicted \/ Handled(i)

\* The log streams never carry an event the audit log itself does not hold.
FannedIsPersisted == fanned \subseteq persisted

\* Two drains overlap only if a lock ran out under one of them: a slow run
\* that releases late never frees the lock of its successor.
OneDrainPerLock ==
  \A c, d \in Consumers :
    c # d /\ pc[c] # "idle" /\ pc[d] # "idle" => c \in overrun \/ d \in overrun

\* Every well-formed entry is inserted and fanned out, or evicted by the cap.
EveryEntryHandled ==
  \A i \in Entries : i \in stream ~> Handled(i) \/ i \in evicted
=============================================================================
