# TLA+ models of the APIHarbor backend

APIHarbor (a fork of Infisical) stores secrets, certificates and machine credentials
and hands them out to people and workloads. `src/backend` is one Node.js program that
runs as several pods over one PostgreSQL (optionally ClickHouse for audit logs) and one
Redis. This directory holds TLA+ modules of the parts of it that are protocols: several
actors, a database and a Redis between them, and steps that may fail, repeat or overlap.
The modules are checked with TLC on small instances, and their main safety properties
are proved with TLAPS for every value of the constants.

Paths below are relative to `src/backend/src` unless they begin with `src/`.

    tlc -workers 2 -config <run>.cfg <module>.tla     # one run, see "Runs"
    tlapm <module>.tla                                # one set of proofs

## Contents

1. The system and its parts
2. The modules and the code
3. Runs
4. Fairness
5. Proofs
6. Where the code and its comments differ
7. What is abstracted, and what is not modelled
8. Plan

---

## 1. The system and its parts

### Audit logs, from the request to the stream provider

This is the backbone of what is modelled. A request that changes something produces an
audit log. It passes through three stations:

    request --XADD--> Redis stream --drain--> audit log table (PostgreSQL / ClickHouse)
                                   \--fanout-> audit_log_stream_outbox --flush--> provider

**Ingest** (`ee/services/audit-log/audit-log-queue.ts`, `keystore/keystore.ts`).

- State: a Redis stream capped by `MAXLEN ~`; the lock of the consumer, a key with a TTL.
- Operations: `pushToLog`/`appendToIngestStream` (append), `consumeAuditLogStream`
  (scheduled every few seconds on every pod: take the lock or skip),
  `drainAuditLogStream` (collect pages, enrich, insert, fan out, trim), `streamTrim`.
- Hard: a pod that dies between insert, fanout and trim; a call that fails after it
  took effect; a drain that outlives its lock and overlaps its successor; eviction by
  the cap while a drain is under way.
- Correct means: an entry leaves the stream only once it was inserted and fanned out
  (or was unusable, or evicted); nothing is fanned out that the table lacks; every entry
  is handled in the end.

**Outbox** (`ee/services/audit-log-stream-outbox`).

- State: the table `audit_log_stream_outbox`, one row per (stream, log), with status,
  attempts, `nextRetryAt`, `lockedAt`; a debounce key per stream in Redis; a BullMQ flush
  job per stream with a fixed job id; the local variables of `drainStream`.
- Operations: `enqueueForLogs` (look up streams, filter, `INSERT ... ON CONFLICT DO
  NOTHING`, wake the streams), `debounceAndEnqueueFlush`, `drainStream` (claim with `FOR
  UPDATE SKIP LOCKED`, send in chunks, commit), the sweeper `sweepStaleClaims` (take back
  claims older than ten minutes, wake streams with overdue rows), `pruneDeliveredRows`.
- Interactions: called by the ingest consumer; calls the queue service, the providers
  and the streams' own table, where a user may delete a stream at any moment.
- Hard: everything between the claim and the commit. A worker may die, may be declared
  stalled while it lives, may outlive its claim; the flush job may never be queued; the
  fanout may come twice; the commit selects by id alone; the sweeper counts what it deleted
  only after its transaction.
- Correct means: at-least-once delivery with a dedup memory, as `AtLeastOnceDelivery` says
  it; no two workers on a row; attempts bounded; no row stuck.

**Streams** (`ee/services/audit-log-stream`): CRUD of the destinations and the HTTP
bodies of the providers. **Queries and retention** (`audit-log-dal.ts`,
`audit-log-clickhouse-dal.ts`): reads and bulk deletes.

### Cron scheduler (`lib/cron/cron-job.ts`)

- State, per entry: a hash and a pending-zset entry per run (one run per fire time) and a
  lease key per run. Per cluster: `PARTICIPANT_SLOTS` slot keys with a TTL. Per pod:
  the slot it believes it has, and the runs in flight.
- Operations: `enqueueDueFires` (one Lua script), `processTick` → `processCandidate`
  (decide from the hash) → `redlock.using` → `executeUnderLease` (mark, run the handler
  under a timeout, mark the outcome), `claimOrRefreshSlot`, `start`, `stop`.
- Hard: the hash, the lease and the zset are read and written by separate calls; a
  timed-out handler goes on ("zombie"); a lease may be lost while its holder lives; a pod
  may die anywhere.
- Correct means: no two ticks execute a run at once; no open run drops out of the zset;
  every run ends; no pod holds two slots; slots of the dead come free.

### Redis primitives (`keystore`, `lib/red-lock`, `queue`)

Wrappers of single Redis commands, a redlock over the one client that
`server/routes/index.ts` passes (with `retryCount: 0` for the cron scheduler), and
BullMQ. Modelled where the components above use them: locks with fencing tokens and
TTLs, `SET NX`, stream ranges and trims, job ids, delayed and stalled jobs.

### Caches (`lib/cache/with-cache.ts`)

- State: per actor and project a marker (seconds), the data with the fingerprint they were
  stored under (longer), both in Redis; the permissions in PostgreSQL and its replicas.
- Operations: `withCacheFingerprint`: read both keys; with a marker serve the data; else read
  the fingerprint on a replica, compare, and either renew the marker or fetch the data, from a
  replica that is chosen again, write them and then the marker.
- Hard: calls overlap; the fingerprint and the data come from different servers at
  different times; each write may fail and is then forgotten.
- Correct means: data are not older than a fingerprint of the same replica, and what was
  replaced is then served for no longer than the lag, the calls and the marker's lifetime
  explain; in any other case, for no longer than the data live.

### Dynamic secrets and leases (`ee/services/dynamic-secret`, `-lease`)

- State: per lease an account at an external provider, a row, a delayed revocation job and
  perhaps a retry job; per dynamic secret its status.
- Operations: create, renew, revoke (also forced), deletion of the dynamic secret (also
  forced) with its pruning job, and the revocation job with its retries and the mail to the
  admins. Each touches provider, row and jobs in some order without a transaction.
- Hard: a failure between two of them, those of an error handler included; a renewal beside
  the job it replaces; a deletion beside a creation; a failed revocation handed from queue to
  queue.
- Correct means: a lease has a job that ends it, at its time; no account is forgotten; no
  lifetime grows past its maximum; what fails is retried or reported.

### Secret rotation (`ee/services/secret-rotation-v2`)

- State: per rotation a row with two sets of credentials, which is active, when the next
  rotation is due; a lock; a job; the users at the provider.
- Operations: the cron queues what is due; the job or a request reads the row at a replica,
  locks, sets a new password for the inactive user, stores it and swaps; a failure is retried,
  the last one reported.
- Hard: the row is read before the lock, and may be outdated as it is read; the lock lasts a
  minute; the provider cannot be rolled back; a job is retried after the rotation was stored.
- Correct means: the secrets hold credentials that work; one job rotates once; what is due is
  handled.

### Secret sync (`services/secret-sync`)

- State: per sync a row with a status and a lock with a TTL; per connection a counter of
  jobs at work, with a TTL; jobs, which are requeued under new ids when they cannot start.
- Operations: a change of secrets, a request or the daily retry queues a job; the worker
  finds the sync, locks, is admitted to the connection, reads the secrets at a replica,
  writes them to the destination, reports, and gives back; deletion with a job that removes the
  secrets.
- Hard: requeueing with a limit; TTLs that end under slow jobs; stalled jobs and retries;
  statuses that several jobs and requests write, before and after the calls they speak of.
- Correct means: a connection is not overrun, a sync has one job at work, and its status
  does not lie.

### Folder history (`services/folder-commit`, `ee/services/pit`)

- State: per folder its secrets, commits numbered by one sequence, checkpoints (the whole
  contents) on some of the commits.
- Operations: an edit of secrets and its commit in one transaction; the checkpoint that is
  due; the reconstruction of the folder at a commit; rollback to a commit, reversal of one.
- Hard: numbers are given before transactions end; a checkpoint sees what is committed, not
  what has a smaller number; a rollback compares two states, each on a replica, and applies later.
- Correct means: the history says what the folder holds and held; going back restores it.

### The rest

Approvals, secrets and folders as such, snapshots, replication, KMS,
identities, users, PKI, PAM, permissions, organisations, sharing and notifications,
integrations, gateways, wiring, schema, front end. `PROJECT.json` names each with its
directories and the reason it is left out: mostly request handlers within one database
transaction, adapters of third-party APIs, or cryptography.

---

## 2. The modules and the code

| module | of | stands for |
|---|---|---|
| `AtLeastOnceDelivery` | abstract | what the outbox promises of one (stream, log) pair |
| `AuditLogOutbox` | component | fanout, flush jobs, claims, sweeper, prune, stream deletion |
| `MCAuditLogOutbox` | TLC | the product filter and the symmetry of its runs |
| `AuditLogOutboxProofs` | proofs | its safety properties, that it implements `AtLeastOnceDelivery`, and the timing of claims |
| `AuditLogClaimTiming` | component | one claim against the clock, with the real constants |
| `AuditLogIngest`, `AuditLogIngestProofs` | component, proofs | push, consumer lock, drain, trim, eviction |
| `CronJob` | component | the runs of one cron entry |
| `CronSlots` | component | the slot election |
| `CronProofs` | proofs | of `CronJob` and `CronSlots` |
| `DynamicSecretLease`, `DynamicSecretLeaseProofs` | component, proofs | leases of a dynamic secret: provider, rows, jobs, deletion |
| `SecretSyncQueue`, `SecretSyncQueueProofs` | component, proofs | jobs of secret syncs over one connection |
| `MCSecretSyncQueue` | TLC | the symmetry of its run |
| `CacheFingerprint`, `CacheFingerprintProofs` | component, proofs | the cache of project permissions, database and Redis |
| `MCCacheFingerprint` | TLC | the symmetry of its run |
| `SecretRotation`, `SecretRotationProofs` | component, proofs | rotation of a secret with two users, by job and request |
| `FolderHistory`, `FolderHistoryProofs` | component, proofs | commits, checkpoints, rollback of one folder |
| `MCFolderHistory` | TLC | the symmetry of its run |

Definitions whose name ends in `_Something` right before the definition they vary
(`Settled_DropsFailed`) are plausible bugs of the code: replacing the definition by one of
them makes TLC find the property violated that `PROJECT.json` pairs it with. They are
used by nothing else.

**`AuditLogOutbox`.** `outbox` is the table by its unique key; a row that was deleted keeps only
its `id`, so that a later insert gets a new one, like the bigserial column. `due` stands for
`nextRetryAt <= now`, `old` for a `lockedAt` (or, once delivered, `updatedAt`) past its threshold.
`debounce`, `delayed`, `waiting` and `active` are Redis: the debounce keys and where a stream's
flush job is. `plan`, `wake` and `won` are what a call of `enqueueForLogs` or of the sweeper still
has to do; `claimed`, `success` and `fail` are the variables of that name in `drainStream`. An
action is the code from one await that matters to the next: `FindStreams`, `BatchInsert`,
`DebounceWon`/`Lost`, `QueueFlush` for the fanout; `StartFlush`, `ClaimBatch`,
`SendSucceeds`/`SendFails` (a chunk), `CountExhausted`, `Commit` for the worker;
`RecoverStaleClaims`, `CountDropped` and `FindOverdueStreams` for the sweeper. The two count drops
in opposite orders: the worker before its transaction, so that a commit that fails has counted a
drop that did not happen, the sweeper after it. `tally` is what a sweeper has deleted and has
still to count, and `uncounted`, a history, what it never counted. The commit finds its rows by
id, exactly like the DAL: `ClaimOf` looks at neither status nor lock.

**`AuditLogClaimTiming`.** `AuditLogOutbox` has a switch, `SlowWorkers`: may a live worker
hold a claim beyond the stale threshold? This module asks whether the code excludes it. It
has one worker and one batch, counts time in units of five seconds and takes
`BATCH_SIZE`, the wave size, the HTTP timeouts and the threshold as they are in the code. Its names
differ from those of `AuditLogOutbox` (`ClaimSize`, `stage`, `TimingSpec`), so that
`AuditLogOutboxProofs` can extend both.

**`AuditLogIngest`.** Entries are numbers in the order of their stream ids. `CollectPage`
is one `XRANGE` from just after the last id, so pages are taken at different times.
`CallFails` lets any call of the drain fail with or without its effect. `overrun` is the
history of consumers whose lock expired while they were running.

**`CronJob`.** `hash`, `pending` and `lease` are the three keys of a run. `pc` names where a
tick is in `processCandidate` and `executeUnderLease`; every Redis call is a step of its
own, so `markCompleted`, `markFailedFinal` and `markPendingRetry` are two steps each
(`WriteStatus`, `WritePending`). The writes themselves are operators (`TakeLease`,
`SetRunning`, `SetStatus`, `SetPending`, `GiveLeaseBack`) which `CallFails` may apply or
not before it follows the code's error path. `zombies` are handlers that outlived their
timeout. `fired` tells which run is the entry's most recent fire, the only one
`enqueueDueFires` enqueues. A hash brought back by a late `HSET` after its TTL has no
`name` field: `named` is false, and `processCandidate` removes the run from the zset.

**`CronSlots`.** `slot` are the keys; `current` is `currentSlot`; `scan` is the index of the
claiming loop, whose `SET NX` calls are separate steps. `ClaimFails` is a call that throws,
or one that takes effect but loses its reply: the client is configured to retry without
limit, sends the command again, and then sees its own key as another pod's. `orphans`
records such keys until they expire or are overwritten. What `CronJob` names too begins with
`Slot` here (`SlotInit`, `SlotSpec`, `SlotTypeOK`), so that `CronProofs` can extend both.

**`DynamicSecretLease`.** `row`, `account` and `job` are a lease at the database, the provider
and BullMQ; `req` is where a request is between two awaits, and what it read; `prune` the
pruning job, `config` the status of the dynamic secret. Times are amounts that a lease or a job
has in all since the creation (`life`, `after`), so that a renewal of `n` adds `n` to both.
There is no clock: a job that waits may start. `Interrupt` cuts a request short between any two
steps, `ProviderFails` is every failing call of a provider in a job, with or without effect,
`JobStall` a worker that dies. Steps are single calls wherever something can come between:
`RevokeFlag`, `RevokeRetry` or `RevokeUnset`, `RevokeRow` of a revocation; `DeleteFlag`,
`DeletePrune` of a deletion. `HandlerFails` is a revocation job whose provider fails and then its
error handler too: the row may be flagged, nothing is queued and no mail goes out. `mark` records
per lease what excuses a property: `cut` (a request was cut short), `forced` (an account given up
on purpose), `stripped` (its job unset by a deletion), `overlooked` (the deletion had not seen it),
`contested` (renewals overlapped), `silent` (an error handler failed).

**`SecretSyncQueue`.** A job carries its status in BullMQ and where its worker is. `source` numbers
the changes of a folder's secrets; `version` is what a job has read of them and `dest` what the
destination has. `Read` yields the latest version or 0, which stands for what a lagging replica had
or for a part: errors with single secrets are dropped (`Promise.allSettled`). The counter is
the number that the Lua scripts keep, which is not the number of jobs at work once a TTL ended or
a worker died. Every Redis or database call that another actor can come between is a step;
`Report` and `Leave` are the two `finally` blocks. Calls fail where the code makes them: `Cut`
between the status "pending" and the queueing, `Breaks` before the work, `Forbidden` outside the
`try` that reports, `ReportFails` around the report, `LeaveFails` with the slot. `Released`
swallows its errors, as `Lock.release` does.

**`CacheFingerprint`.** The permissions of an actor are a version, and its fingerprint the same
number. `age` counts since when a version has been replaced, `left` and `marker` for how long the
keys still live; `Tick` is one unit of time. Each of `FetchFingerprint`, `FetchData` and `Bypass`
chooses a replica. Two histories tell what a call cannot see: `lost`, that a write of data failed,
and `mixed`, that data were read at another replica than their fingerprint.

**`SecretRotation`.** A password is modelled by whether the provider accepts it: `works` of the
row for what is stored, `new` of a task for what it is about to store. `Alter` voids the
former password of the user in the row and in every task's copy of it. `replica` is what the
replicas show of the row, which is all that the job, a request and the cron read; `old` says of
such a copy, and `outdated` of a task, that the row was rotated since. `since` is the comparison of
`lastRotatedAt` with the time the job was queued, on the row and on each copy. A lock
whose holder died is `Dead`'s until it expires; `LockLost` is one that expires in use.

**`FolderHistory`.** `log` are the commits in the order in which their transactions end, each with
the number that the sequence gave it before; `effect` is what a transaction does to the folder,
`change` what its commit says, which differ for the update of a secret that is gone. `Reconstruct`
is `reconstructFolderState` over any prefix of the log, as a replica has it; `Rollback` and `Revert`
reconstruct the two states they compare from two prefixes. `marks` are the
histories that excuse a property: `late` (a smaller number became visible after a larger one),
`blind` (it did so after the larger one's checkpoint was read), `ghost` (a change of a secret that
was gone).

---

## 3. Runs

Twelve runs. Eleven pass; one shows where the code does not do what it says (section 6).

| run | instance | distinct states | properties |
|---|---|---|---|
| `outbox_safety` | 1 stream, 2 logs, 2 workers, 1 fault | 1,263,972 | `TypeOK`, `DeliveredWasReceived`, `ClaimsExclusive`, `AttemptsBounded`, `DeliveredIsFinal`, `ImplementsDelivery` |
| `outbox_slow` | 1 stream, 1 log, 2 workers, slow, deletable, 1 fault | 619,191 | `NothingVanishes`, `NoEarlyDrop`, `EveryRowSettles` |
| `claim_timing_single` | 500 rows, waves of 5, 5 s, 10 min | 50,849 | `StaleClaimIsDead` |
| `ingest` | 2 consumers, 3 entries, pages of 1, cap 2, 2 faults | 209,280 | `NothingLost`, `FannedIsPersisted`, `OneDrainPerLock`, `EveryEntryHandled` |
| `cron_runs` | 1 run, 2 ticks, 2 attempts, 2 faults | 145,633 | `TypeOK`, `LeaseExcludes`, `OpenIsPending`, `EveryRunEnds` |
| `slots` | 3 pods, 3 slots, 2 faults | 23,109 | `SlotTypeOK`, `OneSlotPerPod`, `EveryPodParticipates` |
| `leases` | 1 lease, 2 requests at a time, 3 in all, TTL 1, maximum 2, 2 attempts, 1 fault | 348,771 | `EveryLeaseIsScheduled`, `NoForgottenAccount`, `LifetimeBounded`, `RevokedAtExpiry`, `EveryLeaseIsSettled` |
| `syncs` | 2 syncs, 2 jobs, limit 1, 1 requeue, 2 attempts, 2 changes or requests, 1 fault | 3,543,311 (by symmetry) | `ConnectionNotOverrun`, `OneJobPerSync`, `SucceededMeansSynced`, `UnsettledHasJob` |
| `cache` | 2 calls, 2 replicas, marker 1, data 4, a call 1, lag 1, 1 change | 1,957,767 (by symmetry) | `TypeOK`, `DataNotOlder`, `StaleBounded` |
| `rotation` | the job and 1 request, 1 replica, 2 attempts, 2 faults | 297,708 | `SecretsWork`, `JobRotatesOnce`, `DueIsHandled` |
| `history` | 2 secrets, 2 contents, 2 requests, 4 commits, a checkpoint every 2 | 442,225 (by symmetry) | `LatestIsFolder`, `CheckpointsAgree`, `EveryCommitHasState`, `GoingBackRestores` |
| `rotation_disabled` | as `rotation`, no faults | (violation) | `DisabledIsSkipped` |

Every component module has a type invariant. Where a run does not list it, it holds of the
same instance all the same, and a theorem `TypeCorrect` (`SlotTypeCorrect`, `TimingTypeCorrect`)
covers it.

**`outbox_safety`** is the question of the component: with workers that finish in time,
does every interleaving of fanouts (repeated ones included), flush jobs, failed chunks,
crashes, stalled jobs, sweeps and prunes keep the promise? `DeliveredWasReceived`
and `AttemptsBounded` speak of the table and the histories `received`,
`accepted` and `dropped`. `ClaimsExclusive` is the comment on the sweeper, "even
concurrent workers claim disjoint rows", made precise for their whole life, sends
included. `DeliveredIsFinal` is what makes the delivered row a dedup guard.
`ImplementsDelivery` is the refinement of `AtLeastOnceDelivery`: a row is `owed` while it is
pending, processing or in retry. Two rows and a batch size of two let a chunk fail beside
one that succeeds, and `MaxBatches = 2` lets a job claim twice; two workers are all that
can meet on a row; `MaxInserts = 2` lets a row be pruned and inserted again.

**`outbox_slow`** gives up the assumption on workers (`SlowWorkers = TRUE`): the sweeper may hand
rows of a live worker to another, whose commits then meet. `ClaimsExclusive`, `AttemptsBounded`,
`DeliveredIsFinal` and the refinement are false there and not claimed. What survives is checked:
nothing vanishes, unless a sweeper failed between its transaction and its count (`NothingVanishes`
except `uncounted`, proved in both modes), no row is given up before the table says that its
attempts are used up, and every row is settled in the end unless its stream was deleted. The
liveness holds through a lost debounce, a failed `queue.add`, a crash in any step and a job that
BullMQ gives up, because the sweeper re-derives everything from the table.

**`claim_timing_single`** decides `SlowWorkers` for single mode: 100
waves of five requests with five seconds each take at most 500 s, below the 600 s of the
threshold: a stale claim is a dead one. In batch mode chunks go out one by one with 30 s
each, and nothing bounds their number by 20: the claim of a live worker becomes stale
(the same module with `WaveSize = 1` and `SendTimeout = 6` shows it). So
the results of `outbox_safety` apply to single mode, and to batch mode as long as a claim
makes at most 20 chunks or the provider answers promptly; those of `outbox_slow` always.

**`ingest`**: two consumers overlap after a lock expires, trim by ranges they collected at
different times, and may die or fail in every call, while new entries arrive and the cap
evicts old ones. Pages of one entry and a maximum of two per drain make collecting stop in
each of its three ways (short page, full batch, empty stream).

**`cron_runs`**: `LeaseExcludes` says that mutual exclusion of handlers fails only if a live
holder lost its lease. `OpenIsPending` is about the two halves of every status change.
`EveryRunEnds` holds with faults at any two calls: a crash while executing leaves a
`running` hash whose lease runs out, and the next tick counts it as an attempt. Two ticks
suffice for a race between any two steps; the proofs of section 5 cover any number.

**`slots`**: three pods and slots, with a pause or a lost reply at any two moments.

**`leases`**: one lease meets every request on it (two at a time: a renewal beside a renewal, a
revocation or a deletion of the secret), its own job and the retry job, each with failing calls of
the provider. `EveryLeaseIsScheduled` and `NoForgottenAccount` tie the three parts of a lease to
each other, `LifetimeBounded` holds however renewals overlap, and `EveryLeaseIsSettled` follows a
lease through its last failed retry to the mail to the admins. The exceptions are the marks, and
each is reachable: a request that is `cut` short between two of its calls leaves what it had done;
a `forced` revocation gives the account up; a deletion unsets the jobs of its leases before it
flags them (`stripped`) and does not see one that is being created (`overlooked`); overlapping
renewals leave the job of one and the row of the other (`contested`); a handler of a failed
revocation whose own calls fail leaves a lease that nobody retries and nobody hears of (`silent`).
A second lease interacts with the first only through the deletion, which treats leases one by one;
three requests in all are a creation and a race of two.
The exception `silent` of `EveryLeaseIsScheduled` takes two faults, a handler that fails at
each attempt, and so is not needed in this run; the theorem, which is about any number, needs it.

**`syncs`**: two syncs compete for one slot of their connection, requeue, fail, stall and lose
their TTLs while secrets change. `ConnectionNotOverrun` and `OneJobPerSync` say what locks and
counters are for, up to a TTL that ends under a live job. `SucceededMeansSynced` and
`UnsettledHasJob` relate a status that requests and jobs write to the destination and the queue.
Their marks, each reachable: jobs `overlapped` after a lock ended; a worker `died`; a job failed its
last attempt before it reported (`silent`); a job was `dropped` at the requeue limit; "pending" was
written `late`, after the job reported; a request was `cut` before it queued its job; a job
`removed` secrets. `SucceededMeansSynced` says nothing of a destination that has version 0: what
the job read was outdated or incomplete, and it could not know. It does say that no interleaving of
jobs, retries, requeues and changes ends with a success that is older than what was read last.
Two jobs for two syncs let a job of either meet one of its own or of the other.

**`cache`**: calls at any step of theirs overlap each other and a change of permissions, on
replicas that lag; any read or write of Redis may fail. `DataNotOlder` is why fingerprint
comparison is sound where it is: the fingerprint is read before the data, so that data of the same
replica are not older. `StaleBounded` bounds what is served, in any case by `DataBound`, the lag, two
calls and the data's lifetime: no match ever renews the data. The bound that the marker is for,
`MarkerBound`, is the lag, three calls and the marker's lifetime, and it holds of data that are
not `mixed`, as long as no write of data failed while its marker was written (`lost`) and one
Redis server answers both reads (`OneRedis`). With these numbers it is 5 and `DataBound` is 7, so
the two differ, and both exceptions are reachable. One change is enough for one version to be
replaced, two replicas for one to be behind the other; the proof covers any number.

**`rotation`**: the job with its retries, and a request, both of which read the row before they
lock, at a replica that may be behind. `SecretsWork` is the purpose of having two users: a failure
after the provider changed a password must hit the user who is not active. `JobRotatesOnce` is the
check of `lastRotatedAt` against the time the job was queued, seen from the outside: a job whose
rotation was stored, and that failed later, does not rotate again, unless it reads its row at a
replica that does not show that rotation yet, or another task rotates after it read (`outdated`).
`SecretsWork` excepts rotations that went on with such a row, or without their lock (`raced`): the
code excludes neither, and such a rotation may leave the secrets with a password that the provider
has replaced. That no other failure or death does is what the property says. `DueIsHandled` holds
with replicas that catch up, and with a failure that could not be recorded. One replica is enough,
since it catches up at any moment or not at all.

**`history`**: two transactions overlap, so that commits become visible out of the order
of their numbers, while a rollback or a reversal compares states of any two older prefixes of the
log.
`LatestIsFolder` and `CheckpointsAgree` relate the reconstruction to the folder and to itself;
`GoingBackRestores` relates what a rollback leaves to what the folder held at that commit.
Four commits are a checkpoint, one beside it, one after it and a rollback; with a window of two
both kinds of commit occur. The marks `late`, `blind`, `ghost` (section 2) are reachable.

Bounds. `MaxInserts`, `MaxPushes`, `MaxAsked`, `MaxWrites`, `MaxEdit`, `MaxCommits` and
`MaxFaults` are the only cuts of the state space;
each is a guard of the actions that consume it. (`RequeueLimit` and `Attempts` are limits of
the code, at small values.) A fault is a crash, a failed call, a false
stall, a lost lease or lock, a cut request, an error handler or a report that fails in its turn,
or a missed refresh. No run restricts states in
another way. Deadlock is checked except in `leases`, `syncs` and `history`: there nothing
need happen any more once the bounded requests are over.

---

## 4. Fairness

Safety needs none. The liveness properties are checked under weak fairness only.

- `AuditLogOutbox`: the rest of a started fanout, each pending wake-up, each worker's own
  steps, the pick-up of waiting jobs, Redis expiry, BullMQ's stall check on jobs whose
  worker is gone, the clock, and the cron sweeper. Justified by timers and by awaits
  that end (HTTP timeouts, transactions). Nothing forces a fault, a new fanout, the
  deletion of a stream, a prune, or a row of a live worker to become old.
- `AuditLogIngest`: the scheduler fires on some pod, a drain goes on unless it fails, a
  TTL ends.
- `CronJob`: a tick goes on, and looks again when idle (the process timer); a handler
  ends or times out, for it is raced against a timer; backoffs end; a lease of
  nobody live expires. `FireTime` and `HashExpires` are never forced.
- `CronSlots`: the refresh timer of a live pod fires; a key nobody refreshes expires.
  Starting, stopping, dying and pausing are never forced.
- `DynamicSecretLease`: a request that began goes on (or is cut short), jobs whose time has
  come are taken and go on, and so does the pruning job. Justified by awaits that end and by
  BullMQ. No request is forced to begin, and no worker or error handler to fail: `JobStall` and
  `HandlerFails` are outside of it.
- `SecretRotation`: the nightly cron queues what is due, replicas catch up, jobs are taken, tasks
  go on, the lock of a dead holder expires. No fault is forced, and nothing is forced to become
  due.
- `SecretSyncQueue`, `CacheFingerprint`, `FolderHistory` have no liveness property: a sync
  need not succeed, a call of the cache is a handful of awaits, and nobody need edit.

---

## 5. Proofs

All theorems hold for every value of the constants under the module's named assumption
(`OutboxAssumption`, `IngestAssumption`, `CronAssumption`, `SlotsAssumption`, `LeaseAssumption`,
`SyncAssumption`, `CacheAssumption`, `RotationAssumption`, `HistoryAssumption`): sets of any size,
any number of attempts, any number of faults. TLC evaluates the assumptions in the passing runs.

**`AuditLogOutboxProofs`**

| theorem | statement | rests on |
|---|---|---|
| `TypeCorrect` | `Spec => []TypeOK` | inductive as it stands |
| `DeliveredReceived`, `NoneVanishes` | `Spec => []DeliveredWasReceived`, `Spec => []NothingVanishes` | `Accounting`, `DropsCounted` |
| `ExclusiveClaims`, `BoundedAttempts` | `~SlowWorkers => (Spec => []...)` | `Ownership` |
| `DeliveredFinal` | `~SlowWorkers => (Spec => DeliveredIsFinal)` | `Ownership` |
| `NoDropIsEarly` | `Spec => NoEarlyDrop`, in both modes | `ClaimsLag` |
| `RefinesDelivery` | `~SlowWorkers => (Spec => ImplementsDelivery)` | `Ownership`, `Sorted`, `Accounting`, `DropsCounted` |
| `TimingTypeCorrect` | `TimingSpec => []TimingTypeOK` | inductive as it stands |
| `StaleIsDead` | `WavesInTime => (TimingSpec => []StaleClaimIsDead)` | `ClaimsAge` |

`Accounting` adds `SuccessWasReceived`: what a worker counts as sent was received. A commit
writes "delivered" from that set, possibly long after and over another worker's head, and
without it `DeliveredWasReceived` is not inductive. `DropsCounted` is the same for drops: a worker
that is about to commit has sorted all its claims and counted those whose attempts are used up. So
a row that its commit deletes is in `dropped`, and one that the sweeper deletes in its `tally`,
which goes to `dropped` or, when the sweeper fails, to `uncounted`.

`Ownership` says that a claim in a worker's hands is the current state of the row: same
id, status processing, same attempts, not old. Only then does a commit by id alone touch no
row of another. It is where `~SlowWorkers` enters: a held row never becomes old, so the
sweeper never takes it.

`ClaimsLag` is what is left when workers may be slow: the attempts a worker read are never
more than those of the row it read them from, as attempts of one row id only grow. So a
commit that drops on its own stale count drops only what the table would drop too.

`RefinesDelivery` is the refinement. The mapping shows of a row whether it is owed, delivered or
absent (`Shown`). `BatchInsert` maps to `Accept` of the rows that did not exist, a sent chunk to
`Send`, `CountExhausted` to `Note`, `Commit` and `RecoverStaleClaims` to `Settle`,
`PruneDelivered` to `Forget`, all other actions to a stutter. The abstract `dropped` is `Dropped`,
which has what a sweeper has still to count or will never count: `CountDropped` and `CallerFails`
only move pairs within it. So the abstract specification promises that what is lost is known to be
lost when it goes, and the exception `uncounted` of `NothingVanishes` says by whom it may be
forgotten. The hard step is the commit, which settles a whole batch by id: from `Ownership` each
claim finds its row, still processing, and no second claim of the worker has the same row; from
`Sorted` (sent and failed claims are disjoint parts of the claimed ones) no row is both delivered
and dropped; from `Accounting` the delivered ones were received, from `DropsCounted` the dropped
ones were noted. With slow workers the theorem is false: a late commit may take a row from
delivered back to retry, which no abstract step does.

`StaleIsDead` says what the constants of `AuditLogClaimTiming` must be for `SlowWorkers` to be false:
for some number of waves, that many are enough for a full batch, and as many timeouts end within
the threshold (`WavesInTime`). In single mode 100 waves are (500 rows, 500 s of 600 s); in batch
mode (30 s each) a claim must make at most 20 chunks. `ClaimsAge`: a claim that is being sent or
committed is at most as old as its waves, and the waves before the last were full. The condition
is sufficient; without it the property fails (`WaveSize = 1`, `SendTimeout = 6`, section 6).

**`AuditLogIngestProofs`**

| theorem | statement | rests on |
|---|---|---|
| `TypeCorrect` | `Spec => []TypeOK` | inductive as it stands |
| `NoEntryLost` | `Spec => []NothingLost` | `Progress`, `BatchesArePrefixes` |
| `InsertBeforeFanout` | `Spec => []FannedIsPersisted` | `InsertedFirst` |
| `OneDrain` | `Spec => []OneDrainPerLock` | `LockHeld` |

`Progress` says how far a consumer is with its batch: past the insert the entries that could be
enriched are persisted (`InsertedFirst`), past the fanout they are fanned out
(`FannedOutFirst`). Trimming is by an id, so what goes is not the batch but everything up to its
end. That these are the same takes `BatchesArePrefixes`: whatever is still in the stream up to
an entry of a batch is in the batch, though pages were collected at several moments and
another consumer or the cap removed entries between them. That a batch has a largest id is the
lemma `MaxOfBounded`, and that a page skips nothing is `PageIsPrefix`.

**`CronProofs`**

| theorem | statement | rests on |
|---|---|---|
| `TypeCorrect` | `Spec => []TypeOK`, with attempts at most `MaxAttempts` | `MarksEligible` |
| `LeaseExclusion` | `Spec => []LeaseExcludes` | `LeaseHeld` |
| `OpenStaysPending` | `Spec => []OpenIsPending` | `Tracked` |
| `SlotTypeCorrect` | `SlotSpec => []SlotTypeOK` | `Election` |
| `SingleSlot` | `SlotSpec => []OneSlotPerPod` | `Election` |

`MarksEligible`: who is about to mark a run has an attempt left - the mark writes what the
tick read plus one, and only the gate before the lease keeps that within bounds.
`LeaseHeld`: who is past the acquisition and has not lost its lease holds it; a release
compares tokens and cannot free another's. `Tracked`: a run whose hash is not yet written
is known to no tick; who is about to dequeue a run has seen it end or expire; and a run
with a named hash is in the zset unless it ended. Together they say that no stale tick of
an earlier moment can take an open run off the zset.

`Election`: a pod scans only while it believes to have no slot, and only live pods believe to
have one.

**`DynamicSecretLeaseProofs`**

| theorem | statement | rests on |
|---|---|---|
| `TypeCorrect` | `Spec => []TypeOK` | inductive as it stands |
| `LifeWithinBound` | `Spec => []LifetimeBounded` | `Bounded` |
| `AccountsNotForgotten` | `Spec => []NoForgottenAccount` | `Births`, `AccountsFirst` |
| `LeasesScheduled` | `Spec => []EveryLeaseIsScheduled` | `Births` |
| `RevocationOnTime` | `Spec => []RevokedAtExpiry` | `RenewalsInStep` |

For any number of leases and requests at a time. `Bounded`: not only the rows and the main jobs
but whatever a lifetime is taken from, a request's time included, is within `MaxTTL`.
`Births`: between the provider's account and the row only the request that creates a lease
knows of it, so nobody can delete a row that comes later. `AccountsFirst`: who is about to delete
a row, a request, a job, or the deletion of the secret with all the rows it has seen, knows that
the account was revoked or has given it up. `RenewalsInStep` is the order of the three
calls of a renewal: while the old job is unset there is none, the new one has the time that
the row will get, and until the row has it the request that will write it is the only one at work.
`EveryLeaseIsScheduled` and `NoForgottenAccount` are inductive only together with these.
A handler that fails is one more way for a job to end, and where it ends without a successor the
lease is `silent`.
The proof puts what most steps have in common into `StepKeeps` (steps that create no row and no
account) and `RenewalsStay`, so that a step shows only which rows, jobs and requests it changes.

**`SecretSyncQueueProofs`**

| theorem | statement | rests on |
|---|---|---|
| `TypeCorrect` | `Spec => []TypeOK` | `ChangesCounted` |
| `LimitKept` | `Spec => []ConnectionNotOverrun` | `SlotsCounted` |
| `OneAtWork` | `Spec => []OneJobPerSync` | `LockKept` |
| `ReportToCome` | `Spec => []UnsettledHasJob` | `AttemptsKept`, `ReportComes` |
| `SyncedWhenSucceeded` | `Spec => []SucceededMeansSynced` | `ChangesCounted`, `ReadsLatest`, `LockKept` |

For any number of syncs, jobs and slots. `SlotsCounted`: until it expired under a job, the counter
is at least the number of jobs that were admitted and have not given their slot back.
`LockKept`: who works on a sync that is not marked `overlapped` holds its lock. `AttemptsKept`:
a job in the queue or at work has an attempt left, and the attempts it began are those that
failed and the one that runs, so that the attempt which `Report` takes for the last is the last;
hence `ReportComes`: a status that promises a report has a job that has yet to read the secrets or
to report, unless a mark tells what went wrong. `ReadsLatest`: when nobody is to read the secrets of
a sync again (not `Anticipated`), whoever has read them has read the latest, or not all of them
(version 0), and what was written and reported is of such a version too.
`ChangesCounted`: a version is the number of a change, which keeps versions within their type.

**`CacheFingerprintProofs`**

| theorem | statement | rests on |
|---|---|---|
| `TypeCorrect` | `Spec => []TypeOK` | inductive as it stands |
| `NeverOlder` | `Spec => []DataNotOlder` | `Sound` |
| `StalenessBounded` | `Spec => StaleBounded` | `DataInTime`, `Timely` |

For any number of calls, replicas and changes, and any TTLs, lag and duration of calls.
`AgesFall` (a newer version was replaced later) and `ReplicasLag` (what a replica has was
replaced at most the lag ago) turn time into versions. `Sound` says per state of a call how old
what it holds may be: its fingerprint at most the lag and the call's own age, its data no older
than its fingerprint, if they are of one replica. `DataInTime` is the bound that always holds: the
age of the cached data and the life left to them together never exceed what they were when the data
were stored, so that time moves one into the other. `MarkerInTime` says the same with the life left
to the marker, and `InTime` of a call that has read it. These two need that data are not `mixed`,
that a marker is never written over data that were not, hence `lost`, and that the data
seen with a marker are those that it was written for, hence `OneRedis`.

**`SecretRotationProofs`**

| theorem | statement | rests on |
|---|---|---|
| `TypeCorrect` | `Spec => []TypeOK`, with fewer failures than `Attempts` | inductive as it stands |
| `SecretsAlwaysWork` | `Spec => []SecretsWork` | `LockKept`, `CopiesCurrent`, `ReadIsCurrent`, `NewWorks` |
| `RotatesOnce` | `Spec => JobRotatesOnce` | `JobWasFresh`, `CopiesCurrent` |

`CopiesCurrent`: a copy at a replica that is not `old` has the active user, and the `since`, of the
row. `ReadIsCurrent`: so a task whose row was not rotated since the state it read knows the active
user, and the password it changes is the other one's. `LockKept` and `NewWorks`: while nothing raced,
whoever changes passwords has the lock, so that nobody voids the new one before it is stored.
`JobWasFresh`: a job that goes on although the row was rotated since it was queued read a state from
before that, and is outdated.

**`FolderHistoryProofs`**

| theorem | statement | rests on |
|---|---|---|
| `TypeCorrect` | `Spec => []TypeOK` | `Numbers` |
| `StatesExist` | `Spec => []EveryCommitHasState` | `Commits` |
| `LatestCorrect` | `Spec => []LatestIsFolder` | `Locking`, `FolderReplayed`, `CheckpointsCurrent` |
| `CheckpointsCorrect` | `Spec => []CheckpointsAgree` | `CheckpointsWhole` |
| `GoingBack` | `Spec => GoingBackRestores` | `History`, `Ordered`, `Aimed` |

For any number of secrets, requests and commits, and any window. `Numbered`: no number is given
twice, to what is visible or to what is open. `Locking`: transactions that are open together
change different secrets, and what one changes was visibly changed before by smaller numbers only:
the row locks put the commits that touch one secret in the order of their numbers, even where
the log is not. So the folder is the replay of all commits by number (`FolderReplayed`), and every
checkpoint, the ones that open transactions carry included, leads to the folder through the
commits with higher numbers (`CheckpointsCurrent`). Both are said of the replay of a set of commits,
and the lemmas `ReplayOneMore`, `ReplayInParts`, `ReplayAgain` are how the replay changes with
the set: recursion over the log is not needed. `CheckpointsWhole` adds that a checkpoint is the
replay of what precedes it, when no mark excuses it.

`GoingBack` is an action property. `Ordered` says that, without marks, the log is in the order of
the numbers and that commits say what was done; so the replay up to a number is what the folder
held when that commit became visible (`FolderAtReplayed`). `Aimed` follows a request from the
comparison to the end of its transaction: if both replicas had the whole log, and as long as
nothing else became visible, the differences it computed, and then the effect of the commit it
made of them, lead to that folder (`DifferenceLeads`).

Every invariant and action property that a passing run checks is a theorem. Only model-checked is
the liveness (`EveryRowSettles`, `EveryEntryHandled`, `EveryRunEnds`, `EveryPodParticipates`,
`EveryLeaseIsSettled`, `DueIsHandled`): fairness and `ENABLED` are beyond the prover.

---

## 6. Where the code and its comments differ

One run is kept for it. The message at `ee/services/secret-rotation-v2/
secret-rotation-v2-fns.ts:429` says "Skipping Rotation - Auto-Rotation Disabled Since Queue",
but nothing returns there, unlike at line 435 after the next check. In `rotation_disabled` a
queued job rotates a secret whose automatic rotation was disabled since.

The other statements below are false of the modules too. They are not runs; each is seen by
checking the named formula, or dropping the named exception of a property.

- *Uncounted drops.* The sweeper is to "count them alongside delivery-path exhaustions", but it
  deletes rows in a transaction and counts them after it
  (`audit-log-stream-outbox-service.ts:373-398`): what it deleted goes uncounted if it dies, or is not
  told of the commit, in between. `AuditLogOutbox`, `NothingVanishes` without `uncounted`. The worker
  counts before its transaction (line 328), and so a drop that did not happen if that fails.
- *Slow batches.* An old claim "can't be a live worker" (sweeper): a claim is stamped once and
  sent in any number of sequential chunks of 30 s. `AuditLogClaimTiming`, `StaleClaimIsDead`
  with `WaveSize = 1`, `SendTimeout = 6`.
- *Debounce.* Who loses it is "already covered": the key is set before the flush is added; the
  add may fail, or meet the active job of the same id. `AuditLogOutbox`: a stream with a
  debounce key and neither a delayed, waiting nor active job. The sweeper makes up for it.
- *Rows of a deleted stream.* The sweeper prevents "rows from getting stuck in the outbox",
  but these match neither the overdue query, nor a flush, nor the prune. `AuditLogOutbox`,
  `EveryRowSettles` without its exception of deleted streams.
- *Runs executed again.* Only a ready run is handed to `executeUnderLease`, and the timeout
  prevents execution beside the "zombie": but the hash is read before the lease and not again
  under it, so a finished run can be marked running and executed again. `CronJob`: a step that
  marks a run whose hash is final. No fault is needed, only two overlapping ticks.
- *Shared slots.* Slots cap the participating pods, and a pod refreshes a slot "it still owns":
  the refresh is `SET XX` without comparing the owner, and after one pause two pods share a slot
  for ever. `CronSlots`: from some moment on, no two live pods have the same `current`.
- *Overlooked leases.* The deletion of a dynamic secret revokes the leases it finds; one that is
  created beside it keeps its account after the secret's row is gone. `DynamicSecretLease`,
  `NoForgottenAccount` without `overlooked`. Its revocation job, if any is left, also calls the
  provider without the lease's own configuration (`dynamic-secret-lease-queue.ts:171`).
- *Silent error handlers.* A revocation that fails for good is to end in a mail to the admins. The
  handler flags the row, queues the retry or sends the mail in calls that may throw
  (`dynamic-secret-lease-queue.ts:238-267`): then nobody retries and nobody is told.
  `DynamicSecretLease`, `EveryLeaseIsSettled` without `silent`.
- *Lease limit.* The count is parsed from the row and not from its field
  (`dynamic-secret-lease-dal.ts:53`), which is not a number, so no lease is ever refused; and it
  is taken before the lease is created, so requests that check together would exceed it.
- *Syncs that stay pending.* "Pending" is written before the job is queued (`secret-sync-queue.ts:1066`
  and `1077`, `1153` and `1165`), and a request that ends in between leaves it. So does a last attempt
  that fails before the status is written: when the audit log of the `finally` block throws (635, the
  status is at 664), or "running" cannot be written (540, before the `try`). `SecretSyncQueue`,
  `UnsettledHasJob` without `cut` and `silent`.
- *Synced from a lagging replica.* A job reads the secrets at a replica, and without those whose
  reading failed (302-304), and then reports success. `SucceededMeansSynced` without `dest[s] # 0`.
- *Mixed cache entries.* The fingerprint and the data are each read at a replica of its own
  (`ee/services/permission/permission-dal.ts:225`, called without a transaction), so old permissions
  may be stored under a newer fingerprint. They then match until they expire or the permissions change
  again. `CacheFingerprint`, `DataNotOlder` without `mixed`.
- *Failed write of cached data.* The marker is written whether or not the data were, and then
  validates the old data. `CacheFingerprint`, `StaleBounded` without `lost`.
- *Redis read replicas.* `keystore/keystore.ts:296` reads marker and data from replicas when
  there are some. `CacheFingerprint` with `OneRedis = FALSE`.
- *Rotations that race.* The row is read before the lock and not again under it; the lock lasts a
  minute and is not extended. Also without a race the row may be outdated, for it is read at a
  replica (`secret-rotation-v2-dal.ts:385`, called at `secret-rotation-v2-fns.ts:420` and
  `secret-rotation-v2-service.ts:1546`): a job that is retried a second after its rotation was
  stored (`secret-rotation-v2-fns.ts:177-180`) rotates again, and changes the password of the user
  who is active now. `SecretRotation`, `SecretsWork` without `raced`, `JobRotatesOnce` without
  `outdated`. Also, who loses the lock in its last attempt writes "failed" over the winner's
  success.
- *Blind checkpoints.* A checkpoint is what is committed when it is read, under the number of
  its commit: it misses a commit of a smaller number whose transaction is open, and so do
  all states reconstructed from it. `FolderHistory`, `LatestIsFolder` without `blind`. It also
  takes in versions of personal secrets (`services/secret-v2-bridge/secret-version-dal.ts:98`
  filters by folder only), which are not modelled.
- *Ghost changes.* A rollback that compared on a replica commits the change of a secret that was
  deleted since: the history has it and the folder does not. `LatestIsFolder` without `ghost`.

---

## 7. What is abstracted, and what is not modelled

- The delay of a flush job and the TTL of the debounce key are equal and start within one
  call of each other: the job becomes startable when the key expires (`DebounceExpires`),
  or at once if the key was already gone when it was added.
- The retries of one HTTP request within a send are part of the send. How a batch is split
  into chunks is left open: any subset may be the next chunk.
- A claim with `FOR UPDATE SKIP LOCKED` is one step; the transactions of the commit and of
  the sweeper's recovery are one step each.
- What a log contains is left out; an ingest entry either can be enriched or cannot.
- `MAXLEN ~` may evict at any push, and never below the cap.
- Ticks of one pod and of several pods are alike. A model value of `Runs` stands for a
  later fire once nothing refers to the former. Registered hash TTLs exceed the interval
  of their entry, so that an expired hash is never of the most recent fire.
- The fifty-entry limit of a process tick, and the minimum age it leaves to a fresh
  entry, are left out: a tick reads all due entries.
- Participation (slots) and the ticks are separate modules: a pod without a slot simply
  does not tick.
- A pod runs one claiming loop at a time. A loop that takes longer than the refresh
  interval would be joined by a second one; this is listed as an open hazard.
- `DynamicSecretLease`: reads see the latest row; delays may be over at any moment; the
  provider's part is whether an account exists. A call of PostgreSQL or BullMQ that fails within
  a request cuts it short. Permissions and the validation of inputs are left out.
- `SecretSyncQueue`: one connection, syncs with automatic synchronisation; a destination is the
  version it has. All versions that are not the latest, and all incomplete reads, are version 0.
  Import jobs and notification jobs are
  left out, and so are partial writes of a destination (the next job writes all keys).
- `CacheFingerprint`: no two versions have one fingerprint; a call takes at most `MaxCall`, a
  replica lags at most `MaxLag`. The second helper of the file reads through one key and has no
  protocol.
- `SecretRotation`: the kinds with two users (SQL databases). The other kinds, creation and
  deletion are left out.
  Syncs, snapshots and mails after a rotation are its last step, which may fail.
- `FolderHistory`: the queries of one reconstruction see one prefix of the log, though each
  chooses its replica; the two states that are compared see two. One folder of shared secrets.
  Subfolders (and deep rollbacks into them), key names and their conflicts, personal secrets, tags
  and metadata are left out; contents stand for versions. Secrets that an edit changes are locked
  as PostgreSQL locks rows.
- Not listed as hazards, because modelled hazards of the same kind cover what would be learnt:
  the 50 entries of a tick, two claiming loops of one pod, a prune beside a second fanout.
- Redlock over several Redis instances, BullMQ beyond what is above, metrics, logging,
  payloads and encryption are not modelled.

Hazards without a property are in `PROJECT.json` with the reason. The components that are
not modelled are listed there too.

---

## 8. Plan

Done: outbox with its refinement and timing, ingest, cron runs and slots, leases, syncs, cache,
rotation, folder history; proofs of all their safety properties.

Next, while the set of runs is to stay small:

1. **`AuditLogPipeline`** - composition of ingest and outbox with rows that age: a fanout
   repeated after the delivered row was pruned. It would take the place of a weaker run.
2. **An abstract mutex with lost leases**, and proofs that the lease of `CronJob`, the lock of
   the ingest and those of syncs and rotations implement it; likewise a **lease lifecycle** (absent,
   live, ending, gone) for `DynamicSecretLease`.
3. **Secret approvals and replication** - the merge of a request beside edits of the folder it was
   made for; secret imports that replicate one another.
