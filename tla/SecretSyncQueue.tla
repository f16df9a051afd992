--------------------------- MODULE SecretSyncQueue ---------------------------
(***************************************************************************)
(* The queue of the secret syncs: services/secret-sync.                    *)
(*                                                                         *)
(* A sync copies the secrets of a folder to a destination outside.  Every  *)
(* change of the folder queues a job; a user may queue one more, or one    *)
(* that takes the secrets back and deletes the sync.  A job takes the lock *)
(* of its sync (redlock, five minutes, never extended) and one of the few  *)
(* slots of its connection (a counter with a TTL), and is queued again     *)
(* when it gets either not.  BullMQ repeats a job that fails, and runs it  *)
(* again when its worker dies.                                             *)
(*                                                                         *)
(* The secrets are a version: a write to the destination takes the version *)
(* that was read before it, from a replica, and a job does not see that    *)
(* what it read is older, or only a part.  All syncs of the model share    *)
(* one connection and are synced automatically.  There is no clock: delays *)
(* and TTLs may be over at any moment.                                     *)
(***************************************************************************)
EXTENDS Integers, FiniteSets

CONSTANTS
  Syncs,         \* syncs of one connection
  Jobs,          \* ids of jobs in the queue
  Nobody,        \* the holder of a lock that is free
  Limit,         \* CONNECTION_CONCURRENCY_LIMIT
  RequeueLimit,  \* REQUEUE_LIMIT
  Attempts,      \* attempts of a sync job
  MaxAsked,      \* bound: changes of secrets and requests of users
  MaxFaults      \* bound: calls that fail, processes that die, keys that expire in use

ASSUME SyncAssumption ==
  /\ Syncs # {} /\ Nobody \notin Jobs
  /\ Limit \in Nat \ {0} /\ Attempts \in Nat \ {0} /\ RequeueLimit \in Nat
  /\ MaxAsked \in Nat /\ MaxFaults \in Nat

VARIABLES
  source,   \* version of the secrets of the folder of a sync
  dest,     \* version the destination has, 0 for none, an older one or a part
  status,   \* syncStatus, or "deleted" when the row is gone
  lock,     \* holder of the lock of a sync
  count,    \* the counter of the connection
  job,      \* the jobs of the queue
  req,      \* where the request about a sync is that is in progress
  asked,    \* changes and requests so far
  mark,     \* history: what happened to a sync, see Marks
  expired,  \* history: the counter expired under a job that it counted
  faults    \* faults so far

redis == <<lock, count>>
history == <<mark, expired, faults>>
vars == <<source, dest, status, redis, job, req, asked, history>>

Versions == 0..MaxAsked + 1
Statuses == {"succeeded", "pending", "running", "failed", "deleted"}

\* A job waits, has found the row of its sync, holds the lock, holds a slot too,
\* has read the secrets; its work went well, badly, or badly for good; or it is
\* about to give back what it holds, and then to end or to fail.
States == {"none", "wait", "found", "locked", "admitted", "read", "good", "bad", "worst", "end", "fail"}

\* `lost' is failedToAcquireLockCount, `started' and `made' are the attempts that
\* BullMQ began and that failed.
Job == [state : States, kind : {"sync", "remove"}, sync : Syncs, lost : 0..RequeueLimit,
        started : Nat, made : 0..Attempts, stalled : BOOLEAN, version : Versions]
NewJob(s, kind, lost) ==
  [state |-> "wait", kind |-> kind, sync |-> s, lost |-> lost,
   started |-> 0, made |-> 0, stalled |-> FALSE, version |-> 0]
NoJob == [NewJob(CHOOSE s \in Syncs : TRUE, "sync", 0) EXCEPT !.state = "none"]

\* What may have happened to a sync: its lock expired under a job; a worker died
\* in its job; a job failed its last attempt without a report; a job was turned away
\* for good; a request wrote the status "pending" after the job that it had queued
\* reported, or ended before it queued one; secrets were taken back.
Marks == {"overlapped", "died", "silent", "dropped", "late", "cut", "removed"}

Init ==
  /\ source = [s \in Syncs |-> 1]
  /\ dest = [s \in Syncs |-> 1]
  /\ status = [s \in Syncs |-> "succeeded"]
  /\ lock = [s \in Syncs |-> Nobody]
  /\ count = 0
  /\ job = [j \in Jobs |-> NoJob]
  /\ req = [s \in Syncs |-> "idle"]
  /\ asked = 0
  /\ mark = [s \in Syncs |-> {}]
  /\ expired = FALSE
  /\ faults = 0

Live(s) == status[s] # "deleted"
InFlight(s) == {j \in Jobs : job[j].sync = s /\ job[j].state # "none"}
Working(j) == job[j].state \notin {"none", "wait", "found"}
Counted(j) == job[j].kind = "sync" /\ job[j].state \notin {"none", "wait", "found", "locked"}

Marked(s, m) == mark' = [mark EXCEPT ![s] = @ \cup {m}]
\* An update of the row; it does nothing when the row is gone.
SetStatus(s, st) == status' = IF Live(s) THEN [status EXCEPT ![s] = st] ELSE status
SetJob(j, r) == job' = [job EXCEPT ![j] = r]
Goto(j, st) == SetJob(j, [job[j] EXCEPT !.state = st])
Ask == asked < MaxAsked /\ asked' = asked + 1
Fault == faults < MaxFaults /\ faults' = faults + 1

-----------------------------------------------------------------------------
(* Requests.                                                               *)

\* The secrets of the folder change, and queueSecretSyncsSyncSecretsByPath runs.
Change(s) ==
  /\ Ask
  /\ Live(s) /\ req[s] = "idle"
  /\ source' = [source EXCEPT ![s] = @ + 1]
  /\ req' = [req EXCEPT ![s] = "change"]
  /\ UNCHANGED <<dest, status, redis, job, history>>

ChangeStatus(s) ==
  /\ req[s] = "change"
  /\ SetStatus(s, "pending")
  /\ req' = [req EXCEPT ![s] = "queue"]
  /\ UNCHANGED <<source, dest, redis, job, asked, history>>

\* The daily retry of failed syncs.
DailyRetry(s) ==
  /\ Ask
  /\ req[s] = "idle" /\ status[s] = "failed"
  /\ SetStatus(s, "pending")
  /\ req' = [req EXCEPT ![s] = "queue"]
  /\ UNCHANGED <<source, dest, redis, job, history>>

\* Mutant of Queue: the id of the job is that of the sync, and BullMQ ignores an id
\* that it has.
Queue_OncePerSync(s, j) ==
  /\ req[s] = "queue"
  /\ job[j].state = "none"
  /\ IF InFlight(s) = {} THEN SetJob(j, NewJob(s, "sync", 0)) ELSE UNCHANGED job
  /\ req' = [req EXCEPT ![s] = "idle"]
  /\ UNCHANGED <<source, dest, status, redis, asked, history>>

Queue(s, j) ==
  /\ req[s] = "queue"
  /\ job[j].state = "none"
  /\ SetJob(j, NewJob(s, "sync", 0))
  /\ req' = [req EXCEPT ![s] = "idle"]
  /\ UNCHANGED <<source, dest, status, redis, asked, history>>

\* A user's request is refused while the lock is held, queues the job, and then
\* writes the status.
Trigger(s, j) ==
  /\ Ask
  /\ Live(s) /\ req[s] = "idle"
  /\ lock[s] = Nobody
  /\ job[j].state = "none"
  /\ SetJob(j, NewJob(s, "sync", 0))
  /\ req' = [req EXCEPT ![s] = "triggered"]
  /\ UNCHANGED <<source, dest, status, redis, history>>

TriggerStatus(s) ==
  /\ req[s] = "triggered"
  /\ SetStatus(s, "pending")
  /\ IF \E j \in InFlight(s) : job[j].kind = "sync" /\ job[j].state \notin {"end", "fail"}
       THEN UNCHANGED mark ELSE Marked(s, "late")
  /\ req' = [req EXCEPT ![s] = "idle"]
  /\ UNCHANGED <<source, dest, redis, job, asked, expired, faults>>

\* deleteSecretSync with removeSecrets; removeStatus is left out.
TriggerRemove(s, j) ==
  /\ Ask
  /\ Live(s) /\ req[s] = "idle"
  /\ lock[s] = Nobody
  /\ job[j].state = "none"
  /\ SetJob(j, NewJob(s, "remove", 0))
  /\ UNCHANGED <<source, dest, status, redis, req, history>>

\* deleteSecretSync without: the row goes at once, whoever is at work.
Delete(s) ==
  /\ Ask
  /\ Live(s) /\ req[s] = "idle"
  /\ SetStatus(s, "deleted")
  /\ UNCHANGED <<source, dest, redis, job, req, history>>

\* A request ends where it is: its process dies, or its next call fails.
Cut(s) ==
  /\ Fault
  /\ req[s] # "idle"
  /\ req' = [req EXCEPT ![s] = "idle"]
  /\ IF req[s] = "triggered" THEN UNCHANGED mark ELSE Marked(s, "cut")
  /\ UNCHANGED <<source, dest, status, redis, job, asked, expired>>

-----------------------------------------------------------------------------
(* Jobs.                                                                   *)

\* BullMQ repeats a sync job that fails while attempts are left.
Again(j) == job[j].kind = "sync" /\ job[j].made + 1 < Attempts
Repeated(j) == [job[j] EXCEPT !.state = "wait", !.made = @ + 1, !.version = 0]

\* An attempt fails before it has reported: after the last nobody will.
NoReport(j) == IF job[j].kind = "sync" /\ ~Again(j) THEN Marked(job[j].sync, "silent") ELSE UNCHANGED mark

\* The row is read, from a replica that may still have one that is gone, before the
\* lock is asked for.
Find(j) ==
  /\ job[j].state = "wait"
  /\ \/ SetJob(j, [job[j] EXCEPT !.state = "found", !.started = @ + 1])
     \/ ~Live(job[j].sync) /\ SetJob(j, NoJob)
  /\ UNCHANGED <<source, dest, status, redis, req, asked, history>>

Acquire(j) ==
  LET s == job[j].sync IN
  /\ job[j].state = "found"
  /\ lock[s] = Nobody
  /\ lock' = [lock EXCEPT ![s] = j]
  /\ Goto(j, "locked")
  /\ UNCHANGED <<source, dest, status, count, req, asked, history>>

\* $handleAcquireLockFailure: a new job takes the place of a sync job, until there
\* were too many.
TurnedAway(j) ==
  LET s == job[j].sync IN
  \/ /\ job[j].kind = "sync" /\ job[j].lost < RequeueLimit
     /\ SetJob(j, NewJob(s, "sync", job[j].lost + 1))
     /\ UNCHANGED <<status, mark>>
  \/ /\ job[j].kind = "sync" /\ job[j].lost = RequeueLimit
     /\ SetJob(j, NoJob)
     /\ SetStatus(s, "failed")
     /\ Marked(s, "dropped")
  \/ /\ job[j].kind = "remove"
     /\ SetJob(j, NoJob)
     /\ UNCHANGED <<status, mark>>

\* Mutant of AcquireFails: the lock is released by the job that did not get it.
AcquireFails_Releases(j) ==
  /\ job[j].state = "found"
  /\ lock[job[j].sync] # Nobody
  /\ TurnedAway(j)
  /\ lock' = [lock EXCEPT ![job[j].sync] = Nobody]
  /\ UNCHANGED <<source, dest, count, req, asked, expired, faults>>

\* The lock is held, or Redis fails, before or after it gave the lock.
AcquireFails(j) ==
  LET s == job[j].sync IN
  /\ job[j].state = "found"
  /\ TurnedAway(j)
  /\ \/ lock[s] # Nobody /\ UNCHANGED <<lock, faults>>
     \/ Fault /\ UNCHANGED lock
     \/ Fault /\ lock[s] = Nobody /\ lock' = [lock EXCEPT ![s] = j]
  /\ UNCHANGED <<source, dest, count, req, asked, expired>>

Admit(j) ==
  /\ job[j].state = "locked"
  /\ \/ job[j].kind = "sync" /\ count < Limit /\ count' = count + 1
     \/ job[j].kind = "remove" /\ UNCHANGED count
  /\ Goto(j, "admitted")
  /\ UNCHANGED <<source, dest, status, lock, req, asked, history>>

\* decrementByOrDelete
Decremented == IF count <= 1 THEN 0 ELSE count - 1

\* lock.release() frees the lock if it still is the job's own.  It swallows its
\* errors, and a lock that it could not free is left to its TTL.
Freed(j) == lock' = IF lock[job[j].sync] = j THEN [lock EXCEPT ![job[j].sync] = Nobody] ELSE lock
Released(j) ==
  \/ Freed(j) /\ UNCHANGED faults
  \/ Fault /\ UNCHANGED lock

\* Mutant of AdmitFails: the finally block gives back a slot that was never taken.
AdmitFails_Releases(j) ==
  /\ job[j].state = "locked" /\ job[j].kind = "sync"
  /\ count >= Limit
  /\ TurnedAway(j)
  /\ Released(j)
  /\ count' = Decremented
  /\ UNCHANGED <<source, dest, req, asked, expired>>

AdmitFails(j) ==
  /\ job[j].state = "locked" /\ job[j].kind = "sync"
  /\ count >= Limit
  /\ TurnedAway(j)
  /\ Released(j)
  /\ UNCHANGED <<source, dest, count, req, asked, expired>>

\* A call before the work fails: findById, $handleAcquireLockFailure, which may have
\* written its status, or $tryAdmitConnectionConcurrency, which may have counted.
Breaks(j) ==
  LET st == job[j].state IN
  /\ st \in {"wait", "found", "locked"}
  /\ Fault
  /\ SetJob(j, IF Again(j) THEN [Repeated(j) EXCEPT !.started = IF st = "wait" THEN @ + 1 ELSE @]
               ELSE NoJob)
  /\ NoReport(j)
  /\ IF st = "locked" THEN Freed(j) ELSE UNCHANGED lock
  /\ \/ UNCHANGED count
     \/ st = "locked" /\ job[j].kind = "sync" /\ count < Limit /\ count' = count + 1
  /\ \/ UNCHANGED status
     \/ /\ st \in {"found", "locked"} /\ job[j].kind = "sync" /\ job[j].lost = RequeueLimit
        /\ SetStatus(job[j].sync, "failed")
  /\ UNCHANGED <<source, dest, req, asked, expired>>

\* enterpriseSyncCheck or the write of the status "running" throws, outside the try
\* whose finally block reports.
Forbidden(j) ==
  /\ job[j].state = "admitted"
  /\ Goto(j, "fail")
  /\ NoReport(j)
  /\ UNCHANGED <<source, dest, status, redis, req, asked, expired, faults>>

\* The status, then the secrets: the latest, or what a replica has, or, because
\* errors with single secrets are dropped, a part.
Read(j) ==
  LET s == job[j].sync IN
  /\ job[j].state = "admitted"
  /\ IF job[j].kind = "sync" THEN SetStatus(s, "running") ELSE UNCHANGED status
  /\ \E v \in {0, source[s]} : SetJob(j, [job[j] EXCEPT !.state = "read", !.version = v])
  /\ UNCHANGED <<source, dest, redis, req, asked, history>>

Wrote(j) ==
  dest' = [dest EXCEPT ![job[j].sync] = IF job[j].kind = "sync" THEN job[j].version ELSE 0]

\* An error may come after the effect.  One that is not to be retried ends a sync.
Write(j) ==
  /\ job[j].state = "read"
  /\ \/ Wrote(j) /\ Goto(j, "good")
     \/ /\ Wrote(j) \/ UNCHANGED dest
        /\ \/ Goto(j, "bad")
           \/ job[j].kind = "sync" /\ Goto(j, "worst")
  /\ IF job[j].kind = "remove" THEN Marked(job[j].sync, "removed") ELSE UNCHANGED mark
  /\ UNCHANGED <<source, status, redis, req, asked, expired, faults>>

\* Mutant of FinalAttempt: attemptsMade instead of attemptsStarted.
FinalAttempt_Made(j) == job[j].made = Attempts

FinalAttempt(j) == job[j].started = Attempts

Reported(j) ==
  LET s == job[j].sync
      st == job[j].state IN
  IF job[j].kind = "sync"
    THEN IF st = "good" THEN SetStatus(s, "succeeded")
         ELSE IF st = "worst" \/ FinalAttempt(j) THEN SetStatus(s, "failed") ELSE UNCHANGED status
    ELSE IF st = "good" THEN SetStatus(s, "deleted") ELSE UNCHANGED status

\* The finally block of the handlers.
Report(j) ==
  /\ job[j].state \in {"good", "bad", "worst"}
  /\ Reported(j)
  /\ Goto(j, IF job[j].state = "bad" THEN "fail" ELSE "end")
  /\ UNCHANGED <<source, dest, redis, req, asked, history>>

\* It writes an audit log first, and queues a notification last: an error of either
\* fails the job, whatever came of its work.
ReportFails(j) ==
  /\ job[j].state \in {"good", "bad", "worst"}
  /\ Fault
  /\ \/ Reported(j) /\ UNCHANGED mark
     \/ UNCHANGED status /\ NoReport(j)
  /\ Goto(j, "fail")
  /\ UNCHANGED <<source, dest, redis, req, asked, expired>>

\* The finally block of the worker, and what BullMQ makes of the outcome.
Ends(j, failed) == SetJob(j, IF failed /\ Again(j) THEN Repeated(j) ELSE NoJob)
GivesBack(j) == count' = IF job[j].kind = "sync" THEN Decremented ELSE count

Leave(j) ==
  /\ job[j].state \in {"end", "fail"}
  /\ GivesBack(j)
  /\ Released(j)
  /\ Ends(j, job[j].state = "fail")
  /\ UNCHANGED <<source, dest, status, req, asked, mark, expired>>

\* A slot that it cannot give back fails the job, and the lock is left to its TTL.
LeaveFails(j) ==
  /\ job[j].state \in {"end", "fail"} /\ job[j].kind = "sync"
  /\ Fault
  /\ GivesBack(j) \/ UNCHANGED count
  /\ Ends(j, TRUE)
  /\ UNCHANGED <<source, dest, status, lock, req, asked, mark, expired>>

-----------------------------------------------------------------------------
(* TTLs and faults.                                                        *)

\* The holder of the lock, or a job with a slot, may have died: then the key is
\* an orphan.  Otherwise the work, not the admission to it, takes longer than the TTL.
LockExpires(s) ==
  LET inUse == lock[s] \in InFlight(s) /\ Working(lock[s]) IN
  /\ lock[s] # Nobody
  /\ inUse => job[lock[s]].state # "locked"
  /\ lock' = [lock EXCEPT ![s] = Nobody]
  /\ \/ inUse /\ Fault /\ Marked(s, "overlapped")
     \/ ~inUse /\ UNCHANGED <<mark, faults>>
  /\ UNCHANGED <<source, dest, status, count, job, req, asked, expired>>

CountExpires ==
  LET inUse == \E j \in Jobs : Counted(j) IN
  /\ count > 0
  /\ count' = 0
  /\ \/ inUse /\ Fault /\ expired' = TRUE
     \/ ~inUse /\ UNCHANGED <<expired, faults>>
  /\ UNCHANGED <<source, dest, status, lock, job, req, asked, mark>>

\* A worker dies.  BullMQ runs the job again, and gives it up the second time.
Die(j) ==
  /\ job[j].state \notin {"none", "wait"}
  /\ Fault
  /\ SetJob(j, IF job[j].stalled THEN NoJob
               ELSE [job[j] EXCEPT !.state = "wait", !.stalled = TRUE, !.version = 0])
  /\ Marked(job[j].sync, "died")
  /\ UNCHANGED <<source, dest, status, redis, req, asked, expired>>

-----------------------------------------------------------------------------
JobStep(j) ==
  \/ Find(j) \/ Acquire(j) \/ AcquireFails(j) \/ Admit(j) \/ AdmitFails(j)
  \/ Forbidden(j) \/ Read(j) \/ Write(j) \/ Report(j) \/ Leave(j)
  \/ Breaks(j) \/ ReportFails(j) \/ LeaveFails(j)

RequestStep(s) ==
  \/ ChangeStatus(s) \/ TriggerStatus(s) \/ Cut(s)
  \/ \E j \in Jobs : Queue(s, j)

RequestBegin(s) ==
  \/ Change(s) \/ DailyRetry(s) \/ Delete(s)
  \/ \E j \in Jobs : Trigger(s, j) \/ TriggerRemove(s, j)

Next ==
  \/ \E s \in Syncs : RequestBegin(s) \/ RequestStep(s) \/ LockExpires(s)
  \/ \E j \in Jobs : JobStep(j) \/ Die(j)
  \/ CountExpires

Spec == Init /\ [][Next]_vars

-----------------------------------------------------------------------------
(* Properties.                                                             *)

TypeOK ==
  /\ source \in [Syncs -> Versions] /\ dest \in [Syncs -> Versions]
  /\ status \in [Syncs -> Statuses]
  /\ lock \in [Syncs -> Jobs \cup {Nobody}]
  /\ count \in 0..Limit
  /\ job \in [Jobs -> Job]
  /\ req \in [Syncs -> {"idle", "change", "queue", "triggered"}]
  /\ asked \in 0..MaxAsked
  /\ mark \in [Syncs -> SUBSET Marks]
  /\ expired \in BOOLEAN
  /\ faults \in 0..MaxFaults

\* A connection never has more sync jobs at work than its limit, unless its
\* counter expired under one of them.
ConnectionNotOverrun ==
  expired \/ Cardinality({j \in Jobs : Counted(j)}) <= Limit

\* Two jobs never work on one sync, unless the lock expired under one of them.
OneJobPerSync ==
  \A s \in Syncs : "overlapped" \notin mark[s] =>
    \A i, j \in InFlight(s) : Working(i) /\ Working(j) => i = j

\* A sync that rests with the status "succeeded" has the latest secrets at its
\* destination, if whoever wrote them there had read them all.  Excepted are syncs
\* where two jobs overlapped, a removal took secrets back, a worker or a request
\* ended half-way, or the job for the latest secrets was given up and an older one
\* reported after it.
SucceededMeansSynced ==
  \A s \in Syncs :
    /\ status[s] = "succeeded" /\ req[s] = "idle" /\ InFlight(s) = {}
    /\ mark[s] \cap {"overlapped", "removed", "dropped", "silent", "died", "cut"} = {}
    /\ dest[s] # 0
    => dest[s] = source[s]

\* A sync that says "pending" or "running" has a job that will report, so that the
\* user does not wait in vain.  Excepted are syncs where a worker died, a request
\* ended before it queued the job, the last attempt failed outside of its report or
\* in it, or "pending" was written after the report.
UnsettledHasJob ==
  \A s \in Syncs :
    /\ status[s] \in {"pending", "running"} /\ req[s] = "idle"
    /\ mark[s] \cap {"died", "silent", "late", "cut"} = {}
    => \E j \in InFlight(s) : job[j].kind = "sync" /\ job[j].state # "end"
=============================================================================
