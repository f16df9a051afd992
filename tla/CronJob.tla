------------------------------ MODULE CronJob ------------------------------
(***************************************************************************)
(* The runs of one cron entry: lib/cron/cron-job.ts.                       *)
(*                                                                         *)
(* Every fire of the entry becomes a run: a hash and an entry of a pending *)
(* zset in Redis.  The process ticks of the pods look at the pending runs, *)
(* decide from the hash what to do, race for a lease (redlock, no retries, *)
(* extended automatically while its holder lives) and execute the handler. *)
(* Ticks of one pod may overlap, and are modelled like ticks of two pods.  *)
(*                                                                         *)
(* A member of Runs stands for one fire at a time, and for a later fire    *)
(* once nothing refers to the former any more.                             *)
(***************************************************************************)
EXTENDS Naturals, FiniteSets

CONSTANTS
  Runs,         \* ids of runs
  Ticks,        \* process ticks in progress, over all pods
  Nobody,       \* the holder of a lease that is free
  MaxAttempts,  \* maxAttempts of the entry
  MaxFaults     \* bound: crashes, failed Redis calls, failed lease extensions

ASSUME CronAssumption ==
  /\ Ticks # {} /\ Nobody \notin Ticks
  /\ MaxAttempts \in Nat \ {0}
  /\ MaxFaults \in Nat

VARIABLES
  fired,     \* runs whose time is the entry's most recent fire
  hash,      \* the run hashes
  pending,   \* the pending zset: "out", "due", or "backoff" until its score
  lease,     \* holder of a run's lease
  pc,        \* where a tick is in processCandidate and executeUnderLease
  todo,      \* ids a tick has read from the zset and not looked at yet
  run,       \* the run a tick is at
  attempts,  \* what a tick read as the attempts of that run
  zombies,   \* handlers that go on after their timeout: <<tick, run>>
  overrun,   \* history: ticks whose lease could not be extended
  ended,     \* history: runs that were marked completed or failed
  faults     \* faults so far

redis == <<hash, pending, lease>>
local == <<pc, todo, run, attempts>>
vars == <<fired, redis, local, zombies, overrun, ended, faults>>

Statuses == {"none", "pending", "running", "completed", "failed"}

\* The fields of a hash that decide; `named' is false in a hash that a late
\* hset brought back after its TTL.
Hash == [named : BOOLEAN, status : Statuses, attempts : 0..MaxAttempts]
NoHash == [named |-> FALSE, status |-> "none", attempts |-> 0]

Init ==
  /\ fired = {}
  /\ hash = [r \in Runs |-> NoHash]
  /\ pending = [r \in Runs |-> "out"]
  /\ lease = [r \in Runs |-> Nobody]
  /\ pc = [t \in Ticks |-> "idle"]
  /\ todo = [t \in Ticks |-> {}]
  /\ run \in [Ticks -> Runs]
  /\ attempts = [t \in Ticks |-> 0]
  /\ zombies = {}
  /\ overrun = {}
  /\ ended = {}
  /\ faults = 0

-----------------------------------------------------------------------------
(* Time.                                                                   *)

Mentioned(r) ==
  \/ pending[r] # "out"
  \/ lease[r] # Nobody
  \/ \E t \in Ticks : r \in todo[t] \/ (run[t] = r /\ pc[t] # "idle") \/ <<t, r>> \in zombies

\* The next fire time of the entry passes; r is its run.
FireTime(r) ==
  /\ r \notin fired
  /\ ~Mentioned(r)
  /\ fired' = fired \cup {r}
  /\ hash' = [hash EXCEPT ![r] = NoHash]
  /\ ended' = ended \ {r}
  /\ UNCHANGED <<pending, lease, local, zombies, overrun, faults>>

\* runHashTtlS exceeds the interval of every registered entry: by the time a
\* hash expires its fire is no longer the most recent one.
HashExpires(r) ==
  /\ hash[r].named
  /\ hash' = [hash EXCEPT ![r] = NoHash]
  /\ fired' = fired \ {r}
  /\ UNCHANGED <<pending, lease, local, zombies, overrun, ended, faults>>

BackoffEnds(r) ==
  /\ pending[r] = "backoff"
  /\ pending' = [pending EXCEPT ![r] = "due"]
  /\ UNCHANGED <<fired, hash, lease, local, zombies, overrun, ended, faults>>

\* The pc's of a tick inside redlock.using.
Leased == {"mark", "handle", "complete", "completed", "fail", "failed", "retry", "requeue",
           "release"}

\* The lease outlives neither a dead holder nor one that fails to extend it.
LeaseExpires(r) ==
  LET t == lease[r]
      live == t # Nobody /\ run[t] = r /\ pc[t] \in Leased IN
  /\ t # Nobody
  /\ live => faults < MaxFaults
  /\ faults' = IF live THEN faults + 1 ELSE faults
  /\ overrun' = IF live THEN overrun \cup {t} ELSE overrun
  /\ lease' = [lease EXCEPT ![r] = Nobody]
  /\ UNCHANGED <<fired, hash, pending, local, zombies, ended>>

-----------------------------------------------------------------------------
(* enqueueDueFires and processTick.                                        *)

\* ENQUEUE_RUN_LUA: pods that race to enqueue the same fire produce one run.
Enqueue(r) ==
  /\ r \in fired
  /\ hash[r].status = "none"
  /\ hash' = [hash EXCEPT ![r] = [named |-> TRUE, status |-> "pending", attempts |-> 0]]
  /\ pending' = [pending EXCEPT ![r] = "due"]
  /\ UNCHANGED <<fired, lease, local, zombies, overrun, ended, faults>>

Goto(t, label) == pc' = [pc EXCEPT ![t] = label]

\* zrangebyscore ... now; the ids are then processed in any order.
ReadPending(t) ==
  LET due == {r \in Runs : pending[r] = "due"} IN
  /\ pc[t] = "idle"
  /\ todo[t] = {}
  /\ due # {}
  /\ todo' = [todo EXCEPT ![t] = due]
  /\ UNCHANGED <<fired, redis, pc, run, attempts, zombies, overrun, ended, faults>>

-----------------------------------------------------------------------------
(* processCandidate: decisions without the lease.                          *)

\* hgetall.  A nameless hash means an entry that lingers; a running one has
\* to be probed for its lease; one that is final is left alone.
ReadHash(t, r) ==
  /\ pc[t] = "idle"
  /\ r \in todo[t]
  /\ todo' = [todo EXCEPT ![t] = @ \ {r}]
  /\ run' = [run EXCEPT ![t] = r]
  /\ attempts' = [attempts EXCEPT ![t] = hash[r].attempts]
  /\ Goto(t, IF ~hash[r].named THEN "cleanup"
             ELSE IF hash[r].status = "pending" THEN "ready"
             ELSE IF hash[r].status = "running" THEN "probe"
             ELSE "idle")
  /\ UNCHANGED <<fired, redis, zombies, overrun, ended, faults>>

\* Mutant of Stalled: a running run is never seen as stalled.
Stalled_Never(r) == FALSE

Stalled(r) == lease[r] = Nobody

\* exists lease: the second half of isStalled, a call of its own.
ProbeLease(t) ==
  /\ pc[t] = "probe"
  /\ Goto(t, IF Stalled(run[t]) THEN "ready" ELSE "idle")
  /\ UNCHANGED <<fired, redis, todo, run, attempts, zombies, overrun, ended, faults>>

\* Mutant of Eligible: the max-attempts gate lets one attempt too many pass.
Eligible_Late(n) == n <= MaxAttempts

Eligible(n) == n < MaxAttempts

\* Mutant of LeaseFree: the lease is taken without looking.
LeaseFree_Blind(r) == TRUE

LeaseFree(r) == lease[r] = Nobody

\* ACQUIRE_SCRIPT.
TakeLease(t) ==
  /\ pc[t] = "ready" /\ Eligible(attempts[t])
  /\ LeaseFree(run[t])
  /\ lease' = [lease EXCEPT ![run[t]] = t]
  /\ UNCHANGED <<hash, pending, ended>>

AcquireLease(t) ==
  /\ TakeLease(t)
  /\ Goto(t, "mark")
  /\ UNCHANGED <<fired, todo, run, attempts, zombies, overrun, faults>>

LeaseTaken(t) ==
  /\ pc[t] = "ready" /\ Eligible(attempts[t])
  /\ ~LeaseFree(run[t])
  /\ Goto(t, "idle")
  /\ UNCHANGED <<fired, redis, todo, run, attempts, zombies, overrun, ended, faults>>

-----------------------------------------------------------------------------
(* executeUnderLease.                                                      *)

\* Mutant of SetRunning: the run is taken off the zset when it starts.
SetRunning_Pops(t) ==
  /\ pc[t] = "mark"
  /\ hash' = [hash EXCEPT ![run[t]].status = "running", ![run[t]].attempts = attempts[t] + 1]
  /\ pending' = [pending EXCEPT ![run[t]] = "out"]
  /\ UNCHANGED <<lease, ended>>

SetRunning(t) ==
  /\ pc[t] = "mark"
  /\ hash' = [hash EXCEPT ![run[t]].status = "running", ![run[t]].attempts = attempts[t] + 1]
  /\ UNCHANGED <<pending, lease, ended>>

MarkRunning(t) ==
  /\ SetRunning(t)
  /\ Goto(t, "handle")
  /\ UNCHANGED <<fired, todo, run, attempts, zombies, overrun, faults>>

HandlerSucceeds(t) ==
  /\ pc[t] = "handle"
  /\ Goto(t, "complete")
  /\ UNCHANGED <<fired, redis, todo, run, attempts, zombies, overrun, ended, faults>>

\* A failed attempt is final when it was the last, or when its backoff would
\* not end before the next fire.
AfterError(t) == {"fail"} \cup (IF attempts[t] + 1 < MaxAttempts THEN {"retry"} ELSE {})

HandlerFails(t) ==
  /\ pc[t] = "handle"
  /\ \E next \in AfterError(t) : Goto(t, next)
  /\ UNCHANGED <<fired, redis, todo, run, attempts, zombies, overrun, ended, faults>>

\* The timeout wins the race: the run is final, the handler goes on.
HandlerTimesOut(t) ==
  /\ pc[t] = "handle"
  /\ zombies' = zombies \cup {<<t, run[t]>>}
  /\ Goto(t, "fail")
  /\ UNCHANGED <<fired, redis, todo, run, attempts, overrun, ended, faults>>

ZombieEnds(t, r) ==
  /\ <<t, r>> \in zombies
  /\ zombies' = zombies \ {<<t, r>>}
  /\ UNCHANGED <<fired, redis, local, overrun, ended, faults>>

\* markCompleted, markFailedFinal and markPendingRetry are two calls each: one
\* on the hash, one on the zset.  A run whose attempts are used up is marked
\* failed without the lease.
NewStatus(t) ==
  CASE pc[t] = "complete" -> "completed"
    [] pc[t] = "retry" -> "pending"
    [] OTHER -> "failed"

SetStatus(t) ==
  /\ pc[t] \in {"complete", "fail", "retry"} \/ (pc[t] = "ready" /\ ~Eligible(attempts[t]))
  /\ hash' = [hash EXCEPT ![run[t]].status = NewStatus(t)]
  /\ ended' = IF NewStatus(t) = "pending" THEN ended ELSE ended \cup {run[t]}
  /\ UNCHANGED <<pending, lease>>

WriteStatus(t) ==
  /\ SetStatus(t)
  /\ Goto(t, CASE pc[t] = "complete" -> "completed"
               [] pc[t] = "fail" -> "failed"
               [] pc[t] = "retry" -> "requeue"
               [] OTHER -> "cleanup")
  /\ UNCHANGED <<fired, todo, run, attempts, zombies, overrun, faults>>

\* zrem, or zadd with the time of the next attempt.
SetPending(t) ==
  /\ pc[t] \in {"completed", "failed", "requeue", "cleanup"}
  /\ pending' = [pending EXCEPT ![run[t]] = IF pc[t] = "requeue" THEN "backoff" ELSE "out"]
  /\ UNCHANGED <<hash, lease, ended>>

WritePending(t) ==
  /\ SetPending(t)
  /\ Goto(t, IF pc[t] = "cleanup" THEN "idle" ELSE "release")
  /\ UNCHANGED <<fired, todo, run, attempts, zombies, overrun, faults>>

\* Mutant of Released: the release deletes the lease whoever holds it.
Released_AnyHolder(t) == Nobody

\* RELEASE_SCRIPT compares the lock's value.
Released(t) == IF lease[run[t]] = t THEN Nobody ELSE lease[run[t]]

GiveLeaseBack(t) ==
  /\ pc[t] = "release"
  /\ lease' = [lease EXCEPT ![run[t]] = Released(t)]
  /\ UNCHANGED <<hash, pending, ended>>

ReleaseLease(t) ==
  /\ GiveLeaseBack(t)
  /\ overrun' = overrun \ {t}
  /\ Goto(t, "idle")
  /\ UNCHANGED <<fired, todo, run, attempts, zombies, faults>>

Writes(t) ==
  TakeLease(t) \/ SetRunning(t) \/ SetStatus(t) \/ SetPending(t) \/ GiveLeaseBack(t)

\* A Redis call of the tick fails, with or without having done its work.
\* markCompleted is inside the try of the handler: its failure counts as a
\* failed attempt.
CallFails(t) ==
  /\ faults < MaxFaults
  /\ faults' = faults + 1
  /\ Writes(t) \/ UNCHANGED <<redis, ended>>
  /\ \/ pc[t] \in {"probe", "ready", "cleanup", "release"} /\ Goto(t, "idle")
     \/ pc[t] \in {"mark", "fail", "failed", "retry", "requeue"} /\ Goto(t, "release")
     \/ pc[t] \in {"complete", "completed"} /\ \E next \in AfterError(t) : Goto(t, next)
  /\ overrun' = IF pc[t] = "release" THEN overrun \ {t} ELSE overrun
  /\ UNCHANGED <<fired, todo, run, attempts, zombies>>

\* The hgetall fails: the tick goes on with the next id.
ReadFails(t, r) ==
  /\ pc[t] = "idle" /\ r \in todo[t]
  /\ faults < MaxFaults
  /\ faults' = faults + 1
  /\ todo' = [todo EXCEPT ![t] = @ \ {r}]
  /\ UNCHANGED <<fired, redis, pc, run, attempts, zombies, overrun, ended>>

\* The pod dies, and its zombies with it; its lease stays until the TTL ends.
Crash(t) ==
  /\ pc[t] # "idle" \/ \E r \in Runs : <<t, r>> \in zombies
  /\ faults < MaxFaults
  /\ faults' = faults + 1
  /\ Goto(t, "idle")
  /\ todo' = [todo EXCEPT ![t] = {}]
  /\ zombies' = {z \in zombies : z[1] # t}
  /\ overrun' = overrun \ {t}
  /\ UNCHANGED <<fired, redis, run, attempts, ended>>

-----------------------------------------------------------------------------
Step(t) ==
  \/ ReadPending(t)
  \/ \E r \in Runs : ReadHash(t, r)
  \/ ProbeLease(t) \/ AcquireLease(t) \/ LeaseTaken(t)
  \/ MarkRunning(t) \/ HandlerSucceeds(t) \/ HandlerFails(t) \/ HandlerTimesOut(t)
  \/ WriteStatus(t) \/ WritePending(t) \/ ReleaseLease(t)

Next ==
  \/ \E r \in Runs : FireTime(r) \/ HashExpires(r) \/ BackoffEnds(r) \/ LeaseExpires(r)
                     \/ Enqueue(r)
  \/ \E t \in Ticks : Step(t) \/ CallFails(t) \/ Crash(t)
  \/ \E t \in Ticks, r \in Runs : ZombieEnds(t, r) \/ ReadFails(t, r)

Spec == Init /\ [][Next]_vars

\* The timers keep ticking; a handler ends or times out; clocks and TTLs go on.
Fairness ==
  /\ \A t \in Ticks : WF_vars(Step(t))
  /\ \A r \in Runs : /\ WF_vars(BackoffEnds(r))
                     /\ WF_vars(LeaseExpires(r) /\ faults' = faults)

FairSpec == Spec /\ Fairness

-----------------------------------------------------------------------------
(* Properties.                                                             *)

\* Every hash and every local variable has its type, and the stored attempts
\* never exceed maxAttempts, whatever stale value a tick carried.
TypeOK ==
  /\ fired \subseteq Runs
  /\ hash \in [Runs -> Hash]
  /\ pending \in [Runs -> {"out", "due", "backoff"}]
  /\ lease \in [Runs -> Ticks \cup {Nobody}]
  /\ pc \in [Ticks -> {"idle", "cleanup", "probe", "ready"} \cup Leased]
  /\ todo \in [Ticks -> SUBSET Runs]
  /\ run \in [Ticks -> Runs]
  /\ attempts \in [Ticks -> 0..MaxAttempts]
  /\ zombies \subseteq Ticks \X Runs
  /\ overrun \subseteq Ticks
  /\ ended \subseteq Runs
  /\ faults \in Nat

Executing(t, r) == pc[t] = "handle" /\ run[t] = r

\* Two ticks execute the same run at once only if one lost its lease while it
\* lived: neither crashes nor late releases nor stale reads break the lease.
LeaseExcludes ==
  \A s, t \in Ticks : \A r \in Runs :
    s # t /\ Executing(s, r) /\ Executing(t, r) => s \in overrun \/ t \in overrun

\* A run that is open stays in the zset, where the ticks find it, unless a
\* final status was once written to it: no crash or failed call between the
\* two halves of a status change loses it.
OpenIsPending ==
  \A r \in Runs : hash[r].named /\ hash[r].status \in {"pending", "running"}
                  => pending[r] # "out" \/ r \in ended

\* Every run that is enqueued comes to an end, unless its hash expires first.
EveryRunEnds ==
  \A r \in Runs : hash[r].status = "pending" ~> r \in ended \/ ~hash[r].named
=============================================================================
