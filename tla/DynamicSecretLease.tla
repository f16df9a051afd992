------------------------- MODULE DynamicSecretLease -------------------------
(***************************************************************************)
(* The leases of one dynamic secret:                                       *)
(* ee/services/dynamic-secret-lease, and the deletion of the secret in     *)
(* ee/services/dynamic-secret.                                             *)
(*                                                                         *)
(* A lease is three things kept in step by hand: an account that the       *)
(* provider (a database, a cloud) made, a row, and a delayed BullMQ job    *)
(* that will revoke the account and delete the row.  Requests create,      *)
(* renew and revoke leases and delete the secret; each is a sequence of    *)
(* awaited calls without a transaction, and the jobs run beside them.      *)
(*                                                                         *)
(* An action is a call that others may run before or after: a read with    *)
(* the call that follows from it, a failed call with its catch.            *)
(*                                                                         *)
(* There is no clock: what counts is how long after its creation a lease   *)
(* is to live, and its job is to run.  A job that waits for that moment,   *)
(* or for the backoff of a failed attempt, may run at any later step.      *)
(* Reads see the latest row (no replica lag).                              *)
(***************************************************************************)
EXTENDS Naturals, FiniteSets

CONSTANTS
  Leases,    \* ids of leases, each created at most once
  Requests,  \* requests in progress, over all pods
  NoLease,   \* the lease of a request that has none
  TTLs,      \* lifetimes a request may ask for
  MaxTTL,    \* maxTTL of the secret
  Attempts,  \* attempts of every job of this queue
  MaxAsked,  \* bound: requests begun
  MaxFaults  \* bound: requests cut short, error handlers that fail in their
             \* turn, and workers that die in a job

ASSUME LeaseAssumption ==
  /\ NoLease \notin Leases
  /\ TTLs \subseteq Nat \ {0}
  /\ MaxTTL \in Nat /\ MaxAsked \in Nat /\ MaxFaults \in Nat
  /\ Attempts \in Nat \ {0}

VARIABLES
  config,   \* the secret: "active", "deleting", "failed" (to delete), "gone"
  row,      \* rows of the leases
  account,  \* accounts at the provider
  job,      \* revocation jobs: "main" has the lease's id, "retry" <id>-retry
  prune,    \* the job that deletes the secret
  req,      \* where the requests are
  asked,    \* requests begun so far
  alerted,  \* leases whose failure the project admins are told of
  mark,     \* history: what happened to a lease, see Marks
  faults    \* faults so far

vars == <<config, row, account, job, prune, req, asked, alerted, mark, faults>>

Kinds == {"main", "retry"}

\* `life' is expireAt - createdAt, `after' the life at which a job was to run.
Row == [state : {"unborn", "present", "gone"}, failed : BOOLEAN, life : Nat]
Unborn == [state |-> "unborn", failed |-> FALSE, life |-> 0]
Gone == [Unborn EXCEPT !.state = "gone"]
Job == [state : {"none", "wait", "revoke", "delete"},
        after : Nat, made : 0..(Attempts - 1), stalled : BOOLEAN]
NoJob == [state |-> "none", after |-> 0, made |-> 0, stalled |-> FALSE]
Prune == [state : {"none", "wait", "revoke", "delete"},
          made : 0..(Attempts - 1), seen : SUBSET Leases]
NoPrune == [state |-> "none", made |-> 0, seen |-> {}]
Request == [pc : {"idle", "create.insert", "create.schedule", "renew.unset", "renew.set",
                  "renew.update", "revoke.flag", "revoke.retry", "revoke.unset", "revoke.row",
                  "delete.flag", "delete.prune", "delete.row"},
            lease : Leases \cup {NoLease}, until : Nat, seen : SUBSET Leases]
Idle == [pc |-> "idle", lease |-> NoLease, until |-> 0, seen |-> {}]

\* What may have happened to a lease: a request on it was cut short; a forced
\* request gave its account up; a deletion of the secret unset its revocation,
\* or did not see its row; a renewal of it overlapped its creation, its job or
\* another renewal; the error handler of its job failed once it had flagged the
\* row, or at the last attempt.
Marks == {"cut", "forced", "stripped", "overlooked", "contested", "silent"}

Init ==
  /\ config = "active"
  /\ row = [l \in Leases |-> Unborn]
  /\ account = [l \in Leases |-> "none"]
  /\ job = [k \in Kinds |-> [l \in Leases |-> NoJob]]
  /\ prune = NoPrune
  /\ req = [r \in Requests |-> Idle]
  /\ asked = 0
  /\ alerted = {}
  /\ mark = [l \in Leases |-> {}]
  /\ faults = 0

Present == {l \in Leases : row[l].state = "present"}
Failed == {l \in Present : row[l].failed}

On(l, pcs) == \E r \in Requests : req[r].lease = l /\ req[r].pc \in pcs
Renewing(l) == On(l, {"renew.unset", "renew.set", "renew.update"})
Running(k, l) == job[k][l].state \in {"revoke", "delete"}

-----------------------------------------------------------------------------
(* Changes that several actions make.                                      *)

\* Requests: move on, or answer.
At(r, pc) == req[r].pc = pc
Begin(r, pc, l, until, seen) ==
  /\ At(r, "idle") /\ asked < MaxAsked
  /\ req' = [req EXCEPT ![r] = [pc |-> pc, lease |-> l, until |-> until, seen |-> seen]]
  /\ asked' = asked + 1
Goto(r, pc) == req' = [req EXCEPT ![r].pc = pc] /\ UNCHANGED asked
Answer(r) == req' = [req EXCEPT ![r] = Idle] /\ UNCHANGED asked

\* An add under an id that is in the queue is ignored.
Queued(js, k, l, after) ==
  IF js[k][l].state = "none"
    THEN [js EXCEPT ![k][l] = [NoJob EXCEPT !.state = "wait", !.after = after]]
    ELSE js

\* A job that is running is locked: its removal fails, and the error is dropped.
Stopped(js, ls) ==
  [js EXCEPT !["main"] = [l \in Leases |->
     IF l \in ls /\ js["main"][l].state = "wait" THEN NoJob ELSE js["main"][l]]]

\* What is left of a job whose attempt failed: it is removed after the last one.
Again(j) == IF j.made + 1 = Attempts THEN NoJob ELSE [j EXCEPT !.state = "wait", !.made = @ + 1]

\* The status of a lease; an update of a row that is gone does nothing.
Flag(l) == row' = IF l \in Present THEN [row EXCEPT ![l].failed = TRUE] ELSE row

Fault == faults < MaxFaults /\ faults' = faults + 1

\* History.
Marked(ls, ms) == [l \in Leases |-> IF l \in ls THEN mark[l] \cup ms ELSE mark[l]]

-----------------------------------------------------------------------------
(* Requests on a lease.                                                    *)

\* The reads and provider.create.  The lease limit is no guard: the count of the
\* leases is always NaN, which is not above it.  Nor is the secret's status.
CreateBegin(r, l, ttl) ==
  /\ row[l].state = "unborn" /\ \A s \in Requests : req[s].lease # l
  /\ config # "gone"
  /\ ttl <= MaxTTL
  /\ account' = [account EXCEPT ![l] = "live"]
  /\ Begin(r, "create.insert", l, ttl, {})
  /\ UNCHANGED <<config, row, job, prune, alerted, mark, faults>>

\* The row refers to the secret: without it the insert fails, and nothing
\* removes the account.
CreateInsert(r) ==
  LET l == req[r].lease IN
  /\ At(r, "create.insert")
  /\ \/ /\ config # "gone"
        /\ row' = [row EXCEPT ![l] = [state |-> "present", failed |-> FALSE, life |-> req[r].until]]
        /\ Goto(r, "create.schedule")
        /\ UNCHANGED mark
     \/ /\ config = "gone"
        /\ row' = [row EXCEPT ![l] = Gone]
        /\ mark' = Marked({l}, {"overlooked"})
        /\ Answer(r)
  /\ UNCHANGED <<config, account, job, prune, alerted, faults>>

CreateSchedule(r) ==
  /\ At(r, "create.schedule")
  /\ job' = Queued(job, "main", req[r].lease, req[r].until)
  /\ Answer(r)
  /\ UNCHANGED <<config, row, account, prune, alerted, mark, faults>>

\* Mutant: the bound of a renewal is that of a creation, from now on.
RenewBegin_BoundFromNow(r, l, ttl) ==
  /\ l \in Present
  /\ ttl <= MaxTTL
  /\ Begin(r, "renew.unset", l, row[l].life + ttl, {})
  /\ UNCHANGED <<config, row, account, job, prune, alerted, mark, faults>>

\* findById, the check of maxTTL, provider.renew
RenewBegin(r, l, ttl) ==
  LET until == row[l].life + ttl IN
  /\ l \in Present
  /\ until <= MaxTTL
  /\ Begin(r, "renew.unset", l, until, {})
  /\ mark' = IF Renewing(l) \/ On(l, {"create.schedule"}) THEN Marked({l}, {"contested"}) ELSE mark
  /\ UNCHANGED <<config, row, account, job, prune, alerted, faults>>

\* Mutant: the pending revocation is left in the queue.
RenewUnset_Kept(r) ==
  /\ At(r, "renew.unset")
  /\ Goto(r, "renew.set")
  /\ UNCHANGED <<config, row, account, job, prune, alerted, mark, faults>>

RenewUnset(r) ==
  LET l == req[r].lease IN
  /\ At(r, "renew.unset")
  /\ job' = Stopped(job, {l})
  /\ mark' = IF Running("main", l) THEN Marked({l}, {"contested"}) ELSE mark
  /\ Goto(r, "renew.set")
  /\ UNCHANGED <<config, row, account, prune, alerted, faults>>

RenewSet(r) ==
  /\ At(r, "renew.set")
  /\ job' = Queued(job, "main", req[r].lease, req[r].until)
  /\ Goto(r, "renew.update")
  /\ UNCHANGED <<config, row, account, prune, alerted, mark, faults>>

\* Mutant: the old revocation is unset last, when it is the new one.
RenewUpdate_UnsetsLast(r) ==
  LET l == req[r].lease IN
  /\ At(r, "renew.update")
  /\ row' = IF l \in Present THEN [row EXCEPT ![l].life = req[r].until] ELSE row
  /\ job' = Stopped(job, {l})
  /\ Answer(r)
  /\ UNCHANGED <<config, account, prune, alerted, mark, faults>>

\* The status stays as it is.
RenewUpdate(r) ==
  LET l == req[r].lease IN
  /\ At(r, "renew.update")
  /\ row' = IF l \in Present THEN [row EXCEPT ![l].life = req[r].until] ELSE row
  /\ Answer(r)
  /\ UNCHANGED <<config, account, job, prune, alerted, mark, faults>>

\* Mutant: the error of the provider is dropped, as if the request were forced.
RevokeBegin_ErrorDropped(r, l) ==
  /\ l \in Present
  /\ \/ account' = [account EXCEPT ![l] = "revoked"]
     \/ UNCHANGED account
  /\ Begin(r, "revoke.unset", l, 0, {})
  /\ UNCHANGED <<config, row, job, prune, alerted, mark, faults>>

\* findById and provider.revoke, whose error may come after its effect.
RevokeBegin(r, l) ==
  /\ l \in Present
  /\ \/ /\ account' = [account EXCEPT ![l] = "revoked"]
        /\ \E pc \in {"revoke.unset", "revoke.flag"} : Begin(r, pc, l, 0, {})
     \/ /\ UNCHANGED account
        /\ Begin(r, "revoke.flag", l, 0, {})
  /\ UNCHANGED <<config, row, job, prune, alerted, mark, faults>>

\* The error of the provider is dropped.
RevokeForced(r, l) ==
  /\ l \in Present
  /\ mark' = Marked({l}, {"forced"})
  /\ Begin(r, "revoke.unset", l, 0, {})
  /\ UNCHANGED <<config, row, account, job, prune, alerted, faults>>

RevokeFlag(r) ==
  /\ At(r, "revoke.flag")
  /\ Flag(req[r].lease)
  /\ Goto(r, "revoke.retry")
  /\ UNCHANGED <<config, account, job, prune, alerted, mark, faults>>

\* queueFailedRevocation
RevokeRetry(r) ==
  /\ At(r, "revoke.retry")
  /\ job' = Queued(job, "retry", req[r].lease, 0)
  /\ Answer(r)
  /\ UNCHANGED <<config, row, account, prune, alerted, mark, faults>>

\* unsetLeaseRevocation
RevokeUnset(r) ==
  /\ At(r, "revoke.unset")
  /\ job' = Stopped(job, {req[r].lease})
  /\ Goto(r, "revoke.row")
  /\ UNCHANGED <<config, row, account, prune, alerted, mark, faults>>

RevokeRow(r) ==
  /\ At(r, "revoke.row")
  /\ row' = [row EXCEPT ![req[r].lease] = Gone]
  /\ Answer(r)
  /\ UNCHANGED <<config, account, job, prune, alerted, mark, faults>>

-----------------------------------------------------------------------------
(* Requests on the secret.                                                 *)

\* An update of the secret ends by clearing its status, whatever it was.
UpdateConfig ==
  /\ config # "gone"
  /\ asked < MaxAsked /\ asked' = asked + 1
  /\ config' = "active"
  /\ UNCHANGED <<row, account, job, prune, req, alerted, mark, faults>>

\* deleteByName reads the leases, and decides from them.
DeleteBegin(r) ==
  /\ config # "gone"
  /\ Begin(r, IF Present = {} THEN "delete.row" ELSE "delete.flag", NoLease, 0, Present)
  /\ UNCHANGED <<config, row, account, job, prune, alerted, mark, faults>>

\* Only the forced form unsets the revocations, and gives the accounts up.
DeleteForced(r) ==
  /\ config # "gone"
  /\ Begin(r, "delete.row", NoLease, 0, Present)
  /\ job' = Stopped(job, Present)
  /\ mark' = Marked(Present, {"stripped", "forced"})
  /\ UNCHANGED <<config, row, account, prune, alerted, faults>>

\* Without the secret the update returns nothing, and the request fails.
DeleteFlag(r) ==
  /\ At(r, "delete.flag")
  /\ \/ config # "gone" /\ config' = "deleting" /\ Goto(r, "delete.prune")
     \/ config = "gone" /\ UNCHANGED config /\ Answer(r)
  /\ UNCHANGED <<row, account, job, prune, alerted, mark, faults>>

\* pruneDynamicSecret
DeletePrune(r) ==
  /\ At(r, "delete.prune")
  /\ prune' = IF prune.state = "none" THEN [NoPrune EXCEPT !.state = "wait"] ELSE prune
  /\ Answer(r)
  /\ UNCHANGED <<config, row, account, job, alerted, mark, faults>>

\* The rows of the leases go with the secret; `seen' are those the deletion read.
Cascade(seen) ==
  /\ config' = "gone"
  /\ row' = [l \in Leases |-> IF l \in Present THEN Gone ELSE row[l]]
  /\ mark' = Marked(Present \ seen, {"overlooked"})

DeleteRow(r) ==
  /\ At(r, "delete.row")
  /\ Cascade(req[r].seen)
  /\ Answer(r)
  /\ UNCHANGED <<account, job, prune, alerted, faults>>

-----------------------------------------------------------------------------
(* The revocation jobs.                                                    *)

\* A job without a row is done.
JobStart(k, l) ==
  /\ job[k][l].state = "wait"
  /\ job' = [job EXCEPT ![k][l] = IF l \in Present THEN [@ EXCEPT !.state = "revoke"] ELSE NoJob]
  /\ UNCHANGED <<config, row, account, prune, req, asked, alerted, mark, faults>>

JobRevoke(k, l) ==
  /\ job[k][l].state = "revoke"
  /\ account' = [account EXCEPT ![l] = "revoked"]
  /\ job' = [job EXCEPT ![k][l].state = "delete"]
  /\ UNCHANGED <<config, row, prune, req, asked, alerted, mark, faults>>

JobDelete(k, l) ==
  /\ job[k][l].state = "delete"
  /\ row' = [row EXCEPT ![l] = Gone]
  /\ job' = [job EXCEPT ![k][l] = NoJob]
  /\ UNCHANGED <<config, account, prune, req, asked, alerted, mark, faults>>

\* provider.revoke fails, maybe after its effect
ProviderFails(k, l) ==
  /\ job[k][l].state = "revoke"
  /\ \/ account' = [account EXCEPT ![l] = "revoked"]
     \/ UNCHANGED account

\* The main job hands over to the retry job.  It cannot stop itself: it is
\* running, and will run again.
MainFails(l) ==
  /\ ProviderFails("main", l)
  /\ Flag(l)
  /\ job' = [Queued(job, "retry", l, 0) EXCEPT !["main"][l] = Again(@)]
  /\ UNCHANGED <<config, prune, req, asked, alerted, mark, faults>>

\* Mutant: the last attempt is told by one that never comes.
RetryFails_NoAlert(l) ==
  /\ ProviderFails("retry", l)
  /\ Flag(l)
  /\ job' = [job EXCEPT !["retry"][l] = Again(@)]
  /\ UNCHANGED <<config, prune, req, asked, alerted, mark, faults>>

\* The last attempt stops the main job and sends for the admins.
RetryFails(l) ==
  LET last == job["retry"][l].made + 1 = Attempts IN
  /\ ProviderFails("retry", l)
  /\ Flag(l)
  /\ job' = [(IF last THEN Stopped(job, {l}) ELSE job) EXCEPT !["retry"][l] = Again(@)]
  /\ alerted' = IF last THEN alerted \cup {l} ELSE alerted
  /\ UNCHANGED <<config, prune, req, asked, mark, faults>>

-----------------------------------------------------------------------------
(* The job that deletes the secret.                                        *)

\* The status, the leases, and unsetLeaseRevocation of each.
PruneStart ==
  /\ prune.state = "wait"
  /\ \/ /\ config = "deleting"
        /\ prune' = [prune EXCEPT !.seen = Present, !.state = IF Present = {} THEN "delete" ELSE "revoke"]
        /\ job' = Stopped(job, Present)
        /\ mark' = Marked(Present, {"stripped"})
     \/ /\ config # "deleting"
        /\ prune' = NoPrune
        /\ UNCHANGED <<job, mark>>
  /\ UNCHANGED <<config, row, account, req, asked, alerted, faults>>

PruneRevoke ==
  /\ prune.state = "revoke"
  /\ account' = [l \in Leases |-> IF l \in prune.seen THEN "revoked" ELSE account[l]]
  /\ prune' = [prune EXCEPT !.state = "delete"]
  /\ UNCHANGED <<config, row, job, req, asked, alerted, mark, faults>>

\* The accounts are revoked together, and one failure fails the job.  The status
\* it leaves, unless that write fails as well, keeps its next attempts from doing
\* anything.
PruneFails ==
  /\ prune.state = "revoke"
  /\ \E done \in SUBSET prune.seen :
       account' = [l \in Leases |-> IF l \in done THEN "revoked" ELSE account[l]]
  /\ \/ config' = (IF config = "gone" THEN "gone" ELSE "failed") /\ UNCHANGED faults
     \/ UNCHANGED config /\ Fault
  /\ prune' = IF prune.made + 1 = Attempts THEN NoPrune
              ELSE [state |-> "wait", made |-> prune.made + 1, seen |-> {}]
  /\ UNCHANGED <<row, job, req, asked, alerted, mark>>

PruneDelete ==
  /\ prune.state = "delete"
  /\ Cascade(prune.seen)
  /\ prune' = NoPrune
  /\ UNCHANGED <<account, job, req, asked, alerted, faults>>

-----------------------------------------------------------------------------
(* Faults.                                                                 *)

\* A call of a request fails, or its pod dies: the rest of it is not done.
Interrupt(r) ==
  LET l == req[r].lease IN
  /\ ~At(r, "idle") /\ Fault
  /\ row' = IF At(r, "create.insert") THEN [row EXCEPT ![l] = Gone] ELSE row
  /\ mark' = Marked({l} \cup req[r].seen, {"cut"})
  /\ Answer(r)
  /\ UNCHANGED <<config, account, job, prune, alerted>>

\* A worker dies in a job.  BullMQ runs it again, and gives it up the second time.
JobStall(k, l) ==
  LET j == job[k][l] IN
  /\ Running(k, l) /\ Fault
  /\ job' = [job EXCEPT ![k][l] = IF j.stalled THEN NoJob ELSE [j EXCEPT !.state = "wait", !.stalled = TRUE]]
  /\ mark' = IF j.stalled THEN Marked({l}, {"cut"}) ELSE mark
  /\ UNCHANGED <<config, row, account, prune, req, asked, alerted>>

\* After the provider, a call of the error handler fails: the row is flagged or
\* not, nothing is queued and nobody is told.  The last attempt may have stopped
\* the main job by then.
HandlerFails(k, l) ==
  LET last == job[k][l].made + 1 = Attempts IN
  /\ ProviderFails(k, l) /\ Fault
  /\ Flag(l) \/ UNCHANGED row
  /\ \E js \in {job} \cup (IF k = "retry" /\ last THEN {Stopped(job, {l})} ELSE {}) :
       job' = [js EXCEPT ![k][l] = Again(@)]
  /\ mark' = IF last \/ row' # row THEN Marked({l}, {"silent"}) ELSE mark
  /\ UNCHANGED <<config, prune, req, asked, alerted>>

-----------------------------------------------------------------------------
RequestBegin(r) ==
  \/ \E l \in Leases, ttl \in TTLs : CreateBegin(r, l, ttl) \/ RenewBegin(r, l, ttl)
  \/ \E l \in Leases : RevokeBegin(r, l) \/ RevokeForced(r, l)
  \/ DeleteBegin(r) \/ DeleteForced(r)

RequestStep(r) ==
  \/ CreateInsert(r) \/ CreateSchedule(r)
  \/ RenewUnset(r) \/ RenewSet(r) \/ RenewUpdate(r)
  \/ RevokeFlag(r) \/ RevokeRetry(r) \/ RevokeUnset(r) \/ RevokeRow(r)
  \/ DeleteFlag(r) \/ DeletePrune(r) \/ DeleteRow(r)

JobStep(k, l) ==
  \/ JobStart(k, l) \/ JobRevoke(k, l) \/ JobDelete(k, l)
  \/ k = "main" /\ MainFails(l)
  \/ k = "retry" /\ RetryFails(l)

PruneStep == PruneStart \/ PruneRevoke \/ PruneFails \/ PruneDelete

Next ==
  \/ \E r \in Requests : RequestBegin(r) \/ RequestStep(r) \/ Interrupt(r)
  \/ \E k \in Kinds, l \in Leases : JobStep(k, l) \/ JobStall(k, l) \/ HandlerFails(k, l)
  \/ UpdateConfig
  \/ PruneStep

Spec == Init /\ [][Next]_vars

\* A request goes on until it is cut short, the workers take the jobs that are
\* due, and time passes.  Nobody need begin a request.
FairSpec ==
  /\ Spec
  /\ WF_vars(PruneStep)
  /\ \A r \in Requests : WF_vars(RequestStep(r))
  /\ \A k \in Kinds, l \in Leases : WF_vars(JobStep(k, l))

-----------------------------------------------------------------------------
(* Properties.                                                             *)

TypeOK ==
  /\ config \in {"active", "deleting", "failed", "gone"}
  /\ row \in [Leases -> Row]
  /\ account \in [Leases -> {"none", "live", "revoked"}]
  /\ job \in [Kinds -> [Leases -> Job]]
  /\ prune \in Prune
  /\ req \in [Requests -> Request]
  /\ asked \in 0..MaxAsked
  /\ alerted \subseteq Leases
  /\ mark \in [Leases -> SUBSET Marks]
  /\ faults \in 0..MaxFaults

\* A lease that is not flagged as failed has a job that will revoke it, whatever
\* renewals, revocations and runs of its jobs came before, except between two
\* steps of a request that replaces the job, or removes it before the row; and
\* unless a request on it was cut short, a deletion of its secret unset the job,
\* or the error handler of its job failed.
EveryLeaseIsScheduled ==
  \A l \in Present \ Failed :
    \/ job["main"][l].state # "none"
    \/ On(l, {"create.schedule", "renew.set", "revoke.row"})
    \/ mark[l] \cap {"cut", "stripped", "silent"} # {}

\* A row is only forgotten once the provider revoked its account, unless a
\* forced request gave the account up, a request was cut short, or the secret
\* was deleted by someone who had not seen the row.
NoForgottenAccount ==
  \A l \in Leases :
    account[l] = "live" /\ row[l].state # "present" =>
      On(l, {"create.insert"}) \/ mark[l] \cap {"cut", "forced", "overlooked"} # {}

\* However often and however concurrently a lease is renewed, neither its row
\* nor its revocation moves past createdAt + maxTTL.
LifetimeBounded ==
  \A l \in Present :
    /\ row[l].life <= MaxTTL
    /\ job["main"][l].after <= MaxTTL

\* Between renewals that do not overlap, a lease's revocation is scheduled at
\* the very time its row expires.
RevokedAtExpiry ==
  \A l \in Present :
    job["main"][l].state = "wait" /\ ~Renewing(l) /\ mark[l] \cap {"cut", "contested"} = {} =>
      job["main"][l].after = row[l].life

\* A lease that is scheduled or flagged as failed ends, or the admins are told:
\* neither renewals nor failures of the provider keep it for ever, unless a
\* request on it is cut short, the error handler of its job fails in its turn, or
\* a deletion of its secret unset its job before it was flagged.
EveryLeaseIsSettled ==
  \A l \in Leases :
    l \in Failed \/ (l \in Present /\ job["main"][l].state # "none")
      ~> \/ l \notin Present \/ l \in alerted
         \/ mark[l] \cap {"cut", "silent"} # {} \/ ("stripped" \in mark[l] /\ l \notin Failed)
=============================================================================
