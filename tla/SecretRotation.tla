---------------------------- MODULE SecretRotation ----------------------------
(***************************************************************************)
(* The rotation of a secret: ee/services/secret-rotation-v2, for the kinds *)
(* with two users at the provider (SQL databases).                         *)
(*                                                                         *)
(* The row of a rotation holds a password of each user and says which user *)
(* is active; the mapped secrets are the active one's credentials.  A      *)
(* rotation gives the inactive user a new password at the provider, and    *)
(* then stores it and makes that user active.  It is started by a job,     *)
(* which a nightly cron queues under one id when the rotation is due, or   *)
(* by a request.  Both read the row, as the cron does, at a replica of the *)
(* database, and before they take the lock (redlock, one minute, never     *)
(* extended).                                                              *)
(*                                                                         *)
(* Of the passwords only that is modelled which the secrets hold, and only *)
(* by whether the provider accepts it: nothing else depends on the stored  *)
(* password of the inactive user, who gets a new one.  There is no         *)
(* clock: whether the row is due, and whether it was rotated since the job *)
(* was queued, are booleans.                                               *)
(***************************************************************************)
EXTENDS Naturals

CONSTANTS
  Job,        \* the job
  Requests,   \* requests to rotate now
  Replicas,   \* read replicas of the database
  Nobody,     \* the holder of the lock when it is free
  Dead,       \* the holder of the lock when it died
  Attempts,   \* attempts of a job
  MaxFaults   \* bound: workers that die, locks that expire in use, failures not recorded

Tasks == {Job} \cup Requests
Users == {0, 1}

ASSUME RotationAssumption ==
  /\ Job \notin Requests /\ Nobody \notin Tasks \cup {Dead} /\ Dead \notin Tasks
  /\ Attempts \in Nat \ {0} /\ Replicas # {} /\ MaxFaults \in Nat

VARIABLES
  row,      \* the rotation in the database
  replica,  \* what a replica shows of it
  lock,     \* the holder of the lock
  task,     \* the job and the requests
  raced,    \* history: a rotation went on with an outdated row, or a lock expired under one
  faults    \* faults so far

vars == <<row, replica, lock, task, raced, faults>>

\* `works' is whether the password works that the secrets hold, `since' whether
\* lastRotatedAt is later than the queueing of the job, `auto' is isAutoRotationEnabled,
\* `due' is whether nextRotationAt has passed.
Row == [active : Users, works : BOOLEAN, since : BOOLEAN, auto : BOOLEAN, due : BOOLEAN]

\* `old' is a history: the row was rotated since.
Copy == [active : Users, since : BOOLEAN, due : BOOLEAN, old : BOOLEAN]

\* A task waits in the queue, has read the row, holds the lock, has a password that
\* the provider has too, has stored it, or failed.  `made' are the attempts that
\* failed; `outdated' says that the row was rotated since the state that the task read;
\* `new' is whether the new password works.
States == {"none", "wait", "read", "locked", "altered", "stored", "failed"}
Task == [state : States, made : Nat, outdated : BOOLEAN,
         active : Users, new : BOOLEAN, stalled : BOOLEAN]
NoTask == [state |-> "none", made |-> 0, outdated |-> FALSE,
           active |-> 0, new |-> FALSE, stalled |-> FALSE]

Init ==
  /\ row = [active |-> 0, works |-> TRUE, since |-> FALSE, auto |-> TRUE, due |-> FALSE]
  /\ replica = [p \in Replicas |-> [active |-> 0, since |-> FALSE, due |-> FALSE, old |-> FALSE]]
  /\ lock = Nobody
  /\ task = [t \in Tasks |-> NoTask]
  /\ raced = FALSE
  /\ faults = 0

SetTask(t, r) == task' = [task EXCEPT ![t] = r]
Fault == faults < MaxFaults /\ faults' = faults + 1

\* What is not needed any more is forgotten.
Failing(t) == [NoTask EXCEPT !.state = "failed", !.made = task[t].made, !.stalled = task[t].stalled]

\* Mutant of Inactive: the active user is rotated.
Inactive_Active(u) == u

Inactive(u) == 1 - u

-----------------------------------------------------------------------------
(* The row.                                                                *)

BecomesDue ==
  /\ row.auto /\ ~row.due
  /\ row' = [row EXCEPT !.due = TRUE]
  /\ UNCHANGED <<replica, lock, task, raced, faults>>

\* updateSecretRotation: without automatic rotation there is no next one.
Toggle ==
  /\ row' = [row EXCEPT !.auto = ~@, !.due = FALSE]
  /\ UNCHANGED <<replica, lock, task, raced, faults>>

\* A replica catches up.
Replicate(p) ==
  /\ replica' = [replica EXCEPT ![p] =
       [active |-> row.active, since |-> row.since, due |-> row.due, old |-> FALSE]]
  /\ replica' # replica
  /\ UNCHANGED <<row, lock, task, raced, faults>>

\* The cron's job queues what a replica shows as due; updateSecretRotation does so for
\* what is due before the cron.  BullMQ ignores the job when it has one of the id.
QueueRotation ==
  /\ row.due \/ \E p \in Replicas : replica[p].due
  /\ task[Job].state = "none"
  /\ SetTask(Job, [NoTask EXCEPT !.state = "wait"])
  /\ row' = [row EXCEPT !.since = FALSE]
  /\ replica' = [p \in Replicas |-> [replica[p] EXCEPT !.since = FALSE]]
  /\ UNCHANGED <<lock, raced, faults>>

-----------------------------------------------------------------------------
(* A rotation.                                                             *)

\* findById chooses a replica.
ReadRow(t, p) ==
  [task[t] EXCEPT !.state = "read", !.outdated = replica[p].old, !.active = replica[p].active]

\* Mutant of RotatedSince: the job rotates whatever happened since it was queued.
RotatedSince_Never(p) == FALSE

RotatedSince(p) == replica[p].since

\* rotateSecretsFns.  That automatic rotation was disabled since is only logged.
JobReads ==
  /\ task[Job].state = "wait"
  /\ \E p \in Replicas : SetTask(Job, IF RotatedSince(p) THEN NoTask ELSE ReadRow(Job, p))
  /\ UNCHANGED <<row, replica, lock, raced, faults>>

\* rotateSecretRotation, which is refused while the lock is held.
RequestReads(t) ==
  /\ task[t].state = "none"
  /\ lock = Nobody
  /\ \E p \in Replicas : SetTask(t, ReadRow(t, p))
  /\ UNCHANGED <<row, replica, lock, raced, faults>>

Acquire(t) ==
  /\ task[t].state = "read"
  /\ \/ lock = Nobody /\ lock' = t /\ SetTask(t, [task[t] EXCEPT !.state = "locked"])
     \/ lock # Nobody /\ UNCHANGED lock /\ SetTask(t, Failing(t))
  /\ UNCHANGED <<row, replica, raced, faults>>

\* A new password of user u that another task has does not work any more.
Void(x, u) == [x EXCEPT !.new = x.new /\ Inactive(x.active) # u]

\* rotateCredentials of the provider: a new password for the user who was inactive
\* when the row was read, and a login with it.  An error may come after the effect.
Alter(t) ==
  LET u == Inactive(task[t].active) IN
  /\ task[t].state = "locked"
  /\ \/ /\ row' = [row EXCEPT !.works = @ /\ row.active # u]
        /\ \E ok \in BOOLEAN :
             task' = [x \in Tasks |->
               IF x # t THEN Void(task[x], u)
               ELSE IF ok THEN [task[t] EXCEPT !.state = "altered", !.new = TRUE] ELSE Failing(t)]
        /\ raced' = (raced \/ task[t].outdated)
     \/ /\ SetTask(t, Failing(t))
        /\ UNCHANGED <<row, raced>>
  /\ UNCHANGED <<replica, lock, faults>>

\* The row after the transaction: the secrets hold the new password.
Rotated(t) ==
  [row EXCEPT !.active = Inactive(task[t].active), !.works = task[t].new,
              !.since = task[Job].state # "none", !.due = FALSE]

\* The transaction is rolled back, or is committed, and then the reply may be lost.
Store(t) ==
  /\ task[t].state = "altered"
  /\ \/ /\ row' = Rotated(t)
        /\ replica' = [p \in Replicas |-> [replica[p] EXCEPT !.old = TRUE]]
        /\ \E st \in {"stored", "failed"} :
             task' = [x \in Tasks |->
               IF x = t THEN [Failing(t) EXCEPT !.state = st]
                        ELSE [task[x] EXCEPT !.outdated = @ \/ task[x].state \in {"read", "locked", "altered"}]]
     \/ UNCHANGED <<row, replica>> /\ SetTask(t, Failing(t))
  /\ UNCHANGED <<lock, raced, faults>>

Released(t) == lock' = IF lock = t THEN Nobody ELSE lock

\* The steps after: audit log, caches, snapshot and syncs.
Finish(t) ==
  /\ task[t].state = "stored"
  /\ \/ Released(t) /\ SetTask(t, NoTask)
     \/ UNCHANGED lock /\ SetTask(t, Failing(t))
  /\ UNCHANGED <<row, replica, raced, faults>>

FinalAttempt(t) == t = Job => task[t].made + 1 = Attempts

\* Mutant of Failed: the next rotation stays when it was.
Failed_StillDue == row

\* nextRotationAt is the next day's, whatever it was.
Failed == [row EXCEPT !.due = FALSE]

\* The catch block of rotateGeneratedCredentials, which may throw before it records
\* the failure, its finally block, and what BullMQ does with the job.
Fail(t) ==
  /\ task[t].state = "failed"
  /\ IF FinalAttempt(t)
       THEN /\ \/ row' = Failed /\ UNCHANGED faults
               \/ UNCHANGED row /\ Fault
            /\ SetTask(t, NoTask)
       ELSE /\ UNCHANGED <<row, faults>>
            /\ SetTask(t, [NoTask EXCEPT !.state = "wait", !.made = task[t].made + 1,
                                         !.stalled = task[t].stalled])
  /\ Released(t)
  /\ UNCHANGED <<replica, raced>>

-----------------------------------------------------------------------------
(* Faults.                                                                 *)

LockExpires ==
  /\ lock = Dead
  /\ lock' = Nobody
  /\ UNCHANGED <<row, replica, task, raced, faults>>

\* A rotation takes longer than the lock lasts.
LockLost ==
  /\ lock \in Tasks
  /\ Fault
  /\ lock' = Nobody
  /\ raced' = TRUE
  /\ UNCHANGED <<row, replica, task>>

\* The worker or the server dies.  BullMQ runs the job again, once.
Die(t) ==
  /\ task[t].state \notin {"none", "wait"}
  /\ Fault
  /\ SetTask(t, IF t = Job /\ ~task[t].stalled
                  THEN [NoTask EXCEPT !.state = "wait", !.made = task[t].made, !.stalled = TRUE]
                  ELSE NoTask)
  /\ lock' = IF lock = t THEN Dead ELSE lock
  /\ UNCHANGED <<row, replica, raced>>

-----------------------------------------------------------------------------
TaskStep(t) == Acquire(t) \/ Alter(t) \/ Store(t) \/ Finish(t) \/ Fail(t)

Next ==
  \/ BecomesDue \/ Toggle \/ QueueRotation \/ JobReads \/ LockExpires \/ LockLost
  \/ \E p \in Replicas : Replicate(p)
  \/ \E t \in Requests : RequestReads(t)
  \/ \E t \in Tasks : TaskStep(t) \/ Die(t)

Spec == Init /\ [][Next]_vars

\* The cron runs every night; replicas catch up, jobs are taken and tasks go on; the
\* lock of the dead expires.
FairSpec ==
  /\ Spec
  /\ WF_vars(QueueRotation) /\ WF_vars(JobReads) /\ WF_vars(LockExpires)
  /\ \A p \in Replicas : WF_vars(Replicate(p))
  /\ \A t \in Tasks : WF_vars(TaskStep(t))

-----------------------------------------------------------------------------
(* Properties.                                                             *)

TypeOK ==
  /\ row \in Row
  /\ replica \in [Replicas -> Copy]
  /\ lock \in Tasks \cup {Nobody, Dead}
  /\ task \in [Tasks -> Task]
  /\ \A t \in Tasks : task[t].made < Attempts
  /\ raced \in BOOLEAN
  /\ faults \in 0..MaxFaults

\* The provider accepts the credentials that the secrets hold at all times, whatever
\* fails in a rotation and wherever a worker dies, unless a rotation went on with an
\* outdated row, read too early or at a replica that was behind, or without its lock.
SecretsWork ==
  raced \/ row.works

\* A job rotates once: when it sets a password, the row was not rotated since the
\* job was queued, by itself before a retry or by a request, but after the state of the
\* row that it had read: only a rotation that it could not see is repeated.
JobRotatesOnce ==
  [][task[Job].state # "altered" /\ task'[Job].state = "altered" => ~row.since \/ task[Job].outdated]_vars

\* What is due does not stay due: it is rotated, fails and is due again the next night,
\* or is disabled.  A failure that cannot be recorded leaves it to the cron.
DueIsHandled ==
  row.due ~> ~row.due

\* The message of rotateSecretsFns says: "Skipping Rotation - Auto-Rotation Disabled
\* Since Queue".
DisabledIsSkipped ==
  [][task[Job].state = "wait" /\ ~row.auto => task'[Job].state \in {"wait", "none"}]_vars
=============================================================================
