------------------------- MODULE SecretRotationProofs -------------------------
(***************************************************************************)
(* Safety of the rotation of secrets, for any number of requests, attempts *)
(* and faults.  The invariant says what a task in a rotation may rely on   *)
(* as long as nothing raced: it has the lock alone, the row it read is the *)
(* row, and the password it is about to store is the provider's.  A copy   *)
(* of the row that is not old shows what the row does.                     *)
(***************************************************************************)
EXTENDS SecretRotation, TLAPS

\* The lock is still with whoever changes the provider or the row.
LockKept == \A t \in Tasks : task[t].state \in {"locked", "altered", "stored"} => lock = t

\* Who does not know of another rotation since it read the row knows the active user.
ReadIsCurrent ==
  \A t \in Tasks : task[t].state \in {"read", "locked", "altered"} /\ ~task[t].outdated
                     => task[t].active = row.active

\* What is about to be stored works.
NewWorks == \A t \in Tasks : task[t].state = "altered" => task[t].new

\* A replica that is not behind a rotation shows who is active, and when it was.
CopiesCurrent ==
  \A p \in Replicas : ~replica[p].old => replica[p].active = row.active /\ replica[p].since = row.since

\* A job that went on was not overtaken before the state of the row that it read.
JobWasFresh ==
  task[Job].state \in {"read", "locked"} /\ row.since => task[Job].outdated

Inv ==
  /\ TypeOK
  /\ CopiesCurrent /\ ReadIsCurrent /\ JobWasFresh
  /\ ~raced => LockKept /\ NewWorks /\ row.works

-----------------------------------------------------------------------------
LEMMA NoTaskType ==
  NoTask \in Task /\ NoTask.state = "none" /\ NoTask.made = 0
  BY DEF NoTask, Task, States, Users

\* Nothing runs and nothing raced at the start.
LEMMA InitInv == Init => Inv
  <1> SUFFICES ASSUME Init  PROVE Inv  OBVIOUS
  <1>1. NoTask \in Task /\ NoTask.state = "none" /\ NoTask.made < Attempts
    BY NoTaskType, RotationAssumption
  <1>2. \A t \in Tasks : task[t] = NoTask  BY DEF Init
  <1>3. row \in Row /\ row.works /\ replica \in [Replicas -> Copy] /\ CopiesCurrent
    BY DEF Init, Row, Copy, Users, CopiesCurrent
  <1>4. TypeOK
    <2>1. task \in [Tasks -> Task]  BY <1>1 DEF Init
    <2>2. faults \in 0..MaxFaults  BY RotationAssumption DEF Init
    <2>3. QED  BY <1>1, <1>2, <1>3, <2>1, <2>2 DEF Init, TypeOK
  <1>5. ReadIsCurrent /\ JobWasFresh /\ LockKept /\ NewWorks
    BY <1>1, <1>2 DEF ReadIsCurrent, JobWasFresh, LockKept, NewWorks, Tasks
  <1>6. QED  BY <1>3, <1>4, <1>5 DEF Inv

\* A step of one task that rotates nothing: it keeps what it read, or reads it anew,
\* or leaves; and what it needs the lock for it does with the lock.
LEMMA TaskMoves ==
  ASSUME Inv, NEW t \in Tasks, NEW r \in Task, SetTask(t, r),
         row' \in Row, row'.active = row.active, row'.works = row.works,
         t = Job \/ row'.since = row.since,
         replica' \in [Replicas -> Copy], CopiesCurrent',
         raced' = raced, faults' \in 0..MaxFaults,
         lock' \in Tasks \cup {Nobody, Dead},
         r.made < Attempts,
         r.state \in {"read", "locked", "altered"} /\ ~r.outdated => r.active = row.active,
         t = Job /\ r.state \in {"read", "locked"} /\ row'.since => r.outdated,
         ~raced /\ r.state \in {"locked", "altered", "stored"} => lock' = t,
         ~raced /\ r.state = "altered" => r.new,
         \A u \in Tasks \ {t} : ~raced /\ lock = u => lock' = u
  PROVE  Inv'
  <1>1. \A u \in Tasks : task'[u] = IF u = t THEN r ELSE task[u]  BY DEF SetTask, Inv, TypeOK
  <1>2. task' \in [Tasks -> Task]  BY DEF SetTask, Inv, TypeOK
  <1>3. TypeOK'  BY <1>1, <1>2 DEF Inv, TypeOK
  <1>4. ReadIsCurrent'  BY <1>1 DEF Inv, ReadIsCurrent
  <1>5. JobWasFresh'  BY <1>1 DEF Inv, JobWasFresh, Tasks
  <1>6. ~raced => LockKept'  BY <1>1 DEF Inv, LockKept
  <1>7. ~raced => NewWorks'  BY <1>1 DEF Inv, NewWorks
  <1>8. ~raced => row'.works  BY DEF Inv
  <1>9. QED  BY <1>3, <1>4, <1>5, <1>6, <1>7, <1>8 DEF Inv

\* A step of the row or its copies alone, or of the lock alone.
LEMMA RowMoves ==
  ASSUME Inv, UNCHANGED task,
         row' \in Row, row'.active = row.active, row'.works = row.works, row'.since = row.since,
         replica' \in [Replicas -> Copy], CopiesCurrent',
         lock' \in Tasks \cup {Nobody, Dead}, faults' \in 0..MaxFaults, raced' \in BOOLEAN,
         ~raced' => ~raced /\ \A u \in Tasks : lock = u => lock' = u
  PROVE  Inv'
  <1>1. TypeOK'  BY DEF Inv, TypeOK
  <1>2. ReadIsCurrent' /\ JobWasFresh'  BY DEF Inv, ReadIsCurrent, JobWasFresh
  <1>3. ~raced' => (LockKept /\ NewWorks /\ row.works)'
    BY DEF Inv, LockKept, NewWorks
  <1>4. QED  BY <1>1, <1>2, <1>3 DEF Inv

\* The fields of what a task, the row and its copies hold.
LEMMA Fields ==
  ASSUME Inv, NEW t \in Tasks
  PROVE  /\ task[t] \in Task /\ task[t].made \in Nat /\ task[t].made < Attempts
         /\ row \in Row /\ row.active \in Users /\ row.works \in BOOLEAN /\ row.since \in BOOLEAN
         /\ replica \in [Replicas -> Copy] /\ CopiesCurrent
         /\ lock \in Tasks \cup {Nobody, Dead} /\ faults \in 0..MaxFaults /\ raced \in BOOLEAN
         /\ NoTask \in Task /\ 0 < Attempts /\ Attempts \in Nat
  BY NoTaskType, RotationAssumption DEF Inv, TypeOK, Task, Row

\* What does not touch the copies, nor what they show, leaves them current.
LEMMA CopiesStay ==
  ASSUME Inv, UNCHANGED replica, row'.active = row.active, row'.since = row.since
  PROVE  replica' \in [Replicas -> Copy] /\ CopiesCurrent'
  BY DEF Inv, TypeOK, CopiesCurrent

-----------------------------------------------------------------------------
\* What becomes due, is switched on or off, or expires.
LEMMA RowStepKeepsInv ==
  ASSUME Inv, BecomesDue \/ Toggle \/ LockExpires \/ LockLost
  PROVE  Inv'
  <1>1. /\ UNCHANGED <<task, replica>> /\ row' \in Row /\ row'.active = row.active
        /\ row'.works = row.works /\ row'.since = row.since
        /\ lock' \in Tasks \cup {Nobody, Dead}
    BY DEF BecomesDue, Toggle, LockExpires, LockLost, Inv, TypeOK, Row
  <1>2. faults' \in 0..MaxFaults /\ raced' \in BOOLEAN
    <2>1. faults \in 0..MaxFaults /\ raced \in BOOLEAN  BY DEF Inv, TypeOK
    <2>2. CASE faults < MaxFaults /\ faults' = faults + 1 /\ raced' = TRUE
      BY <2>1, <2>2, RotationAssumption
    <2>3. CASE UNCHANGED <<faults, raced>>  BY <2>1, <2>3
    <2>4. QED  BY <2>2, <2>3 DEF BecomesDue, Toggle, LockExpires, LockLost, Fault
  <1>3. ~raced' => ~raced /\ \A u \in Tasks : lock = u => lock' = u
    BY RotationAssumption DEF BecomesDue, Toggle, LockExpires, LockLost
  <1>4. QED  BY <1>1, <1>2, <1>3, RowMoves, CopiesStay

\* A replica catches up.
LEMMA ReplicateKeepsInv ==
  ASSUME Inv, NEW p \in Replicas, Replicate(p)
  PROVE  Inv'
  <1> DEFINE c == [active |-> row.active, since |-> row.since, due |-> row.due, old |-> FALSE]
  <1>1. c \in Copy /\ c.active = row.active /\ c.since = row.since  BY DEF Inv, TypeOK, Row, Copy
  <1>2. replica' = [replica EXCEPT ![p] = c] /\ UNCHANGED <<row, lock, task, raced, faults>>
    BY DEF Replicate
  <1> HIDE DEF c
  <1>3. replica' \in [Replicas -> Copy] /\ CopiesCurrent'
    BY <1>1, <1>2 DEF Inv, TypeOK, CopiesCurrent
  <1>4. QED  BY <1>2, <1>3, RowMoves DEF Inv, TypeOK

\* The job is queued: whatever was rotated before is not since.
LEMMA QueueKeepsInv ==
  ASSUME Inv, QueueRotation
  PROVE  Inv'
  <1> DEFINE r == [NoTask EXCEPT !.state = "wait"]
  <1>1. Job \in Tasks  BY DEF Tasks
  <1>2. r \in Task /\ r.state = "wait" /\ r.made = 0  BY NoTaskType DEF Task, NoTask, States
  <1>3. /\ SetTask(Job, r) /\ UNCHANGED <<lock, raced, faults>>
        /\ row' = [row EXCEPT !.since = FALSE]
        /\ replica' = [p \in Replicas |-> [replica[p] EXCEPT !.since = FALSE]]
    BY DEF QueueRotation
  <1> HIDE DEF r
  <1>4. row' \in Row /\ row'.active = row.active /\ row'.works = row.works /\ row'.since = FALSE
    BY <1>1, <1>3, Fields DEF Row
  <1>5. \A p \in Replicas : /\ replica'[p] \in Copy /\ replica'[p].since = FALSE
                            /\ replica'[p].old = replica[p].old /\ replica'[p].active = replica[p].active
    BY <1>1, <1>3, Fields DEF Copy
  <1>6. replica' \in [Replicas -> Copy]  BY <1>3, <1>5
  <1>7. CopiesCurrent'  BY <1>4, <1>5 DEF Inv, CopiesCurrent
  <1>8. QED  BY <1>1, <1>2, <1>3, <1>4, <1>6, <1>7, TaskMoves, Fields

\* The job and the requests read the row at a replica.
LEMMA ReadKeepsInv ==
  ASSUME Inv, JobReads \/ \E t \in Requests : RequestReads(t)
  PROVE  Inv'
  <1>1. Job \in Tasks  BY DEF Tasks
  <1>2. CASE JobReads /\ SetTask(Job, NoTask)
    <2>1. UNCHANGED <<row, replica, lock, raced, faults>>  BY <1>2 DEF JobReads
    <2>2. QED  BY <1>1, <1>2, <2>1, NoTaskType, TaskMoves, CopiesStay, Fields
  <1>3. ASSUME NEW t \in Tasks, NEW p \in Replicas, SetTask(t, ReadRow(t, p)),
               t = Job => ~replica[p].since,
               UNCHANGED <<row, replica, lock, raced, faults>>
        PROVE  Inv'
    <2> DEFINE r == ReadRow(t, p)
    <2>1. replica[p] \in Copy /\ task[t] \in Task  BY Fields
    <2>2. /\ r \in Task /\ r.state = "read" /\ r.made = task[t].made
          /\ r.outdated = replica[p].old /\ r.active = replica[p].active
      BY <2>1 DEF ReadRow, Task, States, Copy
    <2> HIDE DEF r
    <2>3. SetTask(t, r)  BY <1>3 DEF r
    <2>4. ~r.outdated => r.active = row.active /\ (t = Job => ~row.since)
      BY <1>3, <2>2 DEF Inv, CopiesCurrent
    <2>5. QED  BY <1>3, <2>2, <2>3, <2>4, TaskMoves, CopiesStay, Fields
  <1>4. CASE JobReads /\ ~SetTask(Job, NoTask)
    <2>1. PICK p \in Replicas : SetTask(Job, IF RotatedSince(p) THEN NoTask ELSE ReadRow(Job, p))
      BY <1>4 DEF JobReads
    <2>2. ~replica[p].since /\ SetTask(Job, ReadRow(Job, p))  BY <1>4, <2>1 DEF RotatedSince
    <2>3. UNCHANGED <<row, replica, lock, raced, faults>>  BY <1>4 DEF JobReads
    <2>4. QED  BY <1>1, <1>3, <2>2, <2>3
  <1>5. ASSUME NEW t \in Requests, RequestReads(t)  PROVE Inv'
    <2>1. t \in Tasks /\ t # Job  BY RotationAssumption DEF Tasks
    <2>2. PICK p \in Replicas : SetTask(t, ReadRow(t, p))  BY <1>5 DEF RequestReads
    <2>3. UNCHANGED <<row, replica, lock, raced, faults>>  BY <1>5 DEF RequestReads
    <2>4. QED  BY <1>3, <2>1, <2>2, <2>3
  <1>6. QED  BY <1>2, <1>4, <1>5

\* A step of a task fails: it goes on to its catch block.
LEMMA FailureKeepsInv ==
  ASSUME Inv, NEW t \in Tasks, SetTask(t, Failing(t)), UNCHANGED <<row, replica, lock, raced, faults>>
  PROVE  Inv'
  <1>1. Failing(t) \in Task /\ Failing(t).state = "failed" /\ Failing(t).made = task[t].made
    BY Fields DEF Task, States, Failing, NoTask
  <1>2. QED  BY <1>1, TaskMoves, CopiesStay, Fields

\* The lock.
LEMMA AcquireKeepsInv ==
  ASSUME Inv, NEW t \in Tasks, Acquire(t)
  PROVE  Inv'
  <1>1. task[t].state = "read" /\ UNCHANGED <<row, replica, raced, faults>>  BY DEF Acquire
  <1>2. CASE UNCHANGED lock /\ SetTask(t, Failing(t))
    BY <1>1, <1>2, FailureKeepsInv
  <1>3. CASE lock = Nobody /\ lock' = t /\ SetTask(t, [task[t] EXCEPT !.state = "locked"])
    <2> DEFINE r == [task[t] EXCEPT !.state = "locked"]
    <2>1. /\ r \in Task /\ r.state = "locked" /\ r.made = task[t].made
          /\ r.outdated = task[t].outdated /\ r.active = task[t].active
      BY Fields DEF Task, States
    <2>2. SetTask(t, r)  BY <1>3
    <2> HIDE DEF r
    <2>3. \A u \in Tasks : u # Nobody  BY RotationAssumption
    <2>4. ~r.outdated => r.active = row.active  BY <1>1, <2>1 DEF Inv, ReadIsCurrent
    <2>5. t = Job /\ row.since => r.outdated  BY <1>1, <2>1 DEF Inv, JobWasFresh
    <2>6. QED  BY <1>1, <1>3, <2>1, <2>2, <2>3, <2>4, <2>5, TaskMoves, CopiesStay, Fields
  <1>4. QED  BY <1>2, <1>3 DEF Acquire

\* The other user of a user.
LEMMA Others == ASSUME NEW u \in Users  PROVE Inactive(u) \in Users /\ Inactive(u) # u
  BY DEF Users, Inactive

\* A password changes at the provider: that of the user who is not active, unless the
\* task knows less than it should.
LEMMA AlterKeepsInv ==
  ASSUME Inv, NEW t \in Tasks, Alter(t)
  PROVE  Inv'
  <1> DEFINE u == Inactive(task[t].active)
  <1>1. CASE SetTask(t, Failing(t)) /\ UNCHANGED <<row, replica, lock, raced, faults>>
    BY <1>1, FailureKeepsInv
  <1>2. ASSUME NEW ok \in BOOLEAN,
               task' = [x \in Tasks |->
                 IF x # t THEN Void(task[x], u)
                 ELSE IF ok THEN [task[t] EXCEPT !.state = "altered", !.new = TRUE] ELSE Failing(t)],
               row' = [row EXCEPT !.works = @ /\ row.active # u], raced' = (raced \/ task[t].outdated),
               UNCHANGED <<replica, lock, faults>>
        PROVE  Inv'
    <2>1. task[t].state = "locked"  BY DEF Alter
    <2>2. task[t].active \in Users /\ u \in Users  BY Fields, Others DEF Task
    <2> HIDE DEF u
    <2>3. /\ row' \in Row /\ row'.active = row.active /\ row'.since = row.since
          /\ row'.works = (row.works /\ row.active # u)
      <3> DEFINE w == row.works /\ row.active # u
      <3>1. w \in BOOLEAN  OBVIOUS
      <3>2. row' = [row EXCEPT !.works = w]  BY <1>2
      <3> HIDE DEF w
      <3>3. row' \in Row /\ row'.active = row.active /\ row'.since = row.since /\ row'.works = w
        BY <3>1, <3>2, Fields DEF Row
      <3>4. QED  BY <3>3 DEF w
    <2>4. /\ task'[t] \in Task /\ task'[t].made = task[t].made
          /\ task'[t].state \in {"altered", "failed"}
          /\ task'[t].state = "altered" => /\ task'[t].active = task[t].active /\ task'[t].new
                                          /\ task'[t].outdated = task[t].outdated
      <3>1. CASE ok
        <4>1. task'[t] = [task[t] EXCEPT !.state = "altered", !.new = TRUE]  BY <1>2, <3>1
        <4>2. QED  BY <4>1, Fields DEF Task, States
      <3>2. CASE ~ok
        <4>1. task'[t] = Failing(t)  BY <1>2, <3>2
        <4>2. QED  BY <4>1, Fields DEF Task, States, Failing, NoTask
      <3>3. QED  BY <3>1, <3>2
    <2>5. ASSUME NEW x \in Tasks, x # t
          PROVE  /\ task'[x] \in Task /\ task'[x].made = task[x].made /\ task'[x].active = task[x].active
                 /\ task'[x].outdated = task[x].outdated /\ task'[x].state = task[x].state
      <3> DEFINE n == task[x].new /\ Inactive(task[x].active) # u
      <3>1. task'[x] = [task[x] EXCEPT !.new = n] /\ task[x] \in Task  BY <1>2, <2>5, Fields DEF Void
      <3>2. n \in BOOLEAN  OBVIOUS
      <3> HIDE DEF n
      <3>3. QED  BY <3>1, <3>2 DEF Task
    <2>6. TypeOK'
      <3>1. raced' \in BOOLEAN  BY <1>2, Fields DEF Task
      <3>2. task' \in [Tasks -> Task]  BY <1>2, <2>4, <2>5
      <3>3. \A x \in Tasks : task'[x].made < Attempts  BY <2>4, <2>5, Fields
      <3>4. QED  BY <1>2, <2>3, <3>1, <3>2, <3>3 DEF Inv, TypeOK
    <2>7. CopiesCurrent'  BY <1>2, <2>3 DEF Inv, CopiesCurrent
    <2>8. ReadIsCurrent'  BY <2>1, <2>3, <2>4, <2>5 DEF Inv, ReadIsCurrent
    <2>9. JobWasFresh'  BY <2>1, <2>3, <2>4, <2>5 DEF Inv, JobWasFresh, Tasks
    <2>10. ASSUME ~raced'  PROVE (LockKept /\ NewWorks /\ row.works)'
      <3>1. ~raced /\ ~task[t].outdated /\ LockKept /\ row.works
        BY <1>2, <2>10, Fields DEF Inv, Task
      <3>2. LockKept'  BY <1>2, <2>1, <2>4, <2>5, <3>1 DEF LockKept
      <3>3. \A x \in Tasks \ {t} : task[x].state # "altered"  BY <2>1, <3>1 DEF LockKept
      <3>4. NewWorks'  BY <2>4, <2>5, <3>3 DEF NewWorks
      <3>5. task[t].active = row.active  BY <2>1, <3>1 DEF Inv, ReadIsCurrent
      <3>6. row.active # u  BY <2>2, <3>5, Others DEF u
      <3>7. QED  BY <2>3, <3>1, <3>2, <3>4, <3>6
    <2>11. QED  BY <2>6, <2>7, <2>8, <2>9, <2>10 DEF Inv
  <1>3. QED  BY <1>1, <1>2 DEF Alter

\* The transaction: who is active changes, and nobody who read the row before can
\* miss that it did.
LEMMA StoreKeepsInv ==
  ASSUME Inv, NEW t \in Tasks, Store(t)
  PROVE  Inv'
  <1>1. CASE SetTask(t, Failing(t)) /\ UNCHANGED <<row, replica, lock, raced, faults>>
    BY <1>1, FailureKeepsInv
  <1>2. ASSUME NEW st \in {"stored", "failed"},
               task' = [x \in Tasks |->
                 IF x = t THEN [Failing(t) EXCEPT !.state = st]
                          ELSE [task[x] EXCEPT !.outdated = @ \/ task[x].state \in {"read", "locked", "altered"}]],
               row' = Rotated(t),
               replica' = [p \in Replicas |-> [replica[p] EXCEPT !.old = TRUE]]
        PROVE  Inv'
    <2> DEFINE u == Inactive(task[t].active)
               since == task[Job].state # "none"
    <2>1. task[t].state = "altered" /\ UNCHANGED <<lock, raced, faults>>  BY DEF Store
    <2>2. u \in Users /\ task[t].new \in BOOLEAN /\ since \in BOOLEAN  BY Fields, Others DEF Task
    <2>3. row' = [row EXCEPT !.active = u, !.works = task[t].new, !.since = since, !.due = FALSE]
      BY <1>2 DEF Rotated
    <2> HIDE DEF u, since
    <2>4. row' \in Row /\ row'.works = task[t].new  BY <2>2, <2>3, Fields DEF Row
    <2>5. \A p \in Replicas : replica'[p] \in Copy /\ replica'[p].old  BY <1>2, Fields DEF Copy
    <2>6. replica' \in [Replicas -> Copy] /\ CopiesCurrent'  BY <1>2, <2>5 DEF CopiesCurrent
    <2>7. task'[t] \in Task /\ task'[t].made = task[t].made /\ task'[t].state = st
      <3>1. task'[t] = [Failing(t) EXCEPT !.state = st]  BY <1>2
      <3>2. Failing(t) \in Task /\ Failing(t).made = task[t].made
        BY Fields DEF Task, States, Failing, NoTask
      <3>3. QED  BY <3>1, <3>2 DEF Task, States
    <2>8. ASSUME NEW x \in Tasks, x # t
          PROVE  /\ task'[x] \in Task /\ task'[x].made = task[x].made
                 /\ task'[x].new = task[x].new /\ task'[x].state = task[x].state
                 /\ task[x].state \in {"read", "locked", "altered"} => task'[x].outdated
      <3> DEFINE o == task[x].outdated \/ task[x].state \in {"read", "locked", "altered"}
      <3>1. task'[x] = [task[x] EXCEPT !.outdated = o] /\ task[x] \in Task  BY <1>2, <2>8, Fields
      <3>2. o \in BOOLEAN /\ (task[x].state \in {"read", "locked", "altered"} => o)
        BY <3>1 DEF Task
      <3> HIDE DEF o
      <3>3. QED  BY <3>1, <3>2 DEF Task
    <2>9. TypeOK'
      <3>1. task' \in [Tasks -> Task]  BY <1>2, <2>7, <2>8
      <3>2. \A x \in Tasks : task'[x].made < Attempts  BY <2>7, <2>8, Fields
      <3>3. QED  BY <2>1, <2>4, <2>6, <3>1, <3>2 DEF Inv, TypeOK
    <2>10. ReadIsCurrent' /\ JobWasFresh'
      <3>1. \A x \in Tasks : task'[x].state \in {"read", "locked", "altered"} => task'[x].outdated
        BY <2>7, <2>8
      <3>2. QED  BY <3>1 DEF ReadIsCurrent, JobWasFresh, Tasks
    <2>11. ~raced => (LockKept /\ NewWorks /\ row.works)'
      BY <2>1, <2>4, <2>7, <2>8 DEF Inv, LockKept, NewWorks
    <2>12. QED  BY <2>1, <2>6, <2>9, <2>10, <2>11 DEF Inv
  <1>3. QED  BY <1>1, <1>2 DEF Store

\* A rotation ends well or fails, or its process dies.
LEMMA EndKeepsInv ==
  ASSUME Inv, NEW t \in Tasks, Finish(t) \/ Fail(t) \/ Die(t)
  PROVE  Inv'
  <1> DEFINE again(m, s) == [NoTask EXCEPT !.state = "wait", !.made = m, !.stalled = s]
  <1>1. ASSUME NEW m \in Nat, NEW s \in BOOLEAN
        PROVE  again(m, s) \in Task /\ again(m, s).state = "wait" /\ again(m, s).made = m
    BY Fields DEF Task, NoTask, States
  <1> HIDE DEF again
  <1>2. ASSUME NEW r \in Task, SetTask(t, r), r.state \in {"none", "wait"}, r.made < Attempts,
               row' \in Row, row'.active = row.active, row'.works = row.works, row'.since = row.since,
               UNCHANGED <<replica, raced>>, faults' \in 0..MaxFaults,
               \E h \in {Nobody, Dead} : lock' = IF lock = t THEN h ELSE lock
        PROVE  Inv'
    BY <1>2, TaskMoves, CopiesStay, Fields
  <1>3. task[t].stalled \in BOOLEAN /\ task[t].made \in Nat  BY Fields DEF Task
  <1>4. Fault => faults' \in 0..MaxFaults  BY Fields, RotationAssumption DEF Fault
  <1>5. CASE Finish(t)
    <2>1. CASE SetTask(t, Failing(t)) /\ UNCHANGED <<row, replica, lock, raced, faults>>
      BY <2>1, FailureKeepsInv
    <2>2. CASE Released(t) /\ SetTask(t, NoTask) /\ UNCHANGED <<row, replica, raced, faults>>
      BY <1>2, <2>2, NoTaskType, Fields DEF Released
    <2>3. QED  BY <1>5, <2>1, <2>2 DEF Finish
  <1>6. CASE Fail(t)
    <2>1. CASE FinalAttempt(t)
      <3>1. /\ SetTask(t, NoTask) /\ Released(t) /\ UNCHANGED <<replica, raced>>
            /\ \/ row' = Failed /\ UNCHANGED faults
               \/ UNCHANGED row /\ Fault
        BY <1>6, <2>1 DEF Fail
      <3>2. row' \in Row /\ row'.active = row.active /\ row'.works = row.works /\ row'.since = row.since
        BY <3>1, Fields DEF Failed, Row
      <3>3. faults' \in 0..MaxFaults  BY <1>4, <3>1, Fields
      <3>4. QED  BY <1>2, <3>1, <3>2, <3>3, NoTaskType, Fields DEF Released
    <2>2. CASE ~FinalAttempt(t)
      <3> DEFINE r == again(task[t].made + 1, task[t].stalled)
      <3>1. SetTask(t, r) /\ Released(t) /\ UNCHANGED <<row, replica, raced, faults>>
        BY <1>6, <2>2 DEF Fail, again
      <3>2. task[t].made + 1 \in Nat /\ task[t].made + 1 < Attempts
        BY <1>3, <2>2, Fields DEF FinalAttempt
      <3>3. r \in Task /\ r.state = "wait" /\ r.made < Attempts  BY <1>1, <1>3, <3>2
      <3> HIDE DEF r
      <3>4. QED  BY <1>2, <3>1, <3>3, Fields DEF Released
    <2>3. QED  BY <2>1, <2>2
  <1>7. CASE Die(t)
    <2>1. UNCHANGED <<row, replica, raced>> /\ lock' = (IF lock = t THEN Dead ELSE lock) /\ Fault
      BY <1>7 DEF Die
    <2>2. PICK r \in {NoTask, again(task[t].made, TRUE)} : SetTask(t, r)
      BY <1>7 DEF Die, again
    <2>3. r \in Task /\ r.state \in {"none", "wait"} /\ r.made < Attempts
      <3>1. CASE r = NoTask  BY <3>1, NoTaskType, Fields
      <3>2. CASE r = again(task[t].made, TRUE)
        <4>1. r \in Task /\ r.state = "wait" /\ r.made = task[t].made  BY <1>1, <1>3, <3>2
        <4>2. QED  BY <4>1, Fields
      <3>3. QED  BY <2>2, <3>1, <3>2
    <2>4. QED  BY <1>2, <1>4, <2>1, <2>2, <2>3, Fields
  <1>8. QED  BY <1>5, <1>6, <1>7

LEMMA NextKeepsInv == Inv /\ [Next]_vars => Inv'
  <1> SUFFICES ASSUME Inv, [Next]_vars  PROVE Inv'  OBVIOUS
  <1>1. CASE UNCHANGED vars
    <2>1. UNCHANGED <<row, replica, lock, task, raced, faults>>  BY <1>1 DEF vars
    <2>2. QED
      BY <2>1 DEF Inv, TypeOK, CopiesCurrent, ReadIsCurrent, JobWasFresh, LockKept, NewWorks
  <1>2. CASE BecomesDue \/ Toggle \/ LockExpires \/ LockLost  BY <1>2, RowStepKeepsInv
  <1>3. ASSUME NEW p \in Replicas, Replicate(p)  PROVE Inv'  BY <1>3, ReplicateKeepsInv
  <1>4. CASE QueueRotation  BY <1>4, QueueKeepsInv
  <1>5. CASE JobReads \/ \E t \in Requests : RequestReads(t)  BY <1>5, ReadKeepsInv
  <1>6. ASSUME NEW t \in Tasks, TaskStep(t) \/ Die(t)  PROVE Inv'
    BY <1>6, AcquireKeepsInv, AlterKeepsInv, StoreKeepsInv, EndKeepsInv DEF TaskStep
  <1>7. QED  BY <1>1, <1>2, <1>3, <1>4, <1>5, <1>6 DEF Next

\* Only its own step of the rotation brings a task to hold a new password.
LEMMA OnlyAlters ==
  ASSUME Inv, [Next]_vars, NEW t \in Tasks, task[t].state # "altered", task'[t].state = "altered"
  PROVE  Alter(t)
  <1>1. task' # task  OBVIOUS
  <1>2. \A x \in Tasks : \A r : SetTask(x, r) => task'[t] = IF x = t THEN r ELSE task[t]
    BY DEF SetTask, Inv, TypeOK
  <1>3. ~(BecomesDue \/ Toggle \/ LockExpires \/ LockLost \/ UNCHANGED vars)
    BY <1>1 DEF BecomesDue, Toggle, LockExpires, LockLost, vars
  <1>4. ASSUME NEW x \in Tasks, NEW r, SetTask(x, r)  PROVE r.state = "altered"
    BY <1>2, <1>4
  <1>5. NoTask.state = "none" /\ [NoTask EXCEPT !.state = "wait"].state = "wait"
    BY DEF NoTask
  <1>6. \A x \in Tasks, p \in Replicas : ReadRow(x, p).state = "read"
    BY Fields DEF ReadRow, Task
  <1>7. \A p \in Replicas : ~Replicate(p)  BY <1>1 DEF Replicate
  <1>8. ~QueueRotation  BY <1>4, <1>5 DEF QueueRotation, Tasks
  <1>9. ~JobReads
    <2> SUFFICES ASSUME JobReads  PROVE FALSE  OBVIOUS
    <2>1. PICK p \in Replicas : SetTask(Job, IF RotatedSince(p) THEN NoTask ELSE ReadRow(Job, p))
      BY DEF JobReads
    <2>2. SetTask(Job, NoTask) \/ SetTask(Job, ReadRow(Job, p))  BY <2>1
    <2>3. QED  BY <1>4, <1>5, <1>6, <2>2 DEF Tasks
  <1>10. \A x \in Requests : ~RequestReads(x)  BY <1>4, <1>6 DEF RequestReads, Tasks
  <1>11. \A x \in Tasks : ~SetTask(x, Failing(x)) /\ ~SetTask(x, [task[x] EXCEPT !.state = "locked"])
    <2>1. \A x \in Tasks : [task[x] EXCEPT !.state = "locked"].state = "locked"
      BY Fields DEF Task
    <2>2. \A x \in Tasks : Failing(x).state = "failed"  BY DEF Failing, NoTask
    <2>3. QED  BY <1>4, <2>1, <2>2
  <1>12. ASSUME NEW x \in Tasks  PROVE ~Acquire(x) /\ ~Finish(x)
    BY <1>4, <1>5, <1>11 DEF Acquire, Finish
  <1>13. ASSUME NEW x \in Tasks  PROVE ~Fail(x) /\ ~Die(x)
    <2>1. \A m, s : [NoTask EXCEPT !.state = "wait", !.made = m, !.stalled = s].state = "wait"
      BY DEF NoTask
    <2>2. QED  BY <1>4, <1>5, <2>1 DEF Fail, Die
  <1>14. ASSUME NEW x \in Tasks, Store(x)  PROVE FALSE
    <2>1. PICK st \in {"stored", "failed"} :
            task' = [y \in Tasks |->
              IF y = x THEN [Failing(x) EXCEPT !.state = st]
                       ELSE [task[y] EXCEPT !.outdated = @ \/ task[y].state \in {"read", "locked", "altered"}]]
      BY <1>11, <1>14 DEF Store
    <2>2. task'[t].state = IF t = x THEN st ELSE task[t].state
      <3>1. [Failing(x) EXCEPT !.state = st].state = st  BY DEF Failing, NoTask
      <3>2. \A o : [task[t] EXCEPT !.outdated = o].state = task[t].state  BY Fields DEF Task
      <3>3. QED  BY <2>1, <3>1, <3>2
    <2>3. QED  BY <2>1, <2>2
  <1>15. ASSUME NEW x \in Tasks, x # t, Alter(x)  PROVE FALSE
    <2>1. task'[t] = Void(task[t], Inactive(task[x].active))  BY <1>11, <1>15 DEF Alter
    <2>2. task'[t].state = task[t].state  BY <2>1, Fields DEF Void, Task
    <2>3. QED  BY <2>2
  <1>16. QED  BY <1>3, <1>7, <1>8, <1>9, <1>10, <1>12, <1>13, <1>14, <1>15 DEF Next, TaskStep

-----------------------------------------------------------------------------
\* Every variable of a rotation keeps its type; attempts never reach the limit.
THEOREM TypeCorrect == Spec => []TypeOK
  <1>1. Inv => TypeOK  BY DEF Inv
  <1>2. QED  BY <1>1, InitInv, NextKeepsInv, PTL DEF Spec

\* The secrets hold credentials that the provider accepts, whatever fails and whoever
\* dies, unless a rotation went on with an outdated row, read too early or at a replica
\* that was behind, or without its lock: for any number of requests and replicas.
THEOREM SecretsAlwaysWork == Spec => []SecretsWork
  <1>1. Inv => SecretsWork  BY DEF Inv, SecretsWork
  <1>2. QED  BY <1>1, InitInv, NextKeepsInv, PTL DEF Spec

\* A job that sets a password is the first to do so since it was queued, as far as
\* the state of the row could tell that it read, even where rotations raced.
THEOREM RotatesOnce == Spec => JobRotatesOnce
  <1>1. ASSUME Inv, [Next]_vars, task[Job].state # "altered", task'[Job].state = "altered"
        PROVE  ~row.since \/ task[Job].outdated
    <2>1. Job \in Tasks  BY DEF Tasks
    <2>2. Alter(Job)  BY <1>1, <2>1, OnlyAlters
    <2>3. task[Job].state = "locked"  BY <2>2 DEF Alter
    <2>4. QED  BY <1>1, <2>3 DEF Inv, JobWasFresh
  <1>2. Inv /\ [Next]_vars => [task[Job].state # "altered" /\ task'[Job].state = "altered"
                                 => ~row.since \/ task[Job].outdated]_vars
    BY <1>1
  <1>3. QED  BY <1>2, InitInv, NextKeepsInv, PTL DEF Spec, JobRotatesOnce
=============================================================================
