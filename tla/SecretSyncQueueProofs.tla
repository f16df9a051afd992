----------------------- MODULE SecretSyncQueueProofs -----------------------
(***************************************************************************)
(* Safety of SecretSyncQueue: its types, the limit of the connection, the  *)
(* exclusion of the lock, and what the status of a sync promises.          *)
(***************************************************************************)
EXTENDS SecretSyncQueue, FiniteSetTheorems, TLAPS

Admitted == {j \in Jobs : Counted(j)}

\* The counter has counted every job at work, unless it expired under one.
SlotsCounted ==
  expired \/ (IsFiniteSet(Admitted) /\ Cardinality(Admitted) <= count)

\* Every change of the secrets has been counted.
ChangesCounted == \A s \in Syncs : source[s] <= asked + 1

\* Who works on a sync whose lock never ran out under a job holds the lock.
LockKept ==
  \A j \in Jobs :
    Working(j) /\ "overlapped" \notin mark[job[j].sync] => lock[job[j].sync] = j

\* An attempt that runs is the one after those that failed, and there is one.
AttemptsKept ==
  \A j \in Jobs :
    /\ job[j].made < Attempts
    /\ job[j].state # "none" /\ "died" \notin mark[job[j].sync]
       => job[j].started = job[j].made + (IF job[j].state = "wait" THEN 0 ELSE 1)

\* A sync job that has yet to read the secrets, now or in its next attempt.
Coming(j) ==
  /\ job[j].kind = "sync"
  /\ \/ job[j].state \in {"wait", "found", "locked", "admitted"}
     \/ job[j].state = "fail" /\ job[j].made + 1 < Attempts

\* One that has read them and has yet to report.
Syncing(j) == job[j].kind = "sync" /\ job[j].state \in {"read", "good", "bad", "worst"}

\* A status that promises a report has a job that will give it.
ReportComes ==
  \A s \in Syncs :
    /\ status[s] \in {"pending", "running"} /\ req[s] \in {"idle", "triggered"}
    /\ mark[s] \cap {"died", "silent", "late", "cut"} = {}
    => \E j \in Jobs : job[j].sync = s /\ (Coming(j) \/ Syncing(j))

\* The secrets of a sync are to be read again.
Anticipated(s) ==
  req[s] \in {"change", "queue"} \/ \E j \in Jobs : job[j].sync = s /\ Coming(j)

Undisturbed(s) == mark[s] \cap {"overlapped", "removed", "dropped", "silent", "died", "cut"} = {}

\* When nobody is to read the secrets of a sync again, whoever has read them has
\* read the latest, or not all of them; a job that went well has brought its
\* version to the destination, and the status "succeeded" is of such a version.
Latest(s) ==
  /\ \A j \in Jobs : job[j].sync = s /\ Syncing(j) =>
       /\ job[j].version \in {0, source[s]}
       /\ job[j].state = "good" => dest[s] \in {0, source[s]}
  /\ status[s] = "succeeded" =>
       \/ dest[s] \in {0, source[s]}
       \/ \E j \in Jobs : job[j].sync = s /\ Syncing(j) /\ job[j].state # "good"

ReadsLatest ==
  \A s \in Syncs : Undisturbed(s) /\ Live(s) /\ ~Anticipated(s) => Latest(s)

Queueing ==
  /\ TypeOK /\ ChangesCounted /\ SlotsCounted /\ LockKept /\ AttemptsKept
  /\ ReportComes /\ ReadsLatest

-----------------------------------------------------------------------------
(* Jobs.                                                                   *)

\* The fields of a job.
LEMMA JobFields ==
  ASSUME NEW r \in Job
  PROVE  /\ r.state \in States /\ r.kind \in {"sync", "remove"} /\ r.sync \in Syncs
         /\ r.lost \in 0..RequeueLimit /\ r.started \in Nat /\ r.made \in 0..Attempts
         /\ r.stalled \in BOOLEAN /\ r.version \in Versions
  BY DEF Job

\* A job that is new, and one that is none.
LEMMA FreshJob ==
  ASSUME NEW s \in Syncs, NEW kind \in {"sync", "remove"}, NEW lost \in 0..RequeueLimit
  PROVE  /\ NewJob(s, kind, lost) \in Job
         /\ NewJob(s, kind, lost).state = "wait" /\ NewJob(s, kind, lost).kind = kind
         /\ NewJob(s, kind, lost).sync = s /\ NewJob(s, kind, lost).made = 0
         /\ NewJob(s, kind, lost).started = 0
  <1>1. 0 \in 0..Attempts /\ 0 \in Versions /\ 0 \in Nat
    BY SyncAssumption DEF Versions
  <1>2. "wait" \in States  BY DEF States
  <1>3. QED  BY <1>1, <1>2 DEF NewJob, Job

\* Whatever its kind and its sync are, a job that is none has failed no attempt.
LEMMA EmptyJob ==
  NoJob \in Job /\ NoJob.state = "none" /\ NoJob.made = 0 /\ NoJob.kind = "sync"
  <1> DEFINE first == CHOOSE s \in Syncs : TRUE
  <1>1. first \in Syncs  BY SyncAssumption
  <1>2. 0 \in 0..RequeueLimit  BY SyncAssumption
  <1> HIDE DEF first
  <1>3. /\ NewJob(first, "sync", 0) \in Job /\ NewJob(first, "sync", 0).made = 0
        /\ NewJob(first, "sync", 0).kind = "sync"
    BY <1>1, <1>2, FreshJob
  <1>4. \A r \in Job : /\ [r EXCEPT !.state = "none"] \in Job
                       /\ [r EXCEPT !.state = "none"].state = "none"
                       /\ [r EXCEPT !.state = "none"].made = r.made
                       /\ [r EXCEPT !.state = "none"].kind = r.kind
    BY DEF Job, States
  <1>5. NoJob = [NewJob(first, "sync", 0) EXCEPT !.state = "none"]  BY DEF NoJob, first
  <1>6. QED  BY <1>3, <1>4, <1>5

\* A step of one job leaves the others alone.
LEMMA JobSet ==
  ASSUME TypeOK, NEW j \in Jobs, NEW r \in Job, SetJob(j, r)
  PROVE  /\ job' \in [Jobs -> Job] /\ job'[j] = r
         /\ \A i \in Jobs : i # j => job'[i] = job[i]
  BY DEF TypeOK, SetJob

\* One that only goes on changes nothing but its state.
LEMMA JobGoes ==
  ASSUME TypeOK, NEW j \in Jobs, NEW st \in States, Goto(j, st)
  PROVE  /\ job' \in [Jobs -> Job]
         /\ job'[j].state = st /\ job'[j].kind = job[j].kind
         /\ job'[j].sync = job[j].sync /\ job'[j].made = job[j].made
         /\ job'[j].started = job[j].started /\ job'[j].version = job[j].version
         /\ \A i \in Jobs : i # j => job'[i] = job[i]
  <1> DEFINE r == [job[j] EXCEPT !.state = st]
  <1>1. job[j] \in Job  BY DEF TypeOK
  <1>2. /\ r \in Job /\ r.state = st /\ r.kind = job[j].kind /\ r.sync = job[j].sync
        /\ r.made = job[j].made /\ r.started = job[j].started /\ r.version = job[j].version
    BY <1>1 DEF Job
  <1>3. SetJob(j, r)  BY DEF Goto
  <1> HIDE DEF r
  <1>4. QED  BY <1>2, <1>3, JobSet

\* The status of a row that is gone stays "deleted", the others' is untouched.
LEMMA StatusSet ==
  ASSUME TypeOK, NEW s \in Syncs, NEW st \in Statuses, SetStatus(s, st)
  PROVE  /\ status' \in [Syncs -> Statuses]
         /\ Live(s) => status'[s] = st
         /\ ~Live(s) => status'[s] = "deleted"
         /\ \A t \in Syncs : t # s => status'[t] = status[t]
  BY DEF TypeOK, SetStatus, Live

\* A mark is added to those of its sync.
LEMMA MarkSet ==
  ASSUME TypeOK, NEW s \in Syncs, NEW m \in Marks, Marked(s, m)
  PROVE  /\ mark' \in [Syncs -> SUBSET Marks]
         /\ m \in mark'[s]
         /\ \A t \in Syncs : mark[t] \subseteq mark'[t]
  BY DEF TypeOK, Marked

\* The lock a job gives back becomes free if it still was its own.
LEMMA LockFreed ==
  ASSUME TypeOK, NEW j \in Jobs, Freed(j)
  PROVE  /\ lock' \in [Syncs -> Jobs \cup {Nobody}]
         /\ \A t \in Syncs, i \in Jobs : i # j /\ lock[t] = i => lock'[t] = i
  BY DEF TypeOK, Freed

\* A fault is within its bound.
LEMMA FaultCounted ==
  ASSUME TypeOK, Fault \/ UNCHANGED faults
  PROVE  faults' \in 0..MaxFaults
  <1>1. faults \in 0..MaxFaults /\ MaxFaults \in Nat  BY SyncAssumption DEF TypeOK
  <1>2. CASE Fault  BY <1>1, <1>2 DEF Fault
  <1>3. CASE UNCHANGED faults  BY <1>1, <1>3
  <1>4. QED  BY <1>2, <1>3

\* It may stay if its release fails.
LEMMA LockReleased ==
  ASSUME TypeOK, NEW j \in Jobs, Released(j)
  PROVE  /\ lock' \in [Syncs -> Jobs \cup {Nobody}] /\ faults' \in 0..MaxFaults
         /\ \A t \in Syncs, i \in Jobs : i # j /\ lock[t] = i => lock'[t] = i
  <1>1. CASE Freed(j) /\ UNCHANGED faults  BY <1>1, LockFreed, FaultCounted
  <1>2. CASE Fault /\ UNCHANGED lock  BY <1>2, FaultCounted DEF TypeOK
  <1>3. QED  BY <1>1, <1>2 DEF Released

\* A job that is repeated waits, with one more failed attempt.
LEMMA JobRepeated ==
  ASSUME TypeOK, NEW j \in Jobs, Again(j)
  PROVE  /\ Repeated(j) \in Job /\ Repeated(j).state = "wait"
         /\ Repeated(j).sync = job[j].sync /\ Repeated(j).kind = "sync"
         /\ Repeated(j).made = job[j].made + 1 /\ Repeated(j).made < Attempts
         /\ Repeated(j).started = job[j].started
  <1>1. job[j] \in Job /\ job[j].kind = "sync" /\ job[j].made + 1 < Attempts
    BY DEF TypeOK, Again
  <1>2. job[j].made + 1 \in 0..Attempts  BY <1>1, JobFields, SyncAssumption
  <1>3. "wait" \in States /\ 0 \in Versions  BY SyncAssumption DEF States, Versions
  <1>4. Repeated(j) \in Job  BY <1>1, <1>2, <1>3 DEF Job, Repeated
  <1>5. QED  BY <1>1, <1>4 DEF Job, Repeated

\* A sync job that fails its last attempt without a report leaves a mark.
LEMMA SilenceMarked ==
  ASSUME TypeOK, NEW j \in Jobs, NoReport(j)
  PROVE  /\ mark' \in [Syncs -> SUBSET Marks]
         /\ \A t \in Syncs : mark[t] \subseteq mark'[t]
         /\ job[j].kind = "sync" /\ ~Again(j) => "silent" \in mark'[job[j].sync]
  <1>1. job[j].sync \in Syncs  BY JobFields DEF TypeOK
  <1>2. CASE job[j].kind = "sync" /\ ~Again(j)
    BY <1>1, <1>2, MarkSet DEF NoReport, Marks
  <1>3. CASE ~(job[j].kind = "sync" /\ ~Again(j))
    BY <1>3 DEF NoReport, TypeOK
  <1>4. QED  BY <1>2, <1>3

\* Giving back a slot leaves at least all the others counted.
LEMMA CountDecremented ==
  ASSUME TypeOK
  PROVE  /\ Decremented \in 0..Limit /\ count \in Nat
         /\ Decremented >= count - 1
  BY SyncAssumption DEF TypeOK, Decremented

-----------------------------------------------------------------------------
(* What a step of one job j of a sync s must show.                         *)

\* While the counter stays, no job may get a slot.
LEMMA SlotsStay ==
  ASSUME SlotsCounted, count \in Nat, expired' = expired, count' = count,
         \A i \in Jobs : Counted(i)' => Counted(i)
  PROVE  SlotsCounted'
  <1>1. CASE expired  BY <1>1 DEF SlotsCounted
  <1>2. CASE ~expired
    <2>1. IsFiniteSet(Admitted) /\ Cardinality(Admitted) <= count
      BY <1>2 DEF SlotsCounted
    <2>2. Admitted' \subseteq Admitted  BY DEF Admitted
    <2>3. IsFiniteSet(Admitted') /\ Cardinality(Admitted') <= Cardinality(Admitted)
      BY <2>1, <2>2, FS_Subset
    <2>4. Cardinality(Admitted) \in Nat /\ Cardinality(Admitted') \in Nat
      BY <2>1, <2>3, FS_CardinalityType
    <2>5. QED  BY <1>2, <2>1, <2>3, <2>4 DEF SlotsCounted
  <1>3. QED  BY <1>1, <1>2

\* Two jobs at work on one sync are one, while its lock never ran out.
LEMMA WorksAlone ==
  ASSUME LockKept, NEW i \in Jobs, NEW j \in Jobs, Working(i), Working(j),
         job[i].sync = job[j].sync, "overlapped" \notin mark[job[j].sync]
  PROVE  i = j
  BY DEF LockKept

\* The other jobs keep their locks if they are not taken away.
LEMMA LockStays ==
  ASSUME LockKept, NEW j \in Jobs,
         \A i \in Jobs : i # j => job'[i] = job[i],
         \A t \in Syncs : mark[t] \subseteq mark'[t],
         \A i \in Jobs : job[i].sync \in Syncs,
         \A i \in Jobs : i # j /\ lock[job[i].sync] = i => lock'[job[i].sync] = i,
         Working(j)' /\ "overlapped" \notin mark'[job'[j].sync] => lock'[job'[j].sync] = j
  PROVE  LockKept'
  <1>1. SUFFICES ASSUME NEW i \in Jobs, Working(i)', "overlapped" \notin mark'[job'[i].sync]
                 PROVE  lock'[job'[i].sync] = i
    BY DEF LockKept
  <1>2. CASE i = j  BY <1>1, <1>2
  <1>3. CASE i # j
    <2>1. job'[i] = job[i] /\ Working(i) /\ "overlapped" \notin mark[job[i].sync]
      BY <1>1, <1>3 DEF Working
    <2>2. lock[job[i].sync] = i  BY <2>1 DEF LockKept
    <2>3. QED  BY <1>3, <2>1, <2>2
  <1>4. QED  BY <1>2, <1>3

\* A report still comes if j is to give it, or was not the one to.
LEMMA ReportStays ==
  ASSUME ReportComes, NEW j \in Jobs, NEW s \in Syncs, job[j].sync = s,
         \A i \in Jobs : i # j => job'[i] = job[i],
         \A t \in Syncs : t # s => status'[t] = status[t],
         \A t \in Syncs : mark[t] \subseteq mark'[t],
         req' = req,
         \/ status'[s] \notin {"pending", "running"}
         \/ "died" \in mark'[s] \/ "silent" \in mark'[s]
         \/ job'[j].sync = s /\ (Coming(j)' \/ Syncing(j)')
         \/ status'[s] = status[s] /\ ~Coming(j) /\ ~Syncing(j)
  PROVE  ReportComes'
  <1>1. SUFFICES ASSUME NEW t \in Syncs, status'[t] \in {"pending", "running"},
                        req[t] \in {"idle", "triggered"}, mark'[t] \cap {"died", "silent", "late", "cut"} = {}
                 PROVE  \E i \in Jobs : job'[i].sync = t /\ (Coming(i)' \/ Syncing(i)')
    BY DEF ReportComes
  <1>2. mark[t] \cap {"died", "silent", "late", "cut"} = {}  BY <1>1
  <1>3. ASSUME status'[t] = status[t], t # s \/ (~Coming(j) /\ ~Syncing(j))
        PROVE  \E i \in Jobs : job'[i].sync = t /\ (Coming(i)' \/ Syncing(i)')
    <2>1. PICK i \in Jobs : job[i].sync = t /\ (Coming(i) \/ Syncing(i))
      BY <1>1, <1>2, <1>3 DEF ReportComes
    <2>2. i # j  BY <1>3, <2>1
    <2>3. job'[i] = job[i]  BY <2>2
    <2>4. QED  BY <2>1, <2>3 DEF Coming, Syncing
  <1>4. CASE t # s  BY <1>3, <1>4
  <1>5. CASE t = s  BY <1>1, <1>3, <1>5
  <1>6. QED  BY <1>4, <1>5

\* The other syncs are read and synced as before.
LEMMA ReadsStay ==
  ASSUME TypeOK, ReadsLatest, NEW j \in Jobs, NEW s \in Syncs, job[j].sync = s,
         \A i \in Jobs : i # j => job'[i] = job[i],
         job'[j].sync = s \/ job'[j].state = "none",
         \A t \in Syncs : t # s => status'[t] = status[t] /\ dest'[t] = dest[t],
         \A t \in Syncs : mark[t] \subseteq mark'[t],
         UNCHANGED <<source, req>>,
         Undisturbed(s)' /\ Live(s)' /\ ~Anticipated(s)' => Latest(s)'
  PROVE  ReadsLatest'
  <1>1. SUFFICES ASSUME NEW t \in Syncs, t # s, Undisturbed(t)', Live(t)', ~Anticipated(t)'
                 PROVE  Latest(t)'
    BY DEF ReadsLatest
  <1>2. \A i \in Jobs : job[i].sync = t \/ (job'[i].sync = t /\ job'[i].state # "none")
                          => job'[i] = job[i]
    BY <1>1
  <1>3. Undisturbed(t) /\ Live(t)  BY <1>1 DEF Undisturbed, Live
  <1>4. ~Anticipated(t)
    <2>1. SUFFICES ASSUME NEW i \in Jobs, job[i].sync = t, Coming(i)  PROVE FALSE
      BY <1>1 DEF Anticipated
    <2>2. job'[i] = job[i]  BY <1>2, <2>1
    <2>3. QED  BY <1>1, <2>1, <2>2 DEF Anticipated, Coming
  <1>5. Latest(t)  BY <1>3, <1>4 DEF ReadsLatest
  <1>6. \A i \in Jobs : job'[i].sync = t /\ Syncing(i)' => job'[i] = job[i] /\ Syncing(i)
    BY <1>2 DEF Syncing
  <1>7. \A i \in Jobs : job[i].sync = t /\ Syncing(i) => job'[i] = job[i] /\ Syncing(i)'
    BY <1>2 DEF Syncing
  <1>8. status'[t] = status[t] /\ dest'[t] = dest[t] /\ source'[t] = source[t]  BY <1>1
  <1>9. QED  BY <1>5, <1>6, <1>7, <1>8 DEF Latest

\* A step that neither reads, writes nor reports: j is still to read, or no sync
\* job, or something happened to its sync that the properties except.
LEMMA QuietStep ==
  ASSUME TypeOK, ReportComes, ReadsLatest, NEW j \in Jobs, NEW s \in Syncs, job[j].sync = s,
         \A i \in Jobs : i # j => job'[i] = job[i],
         job'[j].sync = s \/ job'[j].state = "none",
         \A t \in Syncs : t # s => status'[t] = status[t],
         \A t \in Syncs : mark[t] \subseteq mark'[t],
         UNCHANGED <<source, dest, req>>,
         \/ status'[s] = "deleted"
         \/ job'[j].sync = s /\ Coming(j)'
         \/ status'[s] = "failed" /\ "dropped" \in mark'[s]
         \/ "died" \in mark'[s] \/ "silent" \in mark'[s]
         \/ status'[s] = status[s] /\ ~Coming(j) /\ ~Syncing(j) /\ ~Coming(j)' /\ ~Syncing(j)'
  PROVE  ReportComes' /\ ReadsLatest'
  <1>1. ReportComes'  BY ReportStays
  <1>2. Undisturbed(s)' /\ Live(s)' /\ ~Anticipated(s)' => Latest(s)'
    <2>1. SUFFICES ASSUME Undisturbed(s)', Live(s)', ~Anticipated(s)'  PROVE Latest(s)'
      OBVIOUS
    <2>2. /\ status'[s] = status[s]
          /\ ~Coming(j) /\ ~Syncing(j) /\ ~Coming(j)' /\ ~Syncing(j)'
      BY <2>1 DEF Undisturbed, Live, Anticipated
    <2>3. Undisturbed(s) /\ Live(s)  BY <2>1, <2>2 DEF Undisturbed, Live
    <2>4. ~Anticipated(s)
      <3>1. SUFFICES ASSUME NEW i \in Jobs, job[i].sync = s, Coming(i)  PROVE FALSE
        BY <2>1 DEF Anticipated
      <3>2. job'[i] = job[i]  BY <2>2, <3>1
      <3>3. QED  BY <2>1, <3>1, <3>2 DEF Anticipated, Coming
    <2>5. Latest(s)  BY <2>3, <2>4 DEF ReadsLatest
    <2>6. \A i \in Jobs : Syncing(i)' => job'[i] = job[i] /\ Syncing(i)
      BY <2>2 DEF Syncing
    <2>7. \A i \in Jobs : Syncing(i) => job'[i] = job[i] /\ Syncing(i)'
      BY <2>2 DEF Syncing
    <2>8. QED  BY <2>2, <2>5, <2>6, <2>7 DEF Latest
  <1>3. ReadsLatest'  BY <1>2, ReadsStay
  <1>4. QED  BY <1>1, <1>3

-----------------------------------------------------------------------------
(* Jobs.                                                                   *)

\* The row is found, or the job ends.
LEMMA FindKeeps ==
  ASSUME Queueing, NEW j \in Jobs, Find(j)
  PROVE  Queueing'
  <1> DEFINE s == job[j].sync
             r == [job[j] EXCEPT !.state = "found", !.started = @ + 1]
  <1>1. TypeOK /\ job[j] \in Job /\ s \in Syncs  BY JobFields DEF Queueing, TypeOK
  <1>2. /\ job[j].state = "wait"
        /\ UNCHANGED <<source, dest, status, lock, count, req, asked, mark, expired, faults>>
    BY DEF Find, redis, history
  <1>3. /\ r \in Job /\ r.state = "found" /\ r.sync = s /\ r.kind = job[j].kind
        /\ r.made = job[j].made /\ r.started = job[j].started + 1
    <2>1. "found" \in States /\ job[j].started + 1 \in Nat
      BY <1>1, JobFields DEF States
    <2>2. r \in Job  BY <1>1, <2>1 DEF Job
    <2>3. QED  BY <1>1, <2>2 DEF Job
  <1>4. CASE SetJob(j, r)
    <2>1. SetJob(j, r)  BY <1>4
    <2> HIDE DEF r
    <2>2. /\ job' \in [Jobs -> Job] /\ job'[j] = r
          /\ \A i \in Jobs : i # j => job'[i] = job[i]
      BY <1>1, <1>3, <2>1, JobSet
    <2>3. TypeOK' /\ ChangesCounted'
      BY <1>2, <2>2 DEF Queueing, TypeOK, ChangesCounted
    <2>4. SlotsCounted'
      BY <1>2, <1>3, <2>2, CountDecremented, SlotsStay DEF Queueing, Counted
    <2>5. LockKept'
      BY <1>1, <1>2, <1>3, <2>2 DEF Queueing, LockKept, Working
    <2>6. AttemptsKept'
      BY <1>1, <1>2, <1>3, <2>2, JobFields, SyncAssumption DEF Queueing, AttemptsKept
    <2>7. \/ Coming(j)' /\ job'[j].sync = s
          \/ ~Coming(j) /\ ~Syncing(j) /\ ~Coming(j)' /\ ~Syncing(j)'
      BY <1>2, <1>3, <2>2 DEF Coming, Syncing
    <2>8. ReportComes' /\ ReadsLatest'
      BY <1>1, <1>2, <1>3, <2>2, <2>7, QuietStep DEF Queueing
    <2>9. QED  BY <2>3, <2>4, <2>5, <2>6, <2>8 DEF Queueing
  <1>5. CASE ~Live(s) /\ SetJob(j, NoJob)
    <2>1. SetJob(j, NoJob)  BY <1>5
    <2>2. /\ job' \in [Jobs -> Job] /\ job'[j] = NoJob
          /\ \A i \in Jobs : i # j => job'[i] = job[i]
      BY <1>1, <2>1, JobSet, EmptyJob
    <2>3. TypeOK' /\ ChangesCounted'
      BY <1>2, <2>2 DEF Queueing, TypeOK, ChangesCounted
    <2>4. SlotsCounted'
      BY <1>2, <2>2, EmptyJob, CountDecremented, SlotsStay DEF Queueing, Counted
    <2>5. LockKept'
      BY <1>1, <1>2, <2>2, EmptyJob DEF Queueing, LockKept, Working
    <2>6. AttemptsKept'
      BY <1>1, <1>2, <2>2, EmptyJob, SyncAssumption DEF Queueing, AttemptsKept
    <2>7. ReportComes' /\ ReadsLatest'
      BY <1>1, <1>2, <1>5, <2>2, EmptyJob, QuietStep DEF Queueing, Live
    <2>8. QED  BY <2>3, <2>4, <2>5, <2>6, <2>7 DEF Queueing
  <1>6. QED  BY <1>4, <1>5 DEF Find

\* The lock is taken.
LEMMA AcquireKeeps ==
  ASSUME Queueing, NEW j \in Jobs, Acquire(j)
  PROVE  Queueing'
  <1> DEFINE s == job[j].sync
  <1>1. TypeOK /\ job[j] \in Job /\ s \in Syncs  BY JobFields DEF Queueing, TypeOK
  <1>2. /\ job[j].state = "found" /\ lock[s] = Nobody
        /\ lock' = [lock EXCEPT ![s] = j] /\ Goto(j, "locked")
        /\ UNCHANGED <<source, dest, status, count, req, asked, mark, expired, faults>>
    BY DEF Acquire, history
  <1>3. /\ job' \in [Jobs -> Job]
        /\ job'[j].state = "locked" /\ job'[j].kind = job[j].kind
        /\ job'[j].sync = s /\ job'[j].made = job[j].made
        /\ job'[j].started = job[j].started
        /\ \A i \in Jobs : i # j => job'[i] = job[i]
    BY <1>1, <1>2, JobGoes DEF States
  <1>4. TypeOK' /\ ChangesCounted'
    <2>1. lock' \in [Syncs -> Jobs \cup {Nobody}]  BY <1>2 DEF Queueing, TypeOK
    <2>2. QED  BY <1>2, <1>3, <2>1 DEF Queueing, TypeOK, ChangesCounted
  <1>5. SlotsCounted'
    BY <1>2, <1>3, CountDecremented, SlotsStay DEF Queueing, Counted
  <1>6. LockKept'
    <2>1. lock'[s] = j  BY <1>1, <1>2 DEF TypeOK
    <2>2. \A i \in Jobs : job[i].sync \in Syncs  BY <1>1, JobFields DEF TypeOK
    <2>3. \A i \in Jobs : i # j /\ lock[job[i].sync] = i => lock'[job[i].sync] = i
      BY <1>1, <1>2, <2>2, SyncAssumption DEF TypeOK
    <2>4. QED  BY <1>2, <1>3, <2>1, <2>2, <2>3, LockStays DEF Queueing
  <1>7. AttemptsKept'  BY <1>1, <1>2, <1>3 DEF Queueing, AttemptsKept
  <1>8. \/ Coming(j)' /\ job'[j].sync = s
        \/ ~Coming(j) /\ ~Syncing(j) /\ ~Coming(j)' /\ ~Syncing(j)'
    BY <1>2, <1>3 DEF Coming, Syncing
  <1>9. ReportComes' /\ ReadsLatest'
    BY <1>1, <1>2, <1>3, <1>8, QuietStep DEF Queueing
  <1>10. QED  BY <1>4, <1>5, <1>6, <1>7, <1>9 DEF Queueing

\* A job that got no lock, or no slot and gives back its lock.
LEMMA TurnedAwayKeeps ==
  ASSUME Queueing, NEW j \in Jobs, AcquireFails(j) \/ AdmitFails(j)
  PROVE  Queueing'
  <1> DEFINE s == job[j].sync
  <1>1. TypeOK /\ job[j] \in Job /\ s \in Syncs  BY JobFields DEF Queueing, TypeOK
  <1>2. /\ job[j].state \in {"found", "locked"} /\ TurnedAway(j)
        /\ UNCHANGED <<source, dest, count, req, asked, expired>>
    BY DEF AcquireFails, AdmitFails
  <1>3. /\ lock' \in [Syncs -> Jobs \cup {Nobody}] /\ faults' \in 0..MaxFaults
        /\ \A t \in Syncs, i \in Jobs : i # j /\ lock[t] = i => lock'[t] = i
    <2>1. CASE AdmitFails(j)
      <3>1. Released(j)  BY <2>1 DEF AdmitFails
      <3>2. QED  BY <1>1, <3>1, LockReleased
    <2>2. CASE AcquireFails(j)
      <3>1. Fault \/ UNCHANGED faults  BY <2>2 DEF AcquireFails
      <3>2. \/ lock' = lock
            \/ lock[s] = Nobody /\ lock' = [lock EXCEPT ![s] = j]
        BY <2>2 DEF AcquireFails
      <3>3. faults' \in 0..MaxFaults  BY <1>1, <3>1, FaultCounted
      <3>4. lock' \in [Syncs -> Jobs \cup {Nobody}]  BY <1>1, <3>2 DEF TypeOK
      <3>5. \A t \in Syncs, i \in Jobs : i # j /\ lock[t] = i => lock'[t] = i
        BY <1>1, <3>2, SyncAssumption DEF TypeOK
      <3>6. QED  BY <3>3, <3>4, <3>5
    <2>3. QED  BY <2>1, <2>2
  <1>4. \/ /\ job[j].kind = "sync"
           /\ job[j].lost + 1 \in 0..RequeueLimit
           /\ SetJob(j, NewJob(s, "sync", job[j].lost + 1))
           /\ UNCHANGED <<status, mark>>
        \/ /\ job[j].kind = "sync"
           /\ SetJob(j, NoJob) /\ SetStatus(s, "failed") /\ Marked(s, "dropped")
        \/ /\ job[j].kind = "remove"
           /\ SetJob(j, NoJob) /\ UNCHANGED <<status, mark>>
    BY <1>1, <1>2, JobFields, SyncAssumption DEF TurnedAway
  <1>5. /\ job' \in [Jobs -> Job] /\ job'[j] \in Job
        /\ job'[j].state \in {"wait", "none"} /\ job'[j].made = 0
        /\ job'[j].state = "wait" =>
             job'[j].sync = s /\ job'[j].kind = "sync" /\ job'[j].started = 0
        /\ \A i \in Jobs : i # j => job'[i] = job[i]
    <2>1. CASE job[j].lost + 1 \in 0..RequeueLimit
               /\ SetJob(j, NewJob(s, "sync", job[j].lost + 1))
      BY <1>1, <2>1, JobSet, FreshJob
    <2>2. CASE SetJob(j, NoJob)  BY <1>1, <2>2, JobSet, EmptyJob
    <2>3. QED  BY <1>4, <2>1, <2>2
  <1>6. /\ status' \in [Syncs -> Statuses] /\ mark' \in [Syncs -> SUBSET Marks]
        /\ \A t \in Syncs : t # s => status'[t] = status[t]
        /\ \A t \in Syncs : mark[t] \subseteq mark'[t]
    <2>1. CASE UNCHANGED <<status, mark>>  BY <1>1, <2>1 DEF TypeOK
    <2>2. CASE SetStatus(s, "failed") /\ Marked(s, "dropped")
      BY <1>1, <2>2, StatusSet, MarkSet DEF Statuses, Marks
    <2>3. QED  BY <1>4, <2>1, <2>2
  <1>7. TypeOK' /\ ChangesCounted'
    BY <1>2, <1>3, <1>5, <1>6 DEF Queueing, TypeOK, ChangesCounted
  <1>8. SlotsCounted'
    BY <1>1, <1>2, <1>5, CountDecremented, SlotsStay DEF Queueing, Counted
  <1>9. LockKept'
    <2>1. \A i \in Jobs : job[i].sync \in Syncs  BY <1>1, JobFields DEF TypeOK
    <2>2. \A i \in Jobs : i # j /\ lock[job[i].sync] = i => lock'[job[i].sync] = i
      BY <1>3, <2>1
    <2>3. ~Working(j)'  BY <1>5 DEF Working
    <2>4. QED  BY <1>5, <1>6, <2>1, <2>2, <2>3, LockStays DEF Queueing
  <1>10. AttemptsKept'
    <2>1. \A i \in Jobs : job[i].sync \in Syncs  BY <1>1, JobFields DEF TypeOK
    <2>2. QED  BY <1>1, <1>5, <1>6, <2>1, SyncAssumption DEF Queueing, AttemptsKept
  <1>11. \/ status'[s] = "deleted"
         \/ job'[j].sync = s /\ Coming(j)'
         \/ status'[s] = "failed" /\ "dropped" \in mark'[s]
         \/ status'[s] = status[s] /\ ~Coming(j) /\ ~Syncing(j) /\ ~Coming(j)' /\ ~Syncing(j)'
    <2>1. CASE SetJob(j, NewJob(s, "sync", job[j].lost + 1)) /\ job[j].lost + 1 \in 0..RequeueLimit
      BY <1>1, <2>1, JobSet, FreshJob DEF Coming
    <2>2. CASE SetStatus(s, "failed") /\ Marked(s, "dropped")
      BY <1>1, <2>2, StatusSet, MarkSet DEF Statuses, Marks
    <2>3. CASE job[j].kind = "remove" /\ SetJob(j, NoJob) /\ UNCHANGED status
      <3>1. job'[j].state = "none"  BY <1>1, <2>3, JobSet, EmptyJob
      <3>2. QED  BY <2>3, <3>1 DEF Coming, Syncing
    <2>4. QED  BY <1>4, <2>1, <2>2, <2>3
  <1>12. ReportComes' /\ ReadsLatest'
    <2>1. job'[j].sync = s \/ job'[j].state = "none"  BY <1>5
    <2>2. QED  BY <1>1, <1>2, <1>5, <1>6, <1>11, <2>1, QuietStep DEF Queueing
  <1>13. QED  BY <1>7, <1>8, <1>9, <1>10, <1>12 DEF Queueing

\* A slot is taken, or the removal goes on without one.
LEMMA AdmitKeeps ==
  ASSUME Queueing, NEW j \in Jobs, Admit(j)
  PROVE  Queueing'
  <1> DEFINE s == job[j].sync
  <1>1. TypeOK /\ job[j] \in Job /\ s \in Syncs  BY JobFields DEF Queueing, TypeOK
  <1>2. /\ job[j].state = "locked" /\ Goto(j, "admitted")
        /\ \/ job[j].kind = "sync" /\ count < Limit /\ count' = count + 1
           \/ job[j].kind = "remove" /\ count' = count
        /\ UNCHANGED <<source, dest, status, lock, req, asked, mark, expired, faults>>
    BY DEF Admit, history
  <1>3. /\ job' \in [Jobs -> Job]
        /\ job'[j].state = "admitted" /\ job'[j].kind = job[j].kind
        /\ job'[j].sync = s /\ job'[j].made = job[j].made
        /\ job'[j].started = job[j].started
        /\ \A i \in Jobs : i # j => job'[i] = job[i]
    BY <1>1, <1>2, JobGoes DEF States
  <1>4. TypeOK' /\ ChangesCounted'
    <2>1. count' \in 0..Limit  BY <1>1, <1>2, SyncAssumption DEF TypeOK
    <2>2. QED  BY <1>2, <1>3, <2>1 DEF Queueing, TypeOK, ChangesCounted
  <1>5. SlotsCounted'
    <2>1. CASE job[j].kind = "remove"
      BY <1>2, <1>3, <2>1, CountDecremented, SlotsStay DEF Queueing, Counted
    <2>2. CASE job[j].kind = "sync" /\ ~expired
      <3>1. IsFiniteSet(Admitted) /\ Cardinality(Admitted) <= count
        BY <2>2 DEF Queueing, SlotsCounted
      <3>2. Admitted' = Admitted \cup {j} /\ j \notin Admitted
        BY <1>2, <1>3, <2>2 DEF Admitted, Counted
      <3>3. IsFiniteSet(Admitted') /\ Cardinality(Admitted') = Cardinality(Admitted) + 1
        BY <3>1, <3>2, FS_AddElement
      <3>4. Cardinality(Admitted) \in Nat /\ count \in Nat
        BY <1>1, <3>1, FS_CardinalityType, CountDecremented
      <3>5. QED  BY <1>2, <2>2, <3>1, <3>3, <3>4 DEF SlotsCounted
    <2>3. CASE expired  BY <1>2, <2>3 DEF SlotsCounted
    <2>4. QED  BY <1>2, <2>1, <2>2, <2>3
  <1>6. LockKept'  BY <1>1, <1>2, <1>3 DEF Queueing, LockKept, Working
  <1>7. AttemptsKept'  BY <1>1, <1>2, <1>3 DEF Queueing, AttemptsKept
  <1>8. \/ Coming(j)' /\ job'[j].sync = s
        \/ ~Coming(j) /\ ~Syncing(j) /\ ~Coming(j)' /\ ~Syncing(j)'
    BY <1>2, <1>3 DEF Coming, Syncing
  <1>9. ReportComes' /\ ReadsLatest'
    BY <1>1, <1>2, <1>3, <1>8, QuietStep DEF Queueing
  <1>10. QED  BY <1>4, <1>5, <1>6, <1>7, <1>9 DEF Queueing

\* A job fails before it has reported: in the check of the plan, or in its report.
LEMMA UnreportedKeeps ==
  ASSUME Queueing, NEW j \in Jobs, job[j].state \in {"admitted", "good", "bad", "worst"},
         Goto(j, "fail"), NoReport(j), faults' \in 0..MaxFaults,
         UNCHANGED <<source, dest, status, lock, count, req, asked, expired>>
  PROVE  Queueing'
  <1> DEFINE s == job[j].sync
  <1>1. TypeOK /\ job[j] \in Job /\ s \in Syncs  BY JobFields DEF Queueing, TypeOK
  <1>2. /\ job' \in [Jobs -> Job]
        /\ job'[j].state = "fail" /\ job'[j].kind = job[j].kind
        /\ job'[j].sync = s /\ job'[j].made = job[j].made
        /\ job'[j].started = job[j].started
        /\ \A i \in Jobs : i # j => job'[i] = job[i]
    BY <1>1, JobGoes DEF States
  <1>3. /\ mark' \in [Syncs -> SUBSET Marks]
        /\ \A t \in Syncs : mark[t] \subseteq mark'[t]
        /\ job[j].kind = "sync" /\ ~Again(j) => "silent" \in mark'[s]
    BY <1>1, SilenceMarked
  <1>4. TypeOK' /\ ChangesCounted'
    BY <1>2, <1>3 DEF Queueing, TypeOK, ChangesCounted
  <1>5. SlotsCounted'
    BY <1>1, <1>2, CountDecremented, SlotsStay DEF Queueing, Counted
  <1>6. \A i \in Jobs : job[i].sync \in Syncs  BY <1>1, JobFields DEF TypeOK
  <1>7. LockKept'
    BY <1>1, <1>2, <1>3, <1>6 DEF Queueing, LockKept, Working
  <1>8. AttemptsKept'  BY <1>1, <1>2, <1>3, <1>6 DEF Queueing, AttemptsKept
  <1>9. \/ job'[j].sync = s /\ Coming(j)'
        \/ "silent" \in mark'[s]
        \/ status'[s] = status[s] /\ ~Coming(j) /\ ~Syncing(j) /\ ~Coming(j)' /\ ~Syncing(j)'
    BY <1>2, <1>3 DEF Coming, Syncing, Again
  <1>10. ReportComes' /\ ReadsLatest'
    BY <1>1, <1>2, <1>3, <1>9, QuietStep DEF Queueing
  <1>11. QED  BY <1>4, <1>5, <1>7, <1>8, <1>10 DEF Queueing

\* A call before the work fails.
LEMMA BreaksKeeps ==
  ASSUME Queueing, NEW j \in Jobs, Breaks(j)
  PROVE  Queueing'
  <1> DEFINE s == job[j].sync
             begun == IF job[j].state = "wait" THEN job[j].started + 1 ELSE job[j].started
             r == [Repeated(j) EXCEPT !.started = begun]
  <1>1. TypeOK /\ job[j] \in Job /\ s \in Syncs  BY JobFields DEF Queueing, TypeOK
  <1>2. /\ job[j].state \in {"wait", "found", "locked"} /\ NoReport(j) /\ Fault
        /\ lock' = lock \/ Freed(j)
        /\ \/ count' = count
           \/ job[j].kind = "sync" /\ count < Limit /\ count' = count + 1
        /\ \/ status' = status
           \/ job[j].kind = "sync" /\ SetStatus(s, "failed")
        /\ UNCHANGED <<source, dest, req, asked, expired>>
    BY DEF Breaks
  <1>3. Again(j) => /\ SetJob(j, r) /\ r \in Job /\ r.state = "wait" /\ r.sync = s
                    /\ r.kind = "sync" /\ r.made = job[j].made + 1 /\ r.made < Attempts
                    /\ r.started = begun
    <2>1. SUFFICES ASSUME Again(j)
                   PROVE  /\ SetJob(j, r) /\ r \in Job /\ r.state = "wait" /\ r.sync = s
                          /\ r.kind = "sync" /\ r.made = job[j].made + 1 /\ r.made < Attempts
                          /\ r.started = begun
      OBVIOUS
    <2>2. /\ Repeated(j) \in Job /\ Repeated(j).state = "wait"
          /\ Repeated(j).sync = s /\ Repeated(j).kind = "sync"
          /\ Repeated(j).made = job[j].made + 1 /\ Repeated(j).made < Attempts
          /\ Repeated(j).started = job[j].started
      BY <1>1, <2>1, JobRepeated
    <2>3. begun \in Nat  BY <1>1, JobFields
    <2>4. SetJob(j, r)
      <3>1. SetJob(j, [Repeated(j) EXCEPT !.started = IF job[j].state = "wait" THEN @ + 1 ELSE @])
        BY <2>1 DEF Breaks
      <3>2. QED  BY <2>2, <3>1
    <2> HIDE DEF begun
    <2>5. \A q \in Job : LET p == [q EXCEPT !.started = begun] IN
            /\ p \in Job /\ p.state = q.state /\ p.sync = q.sync /\ p.kind = q.kind
            /\ p.made = q.made /\ p.started = begun
      BY <2>3 DEF Job
    <2>6. QED  BY <2>2, <2>4, <2>5
  <1> HIDE DEF r
  <1>4. /\ job' \in [Jobs -> Job]
        /\ \/ /\ Again(j) /\ job'[j].state = "wait" /\ job'[j].sync = s
              /\ job'[j].kind = "sync" /\ job'[j].made = job[j].made + 1
              /\ job'[j].made < Attempts /\ job'[j].started = begun
           \/ ~Again(j) /\ job'[j].state = "none" /\ job'[j].made = 0
        /\ \A i \in Jobs : i # j => job'[i] = job[i]
    <2>1. CASE Again(j)  BY <1>1, <1>3, <2>1, JobSet
    <2>2. CASE ~Again(j)
      <3>1. SetJob(j, NoJob)  BY <2>2 DEF Breaks
      <3>2. QED  BY <1>1, <2>2, <3>1, JobSet, EmptyJob
    <2>3. QED  BY <2>1, <2>2
  <1>5. /\ mark' \in [Syncs -> SUBSET Marks]
        /\ \A t \in Syncs : mark[t] \subseteq mark'[t]
        /\ job[j].kind = "sync" /\ ~Again(j) => "silent" \in mark'[s]
    BY <1>1, <1>2, SilenceMarked
  <1>6. /\ lock' \in [Syncs -> Jobs \cup {Nobody}]
        /\ \A t \in Syncs, i \in Jobs : i # j /\ lock[t] = i => lock'[t] = i
    <2>1. CASE lock' = lock  BY <1>1, <2>1 DEF TypeOK
    <2>2. CASE Freed(j)  BY <1>1, <2>2, LockFreed
    <2>3. QED  BY <1>2, <2>1, <2>2
  <1>7. /\ status' \in [Syncs -> Statuses]
        /\ \A t \in Syncs : t # s => status'[t] = status[t]
        /\ job[j].kind # "sync" => status' = status
    <2>1. CASE status' = status  BY <1>1, <2>1 DEF TypeOK
    <2>2. CASE job[j].kind = "sync" /\ SetStatus(s, "failed")
      BY <1>1, <2>2, StatusSet DEF Statuses
    <2>3. QED  BY <1>2, <2>1, <2>2
  <1>8. count' \in 0..Limit /\ count' >= count /\ count \in Nat
    BY <1>1, <1>2, SyncAssumption DEF TypeOK
  <1>9. faults' \in 0..MaxFaults  BY <1>1, <1>2, FaultCounted
  <1>10. TypeOK' /\ ChangesCounted'
    BY <1>2, <1>4, <1>5, <1>6, <1>7, <1>8, <1>9 DEF Queueing, TypeOK, ChangesCounted
  <1>11. SlotsCounted'
    <2>1. CASE expired  BY <1>2, <2>1 DEF SlotsCounted
    <2>2. CASE ~expired
      <3>1. IsFiniteSet(Admitted) /\ Cardinality(Admitted) <= count
        BY <2>2 DEF Queueing, SlotsCounted
      <3>2. Admitted' \subseteq Admitted
        BY <1>4 DEF Admitted, Counted
      <3>3. IsFiniteSet(Admitted') /\ Cardinality(Admitted') <= Cardinality(Admitted)
        BY <3>1, <3>2, FS_Subset
      <3>4. Cardinality(Admitted) \in Nat /\ Cardinality(Admitted') \in Nat
        BY <3>1, <3>3, FS_CardinalityType
      <3>5. Cardinality(Admitted') <= count'  BY <1>8, <3>1, <3>3, <3>4
      <3>6. QED  BY <3>3, <3>5 DEF SlotsCounted
    <2>3. QED  BY <2>1, <2>2
  <1>12. \A i \in Jobs : job[i].sync \in Syncs  BY <1>1, JobFields DEF TypeOK
  <1>13. LockKept'
    <2>1. ~Working(j)'  BY <1>4 DEF Working
    <2>2. QED  BY <1>4, <1>5, <1>6, <1>12, <2>1, LockStays DEF Queueing
  <1>14. AttemptsKept'
    <2>1. ASSUME NEW i \in Jobs, i # j
          PROVE  /\ job'[i].made < Attempts
                 /\ job'[i].state # "none" /\ "died" \notin mark'[job'[i].sync]
                    => job'[i].started = job'[i].made + (IF job'[i].state = "wait" THEN 0 ELSE 1)
      BY <1>4, <1>5, <1>12, <2>1 DEF Queueing, AttemptsKept
    <2>2. job'[j].made < Attempts  BY <1>4, SyncAssumption
    <2>3. ASSUME job'[j].state # "none", "died" \notin mark'[job'[j].sync]
          PROVE  job'[j].started = job'[j].made + (IF job'[j].state = "wait" THEN 0 ELSE 1)
      <3>1. "died" \notin mark[s]  BY <1>1, <1>4, <1>5, <2>3
      <3>2. job[j].started = job[j].made + (IF job[j].state = "wait" THEN 0 ELSE 1)
        BY <1>2, <3>1 DEF Queueing, AttemptsKept
      <3>3. job[j].made \in Nat /\ job[j].started \in Nat  BY <1>1, JobFields, SyncAssumption
      <3>4. begun = job[j].made + 1  BY <3>2, <3>3
      <3> HIDE DEF begun
      <3>5. /\ job'[j].state = "wait" /\ job'[j].started = begun
            /\ job'[j].made = job[j].made + 1
        BY <1>4, <2>3
      <3>6. job'[j].started = job'[j].made /\ job'[j].made \in Nat
        BY <3>3, <3>4, <3>5
      <3>7. QED  BY <3>5, <3>6
    <2>4. QED  BY <2>1, <2>2, <2>3 DEF AttemptsKept
  <1>15. \/ job'[j].sync = s /\ Coming(j)'
         \/ "silent" \in mark'[s]
         \/ status'[s] = status[s] /\ ~Coming(j) /\ ~Syncing(j) /\ ~Coming(j)' /\ ~Syncing(j)'
    BY <1>2, <1>4, <1>5, <1>7 DEF Coming, Syncing
  <1>16. ReportComes' /\ ReadsLatest'
    <2>1. job'[j].sync = s \/ job'[j].state = "none"  BY <1>4
    <2>2. QED  BY <1>1, <1>2, <1>4, <1>5, <1>7, <1>15, <2>1, QuietStep DEF Queueing
  <1>17. QED  BY <1>10, <1>11, <1>13, <1>14, <1>16 DEF Queueing

\* A worker dies.
LEMMA DieKeeps ==
  ASSUME Queueing, NEW j \in Jobs, Die(j)
  PROVE  Queueing'
  <1> DEFINE s == job[j].sync
             r == [job[j] EXCEPT !.state = "wait", !.stalled = TRUE, !.version = 0]
  <1>1. TypeOK /\ job[j] \in Job /\ s \in Syncs  BY JobFields DEF Queueing, TypeOK
  <1>2. /\ Fault /\ Marked(s, "died")
        /\ SetJob(j, NoJob) \/ SetJob(j, r)
        /\ UNCHANGED <<source, dest, status, lock, count, req, asked, expired>>
    BY DEF Die, redis
  <1>3. r \in Job /\ r.state = "wait" /\ r.sync = s /\ r.made = job[j].made
    <2>1. "wait" \in States /\ 0 \in Versions  BY SyncAssumption DEF States, Versions
    <2>2. r \in Job  BY <1>1, <2>1 DEF Job
    <2>3. QED  BY <1>1, <2>2 DEF Job
  <1> HIDE DEF r
  <1>4. /\ job' \in [Jobs -> Job]
        /\ \/ job'[j].state = "none" /\ job'[j].made = 0
           \/ job'[j].state = "wait" /\ job'[j].sync = s /\ job'[j].made = job[j].made
        /\ \A i \in Jobs : i # j => job'[i] = job[i]
    <2>1. CASE SetJob(j, NoJob)  BY <1>1, <2>1, JobSet, EmptyJob
    <2>2. CASE SetJob(j, r)  BY <1>1, <1>3, <2>2, JobSet
    <2>3. QED  BY <1>2, <2>1, <2>2
  <1>5. /\ mark' \in [Syncs -> SUBSET Marks] /\ "died" \in mark'[s]
        /\ \A t \in Syncs : mark[t] \subseteq mark'[t]
    BY <1>1, <1>2, MarkSet DEF Marks
  <1>6. TypeOK' /\ ChangesCounted'
    <2>1. faults' \in 0..MaxFaults  BY <1>1, <1>2, FaultCounted
    <2>2. QED  BY <1>2, <1>4, <1>5, <2>1 DEF Queueing, TypeOK, ChangesCounted
  <1>7. SlotsCounted'
    BY <1>1, <1>2, <1>4, CountDecremented, SlotsStay DEF Queueing, Counted
  <1>8. \A i \in Jobs : job[i].sync \in Syncs  BY <1>1, JobFields DEF TypeOK
  <1>9. LockKept'
    BY <1>1, <1>2, <1>4, <1>5, <1>8 DEF Queueing, LockKept, Working
  <1>10. AttemptsKept'
    BY <1>1, <1>2, <1>4, <1>5, <1>8, SyncAssumption DEF Queueing, AttemptsKept
  <1>11. ReportComes' /\ ReadsLatest'
    <2>1. job'[j].sync = s \/ job'[j].state = "none"  BY <1>4
    <2>2. QED  BY <1>1, <1>2, <1>4, <1>5, <2>1, QuietStep DEF Queueing
  <1>12. QED  BY <1>6, <1>7, <1>9, <1>10, <1>11 DEF Queueing

\* The secrets are read: whoever else had read them for this sync would work on
\* it at the same time.
LEMMA ReadKeeps ==
  ASSUME Queueing, NEW j \in Jobs, Read(j)
  PROVE  Queueing'
  <1>0. PICK s \in Syncs : job[j].sync = s  BY JobFields DEF Queueing, TypeOK
  <1>1. TypeOK /\ job[j] \in Job /\ job[j].sync = s  BY <1>0 DEF Queueing, TypeOK
  <1>2. PICK v \in {0, source[s]} : SetJob(j, [job[j] EXCEPT !.state = "read", !.version = v])
    BY <1>1 DEF Read
  <1> DEFINE r == [job[j] EXCEPT !.state = "read", !.version = v]
  <1>3. /\ job[j].state = "admitted" /\ SetJob(j, r)
        /\ job[j].kind = "sync" => SetStatus(s, "running")
        /\ job[j].kind # "sync" => status' = status
        /\ UNCHANGED <<source, dest, lock, count, req, asked, mark, expired, faults>>
    BY <1>1, <1>2 DEF Read, redis, history
  <1>4. /\ r \in Job /\ r.state = "read" /\ r.sync = s /\ r.kind = job[j].kind
        /\ r.made = job[j].made /\ r.started = job[j].started /\ r.version = v
    <2>1. "read" \in States /\ v \in Versions
      BY <1>1, <1>2, SyncAssumption DEF States, TypeOK, Versions
    <2>2. r \in Job  BY <1>1, <2>1 DEF Job
    <2>3. QED  BY <1>1, <2>2 DEF Job
  <1> HIDE DEF r
  <1>5. /\ job' \in [Jobs -> Job] /\ job'[j] = r
        /\ \A i \in Jobs : i # j => job'[i] = job[i]
    BY <1>1, <1>3, <1>4, JobSet
  <1>6. /\ status' \in [Syncs -> Statuses]
        /\ \A t \in Syncs : t # s => status'[t] = status[t]
        /\ job[j].kind = "sync" => status'[s] \in {"running", "deleted"}
    <2>1. CASE job[j].kind = "sync"  BY <1>1, <1>3, <2>1, StatusSet DEF Statuses
    <2>2. CASE job[j].kind # "sync"  BY <1>1, <1>3, <2>2 DEF TypeOK
    <2>3. QED  BY <2>1, <2>2
  <1>7. TypeOK' /\ ChangesCounted'
    BY <1>3, <1>5, <1>6 DEF Queueing, TypeOK, ChangesCounted
  <1>8. SlotsCounted'
    BY <1>1, <1>3, <1>4, <1>5, CountDecremented, SlotsStay DEF Queueing, Counted
  <1>9. LockKept'  BY <1>1, <1>3, <1>4, <1>5 DEF Queueing, LockKept, Working
  <1>10. AttemptsKept'  BY <1>1, <1>3, <1>4, <1>5 DEF Queueing, AttemptsKept
  <1>11. CASE job[j].kind = "sync"
    <2>1. Syncing(j)' /\ job'[j].sync = s  BY <1>4, <1>5, <1>11 DEF Syncing
    <2>2. ReportComes'  BY <1>1, <1>3, <1>5, <1>6, <2>1, ReportStays DEF Queueing
    <2>3. Undisturbed(s)' /\ Live(s)' => Latest(s)'
      <3>1. SUFFICES ASSUME Undisturbed(s), status'[s] # "deleted"  PROVE Latest(s)'
        BY <1>3 DEF Undisturbed, Live
      <3>2. "overlapped" \notin mark[s] /\ Working(j)
        BY <1>3, <3>1 DEF Undisturbed, Working
      <3>3. ASSUME NEW i \in Jobs, job'[i].sync = s, Syncing(i)'  PROVE i = j
        <4>1. SUFFICES ASSUME i # j  PROVE FALSE  OBVIOUS
        <4>2. job[i].sync = s /\ Working(i)  BY <1>5, <3>3, <4>1 DEF Syncing, Working
        <4>3. QED  BY <1>1, <3>2, <4>1, <4>2, WorksAlone DEF Queueing
      <3>4. job'[j].version \in {0, source'[s]} /\ job'[j].state = "read"
        BY <1>2, <1>3, <1>4, <1>5
      <3>5. status'[s] # "succeeded"  BY <1>6, <1>11
      <3>6. QED  BY <3>3, <3>4, <3>5 DEF Latest
    <2>4. ReadsLatest'  BY <1>1, <1>3, <1>5, <1>6, <2>1, <2>3, ReadsStay DEF Queueing
    <2>5. QED  BY <1>7, <1>8, <1>9, <1>10, <2>2, <2>4 DEF Queueing
  <1>12. CASE job[j].kind # "sync"
    <2>1. ~Coming(j) /\ ~Syncing(j) /\ ~Coming(j)' /\ ~Syncing(j)'
      BY <1>4, <1>5, <1>12 DEF Coming, Syncing
    <2>2. ReportComes' /\ ReadsLatest'
      BY <1>1, <1>3, <1>4, <1>5, <1>12, <2>1, QuietStep DEF Queueing
    <2>3. QED  BY <1>7, <1>8, <1>9, <1>10, <2>2 DEF Queueing
  <1>13. QED  BY <1>11, <1>12

\* While nothing disturbs a sync and j works on it, no other job has read its
\* secrets; and who is not to read them again before a step of j was not before.
LEMMA ReadAlone ==
  ASSUME Queueing, NEW j \in Jobs, NEW s \in Syncs, job[j].sync = s, Working(j),
         ~Coming(j), \A i \in Jobs : i # j => job'[i] = job[i],
         Undisturbed(s), Live(s), ~Anticipated(s)', req' = req
  PROVE  /\ Latest(s)
         /\ \A i \in Jobs : i # j /\ job[i].sync = s => ~Syncing(i)
  <1>1. ~Anticipated(s)
    <2>1. SUFFICES ASSUME NEW i \in Jobs, job[i].sync = s, Coming(i)  PROVE FALSE
      BY DEF Anticipated
    <2>2. job'[i] = job[i]  BY <2>1
    <2>3. QED  BY <2>1, <2>2 DEF Anticipated, Coming
  <1>2. Latest(s)  BY <1>1 DEF Queueing, ReadsLatest
  <1>3. "overlapped" \notin mark[s]  BY DEF Undisturbed
  <1>4. ASSUME NEW i \in Jobs, i # j, job[i].sync = s, Syncing(i)  PROVE FALSE
    <2>1. Working(i)  BY <1>4 DEF Syncing, Working
    <2>2. QED  BY <1>3, <1>4, <2>1, WorksAlone DEF Queueing
  <1>5. QED  BY <1>2, <1>4

\* The destination gets the version that was read, or an error comes back.
LEMMA WriteKeeps ==
  ASSUME Queueing, NEW j \in Jobs, Write(j)
  PROVE  Queueing'
  <1>0. PICK s \in Syncs : job[j].sync = s  BY JobFields DEF Queueing, TypeOK
  <1>1. TypeOK /\ job[j] \in Job /\ job[j].sync = s  BY <1>0 DEF Queueing, TypeOK
  <1>2. /\ job[j].state = "read"
        /\ \/ Wrote(j) /\ Goto(j, "good")
           \/ (Wrote(j) \/ UNCHANGED dest) /\ (Goto(j, "bad") \/ Goto(j, "worst"))
        /\ job[j].kind = "remove" => Marked(s, "removed")
        /\ job[j].kind # "remove" => mark' = mark
        /\ UNCHANGED <<source, status, lock, count, req, asked, expired, faults>>
    BY <1>1 DEF Write, redis
  <1>3. PICK st \in {"good", "bad", "worst"} :
          Goto(j, st) /\ (st = "good" => Wrote(j)) /\ (Wrote(j) \/ UNCHANGED dest)
    BY <1>2
  <1>4. /\ job' \in [Jobs -> Job]
        /\ job'[j].state = st /\ job'[j].kind = job[j].kind
        /\ job'[j].sync = s /\ job'[j].made = job[j].made
        /\ job'[j].started = job[j].started /\ job'[j].version = job[j].version
        /\ \A i \in Jobs : i # j => job'[i] = job[i]
    <2>1. st \in States  BY DEF States
    <2>2. QED  BY <1>1, <1>3, <2>1, JobGoes
  <1>5. /\ dest' \in [Syncs -> Versions]
        /\ \A t \in Syncs : t # s => dest'[t] = dest[t]
        /\ Wrote(j) /\ job[j].kind = "sync" => dest'[s] = job[j].version
    <2>1. job[j].version \in Versions /\ 0 \in Versions
      BY <1>1, JobFields, SyncAssumption DEF Versions
    <2>2. CASE Wrote(j)  BY <1>1, <2>1, <2>2 DEF Wrote, TypeOK
    <2>3. CASE UNCHANGED dest /\ ~Wrote(j)  BY <1>1, <2>3 DEF TypeOK
    <2>4. QED  BY <1>3, <2>2, <2>3
  <1>6. /\ mark' \in [Syncs -> SUBSET Marks]
        /\ \A t \in Syncs : mark[t] \subseteq mark'[t]
        /\ job[j].kind = "remove" => "removed" \in mark'[s]
    <2>1. CASE job[j].kind = "remove"  BY <1>1, <1>2, <2>1, MarkSet DEF Marks
    <2>2. CASE job[j].kind # "remove"  BY <1>1, <1>2, <2>2 DEF TypeOK
    <2>3. QED  BY <2>1, <2>2
  <1>7. TypeOK' /\ ChangesCounted'
    BY <1>2, <1>4, <1>5, <1>6 DEF Queueing, TypeOK, ChangesCounted
  <1>8. SlotsCounted'
    BY <1>1, <1>2, <1>4, CountDecremented, SlotsStay DEF Queueing, Counted
  <1>9. \A i \in Jobs : job[i].sync \in Syncs  BY <1>1, JobFields DEF TypeOK
  <1>10. LockKept'
    BY <1>1, <1>2, <1>4, <1>6, <1>9 DEF Queueing, LockKept, Working
  <1>11. AttemptsKept'
    BY <1>1, <1>2, <1>4, <1>6, <1>9 DEF Queueing, AttemptsKept
  <1>12. ~Coming(j) /\ (Syncing(j) <=> job[j].kind = "sync")
         /\ (Syncing(j)' <=> job[j].kind = "sync")
    BY <1>2, <1>4 DEF Coming, Syncing
  <1>13. ReportComes'
    BY <1>1, <1>2, <1>4, <1>6, <1>12, ReportStays DEF Queueing
  <1>14. Undisturbed(s)' /\ Live(s)' /\ ~Anticipated(s)' => Latest(s)'
    <2>1. SUFFICES ASSUME Undisturbed(s)', Live(s), ~Anticipated(s)'  PROVE Latest(s)'
      BY <1>2 DEF Live
    <2>2. Undisturbed(s) /\ job[j].kind = "sync"
      BY <1>1, <1>6, <2>1, JobFields DEF Undisturbed
    <2>3. /\ Latest(s)
          /\ \A i \in Jobs : i # j /\ job[i].sync = s => ~Syncing(i)
      BY <1>1, <1>2, <1>4, <1>12, <2>1, <2>2, ReadAlone DEF Working
    <2>4. \A i \in Jobs : job'[i].sync = s /\ Syncing(i)' => i = j
      BY <1>4, <2>3 DEF Syncing
    <2>5. job[j].version \in {0, source[s]}  BY <1>1, <1>12, <2>2, <2>3 DEF Latest
    <2>6. st = "good" => dest'[s] \in {0, source[s]}  BY <1>3, <1>5, <2>2, <2>5
    <2>7. st # "good" => Syncing(j)' /\ job'[j].sync = s /\ job'[j].state # "good"
      BY <1>4, <1>12, <2>2
    <2>8. QED  BY <1>2, <1>4, <2>4, <2>5, <2>6, <2>7 DEF Latest
  <1>15. ReadsLatest'
    BY <1>1, <1>2, <1>4, <1>5, <1>6, <1>14, ReadsStay DEF Queueing
  <1>16. QED  BY <1>7, <1>8, <1>10, <1>11, <1>13, <1>15 DEF Queueing

\* The job reports what came of its work: a success was of the latest version,
\* and a failure that is not reported is followed by another attempt.
LEMMA ReportedKeeps ==
  ASSUME Queueing, NEW j \in Jobs, job[j].state \in {"good", "bad", "worst"}, Reported(j),
         NEW next \in {"end", "fail"}, Goto(j, next), job[j].state = "bad" => next = "fail",
         faults' \in 0..MaxFaults,
         UNCHANGED <<source, dest, lock, count, req, asked, mark, expired>>
  PROVE  Queueing'
  <1>0. PICK s \in Syncs : job[j].sync = s  BY JobFields DEF Queueing, TypeOK
  <1>1. TypeOK /\ job[j] \in Job /\ job[j].sync = s  BY <1>0 DEF Queueing, TypeOK
  <1> DEFINE st == job[j].state
             sync == job[j].kind = "sync"
             last == st = "worst" \/ FinalAttempt(j)
  <1>2. /\ st \in {"good", "bad", "worst"} /\ Goto(j, next)
        /\ UNCHANGED <<source, dest, lock, count, req, asked, mark, expired>>
    OBVIOUS
  <1>3. /\ sync /\ st = "good" => SetStatus(s, "succeeded")
        /\ sync /\ st # "good" /\ last => SetStatus(s, "failed")
        /\ sync /\ st # "good" /\ ~last => status' = status
        /\ ~sync /\ st = "good" => SetStatus(s, "deleted")
        /\ ~sync /\ st # "good" => status' = status
    BY <1>1 DEF Reported
  <1>4. /\ job' \in [Jobs -> Job]
        /\ job'[j].state = next /\ job'[j].kind = job[j].kind
        /\ job'[j].sync = s /\ job'[j].made = job[j].made
        /\ job'[j].started = job[j].started
        /\ \A i \in Jobs : i # j => job'[i] = job[i]
    <2>1. next \in States  BY DEF States
    <2>2. QED  BY <1>1, <1>2, <2>1, JobGoes
  <1>5. /\ status' \in [Syncs -> Statuses]
        /\ \A t \in Syncs : t # s => status'[t] = status[t]
        /\ status'[s] = "deleted" \/ Live(s)
        /\ sync /\ st = "good" => status'[s] \in {"succeeded", "deleted"}
        /\ sync /\ st # "good" /\ last => status'[s] \in {"failed", "deleted"}
        /\ ~sync /\ st = "good" => status'[s] = "deleted"
    <2>1. CASE status' = status
      <3>1. status' \in [Syncs -> Statuses] /\ (status'[s] = "deleted" \/ Live(s))
        BY <1>1, <2>1 DEF TypeOK, Live
      <3>2. ASSUME NEW new \in Statuses, SetStatus(s, new)
            PROVE  status'[s] \in {new, "deleted"}
        BY <1>1, <3>2, StatusSet
      <3>3. QED  BY <1>3, <2>1, <3>1, <3>2 DEF Statuses
    <2>2. ASSUME NEW new \in {"succeeded", "failed", "deleted"}, SetStatus(s, new)
          PROVE  /\ status' \in [Syncs -> Statuses]
                 /\ \A t \in Syncs : t # s => status'[t] = status[t]
                 /\ status'[s] = "deleted" \/ Live(s)
                 /\ status'[s] \in {new, "deleted"}
      BY <1>1, <2>2, StatusSet DEF Statuses
    <2>3. QED  BY <1>3, <2>1, <2>2
  <1>6. TypeOK' /\ ChangesCounted'
    BY <1>2, <1>4, <1>5 DEF Queueing, TypeOK, ChangesCounted
  <1>7. SlotsCounted'
    BY <1>1, <1>2, <1>4, CountDecremented, SlotsStay DEF Queueing, Counted
  <1>8. LockKept'  BY <1>1, <1>2, <1>4 DEF Queueing, LockKept, Working
  <1>9. AttemptsKept'  BY <1>1, <1>2, <1>4 DEF Queueing, AttemptsKept
  <1>10. ~Coming(j) /\ (Syncing(j) <=> sync) /\ Working(j)
    BY <1>2 DEF Coming, Syncing, Working
  <1>11. sync /\ st = "bad" /\ ~last /\ "died" \notin mark[s] => Coming(j)'
    <2>1. SUFFICES ASSUME sync, st = "bad", ~last, "died" \notin mark[s]
                   PROVE  Coming(j)'
      OBVIOUS
    <2>2. job[j].started = job[j].made + 1 /\ job[j].made < Attempts
      BY <1>1, <2>1 DEF Queueing, AttemptsKept
    <2>3. job[j].started # Attempts  BY <2>1 DEF FinalAttempt
    <2>4. job[j].made + 1 < Attempts
      BY <1>1, <2>2, <2>3, JobFields, SyncAssumption
    <2>5. QED  BY <1>4, <2>1, <2>4 DEF Coming
  <1>12. ReportComes'
    <2>1. \/ status'[s] \notin {"pending", "running"}
          \/ "died" \in mark'[s]
          \/ job'[j].sync = s /\ Coming(j)'
          \/ status'[s] = status[s] /\ ~Coming(j) /\ ~Syncing(j)
      BY <1>2, <1>3, <1>4, <1>5, <1>10, <1>11
    <2>2. QED  BY <1>1, <1>2, <1>4, <1>5, <2>1, ReportStays DEF Queueing
  <1>13. Undisturbed(s)' /\ Live(s)' /\ ~Anticipated(s)' => Latest(s)'
    <2>1. SUFFICES ASSUME Undisturbed(s), Live(s), status'[s] # "deleted", ~Anticipated(s)'
                   PROVE  Latest(s)'
      BY <1>2, <1>5 DEF Undisturbed, Live
    <2>2. /\ Latest(s)
          /\ \A i \in Jobs : i # j /\ job[i].sync = s => ~Syncing(i)
      BY <1>1, <1>2, <1>4, <1>10, <2>1, ReadAlone
    <2>3. \A i \in Jobs : job'[i].sync = s => ~Syncing(i)'
      BY <1>4, <2>2 DEF Syncing
    <2>4. ~Coming(j)'  BY <1>4, <2>1 DEF Anticipated
    <2>5. status'[s] = "succeeded" => dest[s] \in {0, source[s]}
      <3>1. CASE sync /\ st = "good"
        BY <1>1, <1>10, <2>2, <3>1 DEF Latest
      <3>2. CASE sync /\ st # "good" /\ last  BY <1>5, <3>2
      <3>3. CASE sync /\ st # "good" /\ ~last
        BY <1>2, <1>11, <2>1, <2>4, <3>3 DEF Undisturbed
      <3>4. CASE ~sync /\ st = "good"  BY <1>5, <2>1, <3>4
      <3>5. CASE ~sync /\ st # "good"
        <4>1. \A i \in Jobs : job[i].sync = s => ~Syncing(i)  BY <1>10, <2>2, <3>5
        <4>2. QED  BY <1>3, <2>2, <3>5, <4>1 DEF Latest
      <3>6. QED  BY <3>1, <3>2, <3>3, <3>4, <3>5
    <2>6. QED  BY <1>2, <2>3, <2>5 DEF Latest
  <1>14. ReadsLatest'
    BY <1>1, <1>2, <1>4, <1>5, <1>13, ReadsStay DEF Queueing
  <1>15. QED  BY <1>6, <1>7, <1>8, <1>9, <1>12, <1>14 DEF Queueing

\* The report is written, or an error keeps it from being so.
LEMMA ReportKeeps ==
  ASSUME Queueing, NEW j \in Jobs, Report(j) \/ ReportFails(j)
  PROVE  Queueing'
  <1>1. TypeOK  BY DEF Queueing
  <1>2. CASE Report(j)
    <2> DEFINE next == IF job[j].state = "bad" THEN "fail" ELSE "end"
    <2>1. next \in {"end", "fail"} /\ (job[j].state = "bad" => next = "fail")  OBVIOUS
    <2>2. /\ job[j].state \in {"good", "bad", "worst"} /\ Reported(j) /\ Goto(j, next)
          /\ UNCHANGED <<source, dest, lock, count, req, asked, mark, expired, faults>>
      BY <1>2 DEF Report, redis, history
    <2>3. faults' \in 0..MaxFaults  BY <1>1, <2>2, FaultCounted
    <2> HIDE DEF next
    <2>4. QED  BY <2>1, <2>2, <2>3, ReportedKeeps
  <1>3. CASE ReportFails(j)
    <2>1. /\ job[j].state \in {"good", "bad", "worst"} /\ Goto(j, "fail") /\ Fault
          /\ \/ Reported(j) /\ mark' = mark
             \/ status' = status /\ NoReport(j)
          /\ UNCHANGED <<source, dest, lock, count, req, asked, expired>>
      BY <1>3 DEF ReportFails, redis
    <2>2. faults' \in 0..MaxFaults  BY <1>1, <2>1, FaultCounted
    <2>3. CASE Reported(j) /\ mark' = mark  BY <2>1, <2>2, <2>3, ReportedKeeps
    <2>4. CASE status' = status /\ NoReport(j)  BY <2>1, <2>2, <2>4, UnreportedKeeps
    <2>5. QED  BY <2>1, <2>3, <2>4
  <1>4. QED  BY <1>2, <1>3

\* The check of the plan throws.
LEMMA ForbiddenKeeps ==
  ASSUME Queueing, NEW j \in Jobs, Forbidden(j)
  PROVE  Queueing'
  <1>1. /\ job[j].state = "admitted" /\ Goto(j, "fail") /\ NoReport(j)
        /\ UNCHANGED <<source, dest, status, lock, count, req, asked, expired, faults>>
    BY DEF Forbidden, redis
  <1>2. faults' \in 0..MaxFaults  BY <1>1, FaultCounted DEF Queueing
  <1>3. QED  BY <1>1, <1>2, UnreportedKeeps

\* The job gives back its slot and its lock, or keeps them by an error, and BullMQ
\* repeats it or not.
LEMMA LeaveKeeps ==
  ASSUME Queueing, NEW j \in Jobs, Leave(j) \/ LeaveFails(j)
  PROVE  Queueing'
  <1>0. PICK s \in Syncs : job[j].sync = s  BY JobFields DEF Queueing, TypeOK
  <1>1. TypeOK /\ job[j] \in Job /\ job[j].sync = s  BY <1>0 DEF Queueing, TypeOK
  <1> DEFINE failed == job[j].state = "fail" \/ LeaveFails(j)
             again == Again(j)
  <1>2. /\ job[j].state \in {"end", "fail"}
        /\ job[j].kind = "sync" => count' = Decremented \/ count' = count
        /\ job[j].kind # "sync" => count' = count
        /\ failed /\ again => SetJob(j, Repeated(j))
        /\ ~(failed /\ again) => SetJob(j, NoJob)
        /\ UNCHANGED <<source, dest, status, req, asked, mark, expired>>
    <2>1. CASE LeaveFails(j)  BY <2>1 DEF LeaveFails, GivesBack, Ends
    <2>2. CASE Leave(j) /\ ~LeaveFails(j)  BY <2>2 DEF Leave, GivesBack, Ends
    <2>3. QED  BY <2>1, <2>2
  <1>3. /\ lock' \in [Syncs -> Jobs \cup {Nobody}] /\ faults' \in 0..MaxFaults
        /\ \A t \in Syncs, i \in Jobs : i # j /\ lock[t] = i => lock'[t] = i
    <2>1. CASE Leave(j)
      <3>1. Released(j)  BY <2>1 DEF Leave
      <3>2. QED  BY <1>1, <3>1, LockReleased
    <2>2. CASE LeaveFails(j)
      <3>1. Fault /\ lock' = lock  BY <2>2 DEF LeaveFails
      <3>2. QED  BY <1>1, <3>1, FaultCounted DEF TypeOK
    <2>3. QED  BY <2>1, <2>2
  <1>4. again => /\ Repeated(j) \in Job /\ Repeated(j).state = "wait"
                 /\ Repeated(j).sync = s /\ Repeated(j).kind = "sync"
                 /\ Repeated(j).made = job[j].made + 1 /\ Repeated(j).made < Attempts
                 /\ Repeated(j).started = job[j].started
    BY <1>1, JobRepeated
  <1>5. /\ job' \in [Jobs -> Job]
        /\ \/ /\ failed /\ again
              /\ job'[j].state = "wait" /\ job'[j].sync = s /\ job'[j].kind = "sync"
              /\ job'[j].made = job[j].made + 1 /\ job'[j].made < Attempts
              /\ job'[j].started = job[j].started
           \/ ~(failed /\ again) /\ job'[j].state = "none" /\ job'[j].made = 0
        /\ \A i \in Jobs : i # j => job'[i] = job[i]
    <2>1. CASE failed /\ again  BY <1>1, <1>2, <1>4, <2>1, JobSet
    <2>2. CASE ~(failed /\ again)  BY <1>1, <1>2, <2>2, JobSet, EmptyJob
    <2>3. QED  BY <2>1, <2>2
  <1> HIDE DEF failed, again
  <1>6. TypeOK' /\ ChangesCounted'
    <2>1. count' \in 0..Limit  BY <1>1, <1>2, CountDecremented DEF TypeOK
    <2>2. QED  BY <1>2, <1>5, <1>3, <2>1 DEF Queueing, TypeOK, ChangesCounted
  <1>7. SlotsCounted'
    <2>1. CASE job[j].kind # "sync"
      BY <1>1, <1>2, <1>5, <2>1, CountDecremented, SlotsStay DEF Queueing, Counted
    <2>2. CASE job[j].kind = "sync" /\ ~expired
      <3>1. IsFiniteSet(Admitted) /\ Cardinality(Admitted) <= count
        BY <2>2 DEF Queueing, SlotsCounted
      <3>2. Admitted' = Admitted \ {j} /\ j \in Admitted
        BY <1>2, <1>5, <2>2 DEF Admitted, Counted
      <3>3. IsFiniteSet(Admitted') /\ Cardinality(Admitted') = Cardinality(Admitted) - 1
        BY <3>1, <3>2, FS_RemoveElement
      <3>4. Cardinality(Admitted) \in Nat /\ count \in Nat
        BY <1>1, <3>1, FS_CardinalityType, CountDecremented
      <3>5. Decremented \in Int /\ Decremented >= count - 1
        BY <1>1, CountDecremented, SyncAssumption
      <3>6. QED  BY <1>2, <2>2, <3>1, <3>3, <3>4, <3>5 DEF SlotsCounted
    <2>3. CASE expired  BY <1>2, <2>3 DEF SlotsCounted
    <2>4. QED  BY <2>1, <2>2, <2>3
  <1>8. LockKept'
    <2>1. \A i \in Jobs : job[i].sync \in Syncs  BY <1>1, JobFields DEF TypeOK
    <2>2. \A i \in Jobs : i # j /\ lock[job[i].sync] = i => lock'[job[i].sync] = i
      BY <1>3, <2>1
    <2>3. ~Working(j)'  BY <1>5 DEF Working
    <2>4. QED  BY <1>2, <1>5, <2>1, <2>2, <2>3, LockStays DEF Queueing
  <1>9. AttemptsKept'
    BY <1>1, <1>2, <1>5, JobFields, SyncAssumption DEF Queueing, AttemptsKept
  <1>10. \/ job'[j].sync = s /\ Coming(j)'
         \/ status'[s] = status[s] /\ ~Coming(j) /\ ~Syncing(j) /\ ~Coming(j)' /\ ~Syncing(j)'
    BY <1>2, <1>5 DEF Coming, Syncing, Again, failed, again
  <1>11. ReportComes' /\ ReadsLatest'
    <2>1. job'[j].sync = s \/ job'[j].state = "none"  BY <1>5
    <2>2. QED  BY <1>1, <1>2, <1>5, <1>10, <2>1, QuietStep DEF Queueing
  <1>12. QED  BY <1>6, <1>7, <1>8, <1>9, <1>11 DEF Queueing

-----------------------------------------------------------------------------
(* Keys that expire.                                                       *)

\* The lock of a sync, under a job or not.
LEMMA LockExpiryKeeps ==
  ASSUME Queueing, NEW s \in Syncs, LockExpires(s)
  PROVE  Queueing'
  <1> DEFINE inUse == lock[s] \in InFlight(s) /\ Working(lock[s])
  <1>1. TypeOK  BY DEF Queueing
  <1>2. /\ lock' = [lock EXCEPT ![s] = Nobody] /\ lock[s] # Nobody
        /\ \/ inUse /\ Fault /\ Marked(s, "overlapped")
           \/ ~inUse /\ UNCHANGED <<mark, faults>>
        /\ UNCHANGED <<source, dest, status, count, job, req, asked, expired>>
    BY DEF LockExpires
  <1>3. /\ mark' \in [Syncs -> SUBSET Marks]
        /\ \A t \in Syncs : mark[t] \subseteq mark'[t]
        /\ inUse => "overlapped" \in mark'[s]
    <2>1. CASE inUse  BY <1>1, <1>2, <2>1, MarkSet DEF Marks
    <2>2. CASE ~inUse  BY <1>1, <1>2, <2>2 DEF TypeOK
    <2>3. QED  BY <2>1, <2>2
  <1>4. TypeOK' /\ ChangesCounted'
    <2>1. lock' \in [Syncs -> Jobs \cup {Nobody}]  BY <1>1, <1>2 DEF TypeOK
    <2>2. faults' \in 0..MaxFaults  BY <1>1, <1>2, FaultCounted
    <2>3. QED  BY <1>2, <1>3, <2>1, <2>2 DEF Queueing, TypeOK, ChangesCounted
  <1>5. SlotsCounted'  BY <1>1, <1>2, CountDecremented, SlotsStay DEF Queueing, Counted
  <1>6. LockKept'
    <2>1. SUFFICES ASSUME NEW j \in Jobs, Working(j), "overlapped" \notin mark'[job[j].sync]
                   PROVE  lock'[job[j].sync] = j
      BY <1>2 DEF LockKept, Working
    <2>2. job[j].sync \in Syncs  BY <1>1, JobFields DEF TypeOK
    <2>3. lock[job[j].sync] = j  BY <1>3, <2>1, <2>2 DEF Queueing, LockKept
    <2>4. job[j].sync # s
      <3>1. SUFFICES ASSUME job[j].sync = s  PROVE FALSE  OBVIOUS
      <3>2. inUse  BY <2>1, <2>3, <3>1 DEF InFlight, Working
      <3>3. QED  BY <1>3, <2>1, <3>1, <3>2
    <2>5. QED  BY <1>1, <1>2, <2>2, <2>3, <2>4 DEF TypeOK
  <1>7. \A j \in Jobs : job[j].sync \in Syncs  BY <1>1, JobFields DEF TypeOK
  <1>8. AttemptsKept'  BY <1>2, <1>3, <1>7 DEF Queueing, AttemptsKept
  <1>9. \A t \in Syncs : Undisturbed(t)' => Undisturbed(t)  BY <1>3 DEF Undisturbed
  <1>10. ReportComes'
    <2>1. \A t \in Syncs : mark'[t] \cap {"died", "silent", "late", "cut"} = {}
                             => mark[t] \cap {"died", "silent", "late", "cut"} = {}
      BY <1>3
    <2>2. QED  BY <1>2, <2>1 DEF Queueing, ReportComes, Coming, Syncing
  <1>11. ReadsLatest'
    BY <1>2, <1>9 DEF Queueing, ReadsLatest, Live, Anticipated, Latest, Coming, Syncing
  <1>12. QED  BY <1>4, <1>5, <1>6, <1>8, <1>10, <1>11 DEF Queueing

\* The counter of the connection, under jobs that it counted or not.
LEMMA CountExpiryKeeps ==
  ASSUME Queueing, CountExpires
  PROVE  Queueing'
  <1>1. TypeOK  BY DEF Queueing
  <1>2. /\ count' = 0
        /\ \/ Fault /\ expired' = TRUE
           \/ ~(\E j \in Jobs : Counted(j)) /\ UNCHANGED <<expired, faults>>
        /\ UNCHANGED <<source, dest, status, lock, job, req, asked, mark>>
    BY DEF CountExpires
  <1>3. TypeOK' /\ ChangesCounted'
    <2>1. count' \in 0..Limit  BY <1>2, SyncAssumption
    <2>2. faults' \in 0..MaxFaults  BY <1>1, <1>2, FaultCounted
    <2>3. expired' \in BOOLEAN
      <3>1. CASE expired' = TRUE  BY <3>1
      <3>2. CASE expired' = expired  BY <1>1, <3>2 DEF TypeOK
      <3>3. QED  BY <1>2, <3>1, <3>2
    <2>4. QED  BY <1>2, <2>1, <2>2, <2>3 DEF Queueing, TypeOK, ChangesCounted
  <1>4. SlotsCounted'
    <2>1. CASE expired'  BY <2>1 DEF SlotsCounted
    <2>2. CASE ~(\E j \in Jobs : Counted(j))
      <3>1. Admitted' = {}  BY <1>2, <2>2 DEF Admitted, Counted
      <3>2. IsFiniteSet(Admitted') /\ Cardinality(Admitted') = 0  BY <3>1, FS_EmptySet
      <3>3. QED  BY <1>2, <3>2 DEF SlotsCounted
    <2>3. QED  BY <1>2, <2>1, <2>2
  <1>5. LockKept' /\ AttemptsKept'
    BY <1>2 DEF Queueing, LockKept, AttemptsKept, Working
  <1>6. ReportComes'  BY <1>2 DEF Queueing, ReportComes, Coming, Syncing
  <1>7. ReadsLatest'
    BY <1>2 DEF Queueing, ReadsLatest, Undisturbed, Live, Anticipated, Latest, Coming, Syncing
  <1>8. QED  BY <1>3, <1>4, <1>5, <1>6, <1>7 DEF Queueing

-----------------------------------------------------------------------------
(* Requests.                                                               *)

\* A request that touches no job: it ends with a row that is gone, on its way to
\* queue a job, half-way, or with a status whose report is still to come.
LEMMA RequestKeeps ==
  ASSUME Queueing, NEW s \in Syncs, TypeOK', ChangesCounted',
         UNCHANGED <<dest, lock, count, job, expired>>,
         \A t \in Syncs : t # s =>
           source'[t] = source[t] /\ status'[t] = status[t] /\ req'[t] = req[t],
         \A t \in Syncs : mark[t] \subseteq mark'[t],
         \/ status'[s] = "deleted"
         \/ req'[s] \in {"change", "queue"}
         \/ "cut" \in mark'[s]
         \/ /\ source'[s] = source[s] /\ status'[s] = status[s] /\ req[s] = "triggered"
         \/ /\ source'[s] = source[s] /\ status'[s] = "pending" /\ Live(s)
            /\ req[s] \notin {"change", "queue"}
            /\ \/ "late" \in mark'[s]
               \/ \E j \in Jobs : job[j].sync = s /\ (Coming(j) \/ Syncing(j))
  PROVE  Queueing'
  <1>1. TypeOK  BY DEF Queueing
  <1>2. SlotsCounted'  BY <1>1, CountDecremented, SlotsStay DEF Queueing, Counted
  <1>3. \A j \in Jobs : job[j].sync \in Syncs  BY <1>1, JobFields DEF TypeOK
  <1>4. LockKept' /\ AttemptsKept'
    BY <1>3 DEF Queueing, LockKept, AttemptsKept, Working
  <1>5. \A j \in Jobs : (Coming(j)' <=> Coming(j)) /\ (Syncing(j)' <=> Syncing(j))
    BY DEF Coming, Syncing
  <1>6. ReportComes'
    <2>1. SUFFICES ASSUME NEW t \in Syncs, status'[t] \in {"pending", "running"},
                          req'[t] \in {"idle", "triggered"}, mark'[t] \cap {"died", "silent", "late", "cut"} = {}
                   PROVE  \E j \in Jobs : job[j].sync = t /\ (Coming(j) \/ Syncing(j))
      BY <1>5 DEF ReportComes
    <2>2. mark[t] \cap {"died", "silent", "late", "cut"} = {}  BY <2>1
    <2>3. CASE t = s
      <3>1. CASE status'[s] = status[s] /\ req[s] = "triggered"
        BY <2>1, <2>2, <2>3, <3>1 DEF Queueing, ReportComes
      <3>2. CASE ~(status'[s] = status[s] /\ req[s] = "triggered")
        BY <2>1, <2>3, <3>2
      <3>3. QED  BY <3>1, <3>2
    <2>4. CASE t # s  BY <2>1, <2>2, <2>4 DEF Queueing, ReportComes
    <2>5. QED  BY <2>3, <2>4
  <1>7. ReadsLatest'
    <2>1. SUFFICES ASSUME NEW t \in Syncs, Undisturbed(t)', Live(t)', ~Anticipated(t)'
                   PROVE  Latest(t)'
      BY DEF ReadsLatest
    <2>2. Undisturbed(t)  BY <2>1 DEF Undisturbed
    <2>3. status'[t] # "deleted" /\ req'[t] \notin {"change", "queue"}
          /\ \A j \in Jobs : job[j].sync = t => ~Coming(j)
      BY <1>5, <2>1 DEF Live, Anticipated
    <2>4. /\ Live(t) /\ source'[t] = source[t] /\ req[t] \notin {"change", "queue"}
          /\ status'[t] \in {status[t], "pending"}
      BY <2>1, <2>3 DEF Live, Undisturbed
    <2>5. ~Anticipated(t)  BY <2>3, <2>4 DEF Anticipated
    <2>6. Latest(t)  BY <2>2, <2>4, <2>5 DEF Queueing, ReadsLatest
    <2>7. QED  BY <1>5, <2>4, <2>6 DEF Latest
  <1>8. QED  BY <1>2, <1>4, <1>6, <1>7 DEF Queueing

\* A request that queues a job: the secrets of its sync are to be read again if it
\* is a sync job, and nothing is said of the sync if it is a removal.
LEMMA NewJobKeeps ==
  ASSUME Queueing, NEW s \in Syncs, NEW j \in Jobs, job[j].state = "none",
         NEW kind \in {"sync", "remove"}, SetJob(j, NewJob(s, kind, 0)),
         UNCHANGED <<source, dest, status, lock, count, mark, expired, faults>>,
         asked' \in 0..MaxAsked, asked' >= asked,
         req' \in [Syncs -> {"idle", "change", "queue", "triggered"}],
         \A t \in Syncs : t # s => req'[t] = req[t],
         kind = "remove" => req' = req
  PROVE  Queueing'
  <1>1. TypeOK /\ 0 \in 0..RequeueLimit  BY SyncAssumption DEF Queueing
  <1>2. /\ job' \in [Jobs -> Job]
        /\ job'[j].state = "wait" /\ job'[j].kind = kind /\ job'[j].sync = s
        /\ job'[j].made = 0 /\ job'[j].started = 0
        /\ \A i \in Jobs : i # j => job'[i] = job[i]
    BY <1>1, JobSet, FreshJob
  <1>3. TypeOK'  BY <1>1, <1>2 DEF TypeOK
  <1>4. ChangesCounted'
    <2>1. \A t \in Syncs : source[t] \in Nat  BY <1>1, SyncAssumption DEF TypeOK, Versions
    <2>2. asked \in Nat /\ asked' \in Nat  BY <1>1, SyncAssumption DEF TypeOK
    <2>3. QED  BY <2>1, <2>2 DEF Queueing, ChangesCounted
  <1>5. SlotsCounted'
    BY <1>1, <1>2, CountDecremented, SlotsStay DEF Queueing, Counted
  <1>6. LockKept'  BY <1>2 DEF Queueing, LockKept, Working
  <1>7. AttemptsKept'  BY <1>2, SyncAssumption DEF Queueing, AttemptsKept
  <1>8. ~Coming(j) /\ ~Syncing(j) /\ ~Syncing(j)' /\ (Coming(j)' <=> kind = "sync")
    BY <1>2 DEF Coming, Syncing
  <1>9. \A i \in Jobs : i # j => /\ job'[i] = job[i]
                                 /\ (Coming(i)' <=> Coming(i)) /\ (Syncing(i)' <=> Syncing(i))
    BY <1>2 DEF Coming, Syncing
  <1>10. ReportComes'
    <2>1. SUFFICES ASSUME NEW t \in Syncs, status[t] \in {"pending", "running"},
                          req'[t] \in {"idle", "triggered"}, mark[t] \cap {"died", "silent", "late", "cut"} = {}
                   PROVE  \E i \in Jobs : job'[i].sync = t /\ (Coming(i)' \/ Syncing(i)')
      BY DEF ReportComes
    <2>2. CASE t = s /\ kind = "sync"  BY <1>2, <1>8, <2>2
    <2>3. CASE t # s \/ kind # "sync"
      <3>1. PICK i \in Jobs : job[i].sync = t /\ (Coming(i) \/ Syncing(i))
        BY <2>1, <2>3 DEF Queueing, ReportComes
      <3>2. QED  BY <1>8, <1>9, <3>1
    <2>4. QED  BY <2>2, <2>3
  <1>11. ReadsLatest'
    <2>1. SUFFICES ASSUME NEW t \in Syncs, Undisturbed(t)', Live(t)', ~Anticipated(t)'
                   PROVE  Latest(t)'
      BY DEF ReadsLatest
    <2>2. Undisturbed(t) /\ Live(t)  BY <2>1 DEF Undisturbed, Live
    <2>3. t # s \/ kind = "remove"  BY <1>2, <1>8, <2>1 DEF Anticipated
    <2>4. req'[t] = req[t]  BY <2>3
    <2>5. ~Anticipated(t)  BY <1>8, <1>9, <2>1, <2>4 DEF Anticipated
    <2>6. Latest(t)  BY <2>2, <2>5 DEF Queueing, ReadsLatest
    <2>7. QED  BY <1>8, <1>9, <2>6 DEF Latest
  <1>12. QED  BY <1>3, <1>4, <1>5, <1>6, <1>7, <1>10, <1>11 DEF Queueing

\* A change of the secrets, the retry of a failed sync, a deletion, and the writes
\* of "pending" after them.
LEMMA StatusRequestKeeps ==
  ASSUME Queueing, NEW s \in Syncs,
         Change(s) \/ ChangeStatus(s) \/ DailyRetry(s) \/ TriggerStatus(s) \/ Delete(s)
  PROVE  Queueing'
  <1>1. TypeOK  BY DEF Queueing
  <1>2. UNCHANGED <<dest, lock, count, job, expired, faults>>
    BY DEF Change, ChangeStatus, DailyRetry, TriggerStatus, Delete, redis, history
  <1>3. asked \in Nat /\ asked' \in 0..MaxAsked /\ asked' >= asked
    BY <1>1, SyncAssumption
       DEF Change, ChangeStatus, DailyRetry, TriggerStatus, Delete, Ask, TypeOK
  <1>4. /\ req' \in [Syncs -> {"idle", "change", "queue", "triggered"}]
        /\ \A t \in Syncs : t # s => req'[t] = req[t]
    BY <1>1 DEF Change, ChangeStatus, DailyRetry, TriggerStatus, Delete, TypeOK
  <1>5. \A t \in Syncs : source[t] \in Nat  BY <1>1, SyncAssumption DEF TypeOK, Versions
  <1>6. CASE Change(s)
    <2>1. /\ asked < MaxAsked /\ asked' = asked + 1
          /\ source' = [source EXCEPT ![s] = @ + 1]
          /\ req' = [req EXCEPT ![s] = "change"] /\ UNCHANGED <<status, mark>>
      BY <1>6 DEF Change, Ask, history
    <2>2. /\ source'[s] = source[s] + 1
          /\ \A t \in Syncs : t # s => source'[t] = source[t]
      BY <1>1, <2>1 DEF TypeOK
    <2>3. ChangesCounted'
      BY <1>3, <1>5, <2>1, <2>2 DEF Queueing, ChangesCounted
    <2>4. source' \in [Syncs -> Versions]
      <3>1. source[s] + 1 \in Versions
        BY <1>3, <1>5, <2>1, SyncAssumption DEF Queueing, ChangesCounted, Versions
      <3>2. QED  BY <1>1, <2>1, <3>1 DEF TypeOK
    <2>5. TypeOK'  BY <1>1, <1>2, <1>3, <1>4, <2>1, <2>4 DEF TypeOK
    <2>6. req'[s] = "change"  BY <1>1, <2>1 DEF TypeOK
    <2>7. QED  BY <1>2, <1>4, <2>1, <2>2, <2>3, <2>5, <2>6, RequestKeeps
  <1>7. CASE ~Change(s)
    <2>1. source' = source
      BY <1>7 DEF ChangeStatus, DailyRetry, TriggerStatus, Delete
    <2>2. ChangesCounted'
      BY <1>3, <1>5, <2>1 DEF Queueing, ChangesCounted
    <2>3. PICK new \in {"pending", "deleted"} :
            /\ SetStatus(s, new)
            /\ \/ req'[s] = "queue" \/ new = "deleted"
               \/ /\ TriggerStatus(s) /\ new = "pending"
                  /\ req[s] = "triggered"
      BY <1>1, <1>7 DEF ChangeStatus, DailyRetry, TriggerStatus, Delete, TypeOK
    <2>4. /\ status' \in [Syncs -> Statuses]
          /\ Live(s) => status'[s] = new
          /\ ~Live(s) => status'[s] = "deleted"
          /\ \A t \in Syncs : t # s => status'[t] = status[t]
      <3>1. new \in Statuses  BY DEF Statuses
      <3>2. QED  BY <1>1, <2>3, <3>1, StatusSet
    <2>5. /\ mark' \in [Syncs -> SUBSET Marks]
          /\ \A t \in Syncs : mark[t] \subseteq mark'[t]
      <3>1. CASE mark' = mark  BY <1>1, <3>1 DEF TypeOK
      <3>2. CASE Marked(s, "late")  BY <1>1, <3>2, MarkSet DEF Marks
      <3>3. QED
        BY <1>7, <3>1, <3>2 DEF ChangeStatus, DailyRetry, TriggerStatus, Delete, history
    <2>6. TypeOK'  BY <1>1, <1>2, <1>3, <1>4, <2>1, <2>4, <2>5 DEF TypeOK
    <2>7. TriggerStatus(s) =>
            \/ "late" \in mark'[s]
            \/ \E j \in Jobs : job[j].sync = s /\ (Coming(j) \/ Syncing(j))
      <3>1. CASE Marked(s, "late")  BY <1>1, <3>1, MarkSet DEF Marks
      <3>2. ASSUME NEW j \in InFlight(s), job[j].kind = "sync",
                   job[j].state \notin {"end", "fail"}
            PROVE  j \in Jobs /\ job[j].sync = s /\ (Coming(j) \/ Syncing(j))
        <4>1. j \in Jobs /\ job[j].sync = s /\ job[j].state # "none"  BY DEF InFlight
        <4>2. job[j].state \in States  BY <1>1, <4>1, JobFields DEF TypeOK
        <4>3. QED  BY <3>2, <4>1, <4>2 DEF States, Coming, Syncing
      <3>3. QED  BY <3>1, <3>2 DEF TriggerStatus
    <2>8. \/ status'[s] = "deleted"
          \/ req'[s] \in {"change", "queue"}
          \/ /\ source'[s] = source[s] /\ status'[s] = "pending" /\ Live(s)
             /\ req[s] \notin {"change", "queue"}
             /\ \/ "late" \in mark'[s]
                \/ \E j \in Jobs : job[j].sync = s /\ (Coming(j) \/ Syncing(j))
      BY <2>1, <2>3, <2>4, <2>7
    <2>9. QED  BY <1>2, <1>4, <2>1, <2>2, <2>4, <2>5, <2>6, <2>8, RequestKeeps
  <1>8. QED  BY <1>6, <1>7

\* A request ends half-way.
LEMMA CutKeeps ==
  ASSUME Queueing, NEW s \in Syncs, Cut(s)
  PROVE  Queueing'
  <1>1. TypeOK  BY DEF Queueing
  <1>2. /\ Fault /\ req' = [req EXCEPT ![s] = "idle"]
        /\ \/ req[s] = "triggered" /\ mark' = mark
           \/ Marked(s, "cut")
        /\ UNCHANGED <<source, dest, status, lock, count, job, asked, expired>>
    BY DEF Cut, redis
  <1>3. /\ mark' \in [Syncs -> SUBSET Marks]
        /\ \A t \in Syncs : mark[t] \subseteq mark'[t]
        /\ req[s] = "triggered" \/ "cut" \in mark'[s]
    <2>1. CASE req[s] = "triggered" /\ mark' = mark  BY <1>1, <2>1 DEF TypeOK
    <2>2. CASE Marked(s, "cut")  BY <1>1, <2>2, MarkSet DEF Marks
    <2>3. QED  BY <1>2, <2>1, <2>2
  <1>4. faults' \in 0..MaxFaults  BY <1>1, <1>2, FaultCounted
  <1>5. TypeOK'  BY <1>1, <1>2, <1>3, <1>4 DEF TypeOK
  <1>6. ChangesCounted'  BY <1>2 DEF Queueing, ChangesCounted
  <1>7. \A t \in Syncs : t # s => req'[t] = req[t]  BY <1>1, <1>2 DEF TypeOK
  <1>8. QED  BY <1>2, <1>3, <1>5, <1>6, <1>7, RequestKeeps

\* The queueing of a job, by a change, a user or the removal of a sync.
LEMMA JobRequestKeeps ==
  ASSUME Queueing, NEW s \in Syncs, NEW j \in Jobs,
         Queue(s, j) \/ Trigger(s, j) \/ TriggerRemove(s, j)
  PROVE  Queueing'
  <1>1. TypeOK  BY DEF Queueing
  <1>2. PICK kind \in {"sync", "remove"} :
          SetJob(j, NewJob(s, kind, 0)) /\ (kind = "remove" => req' = req)
    BY DEF Queue, Trigger, TriggerRemove
  <1>3. /\ job[j].state = "none"
        /\ UNCHANGED <<source, dest, status, lock, count, mark, expired, faults>>
    BY DEF Queue, Trigger, TriggerRemove, redis, history
  <1>4. asked' \in 0..MaxAsked /\ asked' >= asked
    BY <1>1, SyncAssumption DEF Queue, Trigger, TriggerRemove, Ask, TypeOK
  <1>5. /\ req' \in [Syncs -> {"idle", "change", "queue", "triggered"}]
        /\ \A t \in Syncs : t # s => req'[t] = req[t]
    BY <1>1 DEF Queue, Trigger, TriggerRemove, TypeOK
  <1>6. QED  BY <1>2, <1>3, <1>4, <1>5, NewJobKeeps

-----------------------------------------------------------------------------
(* The invariant.                                                          *)

\* No job is queued at the start, and every sync is up to date.
LEMMA InitQueueing == Init => Queueing
  <1> SUFFICES ASSUME Init  PROVE Queueing  OBVIOUS
  <1>1. /\ 0 \in 0..Limit /\ 0 \in 0..MaxAsked /\ 0 \in 0..MaxFaults
        /\ 1 \in Versions /\ FALSE \in BOOLEAN
    BY SyncAssumption DEF Versions
  <1>2. \A j \in Jobs : job[j].state = "none" /\ job[j].made = 0
    BY EmptyJob DEF Init
  <1>3. TypeOK
    <2>1. job \in [Jobs -> Job]  BY EmptyJob DEF Init
    <2>2. QED  BY <1>1, <2>1 DEF Init, TypeOK, Statuses
  <1>4. ChangesCounted  BY DEF Init, ChangesCounted
  <1>5. SlotsCounted
    <2>1. Admitted = {}  BY <1>2 DEF Admitted, Counted
    <2>2. IsFiniteSet(Admitted) /\ Cardinality(Admitted) = 0  BY <2>1, FS_EmptySet
    <2>3. QED  BY <2>2 DEF Init, SlotsCounted
  <1>6. LockKept /\ AttemptsKept
    BY <1>2, SyncAssumption DEF LockKept, AttemptsKept, Working
  <1>7. ReportComes /\ ReadsLatest
    BY <1>2 DEF Init, ReportComes, ReadsLatest, Latest, Syncing
  <1>8. QED  BY <1>3, <1>4, <1>5, <1>6, <1>7 DEF Queueing

\* Every step keeps the invariant, action by action.
LEMMA NextKeepsQueueing == Queueing /\ [Next]_vars => Queueing'
  <1> SUFFICES ASSUME Queueing, [Next]_vars  PROVE Queueing'  OBVIOUS
  <1>1. CASE UNCHANGED vars
    BY <1>1 DEF Queueing, TypeOK, ChangesCounted, SlotsCounted, Admitted, Counted, LockKept,
                Working, AttemptsKept, ReportComes, ReadsLatest, Latest, Undisturbed, Live,
                Anticipated, Coming, Syncing, vars, redis, history
  <1>2. ASSUME NEW s \in Syncs, RequestBegin(s) \/ RequestStep(s) \/ LockExpires(s)
        PROVE  Queueing'
    BY <1>2, StatusRequestKeeps, JobRequestKeeps, CutKeeps, LockExpiryKeeps
       DEF RequestBegin, RequestStep
  <1>3. ASSUME NEW j \in Jobs, JobStep(j) \/ Die(j)  PROVE Queueing'
    BY <1>3, FindKeeps, AcquireKeeps, TurnedAwayKeeps, AdmitKeeps, ForbiddenKeeps, ReadKeeps,
       WriteKeeps, ReportKeeps, LeaveKeeps, BreaksKeeps, DieKeeps DEF JobStep
  <1>4. CASE CountExpires  BY <1>4, CountExpiryKeeps
  <1>5. QED  BY <1>1, <1>2, <1>3, <1>4 DEF Next

-----------------------------------------------------------------------------
(* Theorems.                                                               *)

\* Rows, keys and jobs have their types: a job is requeued at most REQUEUE_LIMIT
\* times, repeated at most for its attempts, and the counter stays in its limit.
THEOREM TypeCorrect == Spec => []TypeOK
  <1>1. Queueing => TypeOK  BY DEF Queueing
  <1>2. QED  BY <1>1, InitQueueing, NextKeepsQueueing, PTL DEF Spec

\* The jobs at work for a connection are within its limit, until its counter
\* expires under one: each has been counted once, each gives back one slot, and a
\* job turned away gives back none.  A worker that dies leaves its slot counted.
THEOREM LimitKept == Spec => []ConnectionNotOverrun
  <1>1. Queueing => ConnectionNotOverrun
    <2>1. SUFFICES ASSUME Queueing, ~expired
                   PROVE  Cardinality({j \in Jobs : Counted(j)}) <= Limit
      BY DEF ConnectionNotOverrun
    <2>2. IsFiniteSet(Admitted) /\ Cardinality(Admitted) <= count
      BY <2>1 DEF Queueing, SlotsCounted
    <2>3. Cardinality(Admitted) \in Nat /\ count \in 0..Limit
      BY <2>1, <2>2, FS_CardinalityType DEF Queueing, TypeOK
    <2>4. Cardinality(Admitted) <= Limit  BY <2>2, <2>3, SyncAssumption
    <2>5. QED  BY <2>4 DEF Admitted
  <1>2. QED  BY <1>1, InitQueueing, NextKeepsQueueing, PTL DEF Spec

\* Two jobs work on one sync only after its lock ran out under one of them: a job
\* that was turned away, repeated or given up never frees another's lock.
THEOREM OneAtWork == Spec => []OneJobPerSync
  <1>1. Queueing => OneJobPerSync
    <2>1. SUFFICES ASSUME Queueing, NEW s \in Syncs, "overlapped" \notin mark[s],
                          NEW i \in InFlight(s), NEW j \in InFlight(s), Working(i), Working(j)
                   PROVE  i = j
      BY DEF OneJobPerSync
    <2>2. i \in Jobs /\ j \in Jobs /\ job[i].sync = s /\ job[j].sync = s
      BY DEF InFlight
    <2>3. QED  BY <2>1, <2>2, WorksAlone DEF Queueing
  <1>2. QED  BY <1>1, InitQueueing, NextKeepsQueueing, PTL DEF Spec

\* A sync that says "pending" or "running" is still to be reported on: the last attempt
\* of a job knows that it is the last and reports its failure, because BullMQ's count of
\* the attempts begun is then one ahead of that of the attempts that failed.
THEOREM ReportToCome == Spec => []UnsettledHasJob
  <1>1. Queueing => UnsettledHasJob
    <2>1. SUFFICES ASSUME Queueing, NEW s \in Syncs, status[s] \in {"pending", "running"},
                          req[s] = "idle", mark[s] \cap {"died", "silent", "late", "cut"} = {}
                   PROVE  \E j \in InFlight(s) : job[j].kind = "sync" /\ job[j].state # "end"
      BY DEF UnsettledHasJob
    <2>2. PICK j \in Jobs : job[j].sync = s /\ (Coming(j) \/ Syncing(j))
      BY <2>1 DEF Queueing, ReportComes
    <2>3. QED  BY <2>2 DEF Coming, Syncing, InFlight
  <1>2. QED  BY <1>1, InitQueueing, NextKeepsQueueing, PTL DEF Spec

\* A sync at rest that says "succeeded" is in step with its folder, if its last job
\* read all of it: a change is always followed by a read, because it queues a job of
\* its own, and two jobs never hold versions they read side by side.
THEOREM SyncedWhenSucceeded == Spec => []SucceededMeansSynced
  <1>1. Queueing => SucceededMeansSynced
    <2>1. SUFFICES ASSUME Queueing, NEW s \in Syncs, status[s] = "succeeded", req[s] = "idle",
                          InFlight(s) = {}, Undisturbed(s), dest[s] # 0
                   PROVE  dest[s] = source[s]
      BY DEF SucceededMeansSynced, Undisturbed
    <2>2. \A j \in Jobs : job[j].sync = s => ~Coming(j) /\ ~Syncing(j)
      BY <2>1 DEF InFlight, Coming, Syncing
    <2>3. ~Anticipated(s) /\ Live(s)  BY <2>1, <2>2 DEF Anticipated, Live
    <2>4. Latest(s)  BY <2>1, <2>3 DEF Queueing, ReadsLatest
    <2>5. QED  BY <2>1, <2>2, <2>4 DEF Latest
  <1>2. QED  BY <1>1, InitQueueing, NextKeepsQueueing, PTL DEF Spec
=============================================================================
