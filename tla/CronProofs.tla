----------------------------- MODULE CronProofs -----------------------------
(***************************************************************************)
(* Safety of the cron scheduler.                                           *)
(*                                                                         *)
(* Of CronJob: its types, the exclusion the lease grants, and that no run  *)
(* that was enqueued drops out of the zset before it ended.  Of CronSlots: *)
(* its types, and that no pod has two slots.                               *)
(***************************************************************************)
EXTENDS CronJob, CronSlots, TLAPS

\* Who is under a lease that was not lost holds it.
LeaseHeld ==
  \A t \in Ticks : pc[t] \in Leased /\ t \notin overrun => lease[run[t]] = t

\* A hash that expires or is yet to be written is of a run nobody is at.
UnwrittenIsUnknown ==
  \A r \in fired : hash[r].status = "none" => ~Mentioned(r)

\* Who is about to take a run off the zset has seen it end, or expire.
DequeuesEnded ==
  \A t \in Ticks :
    /\ pc[t] \in {"completed", "failed"} => run[t] \in ended
    /\ pc[t] = "cleanup" => run[t] \in ended \/ ~hash[run[t]].named

\* A run whose hash exists is in the zset until it ends.
NamedIsPending ==
  \A r \in Runs : hash[r].named => pending[r] # "out" \/ r \in ended

Tracked == UnwrittenIsUnknown /\ DequeuesEnded /\ NamedIsPending

\* Who is about to mark a run has an attempt left.
MarksEligible == \A t \in Ticks : pc[t] = "mark" => attempts[t] < MaxAttempts

-----------------------------------------------------------------------------
(* Types.                                                                  *)

\* A hash stays a hash when it is deleted or created, ...
LEMMA HashReset ==
  ASSUME TypeOK, NEW r \in Runs
  PROVE  /\ [hash EXCEPT ![r] = NoHash] \in [Runs -> Hash]
         /\ [hash EXCEPT ![r] = [named |-> TRUE, status |-> "pending", attempts |-> 0]]
              \in [Runs -> Hash]
  <1>1. 0 \in 0..MaxAttempts  BY CronAssumption
  <1>2. NoHash \in Hash /\ [named |-> TRUE, status |-> "pending", attempts |-> 0] \in Hash
    BY <1>1 DEF Hash, NoHash, Statuses
  <1>3. QED  BY <1>2 DEF TypeOK

\* ... and when one of its fields is written.
LEMMA HashWrites ==
  ASSUME TypeOK, NEW r \in Runs, NEW s \in Statuses, NEW n \in 0..MaxAttempts
  PROVE  /\ [hash EXCEPT ![r].status = s] \in [Runs -> Hash]
         /\ [hash EXCEPT ![r].status = s, ![r].attempts = n] \in [Runs -> Hash]
  <1>1. hash \in [Runs -> Hash] /\ hash[r] \in Hash  BY DEF TypeOK
  <1>2. [hash[r] EXCEPT !.status = s] \in Hash  BY <1>1 DEF Hash
  <1>3. [hash[r] EXCEPT !.status = s, !.attempts = n] \in Hash  BY <1>1 DEF Hash
  <1>4. [hash EXCEPT ![r].status = s] = [hash EXCEPT ![r] = [hash[r] EXCEPT !.status = s]]
    BY <1>1
  <1>5. [hash EXCEPT ![r].status = s, ![r].attempts = n]
          = [hash EXCEPT ![r] = [hash[r] EXCEPT !.status = s, !.attempts = n]]
    BY <1>1
  <1>6. QED  BY <1>1, <1>2, <1>3, <1>4, <1>5

\* The type invariant holds initially.
LEMMA InitTyped == Init => TypeOK
  <1>1. 0 \in 0..MaxAttempts /\ 0 \in Nat  BY CronAssumption
  <1>2. Init => NoHash \in Hash  BY <1>1 DEF Hash, NoHash, Statuses
  <1>3. QED  BY <1>1, <1>2 DEF Init, TypeOK

\* Time keeps the types.
LEMMA TimeTyped ==
  ASSUME TypeOK, NEW r \in Runs,
         FireTime(r) \/ HashExpires(r) \/ BackoffEnds(r) \/ LeaseExpires(r) \/ Enqueue(r)
  PROVE  TypeOK'
  <1>1. CASE FireTime(r)
    <2>1. hash' \in [Runs -> Hash]  BY <1>1, HashReset DEF FireTime
    <2>2. QED  BY <1>1, <2>1 DEF TypeOK, FireTime, local
  <1>2. CASE HashExpires(r)
    <2>1. hash' \in [Runs -> Hash]  BY <1>2, HashReset DEF HashExpires
    <2>2. QED  BY <1>2, <2>1 DEF TypeOK, HashExpires, local
  <1>3. CASE BackoffEnds(r)
    BY <1>3 DEF TypeOK, BackoffEnds, local
  <1>4. CASE LeaseExpires(r)
    <2>1. lease[r] \in Ticks /\ overrun' \subseteq Ticks
      BY <1>4 DEF TypeOK, LeaseExpires
    <2>2. faults' \in Nat  BY <1>4 DEF TypeOK, LeaseExpires
    <2>3. lease' \in [Runs -> Ticks \cup {Nobody}]  BY <1>4 DEF TypeOK, LeaseExpires
    <2>4. QED  BY <1>4, <2>1, <2>2, <2>3 DEF TypeOK, LeaseExpires, local
  <1>5. CASE Enqueue(r)
    <2>1. hash' \in [Runs -> Hash]  BY <1>5, HashReset DEF Enqueue
    <2>2. QED  BY <1>5, <2>1 DEF TypeOK, Enqueue, local
  <1>6. QED  BY <1>1, <1>2, <1>3, <1>4, <1>5

\* Writing a status keeps the types.
LEMMA SetStatusTyped ==
  ASSUME TypeOK, NEW t \in Ticks, SetStatus(t)
  PROVE  hash' \in [Runs -> Hash] /\ ended' \subseteq Runs
  <1>1. run[t] \in Runs /\ 0 \in 0..MaxAttempts  BY CronAssumption DEF TypeOK
  <1>2. NewStatus(t) \in Statuses  BY DEF NewStatus, Statuses
  <1>3. hash' \in [Runs -> Hash]  BY <1>1, <1>2, HashWrites DEF SetStatus
  <1>4. QED  BY <1>1, <1>3 DEF SetStatus, TypeOK

\* So does marking a run running, as the tick passed the attempt gate.
LEMMA SetRunningTyped ==
  ASSUME TypeOK, MarksEligible, NEW t \in Ticks, SetRunning(t)
  PROVE  hash' \in [Runs -> Hash]
  <1>1. run[t] \in Runs /\ "running" \in Statuses  BY DEF TypeOK, Statuses
  <1>2. attempts[t] \in 0..MaxAttempts  BY DEF TypeOK
  <1>3. attempts[t] < MaxAttempts  BY DEF MarksEligible, SetRunning
  <1>4. attempts[t] + 1 \in 0..MaxAttempts  BY <1>2, <1>3, CronAssumption
  <1>5. QED  BY <1>1, <1>4, HashWrites DEF SetRunning

\* A tick's own steps keep the types.
LEMMA StepTyped ==
  ASSUME TypeOK, MarksEligible, NEW t \in Ticks, Step(t)
  PROVE  TypeOK'
  <1>1. CASE ReadPending(t)
    BY <1>1 DEF TypeOK, ReadPending, redis
  <1>2. ASSUME NEW r \in Runs, ReadHash(t, r)  PROVE TypeOK'
    <2>1. hash[r].attempts \in 0..MaxAttempts
      <3>1. hash[r] \in Hash  BY DEF TypeOK
      <3>2. QED  BY <3>1 DEF Hash
    <2>2. attempts' \in [Ticks -> 0..MaxAttempts]  BY <1>2, <2>1 DEF TypeOK, ReadHash
    <2>3. todo' \in [Ticks -> SUBSET Runs] /\ run' \in [Ticks -> Runs]
      BY <1>2 DEF TypeOK, ReadHash
    <2>4. pc' \in [Ticks -> {"idle", "cleanup", "probe", "ready"} \cup Leased]
      BY <1>2 DEF TypeOK, ReadHash, Goto
    <2>5. QED  BY <1>2, <2>2, <2>3, <2>4 DEF TypeOK, ReadHash, redis
  <1>3. CASE ProbeLease(t)
    BY <1>3 DEF TypeOK, ProbeLease, Goto, redis
  <1>4. CASE AcquireLease(t)
    <2>1. run[t] \in Runs  BY DEF TypeOK
    <2>2. lease' \in [Runs -> Ticks \cup {Nobody}]
      BY <1>4, <2>1 DEF TypeOK, AcquireLease, TakeLease
    <2>3. QED  BY <1>4, <2>2 DEF TypeOK, AcquireLease, TakeLease, Goto, Leased
  <1>5. CASE LeaseTaken(t)
    BY <1>5 DEF TypeOK, LeaseTaken, Goto, redis
  <1>7. CASE MarkRunning(t)
    <2>1. hash' \in [Runs -> Hash]  BY <1>7, SetRunningTyped DEF MarkRunning
    <2>2. QED  BY <1>7, <2>1 DEF TypeOK, MarkRunning, SetRunning, Goto, Leased
  <1>8. CASE HandlerSucceeds(t)
    BY <1>8 DEF TypeOK, HandlerSucceeds, Goto, Leased, redis
  <1>9. CASE HandlerFails(t)
    BY <1>9 DEF TypeOK, HandlerFails, AfterError, Goto, Leased, redis
  <1>10. CASE HandlerTimesOut(t)
    <2>1. zombies' \subseteq Ticks \X Runs  BY <1>10 DEF TypeOK, HandlerTimesOut
    <2>2. QED  BY <1>10, <2>1 DEF TypeOK, HandlerTimesOut, Goto, Leased, redis
  <1>11. CASE WriteStatus(t)
    <2>1. hash' \in [Runs -> Hash] /\ ended' \subseteq Runs
      BY <1>11, SetStatusTyped DEF WriteStatus
    <2>2. pc' \in [Ticks -> {"idle", "cleanup", "probe", "ready"} \cup Leased]
      BY <1>11 DEF TypeOK, WriteStatus, Goto, Leased
    <2>3. QED  BY <1>11, <2>1, <2>2 DEF TypeOK, WriteStatus, SetStatus
  <1>12. CASE WritePending(t)
    BY <1>12 DEF TypeOK, WritePending, SetPending, Goto, Leased
  <1>13. CASE ReleaseLease(t)
    <2>1. lease' \in [Runs -> Ticks \cup {Nobody}]
      BY <1>13 DEF TypeOK, ReleaseLease, GiveLeaseBack, Released
    <2>2. QED  BY <1>13, <2>1 DEF TypeOK, ReleaseLease, GiveLeaseBack, Goto
  <1>14. QED
    BY <1>1, <1>2, <1>3, <1>4, <1>5, <1>7, <1>8, <1>9, <1>10, <1>11, <1>12, <1>13 DEF Step

\* So do failures.
LEMMA FaultTyped ==
  ASSUME TypeOK, MarksEligible, NEW t \in Ticks, NEW r \in Runs,
         CallFails(t) \/ Crash(t) \/ ZombieEnds(t, r) \/ ReadFails(t, r)
  PROVE  TypeOK'
  <1>1. CASE CallFails(t)
    <2>1. faults' \in Nat /\ overrun' \subseteq Ticks  BY <1>1 DEF TypeOK, CallFails
    <2>2. pc' \in [Ticks -> {"idle", "cleanup", "probe", "ready"} \cup Leased]
      BY <1>1 DEF TypeOK, CallFails, AfterError, Goto, Leased
    <2>3. hash' \in [Runs -> Hash] /\ ended' \subseteq Runs
      <3>1. CASE SetStatus(t)  BY <3>1, SetStatusTyped
      <3>2. CASE SetRunning(t)  BY <3>2, SetRunningTyped DEF SetRunning, TypeOK
      <3>3. CASE UNCHANGED <<hash, ended>>  BY <3>3 DEF TypeOK
      <3>4. QED
        BY <1>1, <3>1, <3>2, <3>3 DEF CallFails, Writes, TakeLease, SetPending, GiveLeaseBack,
           redis
    <2>4. pending' \in [Runs -> {"out", "due", "backoff"}]
      BY <1>1 DEF TypeOK, CallFails, Writes, TakeLease, SetRunning, SetStatus, SetPending,
         GiveLeaseBack, redis
    <2>5. lease' \in [Runs -> Ticks \cup {Nobody}]
      BY <1>1 DEF TypeOK, CallFails, Writes, TakeLease, SetRunning, SetStatus, SetPending,
         GiveLeaseBack, Released, redis
    <2>6. QED  BY <1>1, <2>1, <2>2, <2>3, <2>4, <2>5 DEF TypeOK, CallFails
  <1>2. CASE Crash(t)
    <2>1. faults' \in Nat  BY <1>2 DEF TypeOK, Crash
    <2>2. zombies' \subseteq Ticks \X Runs  BY <1>2 DEF TypeOK, Crash
    <2>3. QED  BY <1>2, <2>1, <2>2 DEF TypeOK, Crash, Goto, redis
  <1>3. CASE ZombieEnds(t, r)
    BY <1>3 DEF TypeOK, ZombieEnds, redis, local
  <1>4. CASE ReadFails(t, r)
    <2>1. faults' \in Nat  BY <1>4 DEF TypeOK, ReadFails
    <2>2. QED  BY <1>4, <2>1 DEF TypeOK, ReadFails, redis
  <1>5. QED  BY <1>1, <1>2, <1>3, <1>4

Typed == TypeOK /\ MarksEligible

\* A tick reaches "mark" only past the attempt gate, and keeps what it read.
LEMMA MarksEligibleStep ==
  ASSUME TypeOK, MarksEligible, [Next]_vars
  PROVE  MarksEligible'
  <1> SUFFICES ASSUME NEW t \in Ticks, pc'[t] = "mark"  PROVE attempts'[t] < MaxAttempts
    BY DEF MarksEligible
  <1>1. \A s \in Ticks : AcquireLease(s) => attempts'[t] < MaxAttempts
    BY DEF AcquireLease, TakeLease, Eligible, Goto, TypeOK, MarksEligible
  <1>2. ASSUME pc[t] = "mark", attempts'[t] = attempts[t]  PROVE attempts'[t] < MaxAttempts
    BY <1>2 DEF MarksEligible
  <1>3. ASSUME NEW s \in Ticks, NEW r \in Runs, ReadHash(s, r)
        PROVE  pc[t] = "mark" /\ attempts'[t] = attempts[t]
    <2>1. s # t  BY <1>3 DEF ReadHash, Goto, TypeOK
    <2>2. QED  BY <2>1, <1>3 DEF ReadHash, Goto, TypeOK
  <1>4. ASSUME NEW s \in Ticks, Step(s), ~AcquireLease(s), ~(\E r \in Runs : ReadHash(s, r))
        PROVE  pc[t] = "mark" /\ attempts'[t] = attempts[t]
    <2>1. attempts' = attempts
      BY <1>4 DEF Step, ReadPending, ProbeLease, LeaseTaken, MarkRunning,
         HandlerSucceeds, HandlerFails, HandlerTimesOut, WriteStatus, WritePending, ReleaseLease,
         redis
    <2>2. pc[t] = "mark"
      BY <1>4 DEF Step, ReadPending, ProbeLease, LeaseTaken, MarkRunning,
         HandlerSucceeds, HandlerFails, AfterError, HandlerTimesOut, WriteStatus, WritePending,
         ReleaseLease, redis, Goto, TypeOK
    <2>3. QED  BY <2>1, <2>2
  <1>5. ASSUME NEW s \in Ticks, CallFails(s) \/ Crash(s)
        PROVE  pc[t] = "mark" /\ attempts'[t] = attempts[t]
    BY <1>5 DEF CallFails, Crash, AfterError, Goto, TypeOK
  <1>6. ASSUME NEW r \in Runs,
               FireTime(r) \/ HashExpires(r) \/ BackoffEnds(r) \/ LeaseExpires(r) \/ Enqueue(r)
        PROVE  pc[t] = "mark" /\ attempts'[t] = attempts[t]
    BY <1>6 DEF FireTime, HashExpires, BackoffEnds, LeaseExpires, Enqueue, local
  <1>7. ASSUME NEW s \in Ticks, NEW r \in Runs, ZombieEnds(s, r) \/ ReadFails(s, r)
        PROVE  pc[t] = "mark" /\ attempts'[t] = attempts[t]
    BY <1>7 DEF ZombieEnds, ReadFails, local
  <1>8. CASE UNCHANGED vars  BY <1>8, <1>2 DEF vars, local
  <1>9. QED  BY <1>1, <1>2, <1>3, <1>4, <1>5, <1>6, <1>7, <1>8 DEF Next

\* Every step keeps the types and the attempts that marks may write.
LEMMA NextTyped == Typed /\ [Next]_vars => Typed'
  <1> SUFFICES ASSUME Typed, [Next]_vars  PROVE Typed'  OBVIOUS
  <1>1. MarksEligible'  BY MarksEligibleStep DEF Typed
  <1>2. CASE UNCHANGED vars
    <2>1. TypeOK'  BY <1>2 DEF Typed, TypeOK, vars, redis, local
    <2>2. QED  BY <1>1, <2>1 DEF Typed
  <1>3. CASE Next
    <2>1. ASSUME NEW t \in Ticks, CallFails(t) \/ Crash(t)  PROVE TypeOK'
      <3>1. run[t] \in Runs  BY DEF Typed, TypeOK
      <3>2. QED  BY <2>1, <3>1, FaultTyped DEF Typed
    <2>2. TypeOK'  BY <1>3, <2>1, TimeTyped, StepTyped, FaultTyped DEF Next, Typed
    <2>3. QED  BY <1>1, <2>2 DEF Typed
  <1>4. QED  BY <1>2, <1>3

\* Every hash and every local variable keeps its type, and the stored attempts
\* never exceed maxAttempts: a tick writes what it read plus one, and the gate
\* (line 470) let it pass only below the maximum.
THEOREM TypeCorrect == Spec => []TypeOK
  <1>1. Init => Typed
    <2>1. Init => MarksEligible  BY DEF Init, MarksEligible
    <2>2. QED  BY <2>1, InitTyped DEF Typed
  <1>2. Typed /\ [Next]_vars => Typed'  BY NextTyped
  <1>3. Typed => TypeOK  BY DEF Typed
  <1>4. QED  BY <1>1, <1>2, <1>3, PTL DEF Spec

-----------------------------------------------------------------------------
(* What a tick writes.                                                     *)

TickStep(t) == Step(t) \/ CallFails(t) \/ Crash(t) \/ \E r \in Runs : ReadFails(t, r)

\* A tick writes at most what its call writes, and its own variables.
LEMMA TickStepWrites ==
  ASSUME TypeOK, NEW t \in Ticks, TickStep(t)
  PROVE  /\ Writes(t) \/ UNCHANGED <<redis, ended>>
         /\ fired' = fired
         /\ \A s \in Ticks : s # t =>
              /\ pc'[s] = pc[s] /\ run'[s] = run[s] /\ todo'[s] = todo[s]
              /\ s \in overrun' <=> s \in overrun
  <1>1. Writes(t) \/ UNCHANGED <<redis, ended>>
    BY DEF TickStep, Step, ReadPending, ReadHash, ProbeLease, AcquireLease, LeaseTaken,
       MarkRunning, HandlerSucceeds, HandlerFails, HandlerTimesOut, WriteStatus, WritePending,
       ReleaseLease, CallFails, Crash, ReadFails, Writes
  <1>2. fired' = fired
    BY DEF TickStep, Step, ReadPending, ReadHash, ProbeLease, AcquireLease, LeaseTaken,
       MarkRunning, HandlerSucceeds, HandlerFails, HandlerTimesOut, WriteStatus, WritePending,
       ReleaseLease, CallFails, Crash, ReadFails
  <1>3. ASSUME NEW s \in Ticks, s # t
        PROVE  /\ pc'[s] = pc[s] /\ run'[s] = run[s] /\ todo'[s] = todo[s]
               /\ s \in overrun' <=> s \in overrun
    <2>1. CASE Step(t)
      <3>1. pc'[s] = pc[s]
        BY <1>3, <2>1 DEF Step, ReadPending, ReadHash, ProbeLease, AcquireLease, LeaseTaken,
           MarkRunning, HandlerSucceeds, HandlerFails, HandlerTimesOut, WriteStatus,
           WritePending, ReleaseLease, Goto, TypeOK
      <3>2. run'[s] = run[s] /\ todo'[s] = todo[s]
        BY <1>3, <2>1 DEF Step, ReadPending, ReadHash, ProbeLease, AcquireLease, LeaseTaken,
           MarkRunning, HandlerSucceeds, HandlerFails, HandlerTimesOut, WriteStatus,
           WritePending, ReleaseLease, TypeOK
      <3>3. s \in overrun' <=> s \in overrun
        BY <1>3, <2>1 DEF Step, ReadPending, ReadHash, ProbeLease, AcquireLease, LeaseTaken,
           MarkRunning, HandlerSucceeds, HandlerFails, HandlerTimesOut, WriteStatus,
           WritePending, ReleaseLease
      <3>4. QED  BY <3>1, <3>2, <3>3
    <2>2. CASE CallFails(t)  BY <1>3, <2>2 DEF CallFails, Goto, TypeOK
    <2>3. CASE Crash(t)  BY <1>3, <2>3 DEF Crash, Goto, TypeOK
    <2>4. CASE \E r \in Runs : ReadFails(t, r)  BY <1>3, <2>4 DEF ReadFails, TypeOK
    <2>5. QED  BY <2>1, <2>2, <2>3, <2>4 DEF TickStep
  <1>4. QED  BY <1>1, <1>2, <1>3

-----------------------------------------------------------------------------
(* Exclusion.                                                              *)

\* No call of a tick takes the lease of another: it is only taken when it is
\* free, and only given back by its holder.
LEMMA LeasesRespected ==
  ASSUME TypeOK, NEW s \in Ticks, NEW t \in Ticks, s # t, lease[run[t]] = t,
         Writes(s) \/ UNCHANGED <<redis, ended>>
  PROVE  lease'[run[t]] = t
  <1>1. run[s] \in Runs /\ run[t] \in Runs  BY DEF TypeOK
  <1>2. CASE TakeLease(s)
    <2>1. run[t] # run[s]  BY <1>2, CronAssumption DEF TakeLease, LeaseFree
    <2>2. QED  BY <1>1, <1>2, <2>1 DEF TakeLease, TypeOK
  <1>3. CASE GiveLeaseBack(s)
    <2>1. CASE run[t] = run[s]
      <3>1. Released(s) = t  BY <2>1 DEF Released
      <3>2. QED  BY <1>1, <1>3, <2>1, <3>1 DEF GiveLeaseBack, TypeOK
    <2>2. CASE run[t] # run[s]  BY <1>1, <1>3, <2>2 DEF GiveLeaseBack, TypeOK
    <2>3. QED  BY <2>1, <2>2
  <1>4. CASE UNCHANGED lease  BY <1>4
  <1>5. QED
    BY <1>2, <1>3, <1>4 DEF Writes, SetRunning, SetStatus, SetPending, redis

\* Who comes out of its own step under a lease has just taken it or had it.
LEMMA OwnLeaseHeld ==
  ASSUME TypeOK, LeaseHeld, NEW s \in Ticks, TickStep(s), pc'[s] \in Leased, s \notin overrun'
  PROVE  lease'[run'[s]] = s
  <1>1. run[s] \in Runs  BY DEF TypeOK
  <1>2. CASE AcquireLease(s)
    BY <1>1, <1>2 DEF AcquireLease, TakeLease, TypeOK
  <1>3. CASE Step(s) /\ ~AcquireLease(s)
    <2>1. pc[s] \in Leased /\ run'[s] = run[s] /\ pc[s] # "release"
      BY <1>3 DEF Step, ReadPending, ReadHash, ProbeLease, LeaseTaken, MarkRunning, SetRunning,
         HandlerSucceeds, HandlerFails, AfterError, HandlerTimesOut, WriteStatus, SetStatus,
         WritePending, SetPending, ReleaseLease, Goto, TypeOK, Leased
    <2>2. lease' = lease /\ overrun' = overrun
      BY <1>3, <2>1 DEF Step, ReadPending, ReadHash, ProbeLease, LeaseTaken, MarkRunning,
         SetRunning, HandlerSucceeds, HandlerFails, HandlerTimesOut, WriteStatus, SetStatus,
         WritePending, SetPending, ReleaseLease, GiveLeaseBack, redis
    <2>3. QED  BY <2>1, <2>2 DEF LeaseHeld
  <1>4. CASE CallFails(s)
    <2>1. pc[s] \in Leased /\ run' = run /\ pc[s] \notin {"ready", "release"}
      BY <1>4 DEF CallFails, AfterError, Goto, TypeOK, Leased
    <2>2. lease' = lease /\ overrun' = overrun
      BY <1>4, <2>1 DEF CallFails, Writes, TakeLease, SetRunning, SetStatus, SetPending,
         GiveLeaseBack, redis
    <2>3. QED  BY <2>1, <2>2 DEF LeaseHeld
  <1>5. CASE Crash(s)
    BY <1>5 DEF Crash, Goto, TypeOK, Leased
  <1>6. CASE \E r \in Runs : ReadFails(s, r)
    BY <1>6 DEF ReadFails, Leased
  <1>7. QED  BY <1>2, <1>3, <1>4, <1>5, <1>6 DEF TickStep

\* No step of a tick takes the lease of another.
LEMMA TickStepKeepsLeases ==
  ASSUME TypeOK, LeaseHeld, NEW s \in Ticks, TickStep(s)
  PROVE  LeaseHeld'
  <1> SUFFICES ASSUME NEW t \in Ticks, pc'[t] \in Leased, t \notin overrun'
               PROVE  lease'[run'[t]] = t
    BY DEF LeaseHeld
  <1>1. CASE t = s  BY <1>1, OwnLeaseHeld
  <1>2. CASE t # s
    <2>1. /\ Writes(s) \/ UNCHANGED <<redis, ended>>
          /\ pc'[t] = pc[t] /\ run'[t] = run[t] /\ t \notin overrun
      BY <1>2, TickStepWrites
    <2>2. lease[run[t]] = t  BY <2>1 DEF LeaseHeld
    <2>3. QED  BY <1>2, <2>1, <2>2, LeasesRespected
  <1>3. QED  BY <1>1, <1>2

\* A lease that expires under its live holder makes the holder overrun.
LEMMA ExpiryKeepsLeases ==
  ASSUME TypeOK, LeaseHeld, NEW r \in Runs, LeaseExpires(r)
  PROVE  LeaseHeld'
  <1> SUFFICES ASSUME NEW t \in Ticks, pc'[t] \in Leased, t \notin overrun'
               PROVE  lease'[run'[t]] = t
    BY DEF LeaseHeld
  <1>1. run' = run /\ pc' = pc /\ run[t] \in Runs  BY DEF LeaseExpires, local, TypeOK
  <1>2. t \notin overrun  BY DEF LeaseExpires
  <1>3. lease[run[t]] = t  BY <1>1, <1>2 DEF LeaseHeld
  <1>4. run[t] # r
    <2>1. SUFFICES ASSUME run[t] = r  PROVE FALSE  OBVIOUS
    <2>2. lease[r] = t  BY <1>3, <2>1
    <2>3. t \in overrun'  BY <2>1, <2>2, <1>1 DEF LeaseExpires
    <2>4. QED  BY <2>3
  <1>5. QED  BY <1>1, <1>3, <1>4 DEF LeaseExpires, TypeOK

\* Every step keeps the leases of those who have not lost them.
LEMMA NextKeepsLeases ==
  ASSUME TypeOK, LeaseHeld, [Next]_vars
  PROVE  LeaseHeld'
  <1>1. ASSUME NEW s \in Ticks, TickStep(s)  PROVE LeaseHeld'
    BY <1>1, TickStepKeepsLeases
  <1>2. ASSUME NEW r \in Runs, FireTime(r) \/ HashExpires(r) \/ BackoffEnds(r) \/ Enqueue(r)
        PROVE  LeaseHeld'
    BY <1>2 DEF LeaseHeld, FireTime, HashExpires, BackoffEnds, Enqueue, local
  <1>3. ASSUME NEW s \in Ticks, NEW r \in Runs, ZombieEnds(s, r)  PROVE LeaseHeld'
    BY <1>3 DEF LeaseHeld, ZombieEnds, redis, local
  <1>4. CASE UNCHANGED vars
    BY <1>4 DEF LeaseHeld, vars, redis, local
  <1>5. QED  BY <1>1, <1>2, <1>3, <1>4, ExpiryKeepsLeases DEF Next, TickStep

\* Two ticks execute one run at once only if one of them lost its lease while
\* it lived: neither the crash of a holder nor its late release nor what the
\* ticks read before the lease lets another in.
THEOREM LeaseExclusion == Spec => []LeaseExcludes
  <1>1. Init => Typed /\ LeaseHeld
    <2>1. Init => MarksEligible /\ LeaseHeld  BY DEF Init, MarksEligible, LeaseHeld, Leased
    <2>2. QED  BY <2>1, InitTyped DEF Typed
  <1>2. Typed /\ LeaseHeld /\ [Next]_vars => (Typed /\ LeaseHeld)'
    BY NextTyped, NextKeepsLeases DEF Typed
  <1>3. Typed /\ LeaseHeld => LeaseExcludes
    BY DEF Typed, LeaseHeld, LeaseExcludes, Executing, Leased
  <1>4. QED  BY <1>1, <1>2, <1>3, PTL DEF Spec

-----------------------------------------------------------------------------
(* No run drops out of the zset before it ended.                           *)

\* A tick only comes to know a run that the zset or another of its variables
\* mentions already.
LEMMA MentionsShrink ==
  ASSUME TypeOK, NEW t \in Ticks, TickStep(t), NEW r \in Runs, ~Mentioned(r)
  PROVE  ~Mentioned(r)'
  <1>1. /\ pending[r] = "out" /\ lease[r] = Nobody
        /\ \A s \in Ticks : r \notin todo[s] /\ (run[s] = r => pc[s] = "idle")
                           /\ <<s, r>> \notin zombies
    BY DEF Mentioned
  <1>2. pending'[r] = "out" /\ lease'[r] = Nobody
    <2>1. CASE UNCHANGED redis  BY <1>1, <2>1 DEF redis
    <2>2. CASE Writes(t)
      <3>1. run[t] # r
        BY <1>1, <2>2 DEF Writes, TakeLease, SetRunning, SetStatus, SetPending, GiveLeaseBack
      <3>2. QED
        BY <1>1, <2>2, <3>1 DEF Writes, TakeLease, SetRunning, SetStatus, SetPending,
           GiveLeaseBack, TypeOK
    <2>3. QED  BY <2>1, <2>2, TickStepWrites
  <1>3. /\ r \notin todo'[t] /\ (run'[t] = r => pc'[t] = "idle")
        /\ \A s \in Ticks : <<s, r>> \notin zombies'
    <2>1. CASE ReadPending(t)
      BY <1>1, <2>1 DEF ReadPending, TypeOK
    <2>2. CASE \E p \in Runs : ReadHash(t, p)
      <3>1. PICK p \in Runs : ReadHash(t, p)  BY <2>2
      <3>2. p # r  BY <1>1, <3>1 DEF ReadHash
      <3>3. run'[t] = p /\ todo'[t] = todo[t] \ {p} /\ zombies' = zombies
        BY <3>1 DEF ReadHash, TypeOK
      <3>4. QED  BY <1>1, <3>2, <3>3
    <2>3. CASE Crash(t)  BY <1>1, <2>3 DEF Crash, Goto, TypeOK
    <2>4. CASE \E p \in Runs : ReadFails(t, p)  BY <1>1, <2>4 DEF ReadFails, TypeOK
    <2>5. CASE CallFails(t)
      <3>1. run[t] # r  BY <1>1, <2>5 DEF CallFails
      <3>2. QED  BY <1>1, <2>5, <3>1 DEF CallFails
    <2>6. CASE Step(t) /\ ~ReadPending(t) /\ ~\E p \in Runs : ReadHash(t, p)
      <3>1. run[t] # r
        BY <1>1, <2>6 DEF Step, ProbeLease, AcquireLease, TakeLease, LeaseTaken, MarkRunning,
           SetRunning, HandlerSucceeds, HandlerFails, HandlerTimesOut, WriteStatus, SetStatus,
           WritePending, SetPending, ReleaseLease, GiveLeaseBack
      <3>2. run' = run /\ todo' = todo /\ zombies' \subseteq zombies \cup {<<t, run[t]>>}
        BY <2>6 DEF Step, ProbeLease, AcquireLease, LeaseTaken, MarkRunning, HandlerSucceeds,
           HandlerFails, HandlerTimesOut, WriteStatus, WritePending, ReleaseLease
      <3>3. QED  BY <1>1, <3>1, <3>2
    <2>7. QED  BY <2>1, <2>2, <2>3, <2>4, <2>5, <2>6 DEF TickStep
  <1>4. QED  BY <1>1, <1>2, <1>3, TickStepWrites DEF Mentioned

\* The writes neither name a hash nor take its status away.
LEMMA HashesStay ==
  ASSUME TypeOK, NEW t \in Ticks, Writes(t) \/ UNCHANGED <<redis, ended>>, NEW r \in Runs
  PROVE  /\ hash'[r].named = hash[r].named
         /\ hash'[r].status = "none" => hash[r].status = "none"
  <1>1. hash[r] \in Hash /\ hash \in [Runs -> Hash] /\ run[t] \in Runs  BY DEF TypeOK
  <1>2. CASE UNCHANGED hash  BY <1>2
  <1>3. CASE SetStatus(t)
    <2>1. NewStatus(t) # "none"  BY DEF NewStatus
    <2>2. QED  BY <1>1, <1>3, <2>1 DEF Hash, SetStatus
  <1>4. CASE SetRunning(t)
    BY <1>1, <1>4 DEF Hash, SetRunning
  <1>5. QED  BY <1>2, <1>3, <1>4 DEF Writes, TakeLease, SetPending, GiveLeaseBack, redis

\* A step of a tick keeps the invariant: it ends a run before it dequeues it.
LEMMA TickStepKeepsTracked ==
  ASSUME TypeOK, Tracked, NEW t \in Ticks, TickStep(t)
  PROVE  Tracked'
  <1>1. /\ Writes(t) \/ UNCHANGED <<redis, ended>>
        /\ fired' = fired
    BY TickStepWrites
  <1>2. ended \subseteq ended'
    BY <1>1 DEF Writes, TakeLease, SetRunning, SetStatus, SetPending, GiveLeaseBack
  <1>3. UnwrittenIsUnknown'
    <2>1. SUFFICES ASSUME NEW r \in fired', hash'[r].status = "none"  PROVE ~Mentioned(r)'
      BY DEF UnwrittenIsUnknown
    <2>2. r \in fired /\ r \in Runs  BY <1>1 DEF TypeOK
    <2>3. hash[r].status = "none"  BY <1>1, <2>1, <2>2, HashesStay
    <2>4. ~Mentioned(r)  BY <2>2, <2>3 DEF Tracked, UnwrittenIsUnknown
    <2>5. QED  BY <2>2, <2>4, MentionsShrink
  <1>4. DequeuesEnded'
    <2> SUFFICES ASSUME NEW s \in Ticks
                 PROVE  /\ pc'[s] \in {"completed", "failed"} => run'[s] \in ended'
                        /\ pc'[s] = "cleanup" => run'[s] \in ended' \/ ~hash'[run'[s]].named
      BY DEF DequeuesEnded
    <2>1. run[s] \in Runs /\ run[t] \in Runs  BY DEF TypeOK
    <2>2. CASE s # t
      <3>1. pc'[s] = pc[s] /\ run'[s] = run[s]  BY <2>2, TickStepWrites
      <3>2. hash'[run[s]].named = hash[run[s]].named  BY <1>1, <2>1, HashesStay
      <3>3. /\ pc[s] \in {"completed", "failed"} => run[s] \in ended
            /\ pc[s] = "cleanup" => run[s] \in ended \/ ~hash[run[s]].named
        BY DEF Tracked, DequeuesEnded
      <3>4. QED  BY <1>2, <3>1, <3>2, <3>3
    <2>3. ASSUME NEW r \in Runs, ReadHash(t, r), s = t
          PROVE  run'[s] = r /\ pc'[s] \notin {"completed", "failed"}
                 /\ (pc'[s] = "cleanup" => ~hash'[r].named)
      BY <2>3 DEF ReadHash, Goto, redis, TypeOK
    <2>4. CASE WriteStatus(t) /\ s = t
      <3>1. run' = run  BY <2>4 DEF WriteStatus
      <3>2. pc'[s] \in {"completed", "failed", "cleanup"} => NewStatus(t) # "pending"
        BY <2>4 DEF WriteStatus, SetStatus, NewStatus, Goto, TypeOK
      <3>3. NewStatus(t) # "pending" => run[t] \in ended'  BY <2>4 DEF WriteStatus, SetStatus
      <3>4. QED  BY <2>4, <3>1, <3>2, <3>3
    <2>5. CASE s = t /\ ~WriteStatus(t) /\ ~\E r \in Runs : ReadHash(t, r)
      <3>1. pc'[t] \notin {"completed", "failed", "cleanup"}
        <4>1. CASE CallFails(t)  BY <4>1 DEF CallFails, AfterError, Goto, TypeOK
        <4>2. CASE Crash(t) \/ \E r \in Runs : ReadFails(t, r)
          BY <4>2 DEF Crash, ReadFails, Goto, TypeOK
        <4>3. CASE Step(t)
          BY <2>5, <4>3 DEF Step, ReadPending, ProbeLease, AcquireLease, LeaseTaken,
             MarkRunning, HandlerSucceeds, HandlerFails, AfterError, HandlerTimesOut,
             WritePending, ReleaseLease, Goto, TypeOK
        <4>4. QED  BY <4>1, <4>2, <4>3 DEF TickStep
      <3>2. QED  BY <2>5, <3>1
    <2>6. QED  BY <2>2, <2>3, <2>4, <2>5
  <1>5. NamedIsPending'
    <2>1. SUFFICES ASSUME NEW r \in Runs, hash'[r].named  PROVE pending'[r] # "out" \/ r \in ended'
      BY DEF NamedIsPending
    <2>2. hash[r].named  BY <1>1, <2>1, HashesStay
    <2>3. pending[r] # "out" \/ r \in ended  BY <2>2 DEF Tracked, NamedIsPending
    <2>4. CASE UNCHANGED pending  BY <1>2, <2>3, <2>4
    <2>5. CASE SetPending(t) /\ run[t] # r
      <3>1. pending'[r] = pending[r]  BY <2>5 DEF SetPending, TypeOK
      <3>2. QED  BY <1>2, <2>3, <3>1
    <2>6. CASE SetPending(t) /\ run[t] = r /\ pc[t] = "requeue"
      BY <2>6 DEF SetPending, TypeOK
    <2>7. CASE SetPending(t) /\ run[t] = r /\ pc[t] # "requeue"
      <3>1. r \in ended  BY <2>2, <2>7 DEF Tracked, DequeuesEnded, SetPending
      <3>2. QED  BY <1>2, <3>1
    <2>8. QED
      BY <1>1, <2>4, <2>5, <2>6, <2>7 DEF Writes, TakeLease, SetRunning, SetStatus,
         GiveLeaseBack, redis
  <1>6. QED  BY <1>3, <1>4, <1>5 DEF Tracked

\* Time that spares the hashes makes nobody know a run it did not.
LEMMA TimeKeepsTracked ==
  ASSUME TypeOK, Tracked, NEW t \in Ticks, NEW r \in Runs,
         BackoffEnds(r) \/ LeaseExpires(r) \/ ZombieEnds(t, r)
  PROVE  Tracked'
  <1>1. UNCHANGED <<fired, hash, ended, pc, run, todo>>
    BY DEF BackoffEnds, LeaseExpires, ZombieEnds, redis, local
  <1>2. /\ \A q \in Runs : pending'[q] = "out" <=> pending[q] = "out"
        /\ \A q \in Runs : lease'[q] # Nobody => lease[q] # Nobody
        /\ zombies' \subseteq zombies
    BY DEF BackoffEnds, LeaseExpires, ZombieEnds, redis, TypeOK
  <1>3. \A q \in Runs : Mentioned(q)' => Mentioned(q)  BY <1>1, <1>2 DEF Mentioned
  <1>4. fired \subseteq Runs  BY DEF TypeOK
  <1>5. UnwrittenIsUnknown'  BY <1>1, <1>3, <1>4 DEF Tracked, UnwrittenIsUnknown
  <1>6. DequeuesEnded'  BY <1>1 DEF Tracked, DequeuesEnded
  <1>7. NamedIsPending'  BY <1>1, <1>2 DEF Tracked, NamedIsPending
  <1>8. QED  BY <1>5, <1>6, <1>7 DEF Tracked

\* A fire only takes over the id of a run that nothing mentions.
LEMMA FireKeepsTracked ==
  ASSUME TypeOK, Tracked, NEW r \in Runs, FireTime(r)
  PROVE  Tracked'
  <1>1. \A q \in Runs : Mentioned(q)' <=> Mentioned(q)
    BY DEF FireTime, Mentioned, local
  <1>2. \A q \in Runs : q # r => hash'[q] = hash[q]  BY DEF FireTime, TypeOK
  <1>3. ~hash'[r].named  BY DEF FireTime, TypeOK, NoHash
  <1>4. ~Mentioned(r) /\ fired' = fired \cup {r} /\ ended' = ended \ {r}  BY DEF FireTime
  <1>5. fired \subseteq Runs  BY DEF TypeOK
  <1>6. UnwrittenIsUnknown'
    BY <1>1, <1>2, <1>4, <1>5 DEF Tracked, UnwrittenIsUnknown
  <1>7. DequeuesEnded'
    <2>1. SUFFICES ASSUME NEW t \in Ticks, pc[t] # "idle"
                   PROVE  /\ pc[t] \in {"completed", "failed"} => run[t] \in ended'
                          /\ pc[t] = "cleanup" => run[t] \in ended' \/ ~hash'[run[t]].named
      BY DEF DequeuesEnded, FireTime, local
    <2>2. run[t] # r /\ run[t] \in Runs  BY <1>4, <2>1 DEF Mentioned, TypeOK
    <2>3. hash'[run[t]] = hash[run[t]]  BY <1>2, <2>2
    <2>4. QED  BY <1>4, <2>2, <2>3 DEF Tracked, DequeuesEnded
  <1>8. NamedIsPending'
    <2>1. pending' = pending  BY DEF FireTime
    <2>2. QED  BY <1>2, <1>3, <1>4, <2>1 DEF Tracked, NamedIsPending
  <1>9. QED  BY <1>6, <1>7, <1>8 DEF Tracked

\* An expiring hash takes its run out of the enqueuer's sight, too.
LEMMA ExpiryKeepsTracked ==
  ASSUME TypeOK, Tracked, NEW r \in Runs, HashExpires(r)
  PROVE  Tracked'
  <1>1. \A q \in Runs : Mentioned(q)' <=> Mentioned(q)
    BY DEF HashExpires, Mentioned, local
  <1>2. \A q \in Runs : q # r => hash'[q] = hash[q]  BY DEF HashExpires, TypeOK
  <1>3. ~hash'[r].named  BY DEF HashExpires, TypeOK, NoHash
  <1>4. fired' = fired \ {r} /\ ended' = ended /\ pending' = pending  BY DEF HashExpires
  <1>5. UnwrittenIsUnknown'
    <2>1. fired \subseteq Runs  BY DEF TypeOK
    <2>2. QED  BY <1>1, <1>2, <1>4, <2>1 DEF Tracked, UnwrittenIsUnknown
  <1>6. DequeuesEnded'
    <2>1. pc' = pc /\ run' = run  BY DEF HashExpires, local
    <2>2. \A t \in Ticks : run[t] \in Runs  BY DEF TypeOK
    <2>3. QED  BY <1>2, <1>3, <1>4, <2>1, <2>2 DEF Tracked, DequeuesEnded
  <1>7. NamedIsPending'
    BY <1>2, <1>3, <1>4 DEF Tracked, NamedIsPending
  <1>8. QED  BY <1>5, <1>6, <1>7 DEF Tracked

\* An enqueued run is one nobody was about to take off the zset.
LEMMA EnqueueKeepsTracked ==
  ASSUME TypeOK, Tracked, NEW r \in Runs, Enqueue(r)
  PROVE  Tracked'
  <1>1. ~Mentioned(r)  BY DEF Enqueue, Tracked, UnwrittenIsUnknown
  <1>2. /\ \A q \in Runs : q # r => hash'[q] = hash[q] /\ pending'[q] = pending[q]
        /\ hash'[r].status = "pending" /\ pending'[r] = "due"
    BY DEF Enqueue, TypeOK
  <1>3. fired' = fired /\ ended' = ended /\ UNCHANGED <<lease, todo, run, pc, zombies>>
    BY DEF Enqueue, local
  <1>4. \A q \in Runs : q # r => (Mentioned(q)' <=> Mentioned(q))
    BY <1>2, <1>3 DEF Mentioned
  <1>5. UnwrittenIsUnknown'
    <2>1. fired \subseteq Runs  BY DEF TypeOK
    <2>2. QED  BY <1>2, <1>3, <1>4, <2>1 DEF Tracked, UnwrittenIsUnknown
  <1>6. DequeuesEnded'
    <2>1. SUFFICES ASSUME NEW t \in Ticks, pc[t] # "idle"
                   PROVE  /\ pc[t] \in {"completed", "failed"} => run[t] \in ended
                          /\ pc[t] = "cleanup" => run[t] \in ended \/ ~hash'[run[t]].named
      BY <1>3 DEF DequeuesEnded
    <2>2. run[t] # r /\ run[t] \in Runs  BY <1>1, <2>1 DEF Mentioned, TypeOK
    <2>3. hash'[run[t]] = hash[run[t]]  BY <1>2, <2>2
    <2>4. QED  BY <2>3 DEF Tracked, DequeuesEnded
  <1>7. NamedIsPending'
    BY <1>2, <1>3 DEF Tracked, NamedIsPending
  <1>8. QED  BY <1>5, <1>6, <1>7 DEF Tracked

\* Every step keeps open runs in the zset.
LEMMA NextKeepsTracked ==
  ASSUME TypeOK, Tracked, [Next]_vars
  PROVE  Tracked'
  <1>1. ASSUME NEW t \in Ticks, TickStep(t)  PROVE Tracked'
    BY <1>1, TickStepKeepsTracked
  <1>2. ASSUME NEW r \in Runs, FireTime(r) \/ HashExpires(r) \/ Enqueue(r)  PROVE Tracked'
    BY <1>2, FireKeepsTracked, ExpiryKeepsTracked, EnqueueKeepsTracked
  <1>3. ASSUME NEW t \in Ticks, NEW r \in Runs,
               BackoffEnds(r) \/ LeaseExpires(r) \/ ZombieEnds(t, r)
        PROVE  Tracked'
    BY <1>3, TimeKeepsTracked
  <1>4. CASE UNCHANGED vars
    BY <1>4 DEF Tracked, UnwrittenIsUnknown, DequeuesEnded, NamedIsPending, Mentioned, vars,
       redis, local
  <1>5. CASE Next
    <2>1. ASSUME NEW r \in Runs, BackoffEnds(r) \/ LeaseExpires(r)  PROVE Tracked'
      BY <1>3, <2>1, CronAssumption
    <2>2. QED  BY <1>1, <1>2, <1>3, <1>5, <2>1 DEF Next, TickStep
  <1>6. QED  BY <1>4, <1>5

\* A run that is open is in the zset, where the ticks find it, until a final
\* status was once written to it.
THEOREM OpenStaysPending == Spec => []OpenIsPending
  <1>1. Init => Typed /\ Tracked
    <2>1. Init => MarksEligible /\ Tracked
      BY DEF Init, MarksEligible, Tracked, UnwrittenIsUnknown, DequeuesEnded, NamedIsPending,
         NoHash
    <2>2. QED  BY <2>1, InitTyped DEF Typed
  <1>2. Typed /\ Tracked /\ [Next]_vars => (Typed /\ Tracked)'
    BY NextTyped, NextKeepsTracked DEF Typed
  <1>3. Tracked => OpenIsPending  BY DEF Tracked, NamedIsPending, OpenIsPending
  <1>4. QED  BY <1>1, <1>2, <1>3, PTL DEF Spec

-----------------------------------------------------------------------------
(* The election.                                                           *)

\* A pod looks for a slot only while it lives and thinks it has none.
ScansWithout == \A p \in Pods : scan[p] # 0 => p \in alive /\ current[p] = 0

\* Only a live pod thinks that it holds a slot.
HoldersLive == \A p \in Pods : current[p] # 0 => p \in alive

Election == SlotTypeOK /\ ScansWithout /\ HoldersLive /\ OneSlotPerPod

\* NoPod has a slot at the start.
LEMMA InitElection == SlotInit => Election
  <1>1. 0 \in 0..Slots /\ 0 \in Nat  BY SlotsAssumption
  <1>2. QED  BY <1>1 DEF SlotInit, Election, SlotTypeOK, ScansWithout, HoldersLive, OneSlotPerPod

\* Starting, stopping and dying.
LEMMA LifeKeepsElection ==
  ASSUME Election, NEW p \in Pods, Start(p) \/ Stop(p) \/ Die(p)
  PROVE  Election'
  <1>1. 0 \in 0..Slots /\ 1 \in 0..Slots /\ 0 # 1  BY SlotsAssumption
  <1>2. CASE Start(p)
    <2>1. SlotTypeOK'  BY <1>1, <1>2 DEF Election, SlotTypeOK, Start
    <2>2. ScansWithout' /\ HoldersLive'
      BY <1>2 DEF Election, SlotTypeOK, ScansWithout, HoldersLive, Start
    <2>3. OneSlotPerPod'  BY <1>2 DEF Election, OneSlotPerPod, Start
    <2>4. QED  BY <2>1, <2>2, <2>3 DEF Election
  <1>3. CASE Stop(p)
    <2>1. slot' \in [1..Slots -> Pods \cup {NoPod}]  BY <1>3 DEF Election, SlotTypeOK, Stop
    <2>2. SlotTypeOK'  BY <1>1, <1>3, <2>1 DEF Election, SlotTypeOK, Stop, Gone
    <2>3. ScansWithout' /\ HoldersLive'
      BY <1>3 DEF Election, SlotTypeOK, ScansWithout, HoldersLive, Stop, Gone
    <2>4. \A i \in 1..Slots : slot'[i] \in {slot[i], NoPod}
      BY <1>3 DEF Election, SlotTypeOK, Stop
    <2>5. OneSlotPerPod'
      BY <1>3, <2>4, SlotsAssumption DEF Election, SlotTypeOK, OneSlotPerPod, Stop, Gone
    <2>6. QED  BY <2>2, <2>3, <2>5 DEF Election
  <1>4. CASE Die(p)
    <2>1. SlotTypeOK'  BY <1>1, <1>4 DEF Election, SlotTypeOK, Die, Gone
    <2>2. ScansWithout' /\ HoldersLive'
      BY <1>4 DEF Election, SlotTypeOK, ScansWithout, HoldersLive, Die, Gone
    <2>3. OneSlotPerPod'  BY <1>4 DEF Election, SlotTypeOK, OneSlotPerPod, Die, Gone
    <2>4. QED  BY <2>1, <2>2, <2>3 DEF Election
  <1>5. QED  BY <1>2, <1>3, <1>4

\* Refreshing, losing and claiming a slot.
LEMMA TickKeepsElection ==
  ASSUME Election, NEW p \in Pods, Tick(p)
  PROVE  Election'
  <1>1. 0 \in 0..Slots /\ 1 \in 0..Slots /\ 0 # 1  BY SlotsAssumption
  <1>2. CASE RefreshSlot(p)
    <2>1. current[p] \in 1..Slots
      BY <1>2, SlotsAssumption DEF Election, SlotTypeOK, RefreshSlot
    <2>2. slot' = [slot EXCEPT ![current[p]] = p] /\ UNCHANGED <<alive, current, scan, slotFaults>>
         /\ orphans' = orphans \ {current[p]}
      BY <1>2 DEF RefreshSlot
    <2>3. SlotTypeOK'  BY <2>1, <2>2 DEF Election, SlotTypeOK
    <2>4. ScansWithout' /\ HoldersLive'  BY <2>2 DEF Election, ScansWithout, HoldersLive
    <2>5. OneSlotPerPod'  BY <2>1, <2>2 DEF Election, SlotTypeOK, OneSlotPerPod
    <2>6. QED  BY <2>3, <2>4, <2>5 DEF Election
  <1>3. CASE LoseSlot(p)
    <2>1. SlotTypeOK'  BY <1>1, <1>3 DEF Election, SlotTypeOK, LoseSlot
    <2>2. ScansWithout' /\ HoldersLive'
      BY <1>3 DEF Election, SlotTypeOK, ScansWithout, HoldersLive, LoseSlot
    <2>3. slot[current[p]] # p  BY <1>3, SlotsAssumption DEF LoseSlot
    <2>4. OneSlotPerPod'
      BY <1>3, <2>3 DEF Election, SlotTypeOK, OneSlotPerPod, LoseSlot
    <2>5. QED  BY <2>1, <2>2, <2>4 DEF Election
  <1>4. CASE ClaimSlot(p)
    <2>1. scan[p] \in 1..Slots /\ p \in alive /\ current[p] = 0
      BY <1>4, SlotsAssumption DEF Election, SlotTypeOK, ScansWithout, ClaimSlot
    <2>2. NextSlot(scan[p], slot[scan[p]] = NoPod) \in 0..Slots
      BY <2>1, SlotsAssumption DEF NextSlot
    <2>3. SlotTypeOK'  BY <1>4, <2>1, <2>2 DEF Election, SlotTypeOK, ClaimSlot
    <2>4. CASE slot[scan[p]] = NoPod
      <3>1. /\ slot' = [slot EXCEPT ![scan[p]] = p]
            /\ current' = [current EXCEPT ![p] = scan[p]]
            /\ scan' = [scan EXCEPT ![p] = 0]
            /\ alive' = alive /\ orphans' = orphans
        BY <1>4, <2>4 DEF ClaimSlot, NextSlot
      <3>2. \A i \in 1..Slots : slot[i] = p => i \in orphans
        BY <2>1 DEF Election, OneSlotPerPod
      <3>3. ScansWithout' /\ HoldersLive'
        BY <2>1, <3>1 DEF Election, SlotTypeOK, ScansWithout, HoldersLive
      <3>4. OneSlotPerPod'  BY <2>1, <3>1, <3>2 DEF Election, SlotTypeOK, OneSlotPerPod
      <3>5. QED  BY <2>3, <3>3, <3>4 DEF Election
    <2>5. CASE slot[scan[p]] # NoPod
      <3>1. UNCHANGED <<slot, current, alive, orphans>>  BY <1>4, <2>5 DEF ClaimSlot
      <3>2. ScansWithout' /\ HoldersLive'
        BY <1>4, <2>1, <3>1 DEF Election, SlotTypeOK, ScansWithout, HoldersLive, ClaimSlot
      <3>3. OneSlotPerPod'  BY <3>1 DEF Election, OneSlotPerPod
      <3>4. QED  BY <2>3, <3>2, <3>3 DEF Election
    <2>6. QED  BY <2>4, <2>5
  <1>5. CASE RetryClaim(p)
    <2>1. SlotTypeOK'  BY <1>1, <1>5 DEF Election, SlotTypeOK, RetryClaim
    <2>2. ScansWithout' /\ HoldersLive'
      BY <1>5 DEF Election, SlotTypeOK, ScansWithout, HoldersLive, RetryClaim
    <2>3. OneSlotPerPod'  BY <1>5 DEF Election, OneSlotPerPod, RetryClaim
    <2>4. QED  BY <2>1, <2>2, <2>3 DEF Election
  <1>6. QED  BY <1>2, <1>3, <1>4, <1>5 DEF Tick

\* A claim that fails, or that takes effect unknown to its pod.
LEMMA FailureKeepsElection ==
  ASSUME Election, NEW p \in Pods, ClaimFails(p)
  PROVE  Election'
  <1>1. scan[p] \in 1..Slots /\ p \in alive /\ current[p] = 0
    BY SlotsAssumption DEF Election, SlotTypeOK, ScansWithout, ClaimFails
  <1>2. 0 \in 0..Slots /\ NextSlot(scan[p], FALSE) \in 0..Slots
    BY <1>1, SlotsAssumption DEF NextSlot
  <1>3. UNCHANGED <<alive, current>>  BY DEF ClaimFails
  <1>4. \/ /\ slot' = [slot EXCEPT ![scan[p]] = p]
           /\ orphans' = orphans \cup {scan[p]}
        \/ UNCHANGED <<slot, orphans>>
    BY DEF ClaimFails
  <1>5. \/ scan' = [scan EXCEPT ![p] = 0]
        \/ scan' = [scan EXCEPT ![p] = NextSlot(scan[p], FALSE)]
    BY DEF ClaimFails
  <1>6. SlotTypeOK'
    <2>1. slot' \in [1..Slots -> Pods \cup {NoPod}] /\ orphans' \subseteq 1..Slots
      BY <1>1, <1>4 DEF Election, SlotTypeOK
    <2>2. scan' \in [Pods -> 0..Slots]  BY <1>2, <1>5 DEF Election, SlotTypeOK
    <2>3. slotFaults' \in Nat  BY DEF Election, SlotTypeOK, ClaimFails
    <2>4. QED  BY <1>3, <2>1, <2>2, <2>3 DEF Election, SlotTypeOK
  <1>7. ScansWithout' /\ HoldersLive'
    <2>1. \A q \in Pods : q # p => scan'[q] = scan[q]
      BY <1>2, <1>5 DEF Election, SlotTypeOK
    <2>2. ScansWithout'  BY <1>1, <1>3, <2>1 DEF Election, ScansWithout
    <2>3. HoldersLive'  BY <1>3 DEF Election, HoldersLive
    <2>4. QED  BY <2>2, <2>3
  <1>8. OneSlotPerPod'
    BY <1>1, <1>3, <1>4 DEF Election, SlotTypeOK, OneSlotPerPod
  <1>9. QED  BY <1>6, <1>7, <1>8 DEF Election

\* The expiry of a key changes nobody's belief.
LEMMA ExpiryKeepsElection ==
  ASSUME Election, NEW i \in 1..Slots, SlotExpires(i)
  PROVE  Election'
  <1>1. SlotTypeOK'  BY DEF Election, SlotTypeOK, SlotExpires
  <1>2. ScansWithout' /\ HoldersLive'  BY DEF Election, ScansWithout, HoldersLive, SlotExpires
  <1>3. OneSlotPerPod'
    BY SlotsAssumption DEF Election, SlotTypeOK, OneSlotPerPod, SlotExpires
  <1>4. QED  BY <1>1, <1>2, <1>3 DEF Election

\* Every step keeps the election, action by action.
LEMMA NextKeepsElection == Election /\ [SlotNext]_slotVars => Election'
  <1> SUFFICES ASSUME Election, [SlotNext]_slotVars  PROVE Election'  OBVIOUS
  <1>1. CASE UNCHANGED slotVars
    BY <1>1 DEF Election, SlotTypeOK, ScansWithout, HoldersLive, OneSlotPerPod, slotVars
  <1>2. CASE SlotNext
    BY <1>2, LifeKeepsElection, TickKeepsElection, FailureKeepsElection,
       ExpiryKeepsElection DEF SlotNext
  <1>3. QED  BY <1>1, <1>2

\* A live pod's name is on no slot but the one it thinks it holds, claims with
\* a lost reply apart: the SET XX of claimOrRefreshSlot writes to that slot
\* only, and the SET NX loop runs only while the pod has none and returns as
\* soon as it knows that it got one.
THEOREM SingleSlot == SlotSpec => []OneSlotPerPod
  <1>1. Election => OneSlotPerPod  BY DEF Election
  <1>2. QED  BY <1>1, InitElection, NextKeepsElection, PTL DEF SlotSpec

\* Every variable has its type: the slots a pod believes to hold, scans or
\* leaves behind are always among the slots there are.
THEOREM SlotTypeCorrect == SlotSpec => []SlotTypeOK
  <1>1. Election => SlotTypeOK  BY DEF Election
  <1>2. QED  BY <1>1, InitElection, NextKeepsElection, PTL DEF SlotSpec
=============================================================================
