---------------------- MODULE DynamicSecretLeaseProofs ----------------------
(***************************************************************************)
(* Safety of DynamicSecretLease: its types, the bound of a lifetime, that  *)
(* an account is revoked before its row is forgotten, that a lease has a   *)
(* job, and that the job and the row agree on when the lease ends.         *)
(***************************************************************************)
EXTENDS DynamicSecretLease, TLAPS

\* Whatever a lifetime is taken from is within maxTTL.
Bounded ==
  /\ \A l \in Leases : row[l].life <= MaxTTL
  /\ \A k \in Kinds : \A l \in Leases : job[k][l].after <= MaxTTL
  /\ \A r \in Requests : req[r].until <= MaxTTL

Born(l) == row[l].state # "unborn"

\* A request on a lease is on one that has had its row, unless it creates it; a
\* deletion of the secret has seen rows only.
Suits(q) ==
  /\ IF q.pc \in {"idle", "delete.flag", "delete.prune", "delete.row"}
       THEN q.lease = NoLease ELSE q.lease \in Leases
  /\ q.lease \in Leases /\ q.pc # "create.insert" => Born(q.lease)
  /\ \A l \in q.seen : Born(l)

\* Until its row is there, only the request that creates a lease knows of it.
Births ==
  /\ \A r \in Requests : Suits(req[r])
  /\ \A r \in Requests : At(r, "create.insert") =>
       /\ ~Born(req[r].lease)
       /\ \A s \in Requests : req[s].lease = req[r].lease => s = r
  /\ \A l \in prune.seen : Born(l)
  /\ \A k \in Kinds : \A l \in Leases : job[k][l].state # "none" => Born(l)

\* Who is about to delete the row of a lease, for itself or with its secret, knows
\* that its account was revoked, or gives it up.
AccountsFirst ==
  /\ \A r \in Requests :
       /\ req[r].pc \in {"revoke.unset", "revoke.row"} =>
            account[req[r].lease] # "live" \/ "forced" \in mark[req[r].lease]
       /\ At(r, "delete.row") => \A l \in req[r].seen : "forced" \in mark[l]
  /\ \A k \in Kinds : \A l \in Leases : job[k][l].state = "delete" => account[l] # "live"
  /\ prune.state = "delete" => \A l \in prune.seen : account[l] # "live"

\* The row of a lease and its job agree on its end, except between the steps of
\* the one request that changes both.
InStep(l) ==
  LET main == job["main"][l]
      Works(r, pcs) == req[r].lease = l /\ req[r].pc \in pcs IN
  /\ \A r, s \in Requests :
       /\ Works(r, {"create.schedule", "renew.unset", "renew.set", "renew.update"})
       /\ Works(s, {"create.schedule", "renew.unset", "renew.set", "renew.update"})
       => r = s
  /\ main.state # "none" /\ ~On(l, {"renew.set", "renew.update"}) => main.after = row[l].life
  /\ \A r \in Requests :
       /\ Works(r, {"create.schedule"}) => main.state = "none" /\ row[l].life = req[r].until
       /\ Works(r, {"renew.set"}) => main.state = "none"
       /\ Works(r, {"renew.update"}) /\ main.state # "none" => main.after = req[r].until

Undisputed(l) == mark[l] \cap {"cut", "contested"} = {}

RenewalsInStep == \A l \in Present : Undisputed(l) => InStep(l)

Leasing ==
  /\ TypeOK /\ Bounded /\ Births /\ AccountsFirst /\ NoForgottenAccount
  /\ EveryLeaseIsScheduled /\ RenewalsInStep

-----------------------------------------------------------------------------
(* Rows, jobs, requests and marks.                                         *)

\* The fields of what the variables hold.
LEMMA Fields ==
  ASSUME TypeOK
  PROVE  /\ \A l \in Leases : row[l] \in Row /\ row[l].life \in Nat
         /\ \A k \in Kinds : \A l \in Leases : job[k][l] \in Job /\ job[k][l].after \in Nat
         /\ \A r \in Requests : /\ req[r] \in Request /\ req[r].until \in Nat
                                /\ req[r].lease \in Leases \cup {NoLease}
                                /\ req[r].seen \subseteq Leases
         /\ prune.seen \subseteq Leases
         /\ "main" \in Kinds /\ "retry" \in Kinds
         /\ Present \subseteq Leases /\ MaxTTL \in Nat
  BY LeaseAssumption DEF TypeOK, Row, Job, Request, Prune, Kinds, Present

\* The records that stand for nothing.
LEMMA Blanks ==
  /\ Unborn \in Row /\ Unborn.state = "unborn" /\ Unborn.life = 0
  /\ Gone \in Row /\ Gone.state = "gone" /\ Gone.life = 0
  /\ NoJob \in Job /\ NoJob.state = "none" /\ NoJob.after = 0
  /\ NoPrune \in Prune /\ NoPrune.state = "none" /\ NoPrune.seen = {}
  /\ Idle \in Request /\ Idle.pc = "idle" /\ Idle.lease = NoLease
  /\ Idle.until = 0 /\ Idle.seen = {}
  <1>1. 0 \in 0..(Attempts - 1)  BY LeaseAssumption
  <1>2. Unborn \in Row /\ Unborn.state = "unborn" /\ Unborn.life = 0  BY DEF Unborn, Row
  <1>3. Gone \in Row /\ Gone.state = "gone" /\ Gone.life = 0  BY DEF Gone, Unborn, Row
  <1>4. NoJob \in Job /\ NoJob.state = "none" /\ NoJob.after = 0
    BY <1>1 DEF NoJob, Job
  <1>5. NoPrune \in Prune /\ NoPrune.state = "none" /\ NoPrune.seen = {}
    BY <1>1 DEF NoPrune, Prune
  <1>6. /\ Idle \in Request /\ Idle.pc = "idle" /\ Idle.lease = NoLease
        /\ Idle.until = 0 /\ Idle.seen = {}
    BY DEF Idle, Request
  <1>7. QED  BY <1>2, <1>3, <1>4, <1>5, <1>6

\* One job is put in the place of another.
LEMMA JobPut ==
  ASSUME NEW js \in [Kinds -> [Leases -> Job]], NEW k \in Kinds, NEW l \in Leases, NEW j \in Job
  PROVE  /\ [js EXCEPT ![k][l] = j] \in [Kinds -> [Leases -> Job]]
         /\ [js EXCEPT ![k][l] = j][k][l] = j
         /\ \A h \in Kinds : \A m \in Leases :
              h # k \/ m # l => [js EXCEPT ![k][l] = j][h][m] = js[h][m]
  OBVIOUS

\* An add fills a place that is empty, and changes no other.
LEMMA JobQueued ==
  ASSUME NEW js \in [Kinds -> [Leases -> Job]], NEW k \in Kinds, NEW l \in Leases,
         NEW after \in Nat
  PROVE  /\ Queued(js, k, l, after) \in [Kinds -> [Leases -> Job]]
         /\ js[k][l].state = "none" => /\ Queued(js, k, l, after)[k][l].state = "wait"
                                       /\ Queued(js, k, l, after)[k][l].after = after
         /\ js[k][l].state # "none" => Queued(js, k, l, after)[k][l] = js[k][l]
         /\ \A h \in Kinds : \A m \in Leases :
              h # k \/ m # l => Queued(js, k, l, after)[h][m] = js[h][m]
  <1> DEFINE j == [NoJob EXCEPT !.state = "wait", !.after = after]
  <1>1. j \in Job /\ j.state = "wait" /\ j.after = after
    <2>1. 0 \in 0..(Attempts - 1)  BY LeaseAssumption
    <2>2. QED  BY <2>1 DEF NoJob, Job
  <1> HIDE DEF j
  <1>2. CASE js[k][l].state = "none"
    <2>1. Queued(js, k, l, after) = [js EXCEPT ![k][l] = j]  BY <1>2 DEF Queued, j
    <2>2. QED  BY <1>1, <1>2, <2>1, JobPut
  <1>3. CASE js[k][l].state # "none"  BY <1>3 DEF Queued
  <1>4. QED  BY <1>2, <1>3

\* A removal empties the places whose job waits, and changes no other.
LEMMA JobStopped ==
  ASSUME NEW js \in [Kinds -> [Leases -> Job]], NEW ls \in SUBSET Leases
  PROVE  /\ Stopped(js, ls) \in [Kinds -> [Leases -> Job]]
         /\ \A l \in Leases :
              Stopped(js, ls)["main"][l]
                = IF l \in ls /\ js["main"][l].state = "wait" THEN NoJob ELSE js["main"][l]
         /\ \A l \in Leases : Stopped(js, ls)["retry"][l] = js["retry"][l]
  <1> DEFINE f == [l \in Leases |->
                     IF l \in ls /\ js["main"][l].state = "wait" THEN NoJob ELSE js["main"][l]]
  <1>1. "main" \in Kinds /\ "retry" \in Kinds  BY DEF Kinds
  <1>2. f \in [Leases -> Job]
    <2>1. \A l \in Leases : js["main"][l] \in Job  BY <1>1
    <2>2. QED  BY <2>1, Blanks
  <1>3. \A l \in Leases :
          f[l] = IF l \in ls /\ js["main"][l].state = "wait" THEN NoJob ELSE js["main"][l]
    OBVIOUS
  <1>4. Stopped(js, ls) = [js EXCEPT !["main"] = f]  BY DEF Stopped
  <1> HIDE DEF f
  <1>5. QED  BY <1>1, <1>2, <1>3, <1>4

\* A job that is to run again keeps its time.
LEMMA JobAgain ==
  ASSUME NEW j \in Job
  PROVE  /\ Again(j) \in Job
         /\ Again(j).state \in {"none", "wait"}
         /\ Again(j).state # "none" => Again(j).after = j.after
  <1>1. CASE j.made + 1 = Attempts  BY <1>1, Blanks DEF Again
  <1>2. CASE j.made + 1 # Attempts
    <2>1. j.made \in 0..(Attempts - 1)  BY DEF Job
    <2>2. j.made + 1 \in 0..(Attempts - 1)  BY <1>2, <2>1, LeaseAssumption
    <2>3. Again(j) = [j EXCEPT !.state = "wait", !.made = j.made + 1]  BY <1>2 DEF Again
    <2>4. [j EXCEPT !.state = "wait", !.made = j.made + 1] \in Job  BY <2>2 DEF Job
    <2>5. QED  BY <2>3, <2>4 DEF Job
  <1>3. QED  BY <1>1, <1>2

\* A flag changes neither the state of a row nor its life.
LEMMA RowFlagged ==
  ASSUME TypeOK, NEW l \in Leases, Flag(l)
  PROVE  /\ row' \in [Leases -> Row]
         /\ \A m \in Leases : row'[m].state = row[m].state /\ row'[m].life = row[m].life
         /\ \A m \in Leases : row[m].failed => row'[m].failed
         /\ l \in Present => row'[l].failed
  <1> DEFINE f == [row[l] EXCEPT !.failed = TRUE]
  <1>1. row \in [Leases -> Row] /\ row[l] \in Row  BY DEF TypeOK
  <1>2. f \in Row /\ f.state = row[l].state /\ f.life = row[l].life /\ f.failed
    BY <1>1 DEF Row
  <1>3. row' = row \/ row' = [row EXCEPT ![l] = f]  BY <1>1 DEF Flag
  <1>4. l \in Present => row' = [row EXCEPT ![l] = f]  BY <1>1 DEF Flag
  <1> HIDE DEF f
  <1>5. QED  BY <1>1, <1>2, <1>3, <1>4

\* Marks are only ever added.
LEMMA MarksAdded ==
  ASSUME TypeOK, NEW ls, NEW ms \in SUBSET Marks
  PROVE  /\ Marked(ls, ms) \in [Leases -> SUBSET Marks]
         /\ \A l \in Leases : mark[l] \subseteq Marked(ls, ms)[l]
         /\ \A l \in Leases : l \in ls => ms \subseteq Marked(ls, ms)[l]
  BY DEF TypeOK, Marked

\* A request that begins, goes on or answers leaves the others alone.
LEMMA RequestBegun ==
  ASSUME TypeOK, NEW r \in Requests, NEW pc, NEW l \in Leases \cup {NoLease},
         NEW until \in Nat, NEW seen \in SUBSET Leases, Begin(r, pc, l, until, seen),
         [pc |-> pc, lease |-> l, until |-> until, seen |-> seen] \in Request
  PROVE  /\ req' \in [Requests -> Request] /\ asked' \in 0..MaxAsked
         /\ req[r].pc = "idle"
         /\ req'[r].pc = pc /\ req'[r].lease = l /\ req'[r].until = until
         /\ req'[r].seen = seen
         /\ \A s \in Requests : s # r => req'[s] = req[s]
  BY LeaseAssumption DEF TypeOK, Begin, At

\* One that goes on is about the same lease, until the same time.
LEMMA RequestGoes ==
  ASSUME TypeOK, NEW r \in Requests, NEW pc, Goto(r, pc),
         pc \in {"create.schedule", "renew.set", "renew.update", "revoke.retry", "revoke.row",
                 "delete.prune"}
  PROVE  /\ req' \in [Requests -> Request] /\ asked' = asked
         /\ req'[r].pc = pc /\ req'[r].lease = req[r].lease
         /\ req'[r].until = req[r].until /\ req'[r].seen = req[r].seen
         /\ \A s \in Requests : s # r => req'[s] = req[s]
  <1> DEFINE q == [req[r] EXCEPT !.pc = pc]
  <1>1. req \in [Requests -> Request] /\ req[r] \in Request  BY DEF TypeOK
  <1>2. /\ q \in Request /\ q.pc = pc /\ q.lease = req[r].lease
        /\ q.until = req[r].until /\ q.seen = req[r].seen
    BY <1>1 DEF Request
  <1>3. req' = [req EXCEPT ![r] = q] /\ asked' = asked  BY <1>1 DEF Goto
  <1> HIDE DEF q
  <1>4. QED  BY <1>1, <1>2, <1>3

\* One that answers is idle.
LEMMA RequestAnswered ==
  ASSUME TypeOK, NEW r \in Requests, Answer(r)
  PROVE  /\ req' \in [Requests -> Request] /\ asked' = asked
         /\ req'[r] = Idle
         /\ \A s \in Requests : s # r => req'[s] = req[s]
  BY Blanks DEF TypeOK, Answer

-----------------------------------------------------------------------------
(* What a step must show that creates no row and no account.               *)

\* A request whose step this is: it suits its lease, deletes no row before the
\* account is dealt with, and leaves its lease a job, or no row, if it took it away.
MovesOn(s) ==
  LET l == req[s].lease
      q == req'[s] IN
  /\ ~At(s, "create.insert") /\ q.pc # "create.insert"
  /\ Suits(q) /\ q.until <= MaxTTL
  /\ q.pc \in {"revoke.unset", "revoke.row"} =>
       account'[q.lease] # "live" \/ "forced" \in mark'[q.lease]
  /\ q.pc = "delete.row" => \A m \in q.seen : "forced" \in mark'[m]
  /\ req[s].pc \in {"create.schedule", "renew.set"} =>
       job'["main"][l].state # "none" \/ "cut" \in mark'[l]
  /\ req[s].pc = "revoke.row" => row'[l].state # "present" \/ "cut" \in mark'[l]

\* A row that goes is one whose account is dealt with.
RowEnds(l) ==
  /\ l \in Present /\ row'[l].state = "gone" /\ row'[l].life = 0
  /\ account'[l] = "live" => mark'[l] \cap {"cut", "forced", "overlooked"} # {}

\* One that stays may be flagged, or live longer, within the bound.
RowStays(l) ==
  /\ row'[l].state = row[l].state /\ row'[l].life <= MaxTTL
  /\ l \in Present /\ row[l].failed => row'[l].failed

\* A main job that ends leaves a row that is gone or flagged, or a request that
\* will queue it again or delete the row, or a mark.
MainEnds(l) ==
  \/ row'[l].state # "present" \/ row'[l].failed
  \/ mark'[l] \cap {"cut", "stripped", "silent"} # {}
  \/ \E s \in Requests : req'[s].lease = l /\ req'[s].pc \in {"renew.set", "revoke.row"}

\* A row that is deleted goes, and the others stay.
LEMMA RowDeleted ==
  ASSUME TypeOK, Bounded, NEW l \in Leases, Born(l), row' = [row EXCEPT ![l] = Gone],
         account'[l] = "live" => mark'[l] \cap {"cut", "forced", "overlooked"} # {}
  PROVE  /\ row' \in [Leases -> Row] /\ row'[l] = Gone
         /\ \A m \in Leases : m # l => row'[m] = row[m]
         /\ \A m \in Leases :
              \/ RowEnds(m)
              \/ RowStays(m) /\ (m \in Present => row'[m].life = row[m].life)
  <1>1. /\ row' \in [Leases -> Row] /\ row'[l] = Gone
        /\ \A m \in Leases : m # l => row'[m] = row[m]
    BY Blanks DEF TypeOK
  <1>2. ASSUME NEW m \in Leases, m # l
        PROVE  RowStays(m) /\ (m \in Present => row'[m].life = row[m].life)
    BY <1>1, <1>2 DEF RowStays, Bounded
  <1>3. l \in Present => RowEnds(l)  BY <1>1, Blanks DEF RowEnds
  <1>4. l \notin Present => RowStays(l)
    <2>1. l \notin Present => row[l].state = "gone"  BY Fields DEF Row, Present, Born
    <2>2. QED  BY <1>1, <2>1, Blanks, LeaseAssumption DEF RowStays
  <1>5. QED  BY <1>1, <1>2, <1>3, <1>4

\* With that, such a step keeps all of the invariant that does not speak of time.
LEMMA StepKeeps ==
  ASSUME TypeOK, Bounded, Births, AccountsFirst, NoForgottenAccount, EveryLeaseIsScheduled,
         req' \in [Requests -> Request],
         \A l \in Leases : mark[l] \subseteq mark'[l],
         \A l \in Leases : account'[l] = "live" => account[l] = "live",
         \A l \in Leases : RowEnds(l) \/ RowStays(l),
         \A s \in Requests : req'[s] = req[s] \/ MovesOn(s),
         \A k \in Kinds : \A l \in Leases :
           /\ job'[k][l].after <= MaxTTL
           /\ job'[k][l].state # "none" => job[k][l].state # "none" \/ Born(l)
           /\ job'[k][l].state = "delete" => job[k][l].state = "delete" \/ account'[l] # "live",
         \A l \in Leases :
           job["main"][l].state # "none" /\ job'["main"][l].state = "none" => MainEnds(l),
         \A l \in prune'.seen : l \in Leases /\ Born(l),
         prune'.state = "delete" => \A l \in prune'.seen : account'[l] # "live"
  PROVE  Bounded' /\ Births' /\ AccountsFirst' /\ NoForgottenAccount' /\ EveryLeaseIsScheduled'
  <1>1. /\ \A s \in Requests : req[s].seen \subseteq Leases
                               /\ req[s].lease \in Leases \cup {NoLease}
        /\ prune.seen \subseteq Leases /\ "main" \in Kinds
    BY Fields
  <1>2. \A l \in Leases : Born(l)' <=> Born(l)
    BY DEF Born, RowEnds, RowStays, Present
  <1>3. Bounded'
    <2>1. \A l \in Leases : row'[l].life <= MaxTTL
      BY LeaseAssumption DEF RowEnds, RowStays
    <2>2. \A s \in Requests : req'[s].until <= MaxTTL  BY DEF Bounded, MovesOn
    <2>3. QED  BY <2>1, <2>2 DEF Bounded
  <1>4. \A s \in Requests : Suits(req'[s])  BY DEF Births, MovesOn
  <1>5. Births'
    <2>1. \A s \in Requests : Suits(req[s])'
      <3>1. TAKE s \in Requests
      <3>2. \A l \in req'[s].seen : l \in Leases
        BY DEF Request
      <3>3. QED  BY <1>2, <1>4, <3>2 DEF Suits
    <2>2. ASSUME NEW s \in Requests, At(s, "create.insert")'
          PROVE  /\ ~Born(req[s].lease)'
                 /\ \A t \in Requests : req'[t].lease = req'[s].lease => t = s
      <3>1. req'[s] = req[s] /\ At(s, "create.insert")  BY <2>2 DEF MovesOn, At
      <3>2. /\ ~Born(req[s].lease) /\ req[s].lease \in Leases
            /\ \A t \in Requests : req[t].lease = req[s].lease => t = s
        BY <3>1 DEF Births, Suits, At
      <3>3. \A t \in Requests : t # s /\ req'[t].lease = req[s].lease => FALSE
        <4>1. SUFFICES ASSUME NEW t \in Requests, t # s, req'[t].lease = req[s].lease
                       PROVE  FALSE
          OBVIOUS
        <4>2. MovesOn(t)  BY <3>2, <4>1
        <4>3. Born(req[s].lease)  BY <3>2, <4>1, <4>2 DEF MovesOn, Suits
        <4>4. QED  BY <3>2, <4>3
      <3>4. QED  BY <1>2, <3>1, <3>2, <3>3
    <2>3. \A l \in prune'.seen : Born(l)'  BY <1>2
    <2>4. \A k \in Kinds : \A l \in Leases : job'[k][l].state # "none" => Born(l)'
      BY <1>2 DEF Births
    <2>5. QED  BY <2>1, <2>2, <2>3, <2>4 DEF Births
  <1>6. AccountsFirst'
    <2>1. ASSUME NEW s \in Requests
          PROVE  /\ req'[s].pc \in {"revoke.unset", "revoke.row"} =>
                      account'[req'[s].lease] # "live" \/ "forced" \in mark'[req'[s].lease]
                 /\ req'[s].pc = "delete.row" => \A m \in req'[s].seen : "forced" \in mark'[m]
      <3>1. CASE MovesOn(s)  BY <3>1 DEF MovesOn
      <3>2. CASE req'[s] = req[s]
        <4>1. req[s].pc \in {"revoke.unset", "revoke.row"} => req[s].lease \in Leases
          BY DEF Births, Suits
        <4>2. QED  BY <1>1, <3>2, <4>1 DEF AccountsFirst, At
      <3>3. QED  BY <3>1, <3>2
    <2>2. \A k \in Kinds : \A l \in Leases : job'[k][l].state = "delete" => account'[l] # "live"
      BY DEF AccountsFirst
    <2>3. QED  BY <2>1, <2>2 DEF AccountsFirst, At
  <1>7. NoForgottenAccount'
    <2>1. SUFFICES ASSUME NEW l \in Leases, account'[l] = "live", row'[l].state # "present",
                          mark'[l] \cap {"cut", "forced", "overlooked"} = {}
                   PROVE  \E s \in Requests : req'[s].lease = l /\ req'[s].pc \in {"create.insert"}
      BY DEF NoForgottenAccount, On
    <2>2. account[l] = "live" /\ row[l].state # "present"
          /\ mark[l] \cap {"cut", "forced", "overlooked"} = {}
      BY <2>1 DEF RowEnds, RowStays
    <2>3. PICK s \in Requests : req[s].lease = l /\ req[s].pc = "create.insert"
      BY <2>2 DEF NoForgottenAccount, On
    <2>4. req'[s] = req[s]  BY <2>3 DEF MovesOn, At
    <2>5. QED  BY <2>3, <2>4
  <1>8. EveryLeaseIsScheduled'
    <2>1. SUFFICES ASSUME NEW l \in Leases, row'[l].state = "present", ~row'[l].failed,
                          job'["main"][l].state = "none",
                          mark'[l] \cap {"cut", "stripped", "silent"} = {}
                   PROVE  \E s \in Requests :
                            req'[s].lease = l /\ req'[s].pc \in {"create.schedule", "renew.set", "revoke.row"}
      BY DEF EveryLeaseIsScheduled, Present, Failed, On
    <2>2. row[l].state = "present" /\ ~row[l].failed /\ mark[l] \cap {"cut", "stripped", "silent"} = {}
      BY <2>1 DEF RowEnds, RowStays, Present
    <2>3. CASE job["main"][l].state # "none"  BY <2>1, <2>3 DEF MainEnds
    <2>4. CASE job["main"][l].state = "none"
      <3>1. PICK s \in Requests :
              req[s].lease = l /\ req[s].pc \in {"create.schedule", "renew.set", "revoke.row"}
        BY <2>2, <2>4 DEF EveryLeaseIsScheduled, Present, Failed, On
      <3>2. req'[s] = req[s]  BY <2>1, <3>1 DEF MovesOn
      <3>3. QED  BY <3>1, <3>2
    <2>5. QED  BY <2>3, <2>4
  <1>9. QED  BY <1>3, <1>5, <1>6, <1>7, <1>8

\* A lease stays in step while only others' requests and jobs change, and its own
\* job may go or run.
LEMMA InStepStays ==
  ASSUME NEW l \in Leases, InStep(l), row'[l].life = row[l].life,
         job'["main"][l].state # "none" =>
           job["main"][l].state # "none" /\ job'["main"][l].after = job["main"][l].after,
         \A s \in Requests :
           \/ req'[s] = req[s]
           \/ /\ req[s].lease = l => req[s].pc \notin {"renew.set", "renew.update"}
              /\ req'[s].lease = l =>
                   req'[s].pc \notin {"create.schedule", "renew.unset", "renew.set",
                                      "renew.update"}
  PROVE  InStep(l)'
  <1>1. /\ \A r, s \in Requests :
             /\ req[r].lease = l
             /\ req[r].pc \in {"create.schedule", "renew.unset", "renew.set", "renew.update"}
             /\ req[s].lease = l
             /\ req[s].pc \in {"create.schedule", "renew.unset", "renew.set", "renew.update"}
             => r = s
        /\ job["main"][l].state # "none" /\ ~On(l, {"renew.set", "renew.update"})
             => job["main"][l].after = row[l].life
        /\ \A r \in Requests : req[r].lease = l =>
             /\ req[r].pc = "create.schedule" =>
                  job["main"][l].state = "none" /\ row[l].life = req[r].until
             /\ req[r].pc = "renew.set" => job["main"][l].state = "none"
             /\ req[r].pc = "renew.update" /\ job["main"][l].state # "none" =>
                  job["main"][l].after = req[r].until
    BY DEF InStep
  <1>2. \A s \in Requests :
          /\ req'[s].lease = l
          /\ req'[s].pc \in {"create.schedule", "renew.unset", "renew.set", "renew.update"}
          => req'[s] = req[s]
    OBVIOUS
  <1>3. On(l, {"renew.set", "renew.update"}) => On(l, {"renew.set", "renew.update"})'
    BY DEF On
  <1>4. QED  BY <1>1, <1>2, <1>3 DEF InStep

\* So it is enough to look at the leases whose request or row a step changes.
LEMMA RenewalsStay ==
  ASSUME RenewalsInStep,
         \A l \in Leases : mark[l] \subseteq mark'[l],
         \A l \in Leases : row'[l].state = "present" /\ Undisputed(l)' =>
           \/ InStep(l)'
           \/ /\ row[l].state = "present" /\ row'[l].life = row[l].life
              /\ job'["main"][l].state # "none" =>
                   /\ job["main"][l].state # "none"
                   /\ job'["main"][l].after = job["main"][l].after
              /\ \A s \in Requests :
                   \/ req'[s] = req[s]
                   \/ /\ req[s].lease = l => req[s].pc \notin {"renew.set", "renew.update"}
                      /\ req'[s].lease = l =>
                           req'[s].pc \notin {"create.schedule", "renew.unset", "renew.set",
                                              "renew.update"}
  PROVE  RenewalsInStep'
  <1>1. SUFFICES ASSUME NEW l \in Leases, row'[l].state = "present", Undisputed(l)'
                 PROVE  InStep(l)'
    BY DEF RenewalsInStep, Present
  <1>2. SUFFICES ASSUME ~(InStep(l)')  PROVE FALSE
    OBVIOUS
  <1>3. l \in Present /\ Undisputed(l)  BY <1>1, <1>2 DEF Present, Undisputed
  <1>4. InStep(l)  BY <1>3 DEF RenewalsInStep
  <1>5. QED  BY <1>1, <1>2, <1>4, InStepStays

-----------------------------------------------------------------------------
(* The revocation jobs.                                                    *)

\* A step of a revocation job: it queues no main job, it touches the row of its own
\* lease only, and no request.
LEMMA RevocationKeeps ==
  ASSUME Leasing, NEW l \in Leases,
         UNCHANGED <<config, prune, req, asked>>,
         row' \in [Leases -> Row], job' \in [Kinds -> [Leases -> Job]],
         account' \in {account, [account EXCEPT ![l] = "revoked"]},
         alerted' \subseteq Leases, faults' \in 0..MaxFaults,
         mark' \in [Leases -> SUBSET Marks],
         \A m \in Leases : mark[m] \subseteq mark'[m],
         \A m \in Leases :
           \/ RowEnds(m)
           \/ RowStays(m) /\ (m \in Present => row'[m].life = row[m].life),
         \A k \in Kinds : \A m \in Leases :
           /\ job'[k][m].after <= MaxTTL
           /\ job'[k][m].state # "none" => job[k][m].state # "none" \/ Born(m)
           /\ job'[k][m].state = "delete" => job[k][m].state = "delete" \/ account'[m] # "live",
         \A m \in Leases : job'["main"][m].state # "none" =>
           job["main"][m].state # "none" /\ job'["main"][m].after = job["main"][m].after,
         \A m \in Leases :
           job["main"][m].state # "none" /\ job'["main"][m].state = "none" => MainEnds(m)
  PROVE  Leasing'
  <1>1. TypeOK /\ Bounded /\ Births /\ AccountsFirst /\ NoForgottenAccount
        /\ EveryLeaseIsScheduled /\ RenewalsInStep
    BY DEF Leasing
  <1>2. TypeOK'
    <2>1. account' \in [Leases -> {"none", "live", "revoked"}]  BY <1>1 DEF TypeOK
    <2>2. QED  BY <1>1, <2>1 DEF TypeOK
  <1>3. \A m \in Leases : account'[m] = "live" => account[m] = "live"
    BY <1>1 DEF TypeOK
  <1>5. \A m \in prune'.seen : m \in Leases /\ Born(m)  BY <1>1, Fields DEF Births
  <1>6. prune'.state = "delete" => \A m \in prune'.seen : account'[m] # "live"
    BY <1>1, <1>3, Fields DEF AccountsFirst
  <1>7. Bounded' /\ Births' /\ AccountsFirst' /\ NoForgottenAccount' /\ EveryLeaseIsScheduled'
    <2>1. req' \in [Requests -> Request] /\ \A s \in Requests : req'[s] = req[s]
      BY <1>1 DEF TypeOK
    <2>2. QED  BY <1>1, <1>3, <1>5, <1>6, <2>1, StepKeeps
  <1>8. RenewalsInStep'
    <2>1. \A m \in Leases : row'[m].state = "present" =>
            row[m].state = "present" /\ row'[m].life = row[m].life
      BY DEF RowEnds, RowStays, Present
    <2>2. QED  BY <1>1, <2>1, RenewalsStay
  <1>9. QED  BY <1>2, <1>7, <1>8 DEF Leasing

\* A job that starts with a row to revoke, and one that finds none.
LEMMA JobStartKeeps ==
  ASSUME Leasing, NEW k \in Kinds, NEW l \in Leases, JobStart(k, l)
  PROVE  Leasing'
  <1> DEFINE j == IF l \in Present THEN [job[k][l] EXCEPT !.state = "revoke"] ELSE NoJob
  <1>1. TypeOK /\ Bounded  BY DEF Leasing
  <1>2. /\ job[k][l].state = "wait" /\ job' = [job EXCEPT ![k][l] = j]
        /\ UNCHANGED <<config, row, account, prune, req, asked, alerted, mark, faults>>
    <2>1. job \in [Kinds -> [Leases -> Job]]  BY <1>1 DEF TypeOK
    <2>2. QED  BY <2>1 DEF JobStart
  <1>3. /\ j \in Job /\ j.state # "delete"
        /\ j.state # "none" => j.after = job[k][l].after
        /\ j.state = "none" => l \notin Present
        /\ j.after <= MaxTTL
    <2>1. job[k][l] \in Job /\ job[k][l].after <= MaxTTL  BY <1>1, Fields DEF Bounded
    <2>2. CASE l \in Present
      <3>1. [job[k][l] EXCEPT !.state = "revoke"] \in Job  BY <2>1 DEF Job
      <3>2. QED  BY <2>1, <2>2, <3>1 DEF Job
    <2>3. CASE l \notin Present  BY <2>3, Blanks, LeaseAssumption
    <2>4. QED  BY <2>2, <2>3
  <1> HIDE DEF j
  <1>4. /\ job' \in [Kinds -> [Leases -> Job]] /\ job'[k][l] = j
        /\ \A h \in Kinds : \A m \in Leases : h # k \/ m # l => job'[h][m] = job[h][m]
    BY <1>1, <1>2, <1>3, JobPut DEF TypeOK
  <1>5. \A h \in Kinds : \A m \in Leases :
          /\ job'[h][m].after <= MaxTTL
          /\ job'[h][m].state # "none" =>
               job[h][m].state # "none" /\ job'[h][m].after = job[h][m].after
          /\ job'[h][m].state = "delete" => job[h][m].state = "delete"
    BY <1>1, <1>2, <1>3, <1>4 DEF Bounded
  <1>6. \A m \in Leases :
          job["main"][m].state # "none" /\ job'["main"][m].state = "none" => MainEnds(m)
    BY <1>1, <1>2, <1>3, <1>4, Fields DEF MainEnds, Present
  <1>7. QED
    <2>1. \A m \in Leases :
            row'[m] = row[m] /\ RowStays(m) /\ mark[m] \subseteq mark'[m]
      BY <1>1, <1>2 DEF RowStays, Bounded
    <2>2. "main" \in Kinds  BY <1>1, Fields
    <2>3. row' \in [Leases -> Row] /\ alerted' \subseteq Leases /\ faults' \in 0..MaxFaults
          /\ mark' \in [Leases -> SUBSET Marks]
      BY <1>1, <1>2 DEF TypeOK
    <2>4. QED  BY <1>2, <1>4, <1>5, <1>6, <2>1, <2>2, <2>3, RevocationKeeps

\* The account is revoked.
LEMMA JobRevokeKeeps ==
  ASSUME Leasing, NEW k \in Kinds, NEW l \in Leases, JobRevoke(k, l)
  PROVE  Leasing'
  <1> DEFINE j == [job[k][l] EXCEPT !.state = "delete"]
  <1>1. TypeOK /\ Bounded  BY DEF Leasing
  <1>2. /\ job[k][l].state = "revoke" /\ job' = [job EXCEPT ![k][l] = j]
        /\ account' = [account EXCEPT ![l] = "revoked"]
        /\ UNCHANGED <<config, row, prune, req, asked, alerted, mark, faults>>
    <2>1. job \in [Kinds -> [Leases -> Job]]  BY <1>1 DEF TypeOK
    <2>2. QED  BY <2>1 DEF JobRevoke
  <1>3. j \in Job /\ j.state = "delete" /\ j.after = job[k][l].after
    <2>1. job[k][l] \in Job  BY <1>1, Fields
    <2>2. j \in Job  BY <2>1 DEF Job
    <2>3. QED  BY <2>1, <2>2 DEF Job
  <1> HIDE DEF j
  <1>4. /\ job' \in [Kinds -> [Leases -> Job]] /\ job'[k][l] = j
        /\ \A h \in Kinds : \A m \in Leases : h # k \/ m # l => job'[h][m] = job[h][m]
    BY <1>1, <1>2, <1>3, JobPut DEF TypeOK
  <1>5. account'[l] = "revoked"  BY <1>1, <1>2 DEF TypeOK
  <1>6. \A h \in Kinds : \A m \in Leases :
          /\ job'[h][m].after <= MaxTTL
          /\ job'[h][m].state # "none" =>
               job[h][m].state # "none" /\ job'[h][m].after = job[h][m].after
          /\ job'[h][m].state = "delete" => job[h][m].state = "delete" \/ account'[m] # "live"
    BY <1>1, <1>2, <1>3, <1>4, <1>5 DEF Bounded
  <1>7. \A m \in Leases : job["main"][m].state # "none" => job'["main"][m].state # "none"
    BY <1>1, <1>3, <1>4, Fields
  <1>8. QED
    <2>1. \A m \in Leases :
            row'[m] = row[m] /\ RowStays(m) /\ mark[m] \subseteq mark'[m]
      BY <1>1, <1>2 DEF RowStays, Bounded
    <2>2. "main" \in Kinds  BY <1>1, Fields
    <2>3. row' \in [Leases -> Row] /\ alerted' \subseteq Leases /\ faults' \in 0..MaxFaults
          /\ mark' \in [Leases -> SUBSET Marks]
      BY <1>1, <1>2 DEF TypeOK
    <2>4. QED  BY <1>2, <1>4, <1>6, <1>7, <2>1, <2>2, <2>3, RevocationKeeps

\* The row is deleted once it is.
LEMMA JobDeleteKeeps ==
  ASSUME Leasing, NEW k \in Kinds, NEW l \in Leases, JobDelete(k, l)
  PROVE  Leasing'
  <1>1. TypeOK /\ Bounded  BY DEF Leasing
  <1>2. /\ job[k][l].state = "delete" /\ job' = [job EXCEPT ![k][l] = NoJob]
        /\ row' = [row EXCEPT ![l] = Gone]
        /\ UNCHANGED <<config, account, prune, req, asked, alerted, mark, faults>>
    BY DEF JobDelete
  <1>3. /\ job' \in [Kinds -> [Leases -> Job]] /\ job'[k][l] = NoJob
        /\ \A h \in Kinds : \A m \in Leases : h # k \/ m # l => job'[h][m] = job[h][m]
    BY <1>1, <1>2, Blanks, JobPut DEF TypeOK
  <1>4. account'[l] # "live" /\ Born(l)
    BY <1>2 DEF Leasing, AccountsFirst, Births
  <1>5. /\ row' \in [Leases -> Row] /\ row'[l] = Gone
        /\ \A m \in Leases :
             \/ RowEnds(m)
             \/ RowStays(m) /\ (m \in Present => row'[m].life = row[m].life)
    BY <1>1, <1>2, <1>4, RowDeleted
  <1>6. \A h \in Kinds : \A m \in Leases :
          /\ job'[h][m].after <= MaxTTL
          /\ job'[h][m].state # "none" =>
               job[h][m].state # "none" /\ job'[h][m].after = job[h][m].after
          /\ job'[h][m].state = "delete" => job[h][m].state = "delete"
    BY <1>1, <1>2, <1>3, Blanks, LeaseAssumption DEF Bounded
  <1>7. \A m \in Leases :
          job["main"][m].state # "none" /\ job'["main"][m].state = "none" => MainEnds(m)
    BY <1>1, <1>3, <1>5, Blanks, Fields DEF MainEnds
  <1>8. QED
    <2>1. \A m \in Leases : mark[m] \subseteq mark'[m]  BY <1>2
    <2>2. "main" \in Kinds  BY <1>1, Fields
    <2>3. alerted' \subseteq Leases /\ faults' \in 0..MaxFaults
          /\ mark' \in [Leases -> SUBSET Marks]
      BY <1>1, <1>2 DEF TypeOK
    <2>4. QED  BY <1>2, <1>3, <1>5, <1>6, <1>7, <2>1, <2>2, <2>3, RevocationKeeps

\* A failed attempt of a job flags the row, and the job waits or is gone.
LEMMA FailureKeeps ==
  ASSUME Leasing, NEW k \in Kinds, NEW l \in Leases, ProviderFails(k, l), Flag(l),
         job' \in [Kinds -> [Leases -> Job]], job'[k][l] = Again(job[k][l]),
         \A h \in Kinds : \A m \in Leases : h # k \/ m # l =>
           \/ job'[h][m] = job[h][m]
           \/ /\ m = l /\ job'[h][m].state \in {"none", "wait"} /\ job'[h][m].after <= MaxTTL
              /\ h = "main" => job'[h][m].state = "none",
         alerted' \subseteq Leases,
         UNCHANGED <<config, prune, req, asked, mark, faults>>
  PROVE  Leasing'
  <1>1. TypeOK /\ Bounded  BY DEF Leasing
  <1> DEFINE j == Again(job[k][l])
  <1>2. job[k][l].state = "revoke" /\ Born(l)
    BY DEF ProviderFails, Leasing, Births
  <1>3. /\ j \in Job /\ j.state \in {"none", "wait"}
        /\ j.state # "none" => j.after = job[k][l].after
        /\ j.after <= MaxTTL
    <2>1. job[k][l] \in Job /\ job[k][l].after <= MaxTTL  BY <1>1, Fields DEF Bounded
    <2>2. /\ j \in Job /\ j.state \in {"none", "wait"}
          /\ j.state # "none" => j.after = job[k][l].after
      BY <2>1, JobAgain
    <2>3. j.after <= MaxTTL
      <3>1. CASE job[k][l].made + 1 = Attempts  BY <3>1, Blanks, LeaseAssumption DEF Again
      <3>2. CASE job[k][l].made + 1 # Attempts
        <4>1. Again(job[k][l]).after = job[k][l].after  BY <2>1, <3>2 DEF Again, Job
        <4>2. QED  BY <2>1, <4>1
      <3>3. QED  BY <3>1, <3>2
    <2>4. QED  BY <2>2, <2>3
  <1>5. job'[k][l] = j  OBVIOUS
  <1> HIDE DEF j
  <1>6. \A h \in Kinds : \A m \in Leases :
          /\ job'[h][m].after <= MaxTTL
          /\ job'[h][m].state # "none" => job[h][m].state # "none" \/ Born(m)
          /\ job'[h][m].state = "delete" => job[h][m].state = "delete"
          /\ h = "main" /\ job'[h][m].state # "none" =>
               job[h][m].state # "none" /\ job'[h][m].after = job[h][m].after
          /\ h = "main" /\ m # l => job'[h][m] = job[h][m]
    BY <1>1, <1>2, <1>3, <1>5 DEF Bounded
  <1>7. /\ row' \in [Leases -> Row]
        /\ \A m \in Leases : RowStays(m) /\ row'[m].life = row[m].life
        /\ l \in Present => row'[l].failed
        /\ l \notin Present => row'[l].state # "present"
    <2>1. /\ row' \in [Leases -> Row]
          /\ \A m \in Leases : row'[m].state = row[m].state /\ row'[m].life = row[m].life
          /\ \A m \in Leases : row[m].failed => row'[m].failed
          /\ l \in Present => row'[l].failed
      BY <1>1, RowFlagged
    <2>2. QED  BY <1>1, <2>1 DEF RowStays, Bounded, Present
  <1>8. \A m \in Leases :
          job["main"][m].state # "none" /\ job'["main"][m].state = "none" => MainEnds(m)
    BY <1>1, <1>6, <1>7, Fields DEF MainEnds
  <1>9. account' \in {account, [account EXCEPT ![l] = "revoked"]}
    BY DEF ProviderFails
  <1>10. QED
    <2>1. \A m \in Leases : mark[m] \subseteq mark'[m]  OBVIOUS
    <2>2. "main" \in Kinds  BY <1>1, Fields
    <2>3. faults' \in 0..MaxFaults /\ mark' \in [Leases -> SUBSET Marks]
      BY <1>1 DEF TypeOK
    <2>4. QED  BY <1>5, <1>6, <1>7, <1>8, <1>9, <2>1, <2>2, <2>3, RevocationKeeps

\* The main job hands over to the retry job.
LEMMA MainFailsKeeps ==
  ASSUME Leasing, NEW l \in Leases, MainFails(l)
  PROVE  Leasing'
  <1> DEFINE js == Queued(job, "retry", l, 0)
  <1>1. TypeOK /\ "main" \in Kinds /\ "retry" \in Kinds /\ job \in [Kinds -> [Leases -> Job]]
    BY Fields DEF Leasing, TypeOK
  <1>2. /\ js \in [Kinds -> [Leases -> Job]]
        /\ \A h \in Kinds : \A m \in Leases :
             \/ js[h][m] = job[h][m]
             \/ /\ m = l /\ js[h][m].state = "wait" /\ js[h][m].after = 0
                /\ h # "main"
        /\ js["main"][l] = job["main"][l]
    <2>1. /\ js \in [Kinds -> [Leases -> Job]]
          /\ job["retry"][l].state = "none" =>
               js["retry"][l].state = "wait" /\ js["retry"][l].after = 0
          /\ job["retry"][l].state # "none" => js["retry"][l] = job["retry"][l]
          /\ \A h \in Kinds : \A m \in Leases :
               h # "retry" \/ m # l => js[h][m] = job[h][m]
      BY <1>1, JobQueued
    <2> HIDE DEF js
    <2>2. QED  BY <1>1, <2>1
  <1>3. /\ ProviderFails("main", l) /\ Flag(l)
        /\ job' = [js EXCEPT !["main"][l] = Again(job["main"][l])]
        /\ UNCHANGED <<config, prune, req, asked, alerted, mark, faults>>
    BY <1>1, <1>2 DEF MainFails
  <1> HIDE DEF js
  <1>4. /\ job' \in [Kinds -> [Leases -> Job]] /\ job'["main"][l] = Again(job["main"][l])
        /\ \A h \in Kinds : \A m \in Leases : h # "main" \/ m # l =>
             \/ job'[h][m] = job[h][m]
             \/ /\ m = l /\ job'[h][m].state \in {"none", "wait"} /\ job'[h][m].after <= MaxTTL
                /\ h = "main" => job'[h][m].state = "none"
    <2>1. Again(job["main"][l]) \in Job  BY <1>1, JobAgain
    <2>2. /\ job' \in [Kinds -> [Leases -> Job]] /\ job'["main"][l] = Again(job["main"][l])
          /\ \A h \in Kinds : \A m \in Leases : h # "main" \/ m # l => job'[h][m] = js[h][m]
      BY <1>1, <1>2, <1>3, <2>1, JobPut
    <2>3. QED  BY <1>2, <2>2, Blanks, LeaseAssumption
  <1>5. alerted' \subseteq Leases  BY <1>1, <1>3 DEF TypeOK
  <1>6. QED  BY <1>1, <1>2, <1>3, <1>4, <1>5, FailureKeeps

\* The retry job ends by stopping the main job.
LEMMA RetryFailsKeeps ==
  ASSUME Leasing, NEW l \in Leases, RetryFails(l)
  PROVE  Leasing'
  <1> DEFINE last == job["retry"][l].made + 1 = Attempts
             js == IF last THEN Stopped(job, {l}) ELSE job
  <1>1. TypeOK /\ "main" \in Kinds /\ "retry" \in Kinds /\ job \in [Kinds -> [Leases -> Job]]
    BY Fields DEF Leasing, TypeOK
  <1>2. /\ js \in [Kinds -> [Leases -> Job]]
        /\ \A h \in Kinds : \A m \in Leases :
             js[h][m] = job[h][m] \/ (m = l /\ h = "main" /\ js[h][m] = NoJob)
        /\ js["retry"][l] = job["retry"][l]
    <2>1. /\ Stopped(job, {l}) \in [Kinds -> [Leases -> Job]]
          /\ \A m \in Leases :
               Stopped(job, {l})["main"][m]
                 = IF m \in {l} /\ job["main"][m].state = "wait" THEN NoJob ELSE job["main"][m]
          /\ \A m \in Leases : Stopped(job, {l})["retry"][m] = job["retry"][m]
      BY <1>1, JobStopped
    <2>2. QED  BY <1>1, <2>1 DEF Kinds
  <1>3. /\ ProviderFails("retry", l) /\ Flag(l)
        /\ job' = [js EXCEPT !["retry"][l] = Again(job["retry"][l])]
        /\ alerted' = IF last THEN alerted \cup {l} ELSE alerted
        /\ UNCHANGED <<config, prune, req, asked, mark, faults>>
    BY <1>1, <1>2 DEF RetryFails
  <1>4. alerted' \subseteq Leases  BY <1>1, <1>3 DEF TypeOK
  <1> HIDE DEF js, last
  <1>5. /\ job' \in [Kinds -> [Leases -> Job]] /\ job'["retry"][l] = Again(job["retry"][l])
        /\ \A h \in Kinds : \A m \in Leases : h # "retry" \/ m # l =>
             \/ job'[h][m] = job[h][m]
             \/ /\ m = l /\ job'[h][m].state \in {"none", "wait"} /\ job'[h][m].after <= MaxTTL
                /\ h = "main" => job'[h][m].state = "none"
    <2>1. Again(job["retry"][l]) \in Job  BY <1>1, JobAgain
    <2>2. /\ job' \in [Kinds -> [Leases -> Job]] /\ job'["retry"][l] = Again(job["retry"][l])
          /\ \A h \in Kinds : \A m \in Leases : h # "retry" \/ m # l => job'[h][m] = js[h][m]
      BY <1>1, <1>2, <1>3, <2>1, JobPut
    <2>3. QED  BY <1>2, <2>2, Blanks, LeaseAssumption
  <1>6. QED  BY <1>1, <1>2, <1>3, <1>4, <1>5, FailureKeeps

\* A job whose worker died waits again, or leaves its mark.
LEMMA JobStallKeeps ==
  ASSUME Leasing, NEW k \in Kinds, NEW l \in Leases, JobStall(k, l)
  PROVE  Leasing'
  <1> DEFINE old == job[k][l]
             j == IF old.stalled THEN NoJob ELSE [old EXCEPT !.state = "wait", !.stalled = TRUE]
  <1>1. TypeOK /\ Bounded  BY DEF Leasing
  <1>2. /\ Running(k, l) /\ faults < MaxFaults /\ faults' = faults + 1
        /\ job' = [job EXCEPT ![k][l] = j]
        /\ mark' = IF old.stalled THEN Marked({l}, {"cut"}) ELSE mark
        /\ UNCHANGED <<config, row, account, prune, req, asked, alerted>>
    BY DEF JobStall, Fault
  <1>3. /\ j \in Job /\ j.state \in {"none", "wait"} /\ j.after <= MaxTTL
        /\ j.state # "none" => j.after = old.after
        /\ j.state = "none" => old.stalled
    <2>1. old \in Job /\ old.after <= MaxTTL  BY <1>1, Fields DEF Bounded
    <2>2. CASE old.stalled  BY <2>2, Blanks, LeaseAssumption
    <2>3. CASE ~old.stalled
      <3>1. j = [old EXCEPT !.state = "wait", !.stalled = TRUE]  BY <2>3
      <3>2. j \in Job /\ j.state = "wait" /\ j.after = old.after  BY <2>1, <3>1 DEF Job
      <3>3. QED  BY <2>1, <3>2
    <2>4. QED  BY <2>2, <2>3
  <1>4. old.state # "none"  BY <1>2 DEF Running
  <1>5. /\ mark' \in [Leases -> SUBSET Marks]
        /\ \A m \in Leases : mark[m] \subseteq mark'[m]
        /\ old.stalled => "cut" \in mark'[l]
    <2>1. {"cut"} \in SUBSET Marks  BY DEF Marks
    <2>2. /\ Marked({l}, {"cut"}) \in [Leases -> SUBSET Marks]
          /\ \A m \in Leases : mark[m] \subseteq Marked({l}, {"cut"})[m]
          /\ "cut" \in Marked({l}, {"cut"})[l]
      BY <1>1, <2>1, MarksAdded
    <2>3. QED  BY <1>1, <1>2, <2>2 DEF TypeOK
  <1> HIDE DEF j
  <1>6. /\ job' \in [Kinds -> [Leases -> Job]] /\ job'[k][l] = j
        /\ \A h \in Kinds : \A m \in Leases : h # k \/ m # l => job'[h][m] = job[h][m]
    BY <1>1, <1>2, <1>3, JobPut DEF TypeOK
  <1>7. \A h \in Kinds : \A m \in Leases :
          /\ job'[h][m].after <= MaxTTL
          /\ job'[h][m].state # "none" =>
               job[h][m].state # "none" /\ job'[h][m].after = job[h][m].after
          /\ job'[h][m].state = "delete" => job[h][m].state = "delete"
    BY <1>1, <1>3, <1>4, <1>6 DEF Bounded
  <1>8. \A m \in Leases :
          job["main"][m].state # "none" /\ job'["main"][m].state = "none" => MainEnds(m)
    BY <1>1, <1>3, <1>5, <1>6, Fields DEF MainEnds
  <1>9. QED
    <2>1. \A m \in Leases : row'[m] = row[m] /\ RowStays(m)
      BY <1>1, <1>2 DEF RowStays, Bounded
    <2>2. "main" \in Kinds  BY <1>1, Fields
    <2>3. row' \in [Leases -> Row] /\ alerted' \subseteq Leases /\ faults' \in 0..MaxFaults
      BY <1>1, <1>2, LeaseAssumption DEF TypeOK
    <2>4. QED  BY <1>2, <1>5, <1>6, <1>7, <1>8, <2>1, <2>2, <2>3, RevocationKeeps

\* A job whose error handler fails waits again or is gone, and the main job only
\* with a mark.
LEMMA HandlerFailsKeeps ==
  ASSUME Leasing, NEW k \in Kinds, NEW l \in Leases, HandlerFails(k, l)
  PROVE  Leasing'
  <1> DEFINE last == job[k][l].made + 1 = Attempts
             j == Again(job[k][l])
  <1>1. TypeOK /\ Bounded /\ job \in [Kinds -> [Leases -> Job]] /\ "main" \in Kinds
    BY Fields DEF Leasing, TypeOK
  <1>2. PICK js \in {job} \cup (IF k = "retry" /\ last THEN {Stopped(job, {l})} ELSE {}) :
          job' = [js EXCEPT ![k][l] = Again(@)]
    BY DEF HandlerFails
  <1>3. /\ Flag(l) \/ row' = row
        /\ faults < MaxFaults /\ faults' = faults + 1
        /\ mark' = IF last \/ row' # row THEN Marked({l}, {"silent"}) ELSE mark
        /\ UNCHANGED <<config, prune, req, asked, alerted>>
    BY DEF HandlerFails, Fault
  <1>4. /\ job[k][l].state = "revoke"
        /\ account' \in {account, [account EXCEPT ![l] = "revoked"]}
    BY DEF HandlerFails, ProviderFails
  <1>5. /\ js \in [Kinds -> [Leases -> Job]] /\ js[k][l] = job[k][l]
        /\ \A h \in Kinds : \A m \in Leases :
             \/ js[h][m] = job[h][m]
             \/ last /\ m = l /\ h = "main" /\ js[h][m] = NoJob
    <2>1. CASE js = job  BY <1>1, <2>1
    <2>2. CASE k = "retry" /\ last /\ js = Stopped(job, {l})
      <3>1. /\ js \in [Kinds -> [Leases -> Job]]
            /\ \A m \in Leases :
                 js["main"][m]
                   = IF m \in {l} /\ job["main"][m].state = "wait" THEN NoJob ELSE job["main"][m]
            /\ \A m \in Leases : js["retry"][m] = job["retry"][m]
        BY <1>1, <2>2, JobStopped
      <3>2. QED  BY <2>2, <3>1 DEF Kinds
    <2>3. QED  BY <1>2, <2>1, <2>2
  <1>6. /\ j \in Job /\ j.state \in {"none", "wait"}
        /\ j.state # "none" => j.after = job[k][l].after
        /\ j.state = "none" => last
        /\ j.after <= MaxTTL
    <2>1. job[k][l] \in Job /\ job[k][l].after <= MaxTTL  BY <1>1 DEF Bounded
    <2>2. CASE last
      <3>1. j = NoJob  BY <2>2 DEF Again
      <3>2. QED  BY <2>2, <3>1, Blanks, LeaseAssumption
    <2>3. CASE ~last
      <3>1. j.after = job[k][l].after /\ j.state = "wait"  BY <2>1, <2>3 DEF Again, Job
      <3>2. QED  BY <2>1, <3>1, JobAgain
    <2>4. QED  BY <2>2, <2>3
  <1> HIDE DEF j
  <1>7. /\ job' \in [Kinds -> [Leases -> Job]] /\ job'[k][l] = j
        /\ \A h \in Kinds : \A m \in Leases : h # k \/ m # l => job'[h][m] = js[h][m]
    <2>1. job' = [js EXCEPT ![k][l] = j]  BY <1>2, <1>5 DEF j
    <2>2. QED  BY <1>5, <1>6, <2>1, JobPut
  <1>8. /\ mark' \in [Leases -> SUBSET Marks]
        /\ \A m \in Leases : mark[m] \subseteq mark'[m]
        /\ last => "silent" \in mark'[l]
    <2>1. {"silent"} \in SUBSET Marks  BY DEF Marks
    <2>2. /\ Marked({l}, {"silent"}) \in [Leases -> SUBSET Marks]
          /\ \A m \in Leases : mark[m] \subseteq Marked({l}, {"silent"})[m]
          /\ "silent" \in Marked({l}, {"silent"})[l]
      BY <1>1, <2>1, MarksAdded
    <2>3. QED  BY <1>1, <1>3, <2>2 DEF TypeOK
  <1> HIDE DEF last
  <1>9. \A h \in Kinds : \A m \in Leases :
          /\ job'[h][m].after <= MaxTTL
          /\ job'[h][m].state # "none" =>
               job[h][m].state # "none" /\ job'[h][m].after = job[h][m].after
          /\ job'[h][m].state = "delete" => job[h][m].state = "delete"
    <2> TAKE h \in Kinds
    <2> TAKE m \in Leases
    <2>2. job[h][m].after <= MaxTTL /\ NoJob.after <= MaxTTL /\ NoJob.state = "none"
      BY <1>1, Blanks, LeaseAssumption DEF Bounded
    <2>3. CASE h = k /\ m = l  BY <1>4, <1>6, <1>7, <2>3
    <2>4. CASE h # k \/ m # l
      <3>1. job'[h][m] = job[h][m] \/ job'[h][m] = NoJob  BY <1>5, <1>7, <2>4
      <3>2. QED  BY <2>2, <3>1
    <2>5. QED  BY <2>3, <2>4
  <1>10. \A m \in Leases :
           job["main"][m].state # "none" /\ job'["main"][m].state = "none" => MainEnds(m)
    BY <1>1, <1>5, <1>6, <1>7, <1>8 DEF MainEnds
  <1>11. /\ row' \in [Leases -> Row]
         /\ \A m \in Leases : RowStays(m) /\ row'[m].life = row[m].life
    <2>1. CASE row' = row  BY <1>1, <2>1 DEF RowStays, Bounded, TypeOK
    <2>2. CASE Flag(l)
      <3>1. /\ row' \in [Leases -> Row]
            /\ \A m \in Leases : row'[m].state = row[m].state /\ row'[m].life = row[m].life
            /\ \A m \in Leases : row[m].failed => row'[m].failed
        BY <1>1, <2>2, RowFlagged
      <3>2. QED  BY <1>1, <3>1 DEF RowStays, Bounded
    <2>3. QED  BY <1>3, <2>1, <2>2
  <1>12. alerted' \subseteq Leases /\ faults' \in 0..MaxFaults
    BY <1>1, <1>3, LeaseAssumption DEF TypeOK
  <1>13. QED
    BY <1>1, <1>3, <1>4, <1>7, <1>8, <1>9, <1>10, <1>11, <1>12, RevocationKeeps

-----------------------------------------------------------------------------
(* The job that deletes the secret, and changes of it.                     *)

\* Revocations that are unset: what is left of the jobs is as it was.
LEMMA RevocationsUnset ==
  ASSUME TypeOK, Bounded, NEW ls \in SUBSET Leases, job' = Stopped(job, ls)
  PROVE  /\ job' \in [Kinds -> [Leases -> Job]]
         /\ \A k \in Kinds : \A l \in Leases :
              /\ job'[k][l].after <= MaxTTL
              /\ job'[k][l].state # "none" => job'[k][l] = job[k][l]
         /\ \A l \in Leases :
              job["main"][l].state # "none" /\ job'["main"][l].state = "none" => l \in ls
         /\ \A l \in ls : ~Running("main", l) => job'["main"][l].state = "none"
  <1>1. /\ job' \in [Kinds -> [Leases -> Job]]
        /\ \A l \in Leases :
             job'["main"][l]
               = IF l \in ls /\ job["main"][l].state = "wait" THEN NoJob ELSE job["main"][l]
        /\ \A l \in Leases : job'["retry"][l] = job["retry"][l]
    BY JobStopped DEF TypeOK
  <1>2. \A k \in Kinds : \A l \in Leases :
          /\ job'[k][l] = job[k][l] \/ job'[k][l] = NoJob
          /\ job[k][l].after <= MaxTTL
    BY <1>1 DEF Bounded, Kinds
  <1>3. \A l \in Leases : job["main"][l].state \in {"none", "wait", "revoke", "delete"}
    BY Fields DEF Job
  <1>4. QED  BY <1>1, <1>2, <1>3, Blanks, LeaseAssumption DEF Running

\* A job that is added is within the bound, and takes no other's place.
LEMMA RevocationAdded ==
  ASSUME TypeOK, Bounded, NEW k \in Kinds, NEW l \in Leases, NEW after \in Nat,
         after <= MaxTTL, job' = Queued(job, k, l, after)
  PROVE  /\ job' \in [Kinds -> [Leases -> Job]]
         /\ \A h \in Kinds : \A m \in Leases :
              /\ job'[h][m].after <= MaxTTL
              /\ job[h][m].state # "none" => job'[h][m] = job[h][m]
              /\ h # k \/ m # l => job'[h][m] = job[h][m]
              /\ job'[h][m].state = "delete" => job[h][m].state = "delete"
         /\ job'[k][l].state # "none"
         /\ job[k][l].state = "none" => job'[k][l].after = after
  <1>1. /\ job' \in [Kinds -> [Leases -> Job]]
        /\ job[k][l].state = "none" => job'[k][l].state = "wait" /\ job'[k][l].after = after
        /\ job[k][l].state # "none" => job'[k][l] = job[k][l]
        /\ \A h \in Kinds : \A m \in Leases : h # k \/ m # l => job'[h][m] = job[h][m]
    BY JobQueued DEF TypeOK
  <1>2. \A h \in Kinds : \A m \in Leases : job[h][m].after <= MaxTTL  BY DEF Bounded
  <1>3. QED  BY <1>1, <1>2

\* The rows that go with the secret are those whose accounts were revoked or given
\* up, and those that were not seen.
LEMMA RowsCascade ==
  ASSUME TypeOK, Bounded, NEW seen \in SUBSET Leases, Cascade(seen),
         \A l \in seen : account'[l] # "live" \/ "forced" \in mark[l]
  PROVE  /\ row' \in [Leases -> Row] /\ mark' \in [Leases -> SUBSET Marks] /\ config' = "gone"
         /\ \A l \in Leases : mark[l] \subseteq mark'[l]
         /\ \A l \in Leases : RowEnds(l) \/ RowStays(l)
         /\ \A l \in Leases : row'[l].state # "present"
  <1>1. {"overlooked"} \in SUBSET Marks  BY DEF Marks
  <1>2. /\ mark' \in [Leases -> SUBSET Marks] /\ config' = "gone"
        /\ \A l \in Leases : mark[l] \subseteq mark'[l]
        /\ \A l \in Leases : l \in Present \ seen => "overlooked" \in mark'[l]
    BY <1>1, MarksAdded DEF Cascade
  <1>3. /\ row' \in [Leases -> Row]
        /\ \A l \in Leases : row'[l] = IF l \in Present THEN Gone ELSE row[l]
    BY Blanks DEF Cascade, TypeOK
  <1>4. \A l \in Leases : l \in Present => RowEnds(l)
    BY <1>2, <1>3, Blanks DEF RowEnds
  <1>5. \A l \in Leases : l \notin Present => RowStays(l) /\ row'[l].state # "present"
    BY <1>3 DEF RowStays, Bounded, Present
  <1>6. QED  BY <1>2, <1>3, <1>4, <1>5, Blanks

\* A step that no request takes.
LEMMA UnrequestedKeeps ==
  ASSUME Leasing, TypeOK', req' = req,
         \A l \in Leases : mark[l] \subseteq mark'[l],
         \A l \in Leases : account'[l] = "live" => account[l] = "live",
         \A l \in Leases : RowEnds(l) \/ RowStays(l),
         \A l \in Leases : row'[l].state = "present" => row'[l] = row[l],
         \A k \in Kinds : \A l \in Leases :
           /\ job'[k][l].after <= MaxTTL
           /\ job'[k][l].state # "none" => job'[k][l] = job[k][l],
         \A l \in Leases :
           job["main"][l].state # "none" /\ job'["main"][l].state = "none" => MainEnds(l),
         \A l \in prune'.seen : l \in Leases /\ Born(l),
         prune'.state = "delete" => \A l \in prune'.seen : account'[l] # "live"
  PROVE  Leasing'
  <1>1. TypeOK /\ Bounded /\ Births /\ AccountsFirst /\ NoForgottenAccount
        /\ EveryLeaseIsScheduled /\ RenewalsInStep
    BY DEF Leasing
  <1>2. Bounded' /\ Births' /\ AccountsFirst' /\ NoForgottenAccount' /\ EveryLeaseIsScheduled'
    <2>1. req' \in [Requests -> Request] /\ \A s \in Requests : req'[s] = req[s]
      BY <1>1 DEF TypeOK
    <2>2. \A k \in Kinds : \A l \in Leases :
            /\ job'[k][l].after <= MaxTTL
            /\ job'[k][l].state # "none" => job[k][l].state # "none" \/ Born(l)
            /\ job'[k][l].state = "delete" => job[k][l].state = "delete" \/ account'[l] # "live"
      OBVIOUS
    <2>3. QED  BY <1>1, <2>1, <2>2, StepKeeps
  <1>3. RenewalsInStep'
    <2>1. "main" \in Kinds  BY DEF Kinds
    <2>2. QED  BY <1>1, <2>1, RenewalsStay
  <1>4. QED  BY <1>2, <1>3 DEF Leasing

\* An update of the secret concerns no lease.
LEMMA UpdateConfigKeeps ==
  ASSUME Leasing, UpdateConfig
  PROVE  Leasing'
  <1>1. TypeOK /\ Bounded /\ Births /\ AccountsFirst  BY DEF Leasing
  <1>2. TypeOK'  BY <1>1, LeaseAssumption DEF TypeOK, UpdateConfig
  <1>3. \A l \in Leases : row'[l] = row[l] /\ RowStays(l)
    BY <1>1 DEF UpdateConfig, RowStays, Bounded
  <1>4. QED
    BY <1>1, <1>2, <1>3, Fields, UnrequestedKeeps DEF UpdateConfig, Bounded, Births, AccountsFirst

\* The revocations of the leases it sees are unset.
LEMMA PruneStartKeeps ==
  ASSUME Leasing, PruneStart
  PROVE  Leasing'
  <1>1. TypeOK /\ Bounded  BY DEF Leasing
  <1>2. /\ prune.state = "wait"
        /\ UNCHANGED <<config, row, account, req, asked, alerted, faults>>
    BY DEF PruneStart
  <1>3. \A l \in Leases : row'[l] = row[l] /\ RowStays(l)
    BY <1>1, <1>2 DEF RowStays, Bounded
  <1>4. CASE /\ config = "deleting"
             /\ prune' = [prune EXCEPT !.seen = Present,
                                       !.state = IF Present = {} THEN "delete" ELSE "revoke"]
             /\ job' = Stopped(job, Present)
             /\ mark' = Marked(Present, {"stripped"})
    <2>1. prune' \in Prune /\ prune'.seen = Present /\ (prune'.state = "delete" => Present = {})
      <3>1. Present \in SUBSET Leases  BY <1>1, Fields
      <3>2. prune \in Prune  BY <1>1 DEF TypeOK
      <3>3. QED  BY <1>4, <3>1, <3>2 DEF Prune
    <2>2. {"stripped"} \in SUBSET Marks  BY DEF Marks
    <2>3. /\ mark' \in [Leases -> SUBSET Marks]
          /\ \A l \in Leases : mark[l] \subseteq mark'[l]
          /\ \A l \in Leases : l \in Present => "stripped" \in mark'[l]
      BY <1>1, <1>4, <2>2, MarksAdded
    <2>4. /\ job' \in [Kinds -> [Leases -> Job]]
          /\ \A k \in Kinds : \A l \in Leases :
               /\ job'[k][l].after <= MaxTTL
               /\ job'[k][l].state # "none" => job'[k][l] = job[k][l]
          /\ \A l \in Leases :
               job["main"][l].state # "none" /\ job'["main"][l].state = "none" => l \in Present
      BY <1>1, <1>4, Fields, RevocationsUnset
    <2>5. \A l \in Leases :
            job["main"][l].state # "none" /\ job'["main"][l].state = "none" => MainEnds(l)
      BY <2>3, <2>4 DEF MainEnds
    <2>6. TypeOK'  BY <1>1, <1>2, <2>1, <2>3, <2>4 DEF TypeOK
    <2>7. \A l \in prune'.seen : l \in Leases /\ Born(l)  BY <2>1 DEF Present, Born
    <2>8. QED  BY <1>2, <1>3, <2>1, <2>3, <2>4, <2>5, <2>6, <2>7, UnrequestedKeeps
  <1>5. CASE prune' = NoPrune /\ UNCHANGED <<job, mark>>
    <2>1. TypeOK'  BY <1>1, <1>2, <1>5, Blanks DEF TypeOK
    <2>2. \A k \in Kinds : \A l \in Leases : job'[k][l].after <= MaxTTL
      BY <1>1, <1>5 DEF Bounded
    <2>3. QED  BY <1>2, <1>3, <1>5, <2>1, <2>2, Blanks, UnrequestedKeeps
  <1>6. QED  BY <1>4, <1>5 DEF PruneStart

\* The accounts it has seen are revoked.
LEMMA PruneRevokeKeeps ==
  ASSUME Leasing, PruneRevoke
  PROVE  Leasing'
  <1>1. TypeOK /\ Bounded /\ Births  BY DEF Leasing
  <1>2. UNCHANGED <<config, row, job, req, asked, alerted, mark, faults>>
    BY DEF PruneRevoke
  <1>3. /\ account' \in [Leases -> {"none", "live", "revoked"}]
        /\ \A l \in Leases : account'[l] = IF l \in prune.seen THEN "revoked" ELSE account[l]
    BY <1>1 DEF PruneRevoke, TypeOK
  <1>4. prune' \in Prune /\ prune'.seen = prune.seen
    BY <1>1 DEF PruneRevoke, TypeOK, Prune
  <1>5. TypeOK'  BY <1>1, <1>2, <1>3, <1>4 DEF TypeOK
  <1>6. \A l \in Leases : row'[l] = row[l] /\ RowStays(l)
    BY <1>1, <1>2 DEF RowStays, Bounded
  <1>7. \A k \in Kinds : \A l \in Leases : job'[k][l].after <= MaxTTL
    BY <1>1, <1>2 DEF Bounded
  <1>8. \A l \in prune'.seen : l \in Leases /\ Born(l) /\ account'[l] # "live"
    BY <1>1, <1>3, <1>4, Fields DEF Births
  <1>9. QED  BY <1>2, <1>3, <1>5, <1>6, <1>7, <1>8, UnrequestedKeeps

\* Some of them are, when it fails.
LEMMA PruneFailsKeeps ==
  ASSUME Leasing, PruneFails
  PROVE  Leasing'
  <1>1. TypeOK /\ Bounded  BY DEF Leasing
  <1>2. /\ UNCHANGED <<row, job, req, asked, alerted, mark>>
        /\ config' \in {"active", "deleting", "failed", "gone"} /\ faults' \in 0..MaxFaults
    BY <1>1, LeaseAssumption DEF PruneFails, Fault, TypeOK
  <1>3. /\ account' \in [Leases -> {"none", "live", "revoked"}]
        /\ \A l \in Leases : account'[l] = "live" => account[l] = "live"
    <2>1. PICK done \in SUBSET prune.seen :
            account' = [l \in Leases |-> IF l \in done THEN "revoked" ELSE account[l]]
      BY DEF PruneFails
    <2>2. QED  BY <1>1, <2>1 DEF TypeOK
  <1>4. prune' \in Prune /\ prune'.state # "delete" /\ prune'.seen = {}
    <2>1. CASE prune.made + 1 = Attempts  BY <2>1, Blanks DEF PruneFails
    <2>2. CASE prune.made + 1 # Attempts
      <3>1. prune.made \in 0..(Attempts - 1)  BY <1>1 DEF TypeOK, Prune
      <3>2. prune.made + 1 \in 0..(Attempts - 1)  BY <2>2, <3>1, LeaseAssumption
      <3>3. prune' = [state |-> "wait", made |-> prune.made + 1, seen |-> {}]
        BY <2>2 DEF PruneFails
      <3>4. QED  BY <3>2, <3>3 DEF Prune
    <2>3. QED  BY <2>1, <2>2
  <1>5. TypeOK'  BY <1>1, <1>2, <1>3, <1>4 DEF TypeOK
  <1>6. \A l \in Leases : row'[l] = row[l] /\ RowStays(l)
    BY <1>1, <1>2 DEF RowStays, Bounded
  <1>7. \A k \in Kinds : \A l \in Leases : job'[k][l].after <= MaxTTL
    BY <1>1, <1>2 DEF Bounded
  <1>8. QED  BY <1>2, <1>3, <1>4, <1>5, <1>6, <1>7, UnrequestedKeeps

\* The rows go with the secret.
LEMMA PruneDeleteKeeps ==
  ASSUME Leasing, PruneDelete
  PROVE  Leasing'
  <1>1. TypeOK /\ Bounded  BY DEF Leasing
  <1>2. /\ prune' = NoPrune /\ Cascade(prune.seen)
        /\ UNCHANGED <<account, job, req, asked, alerted, faults>>
    BY DEF PruneDelete
  <1>3. \A l \in prune.seen : account'[l] # "live"
    BY <1>2 DEF PruneDelete, Leasing, AccountsFirst
  <1>4. /\ row' \in [Leases -> Row] /\ mark' \in [Leases -> SUBSET Marks] /\ config' = "gone"
        /\ \A l \in Leases : mark[l] \subseteq mark'[l]
        /\ \A l \in Leases : RowEnds(l) \/ RowStays(l)
        /\ \A l \in Leases : row'[l].state # "present"
    BY <1>1, <1>2, <1>3, Fields, RowsCascade
  <1>5. TypeOK'  BY <1>1, <1>2, <1>4, Blanks DEF TypeOK
  <1>6. \A k \in Kinds : \A l \in Leases : job'[k][l].after <= MaxTTL
    BY <1>1, <1>2 DEF Bounded
  <1>7. QED  BY <1>2, <1>4, <1>5, <1>6, Blanks, UnrequestedKeeps

-----------------------------------------------------------------------------
(* Requests on leases that have their row, and on the secret.              *)

\* A step of a request that creates no row and no account.
LEMMA RequestKeeps ==
  ASSUME Leasing, TypeOK', NEW r \in Requests, MovesOn(r),
         \A s \in Requests : s # r => req'[s] = req[s],
         \A l \in Leases : mark[l] \subseteq mark'[l],
         \A l \in Leases : account'[l] = "live" => account[l] = "live",
         \A l \in Leases : RowEnds(l) \/ RowStays(l),
         \A k \in Kinds : \A l \in Leases :
           /\ job'[k][l].after <= MaxTTL
           /\ job'[k][l].state # "none" => job[k][l].state # "none" \/ Born(l)
           /\ job'[k][l].state = "delete" => job[k][l].state = "delete",
         \A l \in Leases :
           job["main"][l].state # "none" /\ job'["main"][l].state = "none" => MainEnds(l),
         prune' = prune \/ prune'.seen = {},
         \A l \in Leases : row'[l].state = "present" /\ Undisputed(l)' =>
           \/ InStep(l)'
           \/ /\ row[l].state = "present" /\ row'[l].life = row[l].life
              /\ job'["main"][l].state # "none" =>
                   /\ job["main"][l].state # "none"
                   /\ job'["main"][l].after = job["main"][l].after
              /\ req[r].lease = l => req[r].pc \notin {"renew.set", "renew.update"}
              /\ req'[r].lease = l =>
                   req'[r].pc \notin {"create.schedule", "renew.unset", "renew.set",
                                      "renew.update"}
  PROVE  Leasing'
  <1>1. TypeOK /\ Bounded /\ Births /\ AccountsFirst /\ NoForgottenAccount
        /\ EveryLeaseIsScheduled /\ RenewalsInStep
    BY DEF Leasing
  <1>2. \A l \in prune'.seen : l \in Leases /\ Born(l)  BY <1>1, Fields DEF Births
  <1>3. prune'.state = "delete" => \A l \in prune'.seen : account'[l] # "live"
    BY <1>1, <1>2 DEF AccountsFirst
  <1>4. Bounded' /\ Births' /\ AccountsFirst' /\ NoForgottenAccount' /\ EveryLeaseIsScheduled'
    <2>1. req' \in [Requests -> Request]  BY DEF TypeOK
    <2>2. \A s \in Requests : req'[s] = req[s] \/ MovesOn(s)  OBVIOUS
    <2>3. \A k \in Kinds : \A l \in Leases :
            /\ job'[k][l].after <= MaxTTL
            /\ job'[k][l].state # "none" => job[k][l].state # "none" \/ Born(l)
            /\ job'[k][l].state = "delete" => job[k][l].state = "delete" \/ account'[l] # "live"
      OBVIOUS
    <2>4. QED  BY <1>1, <1>2, <1>3, <2>1, <2>2, <2>3, StepKeeps
  <1>5. RenewalsInStep'
    <2>1. \A l \in Leases : row'[l].state = "present" /\ Undisputed(l)' =>
           \/ InStep(l)'
           \/ /\ row[l].state = "present" /\ row'[l].life = row[l].life
              /\ job'["main"][l].state # "none" =>
                   /\ job["main"][l].state # "none"
                   /\ job'["main"][l].after = job["main"][l].after
              /\ \A s \in Requests :
                   \/ req'[s] = req[s]
                   \/ /\ req[s].lease = l => req[s].pc \notin {"renew.set", "renew.update"}
                      /\ req'[s].lease = l =>
                           req'[s].pc \notin {"create.schedule", "renew.unset", "renew.set",
                                              "renew.update"}
      OBVIOUS
    <2>2. QED  BY <1>1, <2>1, RenewalsStay
  <1>6. QED  BY <1>4, <1>5 DEF Leasing

\* One that answers has left a job to a lease it was to queue one for, and no row
\* where it was to delete it.
LEMMA AnswerMoves ==
  ASSUME TypeOK, NEW r \in Requests, Answer(r), ~At(r, "create.insert"),
         req[r].pc \in {"create.schedule", "renew.set"} =>
           job'["main"][req[r].lease].state # "none" \/ "cut" \in mark'[req[r].lease],
         req[r].pc = "revoke.row" =>
           row'[req[r].lease].state # "present" \/ "cut" \in mark'[req[r].lease]
  PROVE  /\ MovesOn(r) /\ req' \in [Requests -> Request] /\ asked' \in 0..MaxAsked
         /\ \A s \in Requests : s # r => req'[s] = req[s]
         /\ req'[r].lease \notin Leases
  <1>1. /\ req' \in [Requests -> Request] /\ asked' = asked
        /\ req'[r] = Idle
        /\ \A s \in Requests : s # r => req'[s] = req[s]
    BY RequestAnswered
  <1>2. asked' \in 0..MaxAsked  BY <1>1 DEF TypeOK
  <1>3. req'[r].lease \notin Leases  BY <1>1, Blanks, LeaseAssumption
  <1>4. Suits(req'[r])  BY <1>1, <1>3, Blanks DEF Suits
  <1>5. MovesOn(r)
    BY <1>1, <1>4, Blanks, LeaseAssumption DEF MovesOn
  <1>6. QED  BY <1>1, <1>2, <1>3, <1>5

\* A request that begins on a lease with a row, or on the secret and the rows it sees.
LEMMA BeginMoves ==
  ASSUME TypeOK, NEW r \in Requests, NEW pc, NEW l \in Leases \cup {NoLease},
         NEW until \in Nat, NEW seen \in SUBSET Leases, Begin(r, pc, l, until, seen),
         \/ pc \in {"renew.unset", "revoke.flag", "revoke.unset"} /\ l \in Present
         \/ pc \in {"delete.flag", "delete.row"} /\ l = NoLease,
         until <= MaxTTL, \A m \in seen : Born(m),
         pc = "revoke.unset" => account'[l] # "live" \/ "forced" \in mark'[l],
         pc = "delete.row" => \A m \in seen : "forced" \in mark'[m]
  PROVE  /\ MovesOn(r) /\ req' \in [Requests -> Request] /\ asked' \in 0..MaxAsked
         /\ \A s \in Requests : s # r => req'[s] = req[s]
         /\ req[r].pc = "idle"
         /\ req'[r].pc = pc /\ req'[r].lease = l /\ req'[r].until = until
  <1>1. [pc |-> pc, lease |-> l, until |-> until, seen |-> seen] \in Request
    BY DEF Request
  <1>2. /\ req' \in [Requests -> Request] /\ asked' \in 0..MaxAsked
        /\ req[r].pc = "idle"
        /\ req'[r].pc = pc /\ req'[r].lease = l /\ req'[r].until = until
        /\ req'[r].seen = seen
        /\ \A s \in Requests : s # r => req'[s] = req[s]
    BY <1>1, RequestBegun
  <1>3. Suits(req'[r])
    BY <1>2, LeaseAssumption DEF Suits, Present, Born
  <1>4. MovesOn(r)  BY <1>2, <1>3 DEF MovesOn, At
  <1>5. QED  BY <1>2, <1>4

\* What a step that leaves the rows, the jobs or the accounts need not show.
LEMMA Untouched ==
  ASSUME Leasing
  PROVE  /\ TypeOK /\ Bounded /\ "main" \in Kinds /\ NoLease \notin Leases
         /\ row' = row => \A l \in Leases : RowStays(l)
         /\ job' = job => \A k \in Kinds : \A l \in Leases :
              /\ job'[k][l].after <= MaxTTL
              /\ job'[k][l].state = "delete" => job[k][l].state = "delete"
  <1>1. TypeOK /\ Bounded  BY DEF Leasing
  <1>2. QED  BY <1>1, Fields, LeaseAssumption DEF RowStays, Bounded

\* A renewal begins with nothing changed yet, and alone or with its mark.
LEMMA RenewBeginKeeps ==
  ASSUME Leasing, NEW r \in Requests, NEW l \in Leases, NEW ttl \in TTLs, RenewBegin(r, l, ttl)
  PROVE  Leasing'
  <1> DEFINE until == row[l].life + ttl
  <1>1. TypeOK /\ Bounded /\ RenewalsInStep /\ "main" \in Kinds /\ NoLease \notin Leases
    BY Untouched DEF Leasing
  <1>2. /\ l \in Present /\ until <= MaxTTL /\ Begin(r, "renew.unset", l, until, {})
        /\ mark' = IF Renewing(l) \/ On(l, {"create.schedule"})
                     THEN Marked({l}, {"contested"}) ELSE mark
        /\ UNCHANGED <<config, row, account, job, prune, alerted, faults>>
    BY DEF RenewBegin
  <1>3. until \in Nat
    <2>1. row[l].life \in Nat /\ ttl \in Nat  BY <1>1, Fields, LeaseAssumption
    <2>2. QED  BY <2>1
  <1> HIDE DEF until
  <1>4. /\ MovesOn(r) /\ req' \in [Requests -> Request] /\ asked' \in 0..MaxAsked
        /\ \A s \in Requests : s # r => req'[s] = req[s]
        /\ req[r].pc = "idle"
        /\ req'[r].pc = "renew.unset" /\ req'[r].lease = l /\ req'[r].until = until
    <2>1. l \in Leases \cup {NoLease} /\ {} \in SUBSET Leases /\ \A m \in {} : Born(m)
      OBVIOUS
    <2>2. QED  BY <1>1, <1>2, <1>3, <2>1, BeginMoves, SMTT(60)
  <1>5. /\ mark' \in [Leases -> SUBSET Marks]
        /\ \A m \in Leases : mark[m] \subseteq mark'[m]
        /\ Undisputed(l)' => ~Renewing(l) /\ ~On(l, {"create.schedule"})
    <2>1. {"contested"} \in SUBSET Marks  BY DEF Marks
    <2>2. /\ Marked({l}, {"contested"}) \in [Leases -> SUBSET Marks]
          /\ \A m \in Leases : mark[m] \subseteq Marked({l}, {"contested"})[m]
          /\ "contested" \in Marked({l}, {"contested"})[l]
      BY <1>1, <2>1, MarksAdded
    <2>3. mark \in [Leases -> SUBSET Marks]  BY <1>1 DEF TypeOK
    <2>4. QED  BY <1>2, <2>2, <2>3 DEF Undisputed
  <1>6. TypeOK'  BY <1>1, <1>2, <1>4, <1>5 DEF TypeOK
  <1>7. Undisputed(l)' => InStep(l)'
    <2>1. SUFFICES ASSUME Undisputed(l)'  PROVE InStep(l)'
      OBVIOUS
    <2>2. \A s \in Requests : req[s].lease = l =>
            req[s].pc \notin {"create.schedule", "renew.unset", "renew.set", "renew.update"}
      BY <1>5, <2>1 DEF Renewing, On
    <2>3. InStep(l)  BY <1>1, <1>2, <1>5, <2>1 DEF RenewalsInStep, Undisputed
    <2>4. job["main"][l].state # "none" => job["main"][l].after = row[l].life
      BY <2>2, <2>3 DEF InStep, On
    <2>5. \A s \in Requests : s # r /\ req'[s].lease = l =>
            req'[s].pc \notin {"create.schedule", "renew.unset", "renew.set", "renew.update"}
      BY <1>4, <2>2
    <2>6. QED  BY <1>2, <1>4, <2>4, <2>5 DEF InStep
  <1>8. \A m \in Leases : m # l /\ req'[r].lease = m => FALSE  BY <1>4
  <1>9. req[r].pc \notin {"renew.set", "renew.update"}  BY <1>4
  <1>10. \A m \in Leases : RowStays(m)  BY <1>2, Untouched
  <1>11. \A k \in Kinds : \A m \in Leases : job'[k][m] = job[k][m] /\ job'[k][m].after <= MaxTTL
    BY <1>2, Untouched
  <1>12. \A m \in Leases : row'[m].state = "present" =>
           row[m].state = "present" /\ row'[m].life = row[m].life
    BY <1>2
  <1>13. QED
    BY <1>1, <1>2, <1>4, <1>5, <1>6, <1>7, <1>8, <1>9, <1>10, <1>11, <1>12, RequestKeeps

\* Its old job is taken away: nobody else has a hand in the lease, and the job is
\* not running, or the lease is marked.
LEMMA RenewUnsetKeeps ==
  ASSUME Leasing, NEW r \in Requests, RenewUnset(r)
  PROVE  Leasing'
  <1>1. /\ TypeOK /\ Bounded /\ RenewalsInStep /\ Births
        /\ "main" \in Kinds /\ NoLease \notin Leases
    BY Untouched DEF Leasing
  <1>2. req[r].pc = "renew.unset" /\ req[r].lease \in Leases
    BY <1>1 DEF RenewUnset, At, Births, Suits
  <1>3. PICK l \in Leases : l = req[r].lease  BY <1>2
  <1>4. /\ job' = Stopped(job, {l}) /\ Goto(r, "renew.set")
        /\ mark' = IF Running("main", l) THEN Marked({l}, {"contested"}) ELSE mark
        /\ UNCHANGED <<config, row, account, prune, alerted, faults>>
    BY <1>3 DEF RenewUnset
  <1>5. /\ req' \in [Requests -> Request] /\ asked' = asked
        /\ req'[r].pc = "renew.set" /\ req'[r].lease = l
        /\ req'[r].until = req[r].until /\ req'[r].seen = req[r].seen
        /\ \A s \in Requests : s # r => req'[s] = req[s]
    BY <1>1, <1>3, <1>4, RequestGoes
  <1>6. /\ job' \in [Kinds -> [Leases -> Job]]
        /\ \A k \in Kinds : \A m \in Leases :
             /\ job'[k][m].after <= MaxTTL
             /\ job'[k][m].state # "none" => job'[k][m] = job[k][m]
        /\ \A m \in Leases :
             job["main"][m].state # "none" /\ job'["main"][m].state = "none" => m \in {l}
        /\ \A m \in {l} : ~Running("main", m) => job'["main"][m].state = "none"
    BY <1>1, <1>4, RevocationsUnset
  <1>7. /\ mark' \in [Leases -> SUBSET Marks]
        /\ \A m \in Leases : mark[m] \subseteq mark'[m]
        /\ Undisputed(l)' => ~Running("main", l)
    <2>1. {"contested"} \in SUBSET Marks  BY DEF Marks
    <2>2. /\ Marked({l}, {"contested"}) \in [Leases -> SUBSET Marks]
          /\ \A m \in Leases : mark[m] \subseteq Marked({l}, {"contested"})[m]
          /\ "contested" \in Marked({l}, {"contested"})[l]
      BY <1>1, <2>1, MarksAdded
    <2>3. mark \in [Leases -> SUBSET Marks]  BY <1>1 DEF TypeOK
    <2>4. QED  BY <1>4, <2>2, <2>3 DEF Undisputed
  <1>8. TypeOK'  BY <1>1, <1>4, <1>5, <1>6, <1>7 DEF TypeOK
  <1>9. MovesOn(r)
    <2>1. Suits(req[r]) /\ req[r].until <= MaxTTL  BY <1>1 DEF Births, Bounded
    <2>2. Suits(req'[r])  BY <1>2, <1>3, <1>5, <2>1 DEF Suits
    <2>3. QED  BY <1>2, <1>5, <2>1, <2>2 DEF MovesOn, At
  <1>10. row'[l].state = "present" /\ Undisputed(l)' => InStep(l)'
    <2>1. SUFFICES ASSUME row'[l].state = "present", Undisputed(l)'  PROVE InStep(l)'
      OBVIOUS
    <2>2. InStep(l)
      <3>1. l \in Present  BY <1>4, <2>1 DEF Present
      <3>2. Undisputed(l)  BY <1>7, <2>1 DEF Undisputed
      <3>3. QED  BY <1>1, <3>1, <3>2 DEF RenewalsInStep
    <2>3. \A s \in Requests : s # r /\ req[s].lease = l =>
            req[s].pc \notin {"create.schedule", "renew.unset", "renew.set", "renew.update"}
      BY <1>2, <1>3, <2>2 DEF InStep
    <2>4. \A s \in Requests : s # r /\ req'[s].lease = l =>
            req'[s].pc \notin {"create.schedule", "renew.unset", "renew.set", "renew.update"}
      BY <1>5, <2>3
    <2>5. job'["main"][l].state = "none"  BY <1>6, <1>7, <2>1
    <2>6. QED  BY <1>5, <2>4, <2>5 DEF InStep
  <1>11. \A m \in Leases :
           job["main"][m].state # "none" /\ job'["main"][m].state = "none" => MainEnds(m)
    BY <1>5, <1>6 DEF MainEnds
  <1>12. /\ \A m \in Leases : RowStays(m)
         /\ \A m \in Leases : row'[m].state = "present" =>
              row[m].state = "present" /\ row'[m].life = row[m].life
         /\ \A m \in Leases : m # l => req[r].lease # m /\ req'[r].lease # m
    BY <1>3, <1>4, <1>5, Untouched
  <1>13. \A m \in Leases : account'[m] = "live" => account[m] = "live"  BY <1>4
  <1>14. prune' = prune  BY <1>4
  <1>15. \A k \in Kinds : \A m \in Leases :
           /\ job'[k][m].after <= MaxTTL
           /\ job'[k][m].state # "none" => job[k][m].state # "none" \/ Born(m)
           /\ job'[k][m].state = "delete" => job[k][m].state = "delete"
           /\ job'[k][m].state # "none" =>
                job[k][m].state # "none" /\ job'[k][m].after = job[k][m].after
    BY <1>6
  <1>16. \A m \in Leases : row'[m].state = "present" /\ Undisputed(m)' =>
           \/ InStep(m)'
           \/ /\ row[m].state = "present" /\ row'[m].life = row[m].life
              /\ job'["main"][m].state # "none" =>
                   /\ job["main"][m].state # "none"
                   /\ job'["main"][m].after = job["main"][m].after
              /\ req[r].lease # m /\ req'[r].lease # m
    BY <1>1, <1>10, <1>12, <1>15
  <1>17. QED
    BY <1>5, <1>7, <1>8, <1>9, <1>11, <1>12, <1>13, <1>14, <1>15, <1>16, RequestKeeps

\* The new one takes its place.
LEMMA RenewSetKeeps ==
  ASSUME Leasing, NEW r \in Requests, RenewSet(r)
  PROVE  Leasing'
  <1>1. /\ TypeOK /\ Bounded /\ RenewalsInStep /\ Births
        /\ "main" \in Kinds /\ NoLease \notin Leases
    BY Untouched DEF Leasing
  <1>2. req[r].pc = "renew.set" /\ req[r].lease \in Leases /\ Born(req[r].lease)
    BY <1>1 DEF RenewSet, At, Births, Suits
  <1>3. PICK l \in Leases : l = req[r].lease  BY <1>2
  <1>4. /\ job' = Queued(job, "main", l, req[r].until) /\ Goto(r, "renew.update")
        /\ UNCHANGED <<config, row, account, prune, alerted, mark, faults>>
    BY <1>3 DEF RenewSet
  <1>5. /\ req' \in [Requests -> Request] /\ asked' = asked
        /\ req'[r].pc = "renew.update" /\ req'[r].lease = l
        /\ req'[r].until = req[r].until /\ req'[r].seen = req[r].seen
        /\ \A s \in Requests : s # r => req'[s] = req[s]
    BY <1>1, <1>3, <1>4, RequestGoes
  <1>6. /\ job' \in [Kinds -> [Leases -> Job]]
        /\ \A h \in Kinds : \A m \in Leases :
             /\ job'[h][m].after <= MaxTTL
             /\ job[h][m].state # "none" => job'[h][m] = job[h][m]
             /\ h # "main" \/ m # l => job'[h][m] = job[h][m]
             /\ job'[h][m].state = "delete" => job[h][m].state = "delete"
        /\ job'["main"][l].state # "none"
        /\ job["main"][l].state = "none" => job'["main"][l].after = req[r].until
    <2>1. req[r].until \in Nat /\ req[r].until <= MaxTTL  BY <1>1, Fields DEF Bounded
    <2>2. QED  BY <1>1, <1>4, <2>1, RevocationAdded
  <1>7. TypeOK'  BY <1>1, <1>4, <1>5, <1>6 DEF TypeOK
  <1>8. MovesOn(r)
    <2>1. Suits(req[r]) /\ req[r].until <= MaxTTL  BY <1>1 DEF Births, Bounded
    <2>2. Suits(req'[r])  BY <1>2, <1>3, <1>5, <2>1 DEF Suits
    <2>3. QED  BY <1>2, <1>3, <1>5, <1>6, <2>1, <2>2 DEF MovesOn, At
  <1>9. row'[l].state = "present" /\ Undisputed(l)' => InStep(l)'
    <2>1. SUFFICES ASSUME row'[l].state = "present", Undisputed(l)'  PROVE InStep(l)'
      OBVIOUS
    <2>2. InStep(l)
      <3>1. l \in Present /\ Undisputed(l)  BY <1>4, <2>1 DEF Present, Undisputed
      <3>2. QED  BY <1>1, <3>1 DEF RenewalsInStep
    <2>3. /\ job["main"][l].state = "none"
          /\ \A s \in Requests : s # r /\ req[s].lease = l =>
               req[s].pc \notin {"create.schedule", "renew.unset", "renew.set", "renew.update"}
      BY <1>2, <1>3, <2>2 DEF InStep
    <2>4. \A s \in Requests : s # r /\ req'[s].lease = l =>
            req'[s].pc \notin {"create.schedule", "renew.unset", "renew.set", "renew.update"}
      BY <1>5, <2>3
    <2>5. job'["main"][l].after = req'[r].until  BY <1>5, <1>6, <2>3
    <2>6. On(l, {"renew.set", "renew.update"})'  BY <1>5 DEF On
    <2>7. QED  BY <1>5, <2>4, <2>5, <2>6 DEF InStep
  <1>10. \A m \in Leases :
           job["main"][m].state # "none" /\ job'["main"][m].state = "none" => MainEnds(m)
    BY <1>1, <1>6
  <1>11. /\ \A m \in Leases : RowStays(m)
         /\ \A m \in Leases : row'[m].state = "present" =>
              row[m].state = "present" /\ row'[m].life = row[m].life
         /\ \A m \in Leases : m # l => req[r].lease # m /\ req'[r].lease # m
    BY <1>3, <1>4, <1>5, Untouched
  <1>12. \A m \in Leases :
           /\ account'[m] = "live" => account[m] = "live"
           /\ mark[m] \subseteq mark'[m]
    BY <1>4
  <1>13. prune' = prune /\ Born(l)  BY <1>2, <1>3, <1>4
  <1>14. \A m \in Leases : m # l /\ job'["main"][m].state # "none" =>
           job["main"][m].state # "none" /\ job'["main"][m].after = job["main"][m].after
    BY <1>1, <1>6
  <1>15. \A k \in Kinds : \A m \in Leases :
           job'[k][m].state # "none" => job[k][m].state # "none" \/ Born(m)
    BY <1>6, <1>13
  <1>16. QED
    BY <1>5, <1>6, <1>7, <1>8, <1>9, <1>10, <1>11, <1>12, <1>13, <1>14, <1>15, RequestKeeps

\* The row gets the time of the job.
LEMMA RenewUpdateKeeps ==
  ASSUME Leasing, NEW r \in Requests, RenewUpdate(r)
  PROVE  Leasing'
  <1>1. /\ TypeOK /\ Bounded /\ RenewalsInStep /\ Births
        /\ "main" \in Kinds /\ NoLease \notin Leases
    BY Untouched DEF Leasing
  <1>2. req[r].pc = "renew.update" /\ req[r].lease \in Leases
    BY <1>1 DEF RenewUpdate, At, Births, Suits
  <1>3. PICK l \in Leases : l = req[r].lease  BY <1>2
  <1>4. /\ row' = IF l \in Present THEN [row EXCEPT ![l].life = req[r].until] ELSE row
        /\ Answer(r)
        /\ UNCHANGED <<config, account, job, prune, alerted, mark, faults>>
    BY <1>3 DEF RenewUpdate
  <1>5. /\ MovesOn(r) /\ req' \in [Requests -> Request] /\ asked' \in 0..MaxAsked
        /\ \A s \in Requests : s # r => req'[s] = req[s]
        /\ req'[r].lease \notin Leases
    BY <1>1, <1>2, <1>4, AnswerMoves DEF At
  <1>6. /\ row' \in [Leases -> Row]
        /\ \A m \in Leases : row'[m].state = row[m].state /\ row'[m].failed = row[m].failed
        /\ \A m \in Leases : m # l => row'[m] = row[m]
        /\ row'[l].life <= MaxTTL
        /\ l \in Present => row'[l].life = req[r].until
    <2>1. req[r].until \in Nat /\ req[r].until <= MaxTTL  BY <1>1, Fields DEF Bounded
    <2>2. row \in [Leases -> Row] /\ row[l].life <= MaxTTL  BY <1>1 DEF TypeOK, Bounded
    <2>3. CASE l \notin Present  BY <1>4, <2>2, <2>3
    <2>4. CASE l \in Present
      <3>1. row' = [row EXCEPT ![l] = [row[l] EXCEPT !.life = req[r].until]]
        BY <1>4, <2>2, <2>4
      <3> DEFINE new == [row[l] EXCEPT !.life = req[r].until]
      <3>2. /\ new \in Row /\ new.life = req[r].until
            /\ new.state = row[l].state /\ new.failed = row[l].failed
        BY <2>1, <2>2 DEF Row
      <3> HIDE DEF new
      <3>3. row' = [row EXCEPT ![l] = new]  BY <3>1 DEF new
      <3>4. QED  BY <2>1, <2>2, <3>2, <3>3
    <2>5. QED  BY <2>3, <2>4
  <1>7. TypeOK'  BY <1>1, <1>4, <1>5, <1>6 DEF TypeOK
  <1>8. \A m \in Leases : RowStays(m)
    BY <1>1, <1>6 DEF RowStays, Bounded
  <1>9. row'[l].state = "present" /\ Undisputed(l)' => InStep(l)'
    <2>1. SUFFICES ASSUME row'[l].state = "present", Undisputed(l)'  PROVE InStep(l)'
      OBVIOUS
    <2>2. l \in Present /\ Undisputed(l)  BY <1>4, <1>6, <2>1 DEF Present, Undisputed
    <2>3. InStep(l)  BY <1>1, <2>2 DEF RenewalsInStep
    <2>4. /\ job["main"][l].state # "none" => job["main"][l].after = req[r].until
          /\ \A s \in Requests : s # r /\ req[s].lease = l =>
               req[s].pc \notin {"create.schedule", "renew.unset", "renew.set", "renew.update"}
      BY <1>2, <1>3, <2>3 DEF InStep
    <2>5. \A s \in Requests : req'[s].lease = l =>
            req'[s].pc \notin {"create.schedule", "renew.unset", "renew.set", "renew.update"}
      BY <1>5, <2>4
    <2>6. job'["main"][l].state # "none" => job'["main"][l].after = row'[l].life
      BY <1>4, <1>6, <2>2, <2>4
    <2>7. QED  BY <2>5, <2>6 DEF InStep
  <1>10. \A k \in Kinds : \A m \in Leases : job'[k][m] = job[k][m] /\ job'[k][m].after <= MaxTTL
    BY <1>4, Untouched
  <1>11. /\ \A m \in Leases :
              /\ account'[m] = "live" => account[m] = "live"
              /\ mark[m] \subseteq mark'[m]
         /\ prune' = prune
    BY <1>4
  <1>12. \A m \in Leases : m # l =>
           /\ row'[m].life = row[m].life
           /\ req[r].lease # m /\ req'[r].lease # m
    BY <1>3, <1>5, <1>6
  <1>13. QED
    BY <1>1, <1>5, <1>6, <1>7, <1>8, <1>9, <1>10, <1>11, <1>12, RequestKeeps

\* A lease that is created gets its job.
LEMMA CreateScheduleKeeps ==
  ASSUME Leasing, NEW r \in Requests, CreateSchedule(r)
  PROVE  Leasing'
  <1>1. /\ TypeOK /\ Bounded /\ RenewalsInStep /\ Births
        /\ "main" \in Kinds /\ NoLease \notin Leases
    BY Untouched DEF Leasing
  <1>2. req[r].pc = "create.schedule" /\ req[r].lease \in Leases /\ Born(req[r].lease)
    BY <1>1 DEF CreateSchedule, At, Births, Suits
  <1>3. PICK l \in Leases : l = req[r].lease  BY <1>2
  <1>4. /\ job' = Queued(job, "main", l, req[r].until) /\ Answer(r)
        /\ UNCHANGED <<config, row, account, prune, alerted, mark, faults>>
    BY <1>3 DEF CreateSchedule
  <1>5. /\ job' \in [Kinds -> [Leases -> Job]]
        /\ \A h \in Kinds : \A m \in Leases :
             /\ job'[h][m].after <= MaxTTL
             /\ job[h][m].state # "none" => job'[h][m] = job[h][m]
             /\ h # "main" \/ m # l => job'[h][m] = job[h][m]
             /\ job'[h][m].state = "delete" => job[h][m].state = "delete"
        /\ job'["main"][l].state # "none"
        /\ job["main"][l].state = "none" => job'["main"][l].after = req[r].until
    <2>1. req[r].until \in Nat /\ req[r].until <= MaxTTL  BY <1>1, Fields DEF Bounded
    <2>2. QED  BY <1>1, <1>4, <2>1, RevocationAdded
  <1>6. /\ MovesOn(r) /\ req' \in [Requests -> Request] /\ asked' \in 0..MaxAsked
        /\ \A s \in Requests : s # r => req'[s] = req[s]
        /\ req'[r].lease \notin Leases
    BY <1>1, <1>2, <1>3, <1>4, <1>5, AnswerMoves DEF At
  <1>7. TypeOK'  BY <1>1, <1>4, <1>5, <1>6 DEF TypeOK
  <1>8. row'[l].state = "present" /\ Undisputed(l)' => InStep(l)'
    <2>1. SUFFICES ASSUME row'[l].state = "present", Undisputed(l)'  PROVE InStep(l)'
      OBVIOUS
    <2>2. l \in Present /\ Undisputed(l)  BY <1>4, <2>1 DEF Present, Undisputed
    <2>3. InStep(l)  BY <1>1, <2>2 DEF RenewalsInStep
    <2>4. /\ job["main"][l].state = "none" /\ row[l].life = req[r].until
          /\ \A s \in Requests : s # r /\ req[s].lease = l =>
               req[s].pc \notin {"create.schedule", "renew.unset", "renew.set", "renew.update"}
      BY <1>2, <1>3, <2>3 DEF InStep
    <2>5. \A s \in Requests : req'[s].lease = l =>
            req'[s].pc \notin {"create.schedule", "renew.unset", "renew.set", "renew.update"}
      BY <1>6, <2>4
    <2>6. job'["main"][l].after = row'[l].life  BY <1>4, <1>5, <2>4
    <2>7. QED  BY <2>5, <2>6 DEF InStep
  <1>9. \A m \in Leases :
          job["main"][m].state # "none" /\ job'["main"][m].state = "none" => MainEnds(m)
    BY <1>1, <1>5
  <1>10. /\ \A m \in Leases : RowStays(m)
         /\ \A m \in Leases : row'[m].state = "present" =>
              row[m].state = "present" /\ row'[m].life = row[m].life
         /\ \A m \in Leases : m # l => req[r].lease # m /\ req'[r].lease # m
    BY <1>3, <1>4, <1>6, Untouched
  <1>11. /\ \A m \in Leases :
              /\ account'[m] = "live" => account[m] = "live"
              /\ mark[m] \subseteq mark'[m]
         /\ prune' = prune /\ Born(l)
    BY <1>2, <1>3, <1>4
  <1>12. \A m \in Leases : m # l /\ job'["main"][m].state # "none" =>
           job["main"][m].state # "none" /\ job'["main"][m].after = job["main"][m].after
    BY <1>1, <1>5
  <1>13. \A k \in Kinds : \A m \in Leases :
           job'[k][m].state # "none" => job[k][m].state # "none" \/ Born(m)
    BY <1>5, <1>11
  <1>14. QED
    BY <1>5, <1>6, <1>7, <1>8, <1>9, <1>10, <1>11, <1>12, <1>13, RequestKeeps

\* The other requests leave the time of every row and every job as it is.
LEMMA TimelessKeeps ==
  ASSUME Leasing, TypeOK', NEW r \in Requests, MovesOn(r),
         \A s \in Requests : s # r => req'[s] = req[s],
         req[r].pc \notin {"renew.set", "renew.update"},
         req'[r].pc \notin {"create.schedule", "renew.unset", "renew.set", "renew.update"},
         \A l \in Leases : mark[l] \subseteq mark'[l],
         \A l \in Leases : account'[l] = "live" => account[l] = "live",
         \A l \in Leases :
           \/ RowEnds(l)
           \/ RowStays(l) /\ (l \in Present => row'[l].life = row[l].life),
         \A k \in Kinds : \A l \in Leases :
           /\ job'[k][l].after <= MaxTTL
           /\ job'[k][l].state # "none" => job[k][l].state # "none" \/ Born(l)
           /\ job'[k][l].state = "delete" => job[k][l].state = "delete",
         \A l \in Leases : job'["main"][l].state # "none" => job'["main"][l] = job["main"][l],
         \A l \in Leases :
           job["main"][l].state # "none" /\ job'["main"][l].state = "none" => MainEnds(l),
         prune' = prune \/ prune'.seen = {}
  PROVE  Leasing'
  <1>1. \A l \in Leases : row'[l].state = "present" =>
          row[l].state = "present" /\ row'[l].life = row[l].life
    BY DEF RowEnds, RowStays, Present
  <1>2. \A l \in Leases : RowEnds(l) \/ RowStays(l)  OBVIOUS
  <1>3. QED  BY <1>1, <1>2, RequestKeeps

\* The error of a revocation leads to the flag, its success to the row's end.
LEMMA RevokeBeginKeeps ==
  ASSUME Leasing, NEW r \in Requests, NEW l \in Leases, RevokeBegin(r, l)
  PROVE  Leasing'
  <1>1. TypeOK /\ Bounded /\ "main" \in Kinds /\ NoLease \notin Leases
    BY Untouched
  <1>2. l \in Present /\ UNCHANGED <<config, row, job, prune, alerted, mark, faults>>
    BY DEF RevokeBegin
  <1>3. PICK pc \in {"revoke.unset", "revoke.flag"} :
          /\ Begin(r, pc, l, 0, {})
          /\ \/ account' = [account EXCEPT ![l] = "revoked"]
             \/ account' = account /\ pc = "revoke.flag"
    BY DEF RevokeBegin
  <1>4. /\ account' \in [Leases -> {"none", "live", "revoked"}]
        /\ \A m \in Leases : account'[m] = "live" => account[m] = "live"
        /\ pc = "revoke.unset" => account'[l] # "live"
    BY <1>1, <1>3 DEF TypeOK
  <1>5. /\ MovesOn(r) /\ req' \in [Requests -> Request] /\ asked' \in 0..MaxAsked
        /\ \A s \in Requests : s # r => req'[s] = req[s]
        /\ req[r].pc = "idle" /\ req'[r].pc = pc
    <2>1. /\ l \in Leases \cup {NoLease} /\ {} \in SUBSET Leases /\ \A m \in {} : Born(m)
          /\ 0 \in Nat /\ 0 <= MaxTTL
      BY LeaseAssumption
    <2>2. QED  BY <1>1, <1>2, <1>3, <1>4, <2>1, BeginMoves, SMTT(60)
  <1>6. TypeOK'  BY <1>1, <1>2, <1>4, <1>5 DEF TypeOK
  <1>7. \A m \in Leases : RowStays(m) /\ row'[m] = row[m] /\ mark[m] \subseteq mark'[m]
    BY <1>2, Untouched
  <1>8. \A k \in Kinds : \A m \in Leases : job'[k][m] = job[k][m] /\ job'[k][m].after <= MaxTTL
    BY <1>2, Untouched
  <1>9. prune' = prune  BY <1>2
  <1>10. QED  BY <1>1, <1>4, <1>5, <1>6, <1>7, <1>8, <1>9, TimelessKeeps

\* A forced one leaves its mark.
LEMMA RevokeForcedKeeps ==
  ASSUME Leasing, NEW r \in Requests, NEW l \in Leases, RevokeForced(r, l)
  PROVE  Leasing'
  <1>1. TypeOK /\ Bounded /\ "main" \in Kinds /\ NoLease \notin Leases
    BY Untouched
  <1>2. /\ l \in Present /\ mark' = Marked({l}, {"forced"})
        /\ Begin(r, "revoke.unset", l, 0, {})
        /\ UNCHANGED <<config, row, account, job, prune, alerted, faults>>
    BY DEF RevokeForced
  <1>3. /\ mark' \in [Leases -> SUBSET Marks]
        /\ \A m \in Leases : mark[m] \subseteq mark'[m]
        /\ "forced" \in mark'[l]
    <2>1. {"forced"} \in SUBSET Marks  BY DEF Marks
    <2>2. QED  BY <1>1, <1>2, <2>1, MarksAdded
  <1>4. /\ MovesOn(r) /\ req' \in [Requests -> Request] /\ asked' \in 0..MaxAsked
        /\ \A s \in Requests : s # r => req'[s] = req[s]
        /\ req[r].pc = "idle" /\ req'[r].pc = "revoke.unset"
    <2>1. /\ l \in Leases \cup {NoLease} /\ {} \in SUBSET Leases /\ \A m \in {} : Born(m)
          /\ 0 \in Nat /\ 0 <= MaxTTL
      BY LeaseAssumption
    <2>2. "forced" \in mark'[l]  BY <1>3
    <2>3. TypeOK /\ l \in Present /\ Begin(r, "revoke.unset", l, 0, {})  BY <1>1, <1>2
    <2>4. QED  BY <2>1, <2>2, <2>3, BeginMoves
  <1>5. TypeOK'  BY <1>1, <1>2, <1>3, <1>4 DEF TypeOK
  <1>6. \A m \in Leases :
          RowStays(m) /\ row'[m] = row[m] /\ (account'[m] = "live" => account[m] = "live")
    BY <1>2, Untouched
  <1>7. \A k \in Kinds : \A m \in Leases : job'[k][m] = job[k][m] /\ job'[k][m].after <= MaxTTL
    BY <1>2, Untouched
  <1>8. prune' = prune  BY <1>2
  <1>9. QED  BY <1>1, <1>3, <1>4, <1>5, <1>6, <1>7, <1>8, TimelessKeeps

\* The flag: no job is touched.
LEMMA RevokeFlagKeeps ==
  ASSUME Leasing, NEW r \in Requests, RevokeFlag(r)
  PROVE  Leasing'
  <1>1. /\ TypeOK /\ Bounded /\ Births
        /\ "main" \in Kinds /\ NoLease \notin Leases
    BY Untouched DEF Leasing
  <1>2. req[r].pc = "revoke.flag" /\ req[r].lease \in Leases
    BY <1>1 DEF RevokeFlag, At, Births, Suits
  <1>3. PICK l \in Leases : l = req[r].lease  BY <1>2
  <1>4. /\ Flag(l) /\ Goto(r, "revoke.retry")
        /\ UNCHANGED <<config, account, job, prune, alerted, mark, faults>>
    BY <1>3 DEF RevokeFlag
  <1>5. /\ req' \in [Requests -> Request] /\ asked' = asked
        /\ req'[r].pc = "revoke.retry" /\ req'[r].lease = l
        /\ req'[r].until = req[r].until /\ req'[r].seen = req[r].seen
        /\ \A s \in Requests : s # r => req'[s] = req[s]
    BY <1>1, <1>3, <1>4, RequestGoes
  <1>6. MovesOn(r)
    <2>1. Suits(req[r]) /\ req[r].until <= MaxTTL  BY <1>1 DEF Births, Bounded
    <2>2. Suits(req'[r])  BY <1>2, <1>3, <1>5, <2>1 DEF Suits
    <2>3. QED  BY <1>2, <1>5, <2>1, <2>2 DEF MovesOn, At
  <1>7. /\ row' \in [Leases -> Row]
        /\ \A m \in Leases : row'[m].state = row[m].state /\ row'[m].life = row[m].life
        /\ \A m \in Leases : row[m].failed => row'[m].failed
    BY <1>1, <1>4, RowFlagged
  <1>8. TypeOK'  BY <1>1, <1>4, <1>5, <1>7 DEF TypeOK
  <1>9. \A m \in Leases : RowStays(m) /\ row'[m].life = row[m].life
    BY <1>1, <1>7 DEF RowStays, Bounded
  <1>10. \A k \in Kinds : \A m \in Leases : job'[k][m] = job[k][m] /\ job'[k][m].after <= MaxTTL
    BY <1>4, Untouched
  <1>11. /\ \A m \in Leases :
              /\ account'[m] = "live" => account[m] = "live"
              /\ mark[m] \subseteq mark'[m]
         /\ prune' = prune
    BY <1>4
  <1>12. QED
    BY <1>1, <1>2, <1>5, <1>6, <1>8, <1>9, <1>10, <1>11, TimelessKeeps

\* The retry job.
LEMMA RevokeRetryKeeps ==
  ASSUME Leasing, NEW r \in Requests, RevokeRetry(r)
  PROVE  Leasing'
  <1>1. /\ TypeOK /\ Bounded /\ Births
        /\ "main" \in Kinds /\ "retry" \in Kinds /\ NoLease \notin Leases
    BY Untouched DEF Leasing, Kinds
  <1>2. req[r].pc = "revoke.retry" /\ req[r].lease \in Leases /\ Born(req[r].lease)
    BY <1>1 DEF RevokeRetry, At, Births, Suits
  <1>3. PICK l \in Leases : l = req[r].lease  BY <1>2
  <1>4. /\ job' = Queued(job, "retry", l, 0) /\ Answer(r)
        /\ UNCHANGED <<config, row, account, prune, alerted, mark, faults>>
    BY <1>3 DEF RevokeRetry
  <1>5. /\ job' \in [Kinds -> [Leases -> Job]]
        /\ \A h \in Kinds : \A m \in Leases :
             /\ job'[h][m].after <= MaxTTL
             /\ job[h][m].state # "none" => job'[h][m] = job[h][m]
             /\ h # "retry" \/ m # l => job'[h][m] = job[h][m]
             /\ job'[h][m].state = "delete" => job[h][m].state = "delete"
    BY <1>1, <1>4, LeaseAssumption, RevocationAdded
  <1>6. /\ MovesOn(r) /\ req' \in [Requests -> Request] /\ asked' \in 0..MaxAsked
        /\ \A s \in Requests : s # r => req'[s] = req[s]
        /\ req'[r] = Idle
    BY <1>1, <1>2, <1>4, AnswerMoves, RequestAnswered DEF At
  <1>7. TypeOK'  BY <1>1, <1>4, <1>5, <1>6 DEF TypeOK
  <1>8. \A m \in Leases : RowStays(m) /\ row'[m] = row[m]
    BY <1>4, Untouched
  <1>9. \A k \in Kinds : \A m \in Leases :
          job'[k][m].state # "none" => job[k][m].state # "none" \/ Born(m)
    BY <1>2, <1>3, <1>5
  <1>10. \A m \in Leases : job'["main"][m] = job["main"][m]  BY <1>1, <1>5
  <1>11. /\ \A m \in Leases :
              /\ account'[m] = "live" => account[m] = "live"
              /\ mark[m] \subseteq mark'[m]
         /\ prune' = prune
    BY <1>4
  <1>12. QED
    BY <1>2, <1>5, <1>6, <1>7, <1>8, <1>9, <1>10, <1>11, Blanks, TimelessKeeps

\* The job of a lease whose account is dealt with, and whose row is to follow.
LEMMA RevokeUnsetKeeps ==
  ASSUME Leasing, NEW r \in Requests, RevokeUnset(r)
  PROVE  Leasing'
  <1>1. /\ TypeOK /\ Bounded /\ Births /\ AccountsFirst
        /\ "main" \in Kinds /\ NoLease \notin Leases
    BY Untouched DEF Leasing
  <1>2. req[r].pc = "revoke.unset" /\ req[r].lease \in Leases
    BY <1>1 DEF RevokeUnset, At, Births, Suits
  <1>3. PICK l \in Leases : l = req[r].lease  BY <1>2
  <1>4. /\ job' = Stopped(job, {l}) /\ Goto(r, "revoke.row")
        /\ UNCHANGED <<config, row, account, prune, alerted, mark, faults>>
    BY <1>3 DEF RevokeUnset
  <1>5. /\ req' \in [Requests -> Request] /\ asked' = asked
        /\ req'[r].pc = "revoke.row" /\ req'[r].lease = l
        /\ req'[r].until = req[r].until /\ req'[r].seen = req[r].seen
        /\ \A s \in Requests : s # r => req'[s] = req[s]
    BY <1>1, <1>3, <1>4, RequestGoes
  <1>6. MovesOn(r)
    <2>1. Suits(req[r]) /\ req[r].until <= MaxTTL  BY <1>1 DEF Births, Bounded
    <2>2. Suits(req'[r])  BY <1>2, <1>3, <1>5, <2>1 DEF Suits
    <2>3. account'[l] # "live" \/ "forced" \in mark'[l]
      BY <1>1, <1>2, <1>3, <1>4 DEF AccountsFirst
    <2>4. QED  BY <1>2, <1>5, <2>1, <2>2, <2>3 DEF MovesOn, At
  <1>7. /\ job' \in [Kinds -> [Leases -> Job]]
        /\ \A k \in Kinds : \A m \in Leases :
             /\ job'[k][m].after <= MaxTTL
             /\ job'[k][m].state # "none" => job'[k][m] = job[k][m]
        /\ \A m \in Leases :
             job["main"][m].state # "none" /\ job'["main"][m].state = "none" => m \in {l}
    BY <1>1, <1>4, RevocationsUnset
  <1>8. TypeOK'  BY <1>1, <1>4, <1>5, <1>7 DEF TypeOK
  <1>9. \A m \in Leases : RowStays(m) /\ row'[m] = row[m]
    BY <1>4, Untouched
  <1>10. \A m \in Leases :
           job["main"][m].state # "none" /\ job'["main"][m].state = "none" => MainEnds(m)
    BY <1>5, <1>7 DEF MainEnds
  <1>11. \A k \in Kinds : \A m \in Leases :
           /\ job'[k][m].state # "none" => job[k][m].state # "none" \/ Born(m)
           /\ job'[k][m].state = "delete" => job[k][m].state = "delete"
    BY <1>7
  <1>12. \A m \in Leases : job'["main"][m].state # "none" => job'["main"][m] = job["main"][m]
    BY <1>1, <1>7
  <1>13. /\ \A m \in Leases :
              /\ account'[m] = "live" => account[m] = "live"
              /\ mark[m] \subseteq mark'[m]
         /\ prune' = prune
    BY <1>4
  <1>14. QED
    BY <1>2, <1>5, <1>6, <1>7, <1>8, <1>9, <1>10, <1>11, <1>12, <1>13, TimelessKeeps

\* Its row.
LEMMA RevokeRowKeeps ==
  ASSUME Leasing, NEW r \in Requests, RevokeRow(r)
  PROVE  Leasing'
  <1>1. /\ TypeOK /\ Bounded /\ Births /\ AccountsFirst
        /\ "main" \in Kinds /\ NoLease \notin Leases
    BY Untouched DEF Leasing
  <1>2. req[r].pc = "revoke.row" /\ req[r].lease \in Leases /\ Born(req[r].lease)
    BY <1>1 DEF RevokeRow, At, Births, Suits
  <1>3. PICK l \in Leases : l = req[r].lease  BY <1>2
  <1>4. /\ row' = [row EXCEPT ![l] = Gone] /\ Answer(r)
        /\ UNCHANGED <<config, account, job, prune, alerted, mark, faults>>
    BY <1>3 DEF RevokeRow
  <1>5. account'[l] = "live" => mark'[l] \cap {"cut", "forced", "overlooked"} # {}
    BY <1>1, <1>2, <1>3, <1>4 DEF AccountsFirst
  <1>6. /\ row' \in [Leases -> Row] /\ row'[l] = Gone
        /\ \A m \in Leases :
             \/ RowEnds(m)
             \/ RowStays(m) /\ (m \in Present => row'[m].life = row[m].life)
    BY <1>1, <1>2, <1>3, <1>4, <1>5, RowDeleted
  <1>7. row'[l].state # "present"  BY <1>6, Blanks
  <1>8. /\ MovesOn(r) /\ req' \in [Requests -> Request] /\ asked' \in 0..MaxAsked
        /\ \A s \in Requests : s # r => req'[s] = req[s]
        /\ req'[r] = Idle
    BY <1>1, <1>2, <1>3, <1>4, <1>7, AnswerMoves, RequestAnswered DEF At
  <1>9. TypeOK'  BY <1>1, <1>4, <1>6, <1>8 DEF TypeOK
  <1>10. \A k \in Kinds : \A m \in Leases : job'[k][m] = job[k][m] /\ job'[k][m].after <= MaxTTL
    BY <1>4, Untouched
  <1>11. /\ \A m \in Leases :
              /\ account'[m] = "live" => account[m] = "live"
              /\ mark[m] \subseteq mark'[m]
         /\ prune' = prune
    BY <1>4
  <1>12. QED
    BY <1>1, <1>2, <1>6, <1>8, <1>9, <1>10, <1>11, Blanks, TimelessKeeps

\* A deletion of the secret goes the way its leases tell.
LEMMA DeleteBeginKeeps ==
  ASSUME Leasing, NEW r \in Requests, DeleteBegin(r)
  PROVE  Leasing'
  <1>1. TypeOK /\ Bounded /\ "main" \in Kinds /\ NoLease \notin Leases
    BY Untouched
  <1>2. UNCHANGED <<config, row, account, job, prune, alerted, mark, faults>>
    BY DEF DeleteBegin
  <1>3. PICK pc \in {"delete.row", "delete.flag"} :
          /\ Begin(r, pc, NoLease, 0, Present)
          /\ pc = "delete.row" => Present = {}
    BY DEF DeleteBegin
  <1>4. /\ MovesOn(r) /\ req' \in [Requests -> Request] /\ asked' \in 0..MaxAsked
        /\ \A s \in Requests : s # r => req'[s] = req[s]
        /\ req[r].pc = "idle" /\ req'[r].pc = pc
    <2>1. /\ Present \in SUBSET Leases /\ \A m \in Present : Born(m)
          /\ NoLease \in Leases \cup {NoLease} /\ 0 \in Nat /\ 0 <= MaxTTL
      BY LeaseAssumption DEF Present, Born
    <2>2. pc = "delete.row" => \A m \in Present : "forced" \in mark'[m]  BY <1>3
    <2>3. QED  BY <1>1, <1>3, <2>1, <2>2, BeginMoves
  <1>5. TypeOK'  BY <1>1, <1>2, <1>4 DEF TypeOK
  <1>6. \A m \in Leases :
          /\ RowStays(m) /\ row'[m] = row[m]
          /\ account'[m] = "live" => account[m] = "live"
          /\ mark[m] \subseteq mark'[m]
    BY <1>2, Untouched
  <1>7. \A k \in Kinds : \A m \in Leases : job'[k][m] = job[k][m] /\ job'[k][m].after <= MaxTTL
    BY <1>2, Untouched
  <1>8. prune' = prune  BY <1>2
  <1>9. QED  BY <1>1, <1>4, <1>5, <1>6, <1>7, <1>8, TimelessKeeps

\* A forced one unsets the revocations and gives the accounts up, and says so.
LEMMA DeleteForcedKeeps ==
  ASSUME Leasing, NEW r \in Requests, DeleteForced(r)
  PROVE  Leasing'
  <1>1. TypeOK /\ Bounded /\ "main" \in Kinds /\ NoLease \notin Leases
    BY Untouched
  <1>2. /\ Begin(r, "delete.row", NoLease, 0, Present)
        /\ job' = Stopped(job, Present) /\ mark' = Marked(Present, {"stripped", "forced"})
        /\ UNCHANGED <<config, row, account, prune, alerted, faults>>
    BY DEF DeleteForced
  <1>3. /\ Present \in SUBSET Leases /\ \A m \in Present : Born(m)
        /\ NoLease \in Leases \cup {NoLease} /\ 0 \in Nat /\ 0 <= MaxTTL
    BY LeaseAssumption DEF Present, Born
  <1>4. /\ mark' \in [Leases -> SUBSET Marks]
        /\ \A m \in Leases : mark[m] \subseteq mark'[m]
        /\ \A m \in Present : "stripped" \in mark'[m] /\ "forced" \in mark'[m]
    <2>1. {"stripped", "forced"} \in SUBSET Marks  BY DEF Marks
    <2>2. QED  BY <1>1, <1>2, <1>3, <2>1, MarksAdded
  <1>5. /\ MovesOn(r) /\ req' \in [Requests -> Request] /\ asked' \in 0..MaxAsked
        /\ \A s \in Requests : s # r => req'[s] = req[s]
        /\ req[r].pc = "idle" /\ req'[r].pc = "delete.row"
    <2>1. \A m \in Present : "forced" \in mark'[m]  BY <1>4
    <2>2. TypeOK /\ Begin(r, "delete.row", NoLease, 0, Present)  BY <1>1, <1>2
    <2>3. QED  BY <1>3, <2>1, <2>2, BeginMoves
  <1>6. /\ job' \in [Kinds -> [Leases -> Job]]
        /\ \A k \in Kinds : \A m \in Leases :
             /\ job'[k][m].after <= MaxTTL
             /\ job'[k][m].state # "none" => job'[k][m] = job[k][m]
        /\ \A m \in Leases :
             job["main"][m].state # "none" /\ job'["main"][m].state = "none" => m \in Present
    BY <1>1, <1>2, <1>3, RevocationsUnset
  <1>7. TypeOK'  BY <1>1, <1>2, <1>4, <1>5, <1>6 DEF TypeOK
  <1>8. \A m \in Leases :
           job["main"][m].state # "none" /\ job'["main"][m].state = "none" => MainEnds(m)
    BY <1>4, <1>6 DEF MainEnds
  <1>9. \A k \in Kinds : \A m \in Leases :
          /\ job'[k][m].state # "none" => job[k][m].state # "none" \/ Born(m)
          /\ job'[k][m].state = "delete" => job[k][m].state = "delete"
    BY <1>6
  <1>10. \A m \in Leases : job'["main"][m].state # "none" => job'["main"][m] = job["main"][m]
    BY <1>1, <1>6
  <1>11. \A m \in Leases :
           RowStays(m) /\ row'[m] = row[m] /\ (account'[m] = "live" => account[m] = "live")
    BY <1>2, Untouched
  <1>12. prune' = prune  BY <1>2
  <1>13. QED
    BY <1>4, <1>5, <1>6, <1>7, <1>8, <1>9, <1>10, <1>11, <1>12, TimelessKeeps

\* The status of the secret touches no lease.
LEMMA DeleteFlagKeeps ==
  ASSUME Leasing, NEW r \in Requests, DeleteFlag(r)
  PROVE  Leasing'
  <1>1. TypeOK /\ Bounded /\ Births /\ "main" \in Kinds /\ NoLease \notin Leases
    BY Untouched DEF Leasing
  <1>2. /\ req[r].pc = "delete.flag"
        /\ UNCHANGED <<row, account, job, prune, alerted, mark, faults>>
    BY DEF DeleteFlag, At
  <1>3. config' \in {"active", "deleting", "failed", "gone"}
    BY <1>1 DEF DeleteFlag, TypeOK
  <1>4. /\ MovesOn(r) /\ req' \in [Requests -> Request] /\ asked' \in 0..MaxAsked
        /\ \A s \in Requests : s # r => req'[s] = req[s]
        /\ req'[r].pc \in {"idle", "delete.prune"}
    <2>1. CASE Answer(r)
      BY <1>1, <1>2, <2>1, Blanks, AnswerMoves, RequestAnswered DEF At
    <2>2. CASE Goto(r, "delete.prune")
      <3>1. /\ req' \in [Requests -> Request] /\ asked' = asked
            /\ req'[r].pc = "delete.prune" /\ req'[r].lease = req[r].lease
            /\ req'[r].until = req[r].until /\ req'[r].seen = req[r].seen
            /\ \A s \in Requests : s # r => req'[s] = req[s]
        BY <1>1, <2>2, RequestGoes
      <3>2. Suits(req[r]) /\ req[r].until <= MaxTTL  BY <1>1 DEF Births, Bounded
      <3>3. Suits(req'[r])  BY <1>1, <1>2, <3>1, <3>2 DEF Suits
      <3>4. MovesOn(r)  BY <1>2, <3>1, <3>2, <3>3 DEF MovesOn, At
      <3>5. asked' \in 0..MaxAsked  BY <1>1, <3>1 DEF TypeOK
      <3>6. QED  BY <3>1, <3>4, <3>5
    <2>3. QED  BY <2>1, <2>2 DEF DeleteFlag
  <1>5. TypeOK'  BY <1>1, <1>2, <1>3, <1>4 DEF TypeOK
  <1>6. \A m \in Leases :
          /\ RowStays(m) /\ row'[m] = row[m]
          /\ account'[m] = "live" => account[m] = "live"
          /\ mark[m] \subseteq mark'[m]
    BY <1>2, Untouched
  <1>7. \A k \in Kinds : \A m \in Leases : job'[k][m] = job[k][m] /\ job'[k][m].after <= MaxTTL
    BY <1>2, Untouched
  <1>8. prune' = prune  BY <1>2
  <1>9. QED  BY <1>1, <1>2, <1>4, <1>5, <1>6, <1>7, <1>8, TimelessKeeps

\* The job that deletes the secret is queued, and has seen nothing.
LEMMA DeletePruneKeeps ==
  ASSUME Leasing, NEW r \in Requests, DeletePrune(r)
  PROVE  Leasing'
  <1>1. TypeOK /\ Bounded /\ "main" \in Kinds /\ NoLease \notin Leases
    BY Untouched
  <1>2. /\ req[r].pc = "delete.prune" /\ Answer(r)
        /\ UNCHANGED <<config, row, account, job, alerted, mark, faults>>
    BY DEF DeletePrune, At
  <1>3. prune' \in Prune /\ (prune' = prune \/ prune'.seen = {})
    <2>1. [NoPrune EXCEPT !.state = "wait"] \in Prune
          /\ [NoPrune EXCEPT !.state = "wait"].seen = {}
      <3>1. 0 \in 0..(Attempts - 1)  BY LeaseAssumption
      <3>2. QED  BY <3>1 DEF NoPrune, Prune
    <2>2. QED  BY <1>1, <2>1 DEF DeletePrune, TypeOK
  <1>4. /\ MovesOn(r) /\ req' \in [Requests -> Request] /\ asked' \in 0..MaxAsked
        /\ \A s \in Requests : s # r => req'[s] = req[s]
        /\ req'[r] = Idle
    BY <1>1, <1>2, AnswerMoves, RequestAnswered DEF At
  <1>5. TypeOK'  BY <1>1, <1>2, <1>3, <1>4 DEF TypeOK
  <1>6. \A m \in Leases :
          /\ RowStays(m) /\ row'[m] = row[m]
          /\ account'[m] = "live" => account[m] = "live"
          /\ mark[m] \subseteq mark'[m]
    BY <1>2, Untouched
  <1>7. \A k \in Kinds : \A m \in Leases : job'[k][m] = job[k][m] /\ job'[k][m].after <= MaxTTL
    BY <1>2, Untouched
  <1>8. QED  BY <1>1, <1>2, <1>3, <1>4, <1>5, <1>6, <1>7, Blanks, TimelessKeeps

\* The rows go with the secret.
LEMMA DeleteRowKeeps ==
  ASSUME Leasing, NEW r \in Requests, DeleteRow(r)
  PROVE  Leasing'
  <1>1. TypeOK /\ Bounded /\ AccountsFirst /\ "main" \in Kinds /\ NoLease \notin Leases
    BY Untouched DEF Leasing
  <1>2. /\ req[r].pc = "delete.row" /\ Cascade(req[r].seen) /\ Answer(r)
        /\ UNCHANGED <<account, job, prune, alerted, faults>>
    BY DEF DeleteRow, At
  <1>3. /\ row' \in [Leases -> Row] /\ mark' \in [Leases -> SUBSET Marks] /\ config' = "gone"
        /\ \A l \in Leases : mark[l] \subseteq mark'[l]
        /\ \A l \in Leases : RowEnds(l) \/ RowStays(l)
        /\ \A l \in Leases : row'[l].state # "present"
    <2>1. req[r].seen \in SUBSET Leases  BY <1>1, Fields
    <2>2. \A l \in req[r].seen : "forced" \in mark[l]
      BY <1>1, <1>2 DEF AccountsFirst, At
    <2>3. QED  BY <1>1, <1>2, <2>1, <2>2, RowsCascade
  <1>4. /\ MovesOn(r) /\ req' \in [Requests -> Request] /\ asked' \in 0..MaxAsked
        /\ \A s \in Requests : s # r => req'[s] = req[s]
        /\ req'[r] = Idle
    BY <1>1, <1>2, AnswerMoves, RequestAnswered DEF At
  <1>5. TypeOK'  BY <1>1, <1>2, <1>3, <1>4 DEF TypeOK
  <1>6. \A m \in Leases :
          \/ RowEnds(m)
          \/ RowStays(m) /\ (m \in Present => row'[m].life = row[m].life)
    BY <1>3 DEF RowStays, Present
  <1>7. \A k \in Kinds : \A m \in Leases : job'[k][m] = job[k][m] /\ job'[k][m].after <= MaxTTL
    BY <1>2, Untouched
  <1>8. prune' = prune /\ \A m \in Leases : account'[m] = "live" => account[m] = "live"
    BY <1>2
  <1>9. QED  BY <1>1, <1>2, <1>3, <1>4, <1>5, <1>6, <1>7, <1>8, Blanks, TimelessKeeps

-----------------------------------------------------------------------------
(* Requests that create a lease, and those cut short.                      *)

\* The row of a lease that was not there yet comes, or comes and goes.
LEMMA BirthKeeps ==
  ASSUME Leasing, TypeOK', NEW r \in Requests, At(r, "create.insert"),
         NEW l \in Leases, l = req[r].lease,
         UNCHANGED <<account, job, prune>>,
         \A m \in Leases : m # l => row'[m] = row[m],
         \A m \in Leases : mark[m] \subseteq mark'[m],
         \A s \in Requests : s # r => req'[s] = req[s],
         req'[r].seen \subseteq req[r].seen,
         \/ /\ row'[l].state = "present" /\ row'[l].life = req[r].until
            /\ req'[r].pc = "create.schedule" /\ req'[r].lease = l
            /\ req'[r].until = req[r].until
         \/ /\ row'[l].state = "gone" /\ row'[l].life = 0
            /\ mark'[l] \cap {"cut", "forced", "overlooked"} # {}
            /\ req'[r] = Idle
  PROVE  Leasing'
  <1>1. /\ TypeOK /\ Bounded /\ Births /\ AccountsFirst /\ NoForgottenAccount
        /\ EveryLeaseIsScheduled /\ RenewalsInStep /\ "main" \in Kinds /\ NoLease \notin Leases
    BY Untouched DEF Leasing
  <1>2. /\ ~Born(l)
        /\ \A s \in Requests : req[s].lease = l => s = r
        /\ \A s \in Requests : s # r /\ req'[s].lease = l => FALSE
        /\ \A k \in Kinds : job[k][l].state = "none"
        /\ l \notin prune.seen
    BY <1>1 DEF Births
  <1>3. /\ Born(l)'
        /\ \A m \in Leases : Born(m) => Born(m)'
        /\ \A m \in Leases : m # l => (Born(m)' <=> Born(m))
    BY DEF Born
  <1>4. req[r].until <= MaxTTL /\ 0 <= MaxTTL
    BY <1>1, LeaseAssumption DEF Bounded
  <1>5. Bounded'
    <2>1. \A m \in Leases : row'[m].life <= MaxTTL  BY <1>1, <1>4 DEF Bounded
    <2>2. \A s \in Requests : req'[s].until <= MaxTTL  BY <1>1, <1>4, Blanks DEF Bounded
    <2>3. QED  BY <1>1, <2>1, <2>2 DEF Bounded
  <1>6. Births'
    <2>1. ASSUME NEW s \in Requests  PROVE Suits(req[s])'
      <3>1. CASE s # r
        <4>1. Suits(req[s]) /\ req'[s] = req[s] /\ req[s].seen \subseteq Leases
          BY <1>1, <3>1, Fields DEF Births
        <4>2. QED  BY <1>3, <4>1 DEF Suits
      <3>2. CASE s = r
        <4>1. CASE req'[r] = Idle  BY <1>1, <3>2, <4>1, Blanks DEF Suits
        <4>2. CASE /\ req'[r].pc = "create.schedule" /\ req'[r].lease = l
          <5>1. Suits(req[r]) /\ req[r].seen \subseteq Leases  BY <1>1, Fields DEF Births
          <5>2. \A m \in req'[r].seen : Born(m)'  BY <1>3, <5>1 DEF Suits
          <5>3. QED  BY <1>3, <3>2, <4>2, <5>2 DEF Suits
        <4>3. QED  BY <4>1, <4>2
      <3>3. QED  BY <3>1, <3>2
    <2>2. ASSUME NEW s \in Requests, At(s, "create.insert")'
          PROVE  /\ ~Born(req[s].lease)'
                 /\ \A t \in Requests : req'[t].lease = req'[s].lease => t = s
      <3>1. s # r /\ req'[s] = req[s] /\ At(s, "create.insert")
        BY <2>2, Blanks DEF At
      <3>2. /\ ~Born(req[s].lease) /\ req[s].lease \in Leases
            /\ \A t \in Requests : req[t].lease = req[s].lease => t = s
        BY <1>1, <3>1 DEF Births, Suits, At
      <3>3. req[s].lease # l  BY <1>2, <3>1
      <3>4. req'[r].lease \in {l, NoLease}  BY Blanks
      <3>5. \A t \in Requests : req'[t].lease = req[s].lease => t = s
        BY <1>1, <3>2, <3>3, <3>4
      <3>6. ~(Born(req[s].lease)')
        <4>1. PICK m \in Leases : m = req[s].lease  BY <3>2
        <4>2. ~(Born(m)')  BY <1>3, <3>2, <3>3, <4>1
        <4>3. req'[s].lease = m  BY <3>1, <4>1
        <4>4. QED  BY <4>2, <4>3 DEF Born
      <3>7. QED  BY <3>1, <3>5, <3>6
    <2>3. \A m \in prune'.seen : Born(m)'
      BY <1>1, <1>3, Fields DEF Births
    <2>4. \A k \in Kinds : \A m \in Leases : job'[k][m].state # "none" => Born(m)'
      BY <1>1, <1>3 DEF Births
    <2>5. QED  BY <2>1, <2>2, <2>3, <2>4 DEF Births
  <1>7. AccountsFirst'
    <2>1. ASSUME NEW s \in Requests
          PROVE  /\ req'[s].pc \in {"revoke.unset", "revoke.row"} =>
                      account'[req'[s].lease] # "live" \/ "forced" \in mark'[req'[s].lease]
                 /\ req'[s].pc = "delete.row" => \A m \in req'[s].seen : "forced" \in mark'[m]
      <3>1. CASE s = r  BY <3>1, Blanks
      <3>2. CASE s # r
        <4>1. req[s].pc \in {"revoke.unset", "revoke.row"} => req[s].lease \in Leases
          BY <1>1 DEF Births, Suits
        <4>2. req'[s] = req[s] /\ req[s].seen \subseteq Leases  BY <1>1, <3>2, Fields
        <4>3. QED  BY <1>1, <4>1, <4>2 DEF AccountsFirst, At
      <3>3. QED  BY <3>1, <3>2
    <2>2. QED  BY <1>1, <2>1 DEF AccountsFirst, At
  <1>8. NoForgottenAccount'
    <2>1. SUFFICES ASSUME NEW m \in Leases, account'[m] = "live", row'[m].state # "present",
                          mark'[m] \cap {"cut", "forced", "overlooked"} = {}
                   PROVE  \E s \in Requests : req'[s].lease = m /\ req'[s].pc \in {"create.insert"}
      BY DEF NoForgottenAccount, On
    <2>2. m # l  BY <2>1
    <2>3. account[m] = "live" /\ row[m].state # "present"
          /\ mark[m] \cap {"cut", "forced", "overlooked"} = {}
      BY <2>1, <2>2
    <2>4. PICK s \in Requests : req[s].lease = m /\ req[s].pc = "create.insert"
      BY <1>1, <2>3 DEF NoForgottenAccount, On
    <2>5. req'[s] = req[s]  BY <2>2, <2>4
    <2>6. QED  BY <2>4, <2>5
  <1>9. EveryLeaseIsScheduled'
    <2>1. SUFFICES ASSUME NEW m \in Leases, row'[m].state = "present", ~row'[m].failed,
                          job'["main"][m].state = "none",
                          mark'[m] \cap {"cut", "stripped", "silent"} = {}
                   PROVE  \E s \in Requests :
                            req'[s].lease = m /\ req'[s].pc \in {"create.schedule", "renew.set", "revoke.row"}
      BY DEF EveryLeaseIsScheduled, Present, Failed, On
    <2>2. CASE m = l  BY <2>1, <2>2
    <2>3. CASE m # l
      <3>1. row[m].state = "present" /\ ~row[m].failed /\ job["main"][m].state = "none"
            /\ mark[m] \cap {"cut", "stripped", "silent"} = {}
        BY <2>1, <2>3
      <3>2. PICK s \in Requests :
              req[s].lease = m /\ req[s].pc \in {"create.schedule", "renew.set", "revoke.row"}
        BY <1>1, <3>1 DEF EveryLeaseIsScheduled, Present, Failed, On
      <3>3. req'[s] = req[s]  BY <2>3, <3>2
      <3>4. QED  BY <3>2, <3>3
    <2>4. QED  BY <2>2, <2>3
  <1>10. RenewalsInStep'
    <2>1. row'[l].state = "present" => InStep(l)'
      <3>1. SUFFICES ASSUME row'[l].state = "present"  PROVE InStep(l)'
        OBVIOUS
      <3>2. /\ \A s \in Requests : req'[s].lease = l => s = r
            /\ req'[r].pc = "create.schedule" /\ row'[l].life = req'[r].until
            /\ job'["main"][l].state = "none"
        BY <1>1, <1>2, <3>1
      <3>3. QED  BY <3>2 DEF InStep
    <2>2. \A m \in Leases : row'[m].state = "present" /\ Undisputed(m)' =>
           \/ InStep(m)'
           \/ /\ row[m].state = "present" /\ row'[m].life = row[m].life
              /\ job'["main"][m].state # "none" =>
                   /\ job["main"][m].state # "none"
                   /\ job'["main"][m].after = job["main"][m].after
              /\ \A s \in Requests :
                   \/ req'[s] = req[s]
                   \/ /\ req[s].lease = m => req[s].pc \notin {"renew.set", "renew.update"}
                      /\ req'[s].lease = m =>
                           req'[s].pc \notin {"create.schedule", "renew.unset", "renew.set",
                                              "renew.update"}
      <3>1. req'[r].lease \in {l, NoLease}  BY Blanks
      <3>2. QED  BY <1>1, <2>1, <3>1
    <2>3. QED  BY <1>1, <2>2, RenewalsStay
  <1>11. QED  BY <1>5, <1>6, <1>7, <1>8, <1>9, <1>10 DEF Leasing

\* The row, or no row without the secret.
LEMMA CreateInsertKeeps ==
  ASSUME Leasing, NEW r \in Requests, CreateInsert(r)
  PROVE  Leasing'
  <1>1. TypeOK /\ Bounded /\ Births /\ NoLease \notin Leases
    BY Untouched DEF Leasing
  <1>2. req[r].pc = "create.insert" /\ req[r].lease \in Leases
    BY <1>1 DEF CreateInsert, At, Births, Suits
  <1>3. PICK l \in Leases : l = req[r].lease  BY <1>2
  <1>4. UNCHANGED <<config, account, job, prune, alerted, faults>>
    BY DEF CreateInsert
  <1>5. req[r].until \in Nat /\ row \in [Leases -> Row]  BY <1>1, Fields DEF TypeOK
  <1>6. CASE /\ row' = [row EXCEPT ![l] =
                          [state |-> "present", failed |-> FALSE, life |-> req[r].until]]
             /\ Goto(r, "create.schedule") /\ UNCHANGED mark
    <2> DEFINE new == [state |-> "present", failed |-> FALSE, life |-> req[r].until]
    <2>1. new \in Row /\ new.state = "present" /\ new.life = req[r].until
      BY <1>5 DEF Row
    <2>2. row' = [row EXCEPT ![l] = new]  BY <1>6
    <2> HIDE DEF new
    <2>3. /\ row' \in [Leases -> Row] /\ row'[l] = new
          /\ \A m \in Leases : m # l => row'[m] = row[m]
      BY <1>5, <2>1, <2>2
    <2>4. /\ req' \in [Requests -> Request] /\ asked' = asked
          /\ req'[r].pc = "create.schedule" /\ req'[r].lease = l
          /\ req'[r].until = req[r].until /\ req'[r].seen = req[r].seen
          /\ \A s \in Requests : s # r => req'[s] = req[s]
      BY <1>1, <1>3, <1>6, RequestGoes
    <2>5. TypeOK'  BY <1>1, <1>4, <1>6, <2>3, <2>4 DEF TypeOK
    <2>6. QED  BY <1>2, <1>3, <1>4, <1>6, <2>1, <2>3, <2>4, <2>5, BirthKeeps DEF At
  <1>7. CASE /\ row' = [row EXCEPT ![l] = Gone] /\ mark' = Marked({l}, {"overlooked"})
             /\ Answer(r)
    <2>1. /\ row' \in [Leases -> Row] /\ row'[l] = Gone
          /\ \A m \in Leases : m # l => row'[m] = row[m]
      BY <1>5, <1>7, Blanks
    <2>2. /\ mark' \in [Leases -> SUBSET Marks]
          /\ \A m \in Leases : mark[m] \subseteq mark'[m]
          /\ "overlooked" \in mark'[l]
      <3>1. {"overlooked"} \in SUBSET Marks  BY DEF Marks
      <3>2. QED  BY <1>1, <1>7, <3>1, MarksAdded
    <2>3. /\ req' \in [Requests -> Request] /\ asked' = asked
          /\ req'[r] = Idle
          /\ \A s \in Requests : s # r => req'[s] = req[s]
      BY <1>1, <1>7, RequestAnswered
    <2>4. TypeOK'  BY <1>1, <1>4, <2>1, <2>2, <2>3 DEF TypeOK
    <2>5. mark'[l] \cap {"cut", "forced", "overlooked"} # {} /\ req'[r].seen \subseteq req[r].seen
      BY <2>2, <2>3, Blanks
    <2>6. QED  BY <1>2, <1>3, <1>4, <2>1, <2>2, <2>3, <2>4, <2>5, Blanks, BirthKeeps DEF At
  <1>8. QED  BY <1>3, <1>6, <1>7 DEF CreateInsert

\* An account is made that only its request knows of.
LEMMA CreateBeginKeeps ==
  ASSUME Leasing, NEW r \in Requests, NEW l \in Leases, NEW ttl \in TTLs, CreateBegin(r, l, ttl)
  PROVE  Leasing'
  <1>1. /\ TypeOK /\ Bounded /\ Births /\ AccountsFirst /\ NoForgottenAccount
        /\ EveryLeaseIsScheduled /\ RenewalsInStep /\ "main" \in Kinds /\ NoLease \notin Leases
    BY Untouched DEF Leasing
  <1>2. /\ row[l].state = "unborn" /\ \A s \in Requests : req[s].lease # l
        /\ ttl <= MaxTTL /\ account' = [account EXCEPT ![l] = "live"]
        /\ Begin(r, "create.insert", l, ttl, {})
        /\ UNCHANGED <<config, row, job, prune, alerted, mark, faults>>
    BY DEF CreateBegin
  <1>3. /\ req' \in [Requests -> Request] /\ asked' \in 0..MaxAsked
        /\ req[r].pc = "idle"
        /\ req'[r].pc = "create.insert" /\ req'[r].lease = l /\ req'[r].until = ttl
        /\ req'[r].seen = {}
        /\ \A s \in Requests : s # r => req'[s] = req[s]
    <2>1. ttl \in Nat /\ {} \in SUBSET Leases /\ l \in Leases \cup {NoLease}
      BY LeaseAssumption
    <2>2. [pc |-> "create.insert", lease |-> l, until |-> ttl, seen |-> {}] \in Request
      BY <2>1 DEF Request
    <2>3. QED  BY <1>1, <1>2, <2>1, <2>2, RequestBegun
  <1>4. /\ account' \in [Leases -> {"none", "live", "revoked"}]
        /\ \A m \in Leases : m # l => account'[m] = account[m]
    BY <1>1, <1>2 DEF TypeOK
  <1>5. TypeOK'  BY <1>1, <1>2, <1>3, <1>4 DEF TypeOK
  <1>6. /\ ~Born(l) /\ \A m \in Leases : Born(m)' <=> Born(m)
    BY <1>2 DEF Born
  <1>7. req[r].lease = NoLease  BY <1>1, <1>3 DEF Births, Suits
  <1>8. Bounded'
    <2>1. \A s \in Requests : req'[s].until <= MaxTTL  BY <1>1, <1>2, <1>3 DEF Bounded
    <2>2. QED  BY <1>1, <1>2, <2>1 DEF Bounded
  <1>9. Births'
    <2>1. ASSUME NEW s \in Requests  PROVE Suits(req[s])'
      <3>1. CASE s # r
        <4>1. Suits(req[s]) /\ req'[s] = req[s] /\ req[s].seen \subseteq Leases
          BY <1>1, <1>3, <3>1, Fields DEF Births
        <4>2. QED  BY <1>6, <4>1 DEF Suits
      <3>2. CASE s = r  BY <1>3, <3>2 DEF Suits
      <3>3. QED  BY <3>1, <3>2
    <2>2. ASSUME NEW s \in Requests, At(s, "create.insert")'
          PROVE  /\ ~Born(req[s].lease)'
                 /\ \A t \in Requests : req'[t].lease = req'[s].lease => t = s
      <3>1. CASE s = r
        <4>1. \A t \in Requests : t # r => req'[t].lease # l  BY <1>2, <1>3
        <4>2. QED  BY <1>2, <1>3, <3>1, <4>1 DEF Born
      <3>2. CASE s # r
        <4>1. req'[s] = req[s] /\ At(s, "create.insert")  BY <1>3, <2>2, <3>2 DEF At
        <4>2. PICK m \in Leases : m = req[s].lease
          BY <1>1, <4>1 DEF Births, Suits, At
        <4>3. ~Born(m) /\ \A t \in Requests : req[t].lease = m => t = s
          BY <1>1, <4>1, <4>2 DEF Births
        <4>4. m # l  BY <1>2, <4>2
        <4>5. \A t \in Requests : req'[t].lease = m => t = s  BY <1>3, <4>3, <4>4
        <4>6. req'[s].lease = m /\ ~(Born(m)')  BY <1>6, <4>1, <4>2, <4>3
        <4>7. QED  BY <4>5, <4>6 DEF Born
      <3>3. QED  BY <3>1, <3>2
    <2>3. \A m \in prune'.seen : Born(m)'  BY <1>1, <1>2, <1>6, Fields DEF Births
    <2>4. \A k \in Kinds : \A m \in Leases : job'[k][m].state # "none" => Born(m)'
      BY <1>1, <1>2, <1>6 DEF Births
    <2>5. QED  BY <2>1, <2>2, <2>3, <2>4 DEF Births
  <1>10. AccountsFirst'
    <2>1. ASSUME NEW s \in Requests
          PROVE  /\ req'[s].pc \in {"revoke.unset", "revoke.row"} =>
                      account'[req'[s].lease] # "live" \/ "forced" \in mark'[req'[s].lease]
                 /\ req'[s].pc = "delete.row" => \A m \in req'[s].seen : "forced" \in mark'[m]
      <3>1. CASE s = r  BY <1>3, <3>1
      <3>2. CASE s # r
        <4>1. req[s].pc \in {"revoke.unset", "revoke.row"} => req[s].lease \in Leases /\ req[s].lease # l
          BY <1>1, <1>2 DEF Births, Suits
        <4>2. req'[s] = req[s]  BY <1>3, <3>2
        <4>3. QED  BY <1>1, <1>2, <1>4, <4>1, <4>2 DEF AccountsFirst, At
      <3>3. QED  BY <3>1, <3>2
    <2>2. \A k \in Kinds : \A m \in Leases : job'[k][m].state = "delete" => account'[m] # "live"
      <3>1. \A k \in Kinds : job[k][l].state = "none"  BY <1>1, <1>6 DEF Births
      <3>2. QED  BY <1>1, <1>2, <1>4, <3>1 DEF AccountsFirst
    <2>3. prune'.state = "delete" => \A m \in prune'.seen : account'[m] # "live"
      <3>1. l \notin prune.seen /\ prune.seen \subseteq Leases  BY <1>1, <1>6, Fields DEF Births
      <3>2. QED  BY <1>1, <1>2, <1>4, <3>1 DEF AccountsFirst
    <2>4. QED  BY <2>1, <2>2, <2>3 DEF AccountsFirst, At
  <1>11. NoForgottenAccount'
    <2>1. SUFFICES ASSUME NEW m \in Leases, account'[m] = "live", row'[m].state # "present",
                          mark'[m] \cap {"cut", "forced", "overlooked"} = {}
                   PROVE  \E s \in Requests : req'[s].lease = m /\ req'[s].pc \in {"create.insert"}
      BY DEF NoForgottenAccount, On
    <2>2. CASE m = l  BY <1>3, <2>2
    <2>3. CASE m # l
      <3>1. account[m] = "live" /\ row[m].state # "present"
            /\ mark[m] \cap {"cut", "forced", "overlooked"} = {}
        BY <1>2, <1>4, <2>1, <2>3
      <3>2. PICK s \in Requests : req[s].lease = m /\ req[s].pc = "create.insert"
        BY <1>1, <3>1 DEF NoForgottenAccount, On
      <3>3. req'[s] = req[s]  BY <1>3, <3>2
      <3>4. QED  BY <3>2, <3>3
    <2>4. QED  BY <2>2, <2>3
  <1>12. EveryLeaseIsScheduled'
    <2>1. SUFFICES ASSUME NEW m \in Leases, row[m].state = "present", ~row[m].failed,
                          job["main"][m].state = "none",
                          mark[m] \cap {"cut", "stripped", "silent"} = {}
                   PROVE  \E s \in Requests :
                            req'[s].lease = m /\ req'[s].pc \in {"create.schedule", "renew.set", "revoke.row"}
      BY <1>2 DEF EveryLeaseIsScheduled, Present, Failed, On
    <2>2. PICK s \in Requests :
            req[s].lease = m /\ req[s].pc \in {"create.schedule", "renew.set", "revoke.row"}
      BY <1>1, <2>1 DEF EveryLeaseIsScheduled, Present, Failed, On
    <2>3. req'[s] = req[s]  BY <1>3, <2>2
    <2>4. QED  BY <2>2, <2>3
  <1>13. RenewalsInStep'
    <2>1. \A m \in Leases : row'[m].state = "present" =>
            row[m].state = "present" /\ row'[m].life = row[m].life /\ m # l
      BY <1>2
    <2>2. QED  BY <1>1, <1>2, <1>3, <1>7, <2>1, RenewalsStay
  <1>14. QED  BY <1>5, <1>8, <1>9, <1>10, <1>11, <1>12, <1>13 DEF Leasing

\* A request that is cut short marks the leases it was about.
LEMMA InterruptKeeps ==
  ASSUME Leasing, NEW r \in Requests, Interrupt(r)
  PROVE  Leasing'
  <1>1. TypeOK /\ Bounded /\ Births /\ "main" \in Kinds /\ NoLease \notin Leases
    BY Untouched DEF Leasing
  <1>2. /\ ~At(r, "idle") /\ faults < MaxFaults /\ faults' = faults + 1 /\ Answer(r)
        /\ mark' = Marked({req[r].lease} \cup req[r].seen, {"cut"})
        /\ UNCHANGED <<config, account, job, prune, alerted>>
    BY DEF Interrupt, Fault
  <1>3. /\ mark' \in [Leases -> SUBSET Marks]
        /\ \A m \in Leases : mark[m] \subseteq mark'[m]
        /\ \A m \in Leases : m = req[r].lease => "cut" \in mark'[m]
    <2>1. {"cut"} \in SUBSET Marks  BY DEF Marks
    <2>2. QED  BY <1>1, <1>2, <2>1, MarksAdded
  <1>4. /\ req' \in [Requests -> Request] /\ asked' = asked
        /\ req'[r] = Idle
        /\ \A s \in Requests : s # r => req'[s] = req[s]
    BY <1>1, <1>2, RequestAnswered
  <1>5. faults' \in 0..MaxFaults  BY <1>1, <1>2, LeaseAssumption DEF TypeOK
  <1>6. CASE At(r, "create.insert")
    <2>1. PICK l \in Leases : l = req[r].lease
      BY <1>1, <1>6 DEF Births, Suits, At
    <2>2. row' = [row EXCEPT ![l] = Gone]  BY <1>6, <2>1 DEF Interrupt
    <2>3. /\ row' \in [Leases -> Row] /\ row'[l] = Gone
          /\ \A m \in Leases : m # l => row'[m] = row[m]
      BY <1>1, <2>2, Blanks DEF TypeOK
    <2>4. TypeOK'  BY <1>1, <1>2, <1>3, <1>4, <1>5, <2>3 DEF TypeOK
    <2>5. mark'[l] \cap {"cut", "forced", "overlooked"} # {} /\ req'[r].seen \subseteq req[r].seen
      BY <1>3, <1>4, <2>1, Blanks
    <2>6. QED  BY <1>2, <1>3, <1>4, <1>6, <2>1, <2>3, <2>4, <2>5, Blanks, BirthKeeps
  <1>7. CASE ~At(r, "create.insert")
    <2>1. row' = row  BY <1>7 DEF Interrupt
    <2>2. TypeOK'  BY <1>1, <1>2, <1>3, <1>4, <1>5, <2>1 DEF TypeOK
    <2>3. MovesOn(r)
      <3>1. req[r].pc \in {"create.schedule", "renew.set", "revoke.row"} =>
              req[r].lease \in Leases
        BY <1>1 DEF Births, Suits
      <3>2. QED  BY <1>1, <1>2, <1>3, <1>7, <3>1, AnswerMoves
    <2>4. \A m \in Leases : RowStays(m)  BY <2>1, Untouched
    <2>5. \A k \in Kinds : \A m \in Leases : job'[k][m] = job[k][m] /\ job'[k][m].after <= MaxTTL
      BY <1>2, Untouched
    <2>6. \A m \in Leases : row'[m].state = "present" /\ Undisputed(m)' =>
            /\ row[m].state = "present" /\ row'[m].life = row[m].life
            /\ req[r].lease # m /\ req'[r].lease # m
      BY <1>1, <1>3, <1>4, <2>1, Blanks DEF Undisputed
    <2>7. prune' = prune /\ \A m \in Leases : account'[m] = "live" => account[m] = "live"
      BY <1>2
    <2>8. QED  BY <1>1, <1>3, <1>4, <2>2, <2>3, <2>4, <2>5, <2>6, <2>7, RequestKeeps
  <1>8. QED  BY <1>6, <1>7

-----------------------------------------------------------------------------
(* The invariant, and what follows from it.                                *)

LEMMA InitLeasing == Init => Leasing
  <1> SUFFICES ASSUME Init  PROVE Leasing
    OBVIOUS
  <1>1. /\ \A l \in Leases : row[l] = Unborn /\ account[l] = "none" /\ mark[l] = {}
        /\ \A k \in Kinds : \A l \in Leases : job[k][l] = NoJob
        /\ \A r \in Requests : req[r] = Idle
        /\ prune = NoPrune
    BY DEF Init
  <1>2. TypeOK  BY <1>1, Blanks, LeaseAssumption DEF Init, TypeOK
  <1>3. Present = {}  BY <1>1, Blanks DEF Present
  <1>4. Bounded  BY <1>1, Blanks, LeaseAssumption DEF Bounded
  <1>5. Births  BY <1>1, Blanks, LeaseAssumption DEF Births, Suits, At
  <1>6. AccountsFirst  BY <1>1, Blanks DEF AccountsFirst, At
  <1>7. NoForgottenAccount  BY <1>1 DEF NoForgottenAccount
  <1>8. EveryLeaseIsScheduled  BY <1>3 DEF EveryLeaseIsScheduled
  <1>9. RenewalsInStep  BY <1>3 DEF RenewalsInStep
  <1>10. QED  BY <1>2, <1>4, <1>5, <1>6, <1>7, <1>8, <1>9 DEF Leasing

\* A step that changes nothing.
LEMMA StutterKeeps ==
  ASSUME Leasing, UNCHANGED vars
  PROVE  Leasing'
  <1>1. TypeOK /\ Bounded /\ Births /\ AccountsFirst  BY DEF Leasing
  <1>2. TypeOK'  BY <1>1 DEF TypeOK, vars
  <1>3. \A l \in Leases : row'[l] = row[l] /\ RowStays(l)
    BY <1>1 DEF RowStays, Bounded, vars
  <1>4. QED
    BY <1>1, <1>2, <1>3, Fields, UnrequestedKeeps DEF vars, Bounded, Births, AccountsFirst

LEMMA NextKeepsLeasing == Leasing /\ [Next]_vars => Leasing'
  <1> SUFFICES ASSUME Leasing, [Next]_vars  PROVE Leasing'
    OBVIOUS
  <1>1. ASSUME NEW r \in Requests, RequestBegin(r)  PROVE Leasing'
    BY <1>1, CreateBeginKeeps, RenewBeginKeeps, RevokeBeginKeeps, RevokeForcedKeeps,
       DeleteBeginKeeps, DeleteForcedKeeps DEF RequestBegin
  <1>2. ASSUME NEW r \in Requests, RequestStep(r)  PROVE Leasing'
    BY <1>2, CreateInsertKeeps, CreateScheduleKeeps, RenewUnsetKeeps, RenewSetKeeps,
       RenewUpdateKeeps, RevokeFlagKeeps, RevokeRetryKeeps, RevokeUnsetKeeps, RevokeRowKeeps,
       DeleteFlagKeeps, DeletePruneKeeps, DeleteRowKeeps
       DEF RequestStep
  <1>3. ASSUME NEW k \in Kinds, NEW l \in Leases, JobStep(k, l)  PROVE Leasing'
    BY <1>3, JobStartKeeps, JobRevokeKeeps, JobDeleteKeeps, MainFailsKeeps, RetryFailsKeeps
       DEF JobStep
  <1>4. CASE PruneStep
    BY <1>4, PruneStartKeeps, PruneRevokeKeeps, PruneFailsKeeps, PruneDeleteKeeps DEF PruneStep
  <1>5. CASE UNCHANGED vars  BY <1>5, StutterKeeps
  <1>6. QED
    BY <1>1, <1>2, <1>3, <1>4, <1>5, InterruptKeeps, JobStallKeeps, HandlerFailsKeeps,
       UpdateConfigKeeps DEF Next

LEMMA LeasingHolds == Spec => []Leasing
  BY InitLeasing, NextKeepsLeasing, PTL DEF Spec

\* The variables keep their types, whatever requests, jobs and faults meet.
THEOREM TypeCorrect == Spec => []TypeOK
  <1>1. Leasing => TypeOK  BY DEF Leasing
  <1>2. QED  BY <1>1, LeasingHolds, PTL

\* The functions that create and renew a lease bound its life by maxTTL from its
\* creation: no number of concurrent renewals moves its row or its job past that.
THEOREM LifeWithinBound == Spec => []LifetimeBounded
  <1>1. Leasing => LifetimeBounded
    BY Fields DEF Leasing, Bounded, LifetimeBounded
  <1>2. QED  BY <1>1, LeasingHolds, PTL

\* The functions that revoke leases, in requests and in jobs, delete a row only once
\* the provider revoked its account, except for the marks NoForgottenAccount names.
THEOREM AccountsNotForgotten == Spec => []NoForgottenAccount
  <1>1. Leasing => NoForgottenAccount  BY DEF Leasing
  <1>2. QED  BY <1>1, LeasingHolds, PTL

\* A lease that is not flagged as failed has the job that will revoke it, whatever
\* renewals unset and set it and whatever attempts of it fail, except for the steps and marks
\* EveryLeaseIsScheduled names.
THEOREM LeasesScheduled == Spec => []EveryLeaseIsScheduled
  <1>1. Leasing => EveryLeaseIsScheduled  BY DEF Leasing
  <1>2. QED  BY <1>1, LeasingHolds, PTL

\* Renewals that do not overlap leave the job of a lease scheduled at the very time
\* its row expires.
THEOREM RevocationOnTime == Spec => []RevokedAtExpiry
  <1>1. Leasing => RevokedAtExpiry
    <2>1. SUFFICES ASSUME Leasing, NEW l \in Present, job["main"][l].state = "wait",
                          ~Renewing(l), mark[l] \cap {"cut", "contested"} = {}
                   PROVE  job["main"][l].after = row[l].life
      BY DEF RevokedAtExpiry
    <2>2. InStep(l)  BY <2>1 DEF Leasing, RenewalsInStep, Undisputed, Present
    <2>3. ~On(l, {"renew.set", "renew.update"})  BY <2>1 DEF Renewing, On
    <2>4. QED  BY <2>1, <2>2, <2>3 DEF InStep
  <1>2. QED  BY <1>1, LeasingHolds, PTL
=============================================================================
