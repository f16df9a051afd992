----------------------------- MODULE CronSlots -----------------------------
(***************************************************************************)
(* Slot election of the cron scheduler: claimOrRefreshSlot and stop of     *)
(* lib/cron/cron-job.ts.  A pod takes part in cron ticking while it thinks *)
(* that it holds one of the slots, which are keys with a TTL in Redis.     *)
(*                                                                         *)
(* Names begin with Slot where CronJob, the other half of the scheduler,   *)
(* has the same: CronProofs extends both.                                  *)
(***************************************************************************)
EXTENDS Naturals, FiniteSets

CONSTANTS
  Pods,          \* workerIds; a restarted pod has a new one
  NoPod,         \* the value of a slot key that is not set
  Slots,         \* PARTICIPANT_SLOTS: the slots are 1..Slots
  MaxSlotFaults  \* bound: missed refreshes, failed calls and lost replies

ASSUME SlotsAssumption ==
  /\ NoPod \notin Pods
  /\ Slots \in Nat \ {0}
  /\ MaxSlotFaults \in Nat

VARIABLES
  slot,       \* the slot keys
  alive,      \* pods that run
  current,    \* currentSlot of a pod, 0 for null
  scan,       \* the slot a pod tries to claim next, 0 outside the loop
  orphans,    \* history: slots set by a claim whose reply was lost
  slotFaults  \* faults so far

slotVars == <<slot, alive, current, scan, orphans, slotFaults>>

SlotInit ==
  /\ slot = [i \in 1..Slots |-> NoPod]
  /\ alive = {}
  /\ current = [p \in Pods |-> 0]
  /\ scan = [p \in Pods |-> 0]
  /\ orphans = {}
  /\ slotFaults = 0

\* start() claims a slot at once.
Start(p) ==
  /\ p \notin alive
  /\ \A i \in 1..Slots : slot[i] # p
  /\ alive' = alive \cup {p}
  /\ scan' = [scan EXCEPT ![p] = 1]
  /\ UNCHANGED <<slot, current, orphans, slotFaults>>

\* SET XX: refreshes the key if it exists, whoever's it is.
RefreshSlot(p) ==
  LET i == current[p] IN
  /\ p \in alive /\ i # 0
  /\ slot[i] # NoPod
  /\ slot' = [slot EXCEPT ![i] = p]
  /\ orphans' = orphans \ {i}
  /\ UNCHANGED <<alive, current, scan, slotFaults>>

LoseSlot(p) ==
  LET i == current[p] IN
  /\ p \in alive /\ i # 0
  /\ slot[i] = NoPod
  /\ current' = [current EXCEPT ![p] = 0]
  /\ scan' = [scan EXCEPT ![p] = 1]
  /\ UNCHANGED <<slot, alive, orphans, slotFaults>>

\* Mutants of NextSlot: the loop ends one slot early; it goes on after it has
\* claimed a slot; it ends one slot late.
NextSlot_Short(i, got) == IF got \/ i + 1 >= Slots THEN 0 ELSE i + 1
NextSlot_Greedy(i, got) == IF i = Slots THEN 0 ELSE i + 1
NextSlot_Long(i, got) == IF got \/ i > Slots THEN 0 ELSE i + 1

\* Where the claiming loop goes from slot i: it returns once it got one.
NextSlot(i, got) == IF got \/ i = Slots THEN 0 ELSE i + 1

\* SET NX, slot by slot.
ClaimSlot(p) ==
  LET i == scan[p]
      got == slot[i] = NoPod IN
  /\ i # 0
  /\ slot' = IF got THEN [slot EXCEPT ![i] = p] ELSE slot
  /\ current' = IF got THEN [current EXCEPT ![p] = i] ELSE current
  /\ scan' = [scan EXCEPT ![p] = NextSlot(i, got)]
  /\ UNCHANGED <<alive, orphans, slotFaults>>

\* The call fails and the loop with it, or the client loses the reply and sends
\* the command again: a slot it did set then looks taken by another pod.
ClaimFails(p) ==
  LET i == scan[p] IN
  /\ i # 0
  /\ slotFaults < MaxSlotFaults
  /\ slotFaults' = slotFaults + 1
  /\ \/ /\ slot[i] = NoPod
        /\ slot' = [slot EXCEPT ![i] = p]
        /\ orphans' = orphans \cup {i}
        /\ scan' \in {[scan EXCEPT ![p] = 0], [scan EXCEPT ![p] = NextSlot(i, FALSE)]}
     \/ scan' = [scan EXCEPT ![p] = 0] /\ UNCHANGED <<slot, orphans>>
  /\ UNCHANGED <<alive, current>>

\* The refresh timer of a pod without a slot starts the loop anew.
RetryClaim(p) ==
  /\ p \in alive /\ current[p] = 0 /\ scan[p] = 0
  /\ scan' = [scan EXCEPT ![p] = 1]
  /\ UNCHANGED <<slot, alive, current, orphans, slotFaults>>

Gone(p) ==
  /\ alive' = alive \ {p}
  /\ current' = [current EXCEPT ![p] = 0]
  /\ scan' = [scan EXCEPT ![p] = 0]

\* stop(): RELEASE_SLOT_IF_MINE_LUA.  It does not wait for a claiming loop,
\* which ends with the pod.
Stop(p) ==
  LET i == current[p] IN
  /\ p \in alive
  /\ slot' = IF i # 0 /\ slot[i] = p THEN [slot EXCEPT ![i] = NoPod] ELSE slot
  /\ Gone(p)
  /\ UNCHANGED <<orphans, slotFaults>>

Die(p) ==
  /\ p \in alive
  /\ Gone(p)
  /\ UNCHANGED <<slot, orphans, slotFaults>>

Refreshed(i) == slot[i] \in alive /\ current[slot[i]] = i

\* A TTL is twice the refresh interval: a key that its pod refreshes expires
\* only if the pod pauses and misses its refreshes.
SlotExpires(i) ==
  /\ slot[i] # NoPod
  /\ Refreshed(i) => slotFaults < MaxSlotFaults
  /\ slotFaults' = IF Refreshed(i) THEN slotFaults + 1 ELSE slotFaults
  /\ slot' = [slot EXCEPT ![i] = NoPod]
  /\ orphans' = orphans \ {i}
  /\ UNCHANGED <<alive, current, scan>>

Tick(p) == RefreshSlot(p) \/ LoseSlot(p) \/ ClaimSlot(p) \/ RetryClaim(p)

SlotNext ==
  \/ \E p \in Pods : Start(p) \/ Tick(p) \/ ClaimFails(p) \/ Stop(p) \/ Die(p)
  \/ \E i \in 1..Slots : SlotExpires(i)

SlotSpec == SlotInit /\ [][SlotNext]_slotVars

\* The refresh timer of a live pod goes on, and the TTL of a key nobody
\* refreshes ends.
SlotFairness ==
  /\ \A p \in Pods : WF_slotVars(Tick(p))
  /\ \A i \in 1..Slots : WF_slotVars(SlotExpires(i) /\ slotFaults' = slotFaults)

FairSlotSpec == SlotSpec /\ SlotFairness

-----------------------------------------------------------------------------
(* Properties.                                                             *)

\* Every key and every local variable has its type.
SlotTypeOK ==
  /\ slot \in [1..Slots -> Pods \cup {NoPod}]
  /\ alive \subseteq Pods
  /\ current \in [Pods -> 0..Slots]
  /\ scan \in [Pods -> 0..Slots]
  /\ orphans \subseteq 1..Slots
  /\ slotFaults \in Nat

\* A live pod's name is on no slot but the one it thinks it holds, or one
\* whose claim lost its reply: pods that lose, claim and take over slots never
\* block a second one.
OneSlotPerPod ==
  \A p \in alive : \A i \in 1..Slots : slot[i] = p => current[p] = i \/ i \in orphans

Participants == {p \in alive : current[p] # 0}

\* With a slot for everyone, every live pod comes to participate: no order of
\* deaths, stops, failed claims and expiries leaves it without.
EveryPodParticipates ==
  Cardinality(Pods) <= Slots =>
    \A p \in Pods : p \in alive ~> p \in Participants \/ p \notin alive
=============================================================================
