------------------------ MODULE AuditLogClaimTiming ------------------------
(***************************************************************************)
(* How long drainStream may hold one claimed batch, against the age at     *)
(* which the sweeper takes the claim away.  One worker and one batch, with *)
(* a clock: the module that justifies, or refutes, SlowWorkers = FALSE in  *)
(* AuditLogOutbox.  Time is counted in units of 5 seconds, the timeout of  *)
(* a single-event send, so the constants are the real ones.                *)
(***************************************************************************)
EXTENDS Naturals

CONSTANTS
  ClaimSize,       \* BATCH_SIZE: rows one claim may take, each a request of its own at worst
  WaveSize,        \* requests sent at once: SINGLE_MODE_SEND_CONCURRENCY, or 1
  SendTimeout,     \* the HTTP timeout of a request
  StaleThreshold   \* STALE_CLAIM_THRESHOLD_MS

ASSUME TimingAssumption ==
  /\ ClaimSize \in Nat \ {0}
  /\ WaveSize \in Nat \ {0}
  /\ SendTimeout \in Nat \ {0}
  /\ StaleThreshold \in Nat

VARIABLES
  stage,     \* "claim", "send", "commit", or "dead" after a crash
  requests,  \* requests of the batch not yet answered
  waveAge,   \* time since the current wave was sent
  status,    \* of the rows: "ready", "processing", "delivered", "retry"
  lockedAge  \* time since lockedAt, capped just above the threshold

timingVars == <<stage, requests, waveAge, status, lockedAge>>

TimingTypeOK ==
  /\ stage \in {"claim", "send", "commit", "dead"}
  /\ requests \in 0..ClaimSize
  /\ waveAge \in 0..SendTimeout
  /\ status \in {"ready", "processing", "delivered", "retry"}
  /\ lockedAge \in 0..(StaleThreshold + 1)

TimingInit ==
  /\ stage = "claim"
  /\ requests = 0
  /\ waveAge = 0
  /\ status = "ready"
  /\ lockedAge = 0

\* The claim stamps lockedAt; chunking decides how many requests the batch is.
TakeClaim ==
  /\ stage = "claim"
  /\ status # "processing"
  /\ stage' = "send"
  /\ requests' \in 1..ClaimSize
  /\ waveAge' = 0
  /\ status' = "processing"
  /\ lockedAge' = 0

\* Mutant of InFlight: the events of a batch go out one by one.
InFlight_Serial == IF requests < 1 THEN requests ELSE 1

InFlight == IF requests < WaveSize THEN requests ELSE WaveSize

\* Promise.allSettled: the next wave leaves when every answer or timeout is in.
WaveSettles ==
  /\ stage = "send"
  /\ requests > 0
  /\ requests' = requests - InFlight
  /\ waveAge' = 0
  /\ stage' = IF requests' = 0 THEN "commit" ELSE "send"
  /\ UNCHANGED <<status, lockedAge>>

\* commitDeliveryResult: by id, whatever the rows' status has become.
CommitResult ==
  /\ stage = "commit"
  /\ status' \in {"delivered", "retry"}
  /\ stage' = "claim"
  /\ lockedAge' = 0
  /\ UNCHANGED <<requests, waveAge>>

Crash ==
  /\ stage \in {"send", "commit"}
  /\ stage' = "dead"
  /\ requests' = 0
  /\ waveAge' = 0
  /\ UNCHANGED <<status, lockedAge>>

\* A wave is never out for longer than its timeout, and the commit is prompt.
Tick ==
  /\ status = "processing"
  /\ stage = "send" => waveAge < SendTimeout
  /\ stage # "commit"
  /\ waveAge' = IF stage = "send" THEN waveAge + 1 ELSE waveAge
  /\ lockedAge' = IF lockedAge > StaleThreshold THEN lockedAge ELSE lockedAge + 1
  /\ UNCHANGED <<stage, requests, status>>

Stale == status = "processing" /\ lockedAge > StaleThreshold

SweepClaim ==
  /\ Stale
  /\ status' = "retry"
  /\ lockedAge' = 0
  /\ UNCHANGED <<stage, requests, waveAge>>

\* The pod comes back and takes jobs again.
Restart ==
  /\ stage = "dead"
  /\ stage' = "claim"
  /\ UNCHANGED <<requests, waveAge, status, lockedAge>>

TimingNext ==
  \/ TakeClaim \/ WaveSettles \/ CommitResult \/ Crash \/ Tick \/ SweepClaim \/ Restart

TimingSpec == TimingInit /\ [][TimingNext]_timingVars

\* Anything older than the threshold cannot be a live worker: a claim the
\* sweeper may take is never one whose worker is still sending or committing.
StaleClaimIsDead == Stale => stage \notin {"send", "commit"}
=============================================================================
