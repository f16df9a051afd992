SPECIFICATION FairSpec
CONSTANTS
  Leases = {l1}
  Requests = {r1, r2}
  NoLease = NoLease
  TTLs = {1}
  MaxTTL = 2
  Attempts = 2
  MaxAsked = 3
  MaxFaults = 1
CHECK_DEADLOCK FALSE
INVARIANT EveryLeaseIsScheduled
INVARIANT NoForgottenAccount
INVARIANT LifetimeBounded
INVARIANT RevokedAtExpiry
PROPERTY EveryLeaseIsSettled
