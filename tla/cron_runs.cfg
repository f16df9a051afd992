SPECIFICATION FairSpec
CONSTANTS
  Runs = {r1}
  Ticks = {t1, t2}
  Nobody = Nobody
  MaxAttempts = 2
  MaxFaults = 2
INVARIANT TypeOK
INVARIANT LeaseExcludes
INVARIANT OpenIsPending
PROPERTY EveryRunEnds
