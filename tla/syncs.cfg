SPECIFICATION Spec
CONSTANTS
  Syncs = {s1, s2}
  Jobs = {j1, j2}
  Nobody = Nobody
  Limit = 1
  RequeueLimit = 1
  Attempts = 2
  MaxAsked = 2
  MaxFaults = 1
SYMMETRY Symmetry
CHECK_DEADLOCK FALSE
INVARIANT ConnectionNotOverrun
INVARIANT OneJobPerSync
INVARIANT SucceededMeansSynced
INVARIANT UnsettledHasJob
