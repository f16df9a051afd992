SPECIFICATION Spec
CONSTANTS
  Streams = {s1}
  Logs = {l1, l2}
  Matches <- MCMatches
  Deletable = {}
  Workers = {w1, w2}
  NoWorker = NoWorker
  Consumers = {c1}
  Sweepers = {sw}
  MaxAttempts = 2
  BatchSize = 2
  MaxBatches = 2
  SlowWorkers = FALSE
  MaxInserts = 2
  MaxFaults = 1
SYMMETRY MCSymmetry
INVARIANT TypeOK
INVARIANT DeliveredWasReceived
INVARIANT ClaimsExclusive
INVARIANT AttemptsBounded
PROPERTY DeliveredIsFinal
PROPERTY ImplementsDelivery
