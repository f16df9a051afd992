SPECIFICATION FairSpec
CONSTANTS
  Streams = {s1}
  Logs = {l1}
  Matches <- MCMatches
  Deletable = {s1}
  Workers = {w1, w2}
  NoWorker = NoWorker
  Consumers = {c1}
  Sweepers = {sw}
  MaxAttempts = 2
  BatchSize = 2
  MaxBatches = 1
  SlowWorkers = TRUE
  MaxInserts = 2
  MaxFaults = 1
INVARIANT NothingVanishes
PROPERTY NoEarlyDrop
PROPERTY EveryRowSettles
