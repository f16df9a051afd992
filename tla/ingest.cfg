SPECIFICATION FairSpec
CONSTANTS
  Consumers = {c1, c2}
  Nobody = Nobody
  PageSize = 1
  MaxEntries = 2
  MaxLen = 2
  StreamsEnabled = TRUE
  MaxPushes = 3
  MaxFaults = 2
INVARIANT NothingLost
INVARIANT FannedIsPersisted
INVARIANT OneDrainPerLock
PROPERTY EveryEntryHandled
