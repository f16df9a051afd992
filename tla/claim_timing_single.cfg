\* Single mode: 500 rows, waves of 5, 5 s timeout, 10 min threshold.
SPECIFICATION TimingSpec
CONSTANTS
  ClaimSize = 500
  WaveSize = 5
  SendTimeout = 1
  StaleThreshold = 120
INVARIANT StaleClaimIsDead

