SPECIFICATION Spec
CONSTANTS
  Secrets = {s1, s2}
  Values = {v1, v2}
  Absent = Absent
  Txs = {t1, t2}
  Window = 2
  MaxEdit = 1
  MaxCommits = 4
SYMMETRY Symmetry
INVARIANTS LatestIsFolder CheckpointsAgree EveryCommitHasState
PROPERTY GoingBackRestores
CHECK_DEADLOCK FALSE
