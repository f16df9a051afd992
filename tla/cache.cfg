SPECIFICATION Spec
CONSTANTS
  Calls = {c1, c2}
  Replicas = {p1, p2}
  MarkerTTL = 1
  DataTTL = 4
  MaxCall = 1
  MaxLag = 1
  OneRedis = TRUE
  MaxWrites = 1
SYMMETRY Symmetry
INVARIANT TypeOK
INVARIANT DataNotOlder
PROPERTY StaleBounded
