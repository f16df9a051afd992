------------------------- MODULE MCCacheFingerprint -------------------------
(* Model checking of CacheFingerprint.                                       *)
EXTENDS CacheFingerprint, TLC

\* Calls are alike, and so are replicas.
Symmetry == Permutations(Calls) \cup Permutations(Replicas)
=============================================================================
