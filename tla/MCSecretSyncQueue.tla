-------------------------- MODULE MCSecretSyncQueue --------------------------
(* SecretSyncQueue for TLC: the jobs, and the syncs, are interchangeable.    *)
EXTENDS SecretSyncQueue, TLC

Symmetry == Permutations(Jobs) \cup Permutations(Syncs)
=============================================================================
