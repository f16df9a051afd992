---------------------------- MODULE MCFolderHistory ----------------------------
(* FolderHistory for TLC: secrets, contents and requests are interchangeable.    *)
EXTENDS FolderHistory

Symmetry == Permutations(Secrets) \cup Permutations(Values) \cup Permutations(Txs)
=============================================================================
