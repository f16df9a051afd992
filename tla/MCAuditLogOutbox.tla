-------------------------- MODULE MCAuditLogOutbox --------------------------
(* Model values and symmetry for the runs of AuditLogOutbox.               *)
EXTENDS AuditLogOutbox, TLC

\* Every stream takes every log.
MCMatches == Streams \X Logs

MCSymmetry == Permutations(Workers) \cup Permutations(Logs)
=============================================================================
