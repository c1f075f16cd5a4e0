--------------------------- MODULE MCAuditStages ---------------------------
EXTENDS AuditStages, TLC
Symmetry == Permutations(Procs)
=============================================================================
