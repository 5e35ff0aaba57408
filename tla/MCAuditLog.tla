----------------------------- MODULE MCAuditLog -----------------------------
\* AuditLog for TLC: the writers are interchangeable.
EXTENDS AuditLog, TLC

MCSymmetry == Permutations(Writers)
=============================================================================
