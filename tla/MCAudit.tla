------------------------------ MODULE MCAudit ------------------------------
EXTENDS AuditTrail, TLC

AuditSymmetry == Permutations(Callers)
=============================================================================
