----------------------------- MODULE MCIncident -----------------------------
EXTENDS Incident, TLC

CONSTANTS i1, i2, a1, a2

OrderlyOnes == {i1, a1}

IncidentSymmetry == Permutations(Actions) \cup Permutations(Handlers)
=============================================================================
