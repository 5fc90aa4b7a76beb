SPECIFICATION TrailSpec
CONSTANTS
  Valves = {v1}
  Compressors = {}
  Sensors = {p1}
  Callers = {h1, h2}
  Alone = {v1}
  Retention = 4
  Share = 2
  MaxTime = 2
  MaxEntries = 5
  None = None
SYMMETRY AuditSymmetry
CHECK_DEADLOCK FALSE
INVARIANTS NewestKept TrailMatchesState TrailInOrder
