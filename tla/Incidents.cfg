SPECIFICATION Spec
CONSTANTS
  i1 = i1
  i2 = i2
  a1 = a1
  a2 = a2
  Incidents = {i1, i2}
  Actions = {x1, x2}
  IncAlarms = {a1, a2}
  IncSegments = {}
  NoSegment = NoSegment
  AlarmPoints = {p1}
  Alarms = {a1, a2}
  None = None
  Handlers = {h1, h2}
  Orderly <- OrderlyOnes
CHECK_DEADLOCK FALSE
SYMMETRY IncidentSymmetry
INVARIANTS ClosedHasCompleted ClosedIsComplete ClosedResolvesAlarms
