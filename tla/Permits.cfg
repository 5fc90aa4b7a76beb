SPECIFICATION Spec
CONSTANTS
  p1 = p1
  p2 = p2
  Permits = {p1, p2, p3}
  Windows <- TestWindows
  MaxTime = 2
  Orderly <- OrderlyOnes
  Orders = {o1}
  Devices = {}
  Segments = {s1}
  None = None
  Incidents = {i1}
  Actions = {}
  IncAlarms = {}
  IncSegments = {s1}
  NoSegment = NoSegment
  Handlers = {h1, h2}
CHECK_DEADLOCK FALSE
SYMMETRY PermitSymmetry
INVARIANTS NoOverlap ConflictsHeeded
PROPERTIES ExpiredOnlyLapsed
