SPECIFICATION Spec
CONSTANTS
  v1 = v1
  c1 = c1
  s1 = s1
  Orders = {o1, o2}
  Devices = {v1, c1}
  Valves = {v1}
  Compressors = {c1}
  Segments = {s1}
  SegmentOf <- OneSegment
  None = None
  Handlers = {h1, h2}
  OnePerObject = TRUE
  MaxDrives = 2
CHECK_DEADLOCK FALSE
SYMMETRY DispatchSymmetry
INVARIANTS DrivenExactlyOnce
PROPERTIES DeviceLifecycle ImplementsAtomicDispatch
