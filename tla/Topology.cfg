SPECIFICATION TopologySpec
CONSTANTS
  v1 = v1
  s1 = s1
  Orders = {o1}
  Devices = {v1, c1}
  Compressors = {c1}
  Points = {q1}
  Segments = {s1, s2}
  t1 = t1
  t2 = t2
  t3 = t3
  Stations = {t1, t2, t3}
  StationInputs = {t1}
  EndsInputs <- TwoRoutes
  None = None
  Creators = {h1}
  Readers = {r1}
  Settled <- SettledOnes
CHECK_DEADLOCK FALSE
INVARIANTS EverythingListed AnswersExact OpenOrdersFound
