SPECIFICATION Spec
CONSTANTS
  p1 = p1
  p2 = p2
  p3 = p3
  Points = {p1, p2, p3}
  Readings <- SomeReadings
  BufCap = 3
  NoReading = NoReading
  Handlers = {h1}
  PressurePoints <- BothPoints
  Orderly = {p1, p2}
  DropMax = 2
  ImbalanceMax = 5
  MaxReadings = 4
  NoPoint = NoPoint
CHECK_DEADLOCK FALSE
INVARIANTS DropsAreReal WindowCoversSamples
PROPERTY ImplementsHistory
