SPECIFICATION Spec
CONSTANTS
  m1 = m1
  Meters = {m1, m2}
  Dates = {d1}
  MeterDefs <- TestDefs
  Values = {0, 1}
  Temperatures = {1, 3}
  ReadingCap = 3
  MaxReadings = 4
  Nobody = Nobody
  Handlers = {h1, h2}
  Orderly <- OrderlyOnes
CHECK_DEADLOCK FALSE
SYMMETRY MeteringSymmetry
INVARIANTS SettledNotOverstated StdWithinFactors RebuildMatches
