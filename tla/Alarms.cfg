SPECIFICATION FairSpec
CONSTANTS
  p1 = p1
  p2 = p2
  Points = {p1, p2}
  PointDefs <- LimitedOnly
  RuleDefs <- BothRules
  Values = {3, 5}
  MaxTs = 2
  BufCap = 2
  AlarmPoints = {p1, p2}
  Alarms = {a1, a2}
  None = None
  Handlers = {h1, h2}
  OnePerPoint = TRUE
  Attended = {p2}
CHECK_DEADLOCK FALSE
INVARIANTS ActiveIsIndexed IndexNotStale NormalPointsAreQuiet BreachedPointsAlarm
PROPERTIES EveryAlarmNotified
