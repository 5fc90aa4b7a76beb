SPECIFICATION FairSpec
CONSTANTS
  n1 = n1
  Messages = {n1, n2}
  MaxAttempts = 4
  Backoff = 1
  MaxDelay = 2
  MaxRest = 2
  MaxSends = 2
  Nothing = Nothing
  Handlers = {h1, h2}
  Orderly <- OrderlyOnes
CHECK_DEADLOCK FALSE
INVARIANTS VerdictsEarned DeliveredOnce
PROPERTIES BackoffRespected EveryMessageSettled
