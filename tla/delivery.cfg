SPECIFICATION FairSpec
CONSTANTS
  a = a
  b = b
  k1 = k1
  k2 = k2
  Servers = {a, b}
  Slots = {k1, k2}
  FAILURE_DAYS_THRESHOLD = 2
  STOPLIGHT_FAILURE_THRESHOLD = 2
  RETRIES = 2
  SHORT = 1
  MaxDay = 1
  MaxCuts = 1
CHECK_DEADLOCK FALSE
INVARIANTS TypeOK MarkedForAReason
PROPERTIES NotGivenUp BackAgain
