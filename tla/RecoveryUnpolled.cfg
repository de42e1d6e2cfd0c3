\* Nobody polls the admin API.
CONSTANTS
  MaxRequests = 2
  Interval = 2
  Timeout = 1
  ConsecutiveLimit = 2
  MinRequests = 3
  RatePercent = 40
  CounterMod = 4
  GenerationMod = 2
  Callers = {r1, r2}
  Operator = FALSE
SPECIFICATION FairSpec
PROPERTY AutomaticRecovery
