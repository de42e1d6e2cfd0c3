\* The two instances of MCProxy, with limits of one and counters that wrap.
CONSTANTS
  MaxRequests = 1
  Interval = 1
  Timeout = 1
  ConsecutiveLimit = 1
  MinRequests = 1
  RatePercent = 40
  CounterMod = 2
  GenerationMod = 2
  Requests = {r1, r2}
  Other = r2
  NumBackends = 2
  MaxRetries = 1
  Operator = TRUE
SPECIFICATION MCSpec
INVARIANTS ConnsExact SentOnce NoNeedless503
PROPERTIES UsesBreakers NoneUnrecorded Answered
