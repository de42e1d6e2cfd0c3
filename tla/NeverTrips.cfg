\* One request at a time after another; nobody trips the breaker by hand.
CONSTANTS
  MaxRequests = 1
  Interval = 1
  Timeout = 1
  ConsecutiveLimit = 2
  MinRequests = 5
  RatePercent = 40
  CounterMod = 8
  GenerationMod = 4
  Callers = {r1}
  Operator = FALSE
  MaxStreak = 4
SPECIFICATION HistorySpec
INVARIANT FailuresTrip
