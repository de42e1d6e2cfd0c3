\* Three requests, two trials, a short window: every counter meets its
\* threshold, the counters wrap, and requests outlive every deadline.
CONSTANTS
  MaxRequests = 2
  Interval = 2
  Timeout = 1
  ConsecutiveLimit = 2
  MinRequests = 3
  RatePercent = 40
  CounterMod = 4
  GenerationMod = 2
  Callers = {r1, r2, r3}
  Operator = TRUE
  MaxStreak = 2
SPECIFICATION FairHistorySpec
INVARIANTS TypeOK NeverWedged TrialAccounting TripsInWindow
PROPERTIES ImplementsProtocol HalfOpenResolves RecoveryWhenPolled
