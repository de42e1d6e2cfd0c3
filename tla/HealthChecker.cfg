\* Every timeout that the validator accepts, with and without an operator.
CONSTANTS
  Slots = {p1, p2}
  ProbeInterval = 2
  MaxFailures = 2
SPECIFICATION FairSpec
INVARIANT GaugeAgrees
PROPERTIES VerdictsInOrder HealthDetected
