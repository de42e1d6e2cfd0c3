CONSTANTS
  Requests = {r1}
  Contents <- MCContents
  Torn <- MCTorn
  MaxEdits = 0
SPECIFICATION Spec
INVARIANT InFlightComplete
CHECK_DEADLOCK FALSE
