CONSTANTS
  Requests = {r1, r2}
  Contents <- MCContents
  Torn <- MCTorn
  MaxEdits = 3
SPECIFICATION FairSpec
INVARIANTS ServedIsChecked
PROPERTIES ReloadConverges StopsOnSignal
CHECK_DEADLOCK FALSE
