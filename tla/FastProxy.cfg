\* Three requests, two at a time, on two backends, and two chaos requests.
CONSTANTS
  Requests = {r1, r2}
  NumBackends = 2
  Handlers = {h1, h2}
  MaxArrivals = 3
SYMMETRY MCSymmetry
SPECIFICATION Spec
INVARIANTS AccountedOnce GaugesExact BreakerGaugeAgrees
PROPERTY SafeOnceWarm
CHECK_DEADLOCK FALSE
