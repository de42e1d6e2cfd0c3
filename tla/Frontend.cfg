CONSTANTS
  a = a
  b = b
  Requests = {r1, r2}
  IPs = {a, b}
  NoHeader = NoHeader
  Configs <- MCConfigs
  Burst = 1
  Text = 1
  MaxBody = 3
  MaxAge = 1
SPECIFICATION FairSpec
INVARIANTS RateBound  ResponseBounded
PROPERTIES Answered NotStarved
