\* Three goroutines ask for the breaker of one host, which is removed twice.
CONSTANTS
  Threads = {t1, t2, t3}
  Names = {h1}
  MaxRemovals = 2
SPECIFICATION FairManagerSpec
INVARIANTS OneBreaker NoMapRace
PROPERTY CallsReturn
