\* Three backends, two of which come and go and two of which share a position;
\* two goroutines; one key that lands on the shared
\* position and one beyond the last.
CONSTANTS
  NumBackends = 3
  Positions = {0, 1, 2, 3, 4, 5}
  Points <- MCPoints
  KeyHashes = {2, 5}
  Threads = {t1, t2}
  Flapping = {1, 3}
SPECIFICATION FairSpec
INVARIANTS RecentlyAlive NilOnlyIfNoneSeen
PROPERTIES MinimalDisruption Affinity
