CONSTANTS
  None = None
  Threads = {t1, t2}
  Keys = {k1, k2}
  MaxUses = 3
  SetRaces = TRUE
  SpuriousWakeups = TRUE
SPECIFICATION FairSpec
\* A publish that misses its notification sleeps for ever.
CHECK_DEADLOCK FALSE
INVARIANTS TypeOK NoEventLost
PROPERTIES LateUsesReturn SleepersWake
