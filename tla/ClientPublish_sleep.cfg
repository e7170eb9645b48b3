CONSTANTS
  None = None
  Threads = {t1}
  Keys = {k1}
  MaxUses = 1
  SetRaces = FALSE
  SpuriousWakeups = FALSE
SPECIFICATION FairSpec
\* A publish that misses its notification sleeps for ever.
CHECK_DEADLOCK FALSE
PROPERTY PublishReturns
