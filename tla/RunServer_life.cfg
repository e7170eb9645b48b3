CONSTANTS
  None = None
  Workers = {w1, w2}
  MaxTries = 3
  Blocks = {TRUE, FALSE}
  MaxMessages = 3
SPECIFICATION FairSpec
INVARIANTS TypeOK OnlyFailedTriesLeak ReturnsAfterLoop
PROPERTY StopEndsServer
