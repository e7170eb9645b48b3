CONSTANTS
  None = None
  Callers = {c1, c2}
  Ids = {r1, r2}
  Kinds = {"result"}
  Timings = {TRUE, FALSE}
  Unusual = {}
  MapRaces = FALSE
  SpuriousWakeups = FALSE
SPECIFICATION FairSpec
PROPERTY TimedCallReturns
