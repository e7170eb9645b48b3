CONSTANTS
  None = None
  Callers = {c1, c2}
  Ids = {r1, r2, r3}
  Kinds = {"result", "error_text"}
  Timings = {TRUE, FALSE}
  Unusual = {"bytes"}
  MapRaces = FALSE
  SpuriousWakeups = FALSE
SPECIFICATION ServedSpec
INVARIANTS OwnReply NoNullDeref ReplyNotLost
PROPERTIES ImplementsCallService EveryCallReturns
