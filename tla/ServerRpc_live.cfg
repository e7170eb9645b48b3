CONSTANTS
  None = None
  Workers = {w1, w2}
  Requests = {r1, r2}
  Methods = {"add", "typo", "late"}
  Initial = {"add"}
  Editable = {"late"}
  Forms = {"plain", "keywords", "malformed"}
  Ends = {"value", "runtime_error", "blank_error", "foreign_error", "exception"}
  MapRaces = TRUE
SPECIFICATION FairSpec
INVARIANTS TypeOK InOnePlace Survives
PROPERTIES ImplementsRequestService AnsweredIfAlive
