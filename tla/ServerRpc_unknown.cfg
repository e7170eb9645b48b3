CONSTANTS
  None = None
  Workers = {w1, w2}
  Requests = {r1, r2}
  Methods = {"add", "typo"}
  Initial = {"add"}
  Editable = {}
  Forms = {"plain"}
  Ends = {"value"}
  MapRaces = FALSE
SPECIFICATION FairSpec
PROPERTY Answered
