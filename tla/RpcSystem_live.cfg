CONSTANTS
  None = None
  Workers = {w1, w2}
  Requests = {r1, r2, n1, n2}
  Nested = {n1, n2}
  Methods = {"add", "relay"}
  Initial = {"add", "relay"}
  Editable = {}
  Relays = {"relay"}
  Callees = {"add"}
  Forms = {"plain"}
  Ends = {"value", "runtime_error", "blank_error", "foreign_error", "exception"}
  Timings = {TRUE, FALSE}
  MapRaces = FALSE
SPECIFICATION FairSystemSpec
INVARIANT EndToEnd
PROPERTIES AnsweredUnlessFull StopDrains
