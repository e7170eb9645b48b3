CONSTANTS
  None = None
  Callers = {c1, c2}
  Ids = {r1, r2, r3}
  Kinds = {"result", "error_text", "error_object", "malformed"}
  Timings = {TRUE, FALSE}
  Unusual = {"bytes", "async"}
  MapRaces = TRUE
  SpuriousWakeups = TRUE
SPECIFICATION Spec
SYMMETRY Symmetry
INVARIANTS TypeOK LeaksExplained BlankExplained LostOnlyInRace
