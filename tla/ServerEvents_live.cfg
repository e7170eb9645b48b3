CONSTANTS
  None = None
  Workers = {w1, w2}
  Events = {e1}
  Types = {"t1", "t2"}
  Callbacks = {"c1", "c2", "c3"}
  TypeOf <- MCTypeOf
  Apps = {a1, a2}
  Erasers = {a2}
  Forms = {"plain", "malformed"}
  Ends = {"value", "runtime_error", "exception"}
  MapRaces = TRUE
SPECIFICATION FairSpec
INVARIANTS TypeOK HandledOnce RegistrationsLast DeathsExplained
PROPERTY DueHandled
