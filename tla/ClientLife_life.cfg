CONSTANTS
  None = None
  Users = {u1, u2}
  Owner = u1
  Calls = {r1, r2}
  Binds = {b1}
  Copies = {k1}
SPECIFICATION FairSpec
INVARIANTS TypeOK ChannelsReady NullExplained QuietDestruction
PROPERTY ConstructorReturns
