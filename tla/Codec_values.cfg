CONSTANTS
  Top = 4
  Values <- MCValues
  Types <- MCTypes
  MaxArgs = 2
  Stray <- MCStray
  StrayTexts <- MCStrayTexts
  Chars = {"a", "h", "u", "p", "v", "1", "2", "@", ":", "/"}
  Addresses <- MCAddresses
SPECIFICATION Spec
INVARIANTS Carried RunsWellTyped CallerSees SplitSound 
