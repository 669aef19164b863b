SPECIFICATION Spec
CONSTANTS
  Pages = {"p"}
  Frames = {"f"}
  Ids = {r, q}
  MaxSessions = 3
  MaxSteps = 4
  MaxWire = 2
  MaxHops = 2
  SourceLimit = 3
  Grants <- MCGrants
INVARIANTS
  RegistryInverse
  NothingStale
  ActionsAreTrue
  RecordsAreExtractable
SYMMETRY MCSymmetry
CHECK_DEADLOCK FALSE
