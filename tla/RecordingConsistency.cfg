SPECIFICATION Spec
CONSTANTS
  Pages = {"p"}
  Frames = {"f"}
  Ids = {"r"}
  MaxSessions = 3
  MaxSteps = 3
  MaxWire = 2
  MaxHops = 2
  SourceLimit = 9
  Grants <- MCGrants
INVARIANT
  RecordsAreConsistent
CHECK_DEADLOCK FALSE
