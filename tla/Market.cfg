SPECIFICATION Spec
CONSTANTS
  v = v
  w = w
  Nobody = Nobody
  Surface = {"vendors", "city"}
  Asked = {"every surface", "vendors"}
  Fractions = 2
  Writer = {v, w}
  Offset = {0, 1}
  Content <- MCContent
  Work <- MCWork
  Existing <- MCExisting
  MaxFaults = 1
INVARIANTS
  StoredOnce
  AnswersAreOneMoment
  RefusalIsDue
PROPERTIES
  ForeignIsUntouched
  EverythingGetsStored
CHECK_DEADLOCK FALSE
