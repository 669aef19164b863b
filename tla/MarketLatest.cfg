SPECIFICATION Spec
CONSTANTS
  v = v
  w = w
  Nobody = Nobody
  Surface = {"vendors", "city"}
  Asked = {"every surface", "vendors"}
  Fractions = 2
  Writer = {v, w}
  Offset = {0, 1}
  Content <- MCContent
  Work <- MCWork
  Existing <- MCExisting
  MaxFaults = 0
INVARIANTS
  LatestIsByTime
CHECK_DEADLOCK FALSE
