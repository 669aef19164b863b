SPECIFICATION Spec
CONSTANTS
  None = None
  Targets = {"tab", "other"}
  Frames = {"top", "inner"}
  Paths = {"buy", "list"}
  Methods = {"GET", "POST"}
  Actions <- MCActions
  Requests <- MCRequests
  Gaps = {0, 600, 1400}
  Window = 2000
  MaxRecent = 2
  MaxEvents = 4
INVARIANTS
  LinkedOnce
  NothingMissed
  LinkIsBest
