SPECIFICATION Spec
CONSTANTS
  Main = Main
  None = None
  Caller = {Main}
  Kind <- MCKind
  QueueSize = 1
  MaxEvents = 2
  MaxCommands = 4
  FlushEvery = 2
INVARIANTS
  CompletedIsEverything
CHECK_DEADLOCK FALSE
