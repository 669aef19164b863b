SPECIFICATION FairSpec
CONSTANTS
  Main = Main
  None = None
  Caller = {Main}
  Kind <- MCKind
  QueueSize = 1
  MaxEvents = 3
  MaxCommands = 5
  FlushEvery = 2
INVARIANTS
  NobodyWaitsInVain
  AnalysableIsWhole
  NothingIsLost
PROPERTIES
  AnswersMatch
  ImplementsArchive
  SessionEnds
CHECK_DEADLOCK FALSE
