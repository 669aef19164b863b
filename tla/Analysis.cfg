CONSTANTS
  a = a
  b = b
  Unknown = Unknown
  Aliases <- MCAliases
  Placeholders <- MCPlaceholders
  Unclean <- MCUnclean
  Garbled <- MCGarbled
  NormalKey <- MCNormalKey
  PartSize = 2
  Entries <- MCEntries
  FirstCaptures <- MCFirstCaptures
  OperationEdits <- MCOperationEdits
  ActionEdits <- MCActionEdits
  Sessions <- MCSessions
  MaxEntries = 5
  MaxGenerations = 1
  MaxCompilations = 2
SPECIFICATION Spec
INVARIANTS
  RecordedIsKnown
  WholeOrRefused
  FindingsAreComplete
  SameProfileFindsTheSame
CHECK_DEADLOCK FALSE
