SPECIFICATION Spec
CONSTANTS
  Missing = Missing
  Refused = Refused
  MemoryLimit = 1
  MaxEvidence = 2
  Bm25 <- MCBm25
  Session = {1, 2, 3}
  FilesOf <- MCFilesOf
  Recorded <- MCRecorded
  Times <- MCTimes
  Finished = {1, 3}
  Outcomes = {"cancelled", "failed"}
  Rewrites <- MCRewrites
  FirstCurated <- MCFirstCurated
  Edits <- MCEdits
  Found <- MCFound
  Limits = {1}
  Queries <- MCQueries
  KindFilters <- MCKindFilters
  MaxEdits = 1
  MaxRebuilds = 1
  MaxListings = 1
INVARIANTS
  IndexedEvidenceIsOne
  NothingFinishedIsMissed
  PagesAreOneSnapshot
  NothingSaidIsLost
  SearchIsComplete
PROPERTIES
  RefusalIsJustified
CHECK_DEADLOCK FALSE
