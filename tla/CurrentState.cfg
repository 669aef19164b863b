SPECIFICATION Spec
CONSTANTS
  s1 = s1
  s2 = s2
  s3 = s3
  b1 = b1
  b2 = b2
  None = None
  Session = {s1, s2, s3}
  Company = {"c"}
  Unit = {"u", "v", "w"}
  Product = {"p", "q"}
  Events <- MCEvents
  Rank <- MCRank
  TextRank <- MCTextRank
  Backwards = {}
  Rebuilder = {b1, b2}
  Reader = {"reader"}
  File = {1, 2, 3, 4, 5}
  Early = {s2}
  SoloUpgrade = TRUE
  MaxStops = 1
  MaxReads = 1
SYMMETRY Rebuilders
INVARIANTS
  AnswersAreWhole
  AloneSucceeds
  ReplaysAreFaithful
PROPERTIES
  NeverHalfUpgraded
CHECK_DEADLOCK FALSE
