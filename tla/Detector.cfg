SPECIFICATION Spec
CONSTANTS
  r1 = r1
  r2 = r2
  s1 = s1
  s2 = s2
  p1 = p1
  p2 = p2
  c1 = c1
  c2 = c2
  e1 = e1
  e2 = e2
  e3 = e3
  Runner = {r1, r2}
  Session = {s1, s2}
  Profile = {p1}
  Change = {c1, c2}
  Evidence = {e1, e2}
  Findings <- MCFindings
  Recorded <- MCRecorded
  Rank <- MCRank
  EndedAt <- MCEndedAt
  Unreadable <- Nothing
  Unextractable <- EditedFirst
  Foreign <- OneForeign
  MaxCrashes = 1
  MaxAlterations = 1
  None = None
SYMMETRY Runners
INVARIANTS
  OneBundlePerChange
  HistoryMatchesEvidence
  SummaryIsAccurate
  MarkedMeansPublished
PROPERTIES
  ImplementsPromotionLog
