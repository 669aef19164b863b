SPECIFICATION FairPowerSpec
CONSTANTS
  r1 = r1
  r2 = r2
  s1 = s1
  s2 = s2
  p1 = p1
  p2 = p2
  c1 = c1
  c2 = c2
  e1 = e1
  e2 = e2
  e3 = e3
  Runner = {r1}
  Session = {s1, s2}
  Profile = {p1, p2}
  Change = {c1, c2}
  Evidence = {e1, e2, e3}
  Findings <- MCFindings
  Recorded <- MCRecorded
  Rank <- MCRank
  EndedAt <- MCEndedAt
  Unreadable <- EditedFirst
  Unextractable <- EditedSecond
  Foreign <- Nothing
  MaxCrashes = 1
  MaxPowerLosses = 1
  MaxAlterations = 1
  None = None
INVARIANTS
  OneEvidencePerSession
PROPERTIES
  BundlesGetOut
  SessionsGetProcessed
