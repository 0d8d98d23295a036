SPECIFICATION FairSpec
CONSTANTS
  e1 = e1  e2 = e2  e3 = e3  e4 = e4  d1 = d1  d2 = d2  d3 = d3
  Entries <- MCEntries
  Id <- MCId
  Local <- MCLocal
  Dir <- MCDir
  Cost <- MCCost
  Fixed = 1
  Limit = 5
  Workers = {w1, w2}
  Scenarios <- MCScenarios
INVARIANTS
  AcceptedPathsRunOnce
  BatchesFit
  NothingInterleaves
  OutcomeTellsTheTruth
PROPERTY RunEnds
CHECK_DEADLOCK FALSE
