SPECIFICATION MCSpec
CONSTANTS
  t1 = t1
  t2 = t2
  t3 = t3
  t4 = t4
  NoTask = NoTask
  NWorkers = 2
  Task <- MCTask
  Roots <- MCRoots
INVARIANTS
  TypeOK
  OutstandingExact
  NobodyLeavesEarly
  EachTaskInOnePlace
PROPERTIES
  ZeroIsFinal
  AllWorkersReturn
