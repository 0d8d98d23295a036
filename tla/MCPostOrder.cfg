SPECIFICATION Spec
CONSTANTS
  r = r  a = a  l = l  q = q  d = d  x = x  y = y  m = m
  dirR = dirR  dirA = dirA  dirD = dirD  disk = disk
  BadItem = BadItem
  NoNode = NoNode
  NoTask = NoTask
  Unlimited = Unlimited
  Node <- MCNode
  StartPaths <- MCStartPaths
  Items <- MCItems
  Dir <- MCDir
  Identity <- MCIdentity
  Device <- MCDevice
  Missing <- MCMissing
  ControlError <- NoNodes
  Opaque <- MCOpaque
  Unreadable <- MCUnreadable
  Prune <- NoNodes
  MinDepth = 0
  MaxDepth = Unlimited
  SameFileSystem = FALSE
  NWorkers = 2
  SplitThreshold = 1
  ChunkSize = 2
  MayQuit <- MCMayQuit
  MayFail <- MCMayFail
INVARIANTS
  TypeOK
  BarrierCountsExact
  NotifyFindsBarrier
  EveryFailureReported
PROPERTIES
  ImplementsTraversal
