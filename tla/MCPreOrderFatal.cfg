SPECIFICATION Spec
CONSTANTS
  r = r  a = a  l = l  q = q  p = p  x = x  u = u  z = z  m = m
  dirR = dirR  dirA = dirA  dirP = dirP  dirU = dirU  disk = disk
  BadItem = BadItem
  NoNode = NoNode
  Unlimited = Unlimited
  Node <- MCNode
  StartPaths <- MCStartPaths
  Items <- MCItems
  Dir <- MCDir
  Identity <- MCIdentity
  Device <- MCDevice
  Missing <- MCMissing
  ControlError <- NoNodes
  Opaque <- NoNodes
  Unreadable <- MCUnreadable
  Prune <- MCPrune
  MinDepth = 0
  MaxDepth = Unlimited
  SameFileSystem = FALSE
  NWorkers = 2
  SplitThreshold = 1
  ChunkSize = 2
  MayQuit <- MCMayQuit
  MayFail <- MCMayFail
INVARIANTS
  OnlyEvaluationsAreFatal
