SPECIFICATION Spec
CONSTANTS
  r = r  a = a  l = l  p = p  d = d  u = u  m = m  q = q  x = x  y = y  z = z  c = c  o = o  v = v  e = e
  dirR = dirR  dirA = dirA  dirP = dirP  dirD = dirD  dirU = dirU  dirQ = dirQ  dirO = dirO  dirV = dirV
  disk = disk  disk2 = disk2
  BadItem = BadItem
  Unlimited = Unlimited
  Node <- MCNode
  StartPaths <- MCStartPaths
  Items <- MCItems
  Dir <- MCDir
  Identity <- MCIdentity
  Device <- MCDevice
  Missing <- MCMissing
  ControlError <- MCControlError
  Opaque <- MCOpaque
  Unreadable <- MCUnreadable
  Prune <- MCPrune
  MinDepth = 1
  MaxDepth = Unlimited
  SameFileSystem = TRUE
  PostOrder = FALSE
  Inline = FALSE
  NEvaluators = 2
  MayQuit <- NoNodes
  MayFail <- MCMayFail
INVARIANTS
  TypeOK
  EveryNumberInFlight
  EveryFailureReported
PROPERTIES
  ImplementsOrderedTraversal
