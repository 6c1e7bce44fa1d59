CONSTANTS
  NULL = NULL
  VpoolItems = {1, 2}
  VpoolMaxElements = 4
  VqueueElems = {1, 2}
  VqueueCaps = {2, 3}
  VqueueBatch = 4
  VqueueWord = 6
  VstackElems = {1, 2}
  VstackCaps = {1, 3}
  VhtVals = {1, 2}
  VhtHash <- MCHash
  VhtSalt <- MCSalt
  VhtInitial = 4
  VhtMaxCap = 16
  VhtMaxLen = 2
  VdllNodes = {1, 2, 3, 4}
  VdllMaxPos = 3
  VarrayMax = 6
  VarenaFrame = 2
  VarenaCapacity = 9
  VarenaWord = 32
  VarenaSizes = {1, 2, 3, 30, 31}
  FqueueCap = 3
  FqueueInput = 4
  TbufCap = 3
  TreeMaxNodes = 5
  TreeVals = {0, 1, 2}
  TreeBatches <- MCBatches
SPECIFICATION Spec
INVARIANTS
  VpoolOneUser
  VstackLifo
  VhtIsMap
  VdllLinked
  VarrayInBounds
  VarenaApart
  FqueueConserves
  TreeHolds
  TreeIterates
  TbufGoesOn
PROPERTIES
  VqueuePromise
  VhtIterationCovers
  VdllEdits
CHECK_DEADLOCK FALSE
