SPECIFICATION FairSpec
CONSTANTS
  kWarpsM = 2
  kSplitsD = 2
  kLanes = 1
  kWarpRows = 2
  kBlockN = 2
  kStages = 2
  MaxSeqQ = 5
  MaxSeqKv = 6
INVARIANTS
  TypeOK
  TileReady
  BarriersUniform
  OutputExact
PROPERTY
  KernelTerminates
CHECK_DEADLOCK FALSE
