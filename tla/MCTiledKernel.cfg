SPECIFICATION FairSpec
CONSTANTS
  kWarps = 3
  kLanes = 2
  kBlockM = 4
  kBlockN = 3
  kSlotsPerRow = 2
  MaxSeqQ = 6
  MaxSeqKv = 8
INVARIANTS
  ReadsCurrent
  BarriersUniform
  OutputExact
PROPERTY
  KernelTerminates
CHECK_DEADLOCK FALSE
