SPECIFICATION FairSpec
CONSTANTS
  Problems <- MCProblems
  kWarps = 2
  kLanes = 2
  kMaxGrid = 2
  kMaxRowBlocks = 3
INVARIANTS
  ReductionsComplete
  OutputExact
PROPERTY
  CallCompletes
CHECK_DEADLOCK FALSE
