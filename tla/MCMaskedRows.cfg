SPECIFICATION Spec
CONSTANTS
  Problems <- MCProblems
  kWarps = 2
  kLanes = 2
  kMaxGrid = 2
  kMaxRowBlocks = 3
INVARIANT MaskedRowsZero
CHECK_DEADLOCK FALSE
