SPECIFICATION Spec
CONSTANTS
  kTokensPerSplit = 2
  kMaxSplits = 3
  Requests <- MCRequests
  sm_count = 4
  kWarpsPerBlock = 3
  kSlack = 1
  MaxCalls = 2
INVARIANTS
  NoFault
  OutputExact
CHECK_DEADLOCK FALSE
