SPECIFICATION ReadsSpec
CONSTANTS
  num_blocks = 2
  block_size = 2
  Seqs = {s0, s1}
  num_layers = 1
  Vals = {a}
  Blank = Blank
  LateClears <- MCLateClears
  kSlotMin = 4
  MaxAppend = 3
  MaxRevision = 5
  MaxEvents = 1
  MaxLate = 1
  kTokensPerSplit = 2
  kMaxSplits = 3
  sm_count = 2
  Requests <- MCRequests
INVARIANT
  ResetThenAppendIsolated
CHECK_DEADLOCK FALSE
