SPECIFICATION RolloutSpec
CONSTANTS
  num_blocks <- PlannedBlocks
  block_size = 2
  Seqs <- MCSeqs
  num_layers = 1
  Vals <- MCVals
  Blank = Blank
  LateClears = {}
  kSlotMin = 2
  MaxAppend = 9
  MaxRevision = 20
  MaxEvents = 1
  MaxLate = 1
  kTokensPerSplit = 2
  kMaxSplits = 3
  sm_count = 2
  Requests <- MCRequests
  max_kv_len = 2
  max_new_tokens = 3
  PromptLens = {1, 2, 5}
  BlockBytes = 4
  FreeBytes = {0, 60, 100}
INVARIANTS
  StepAttendsHistory
  PlanSuffices
PROPERTY
  ProgramEnds
CHECK_DEADLOCK FALSE
