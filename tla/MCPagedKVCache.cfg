SPECIFICATION ReadsSpec
CONSTANTS
  num_blocks = 2
  block_size = 2
  Seqs = {s0, s1}
  num_layers = 1
  Vals = {a}
  Blank = Blank
  LateClears <- MCLateFew
  kSlotMin = 1
  MaxAppend = 2
  MaxRevision = 4
  MaxEvents = 1
  MaxLate = 1
  kTokensPerSplit = 2
  kMaxSplits = 3
  sm_count = 2
  Requests <- MCRequests
INVARIANTS
  TypeOK
  Ownership
  LengthCovered
  TableHasRoom
  DevicePageTableFresh
  NoCrossTalk
  AttendsOwnTokens
  NeverAttendsForeign
  GatherReturnsView
PROPERTY
  ImplementsLogicalCache
SYMMETRY Symmetry
CHECK_DEADLOCK FALSE
