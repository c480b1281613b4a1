SPECIFICATION Spec
CONSTANTS
  num_blocks = 2
  Seqs = {0, 1}
  max_blocks_per_seq = 2
  MaxIds = 2
  MaxRevision = 3
  MaxEvents = 2
INVARIANTS
  TypeOK
  PoolIntegrity
  MirrorFresh
PROPERTY
  ResetReturnsRow
CHECK_DEADLOCK FALSE
