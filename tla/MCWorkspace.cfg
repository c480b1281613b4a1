SPECIFICATION WorkspaceSpec
CONSTANTS
  SizeMod = 8
  Sizes <- MCSizes
INVARIANTS
  SlicesDisjoint
  PeakCovers
