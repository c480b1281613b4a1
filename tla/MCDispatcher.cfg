SPECIFICATION VarlenSpec
CONSTANTS
  Requests <- MCRequests
  VarlenCalls <- MCVarlenCalls
  SmemLimits = {49152, 101376}
  FreeMems = {10000, 20000000}
  MaxRefresh = 2
INVARIANTS
  LaunchesFit
  NoSilentDegradation
  AutoServes
  VarlenExact
  ValidatedServed
