CONSTANTS
  Batches = 2
  Features = 6
  TimeBatches = 2
  Ranks = {1, 2, 3, 6}
  Builds = {"scalar_s16", "scalar_s8", "pext_s8"}
  VLMAX = 8
  svdf_state <- MCState
  Undefined = Undefined
  MaxCalls = 3
SPECIFICATION Spec
INVARIANTS
  TypeOK
  HistoryIsWindow
PROPERTY ImplementsStream
