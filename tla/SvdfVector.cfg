CONSTANTS
  Batches = 2
  Features = 6
  TimeBatches = 2
  Ranks = {1, 2, 3, 6}
  Builds = {"vext_s8"}
  VLMAX = 8
  svdf_state <- MCState
  Undefined = Undefined
  MaxCalls = 1
SPECIFICATION Spec
INVARIANT ResultsAtAddressOffset
