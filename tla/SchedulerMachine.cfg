SPECIFICATION Spec
CONSTANTS
  NoReq = NoReq
  NoSched = NoSched
  Reqs = {r1, r2, r3}
  RequestIds <- OwnIds
  MaxSuffix = 0
  MaxRunning = 2
  StepExecution = TRUE
  Strategy = "fifo"
  BucketTokens = 2
  PadTolerance <- ExactBuckets
  Tokens <- OneLength
SYMMETRY Symmetry
INVARIANTS Consistent
PROPERTIES UpdateSurfacesTerminal NoOvertaking
