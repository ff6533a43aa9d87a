SPECIFICATION Spec
CONSTANTS
  r1 = r1
  r2 = r2
  r3 = r3
  NoReq = NoReq
  NoSched = NoSched
  Reqs = {r1, r2, r3}
  RequestIds <- OwnIds
  MaxSuffix = 0
  MaxRunning = 3
  StepExecution = TRUE
  Strategy = "duration_bucket"
  BucketTokens = 2
  PadTolerance <- PadByHalf
  Tokens <- Spread
  Streaming = {r1, r2}
  Steps <- TwoSteps
  BlockEnds <- EveryStep
  Failures = {}
INVARIANTS SchedulerConsistent OnlyAbortsStrand NoTruncatedAudio BatchIsHomogeneous
PROPERTIES AbortBeatsLateAudio
