SPECIFICATION FairSpec
CONSTANTS
  r1 = r1
  r2 = r2
  r3 = r3
  NoReq = NoReq
  NoSched = NoSched
  Reqs = {r1, r2}
  RequestIds <- OwnIds
  MaxSuffix = 0
  MaxRunning = 1
  StepExecution = TRUE
  Strategy = "fifo"
  BucketTokens = 2
  PadTolerance <- ExactBuckets
  Tokens <- ShortAndLong
  Streaming = {r1}
  Steps <- TwoSteps
  BlockEnds <- EveryStep
  Failures = {}
PROPERTIES AbortsSurface
