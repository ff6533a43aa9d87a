SPECIFICATION ChunkSpec
CONSTANTS
  Req = {1}
  Outputs = 2
  ChunkSize = 1
  Live = TRUE
  Flat = TRUE
  PutsFail = FALSE
  MaxRunning = 1
  MaxFlight = 1
INVARIANTS KeepsPolling
CHECK_DEADLOCK FALSE
