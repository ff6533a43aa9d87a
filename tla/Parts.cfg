SPECIFICATION Spec
CONSTANTS
  Rid = {1, 2}
  MaxRequests = 2
  MaxChunks = 1
  RpcJob = {11}
  MaxJobs = 2
  Workers = 2
  Parent = {1, 2}
  CompanionsOf <- MCCompanionsOf
  MayDie = {0, 1}
  MayShutDown = TRUE
  Guided = {1}
  RpcId = {1, 2, 3}
  TimedRpc = {1, 2}
  Req = {1, 2}
  Block = {1, 2, 3}
  Prompt = 2
  MaxTokens = 2
  MaxRunning = 2
  Criteria <- MCCriteria
  MaxQueries = 2
  MaxOutputs = 1
  Video = {1, 2}
  Deletes = {1, 2}
  MaxIo = 1
  Engine = {"driver"}
  Control = {"ctl"}
  Timed = {"ctl"}
  MaxCalls = 2
  NumStages = 4
  Diffusion = {2}
  Remote = {3}
  Uses <- MCUses
  Instance = {"a", "b", "c", "d"}
  StartIndex = 5
INVARIANTS RequestsSound ChunksSound KvSound VideosSound SessionSound ExecutorSound StartupSound RoundsAreFair
PROPERTIES InlineSound SpeaksInOrder ImplementsService EveryoneEnds
CHECK_DEADLOCK FALSE
