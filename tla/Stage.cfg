SPECIFICATION FairSpec
CONSTANTS
  Rid = {1, 2}
  MaxRequests = 2
  Rpc = {11, 12}
  TimedRpc = {11}
  MaxCalls = 2
  Workers = 1
INVARIANTS NothingLost
PROPERTIES NoReplyAfterAbort CallsEnd
CHECK_DEADLOCK FALSE
