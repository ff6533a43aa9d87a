SPECIFICATION FairSpec
CONSTANTS
  i1 = i1
  i2 = i2
  h1 = h1
  Instance = {i1}
  Hub = {h1}
  Reported = {"UP"}
  MaxQueue = 0
  HeartbeatTimeout = 1
  GcTtl = 2
  MaxConnections = 1
  SndHwm = 1
  CanClose = TRUE
INVARIANTS OnlyRacesAreLost HubsFollow
PROPERTIES Recovers DeadLeaveHubs
