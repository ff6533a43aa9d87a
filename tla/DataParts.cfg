SPECIFICATION Spec
CONSTANTS
  r1 = r1
  r2 = r2
  r3 = r3
  NoReq = NoReq
  NoSched = NoSched
INVARIANTS PlansSound OverlappedSound RdmaSound RunnersSound RequestModeSound HttpSound OffloadSound
PROPERTIES DownSticks LoraSound
CHECK_DEADLOCK FALSE
