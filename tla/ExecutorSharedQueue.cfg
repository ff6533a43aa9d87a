SPECIFICATION Spec
CONSTANTS
  driver = driver
  ctl1 = ctl1
  ctl2 = ctl2
  Engine = {driver}
  Control = {ctl1}
  EngineLocks = FALSE
  Timed = {}
  MaxCalls = 1
INVARIANTS OwnReply
CHECK_DEADLOCK FALSE
