SPECIFICATION Spec
CONSTANTS
  r1 = r1
  r2 = r2
  r3 = r3
  NoReq = NoReq
  NoSched = NoSched
PROPERTIES NothingLeaks
CHECK_DEADLOCK FALSE
