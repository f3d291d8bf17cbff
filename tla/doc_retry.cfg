CONSTANTS
  Requirements = {"DUPLEX","NEGOTIATED"}
  Expd = FALSE
  Overtake = FALSE
  MaxSsn = 0
  MaxQueue = 1
  Asyn = {}
  Calls = {"release","reject","timeout"}
  Proposals <- OneSided
SPECIFICATION Spec
CHECK_DEADLOCK FALSE
INVARIANTS ReleaseInProgress
