CONSTANTS
  Requirements = {"DUPLEX","RESYNC","EXPEDITED"}
  Expd = TRUE
  Overtake = TRUE
  MaxSsn = 0
  MaxQueue = 2
  Asyn = {"init","resp"}
  Calls = {"expd","resync","release","abort"}
  Proposals <- LeftToPeer
SPECIFICATION FairSpec
CHECK_DEADLOCK FALSE
PROPERTIES  ReleaseAgreed  NoHalfOpen
