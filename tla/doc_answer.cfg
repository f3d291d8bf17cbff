CONSTANTS
  Requirements = {"DUPLEX","RESYNC"}
  Expd = FALSE
  Overtake = FALSE
  MaxSsn = 0
  MaxQueue = 2
  Asyn = {}
  Calls = {"release","resync"}
  Proposals <- OneSided
SPECIFICATION FairSpec
CHECK_DEADLOCK FALSE
PROPERTIES ReleaseAnswered
