CONSTANTS
  Requirements = {"HALFDUPLEX","MINORSYNC","MAJORSYNC"}
  Expd = FALSE
  Overtake = FALSE
  MaxSsn = 2
  MaxQueue = 2
  Asyn = {}
  Calls = {"give","minor","minresp","major"}
  Proposals <- OneSided
SPECIFICATION FairSpec
CHECK_DEADLOCK FALSE
INVARIANTS SsnInStep MajorSyncPaired
PROPERTIES MajorSyncCompletes
