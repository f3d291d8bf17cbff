CONSTANTS
  Requirements = {"HALFDUPLEX","MAJORSYNC","EXCEPTIONS"}
  Expd = FALSE
  Overtake = FALSE
  MaxSsn = 1
  MaxQueue = 2
  Asyn = {}
  Calls = {"give","major","report"}
  Proposals <- OneSided
SPECIFICATION Spec
CHECK_DEADLOCK FALSE
INVARIANTS MajorSyncInProgress
