CONSTANTS
  Requirements = {"DUPLEX","MINORSYNC"}
  Expd = FALSE
  Overtake = FALSE
  MaxSsn = 1
  MaxQueue = 1
  Asyn = {}
  Calls = {"minor","minresp"}
  Proposals <- OneSided
SPECIFICATION Spec
CHECK_DEADLOCK FALSE
INVARIANTS ConfirmedInStep
