CONSTANTS
  Requirements = {"MINORSYNC","DUPLEX","ACTIVITY","CAPABILITY","RESYNC"}
  Expd = FALSE
  Overtake = FALSE
  MaxSsn = 1
  MaxQueue = 1
  Asyn = {}
  Calls = {"please","actstart","actresume","actintr","actend","major","resync"}
  Proposals <- LeftToPeer
SPECIFICATION FairSpec
CHECK_DEADLOCK FALSE
INVARIANTS TypeOK ActivityInStep
PROPERTIES InterruptCompletes
