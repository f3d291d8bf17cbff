CONSTANTS
  Requirements = {"DUPLEX","MINORSYNC","RESYNC"}
  Expd = FALSE
  Overtake = FALSE
  MaxSsn = 1
  MaxQueue = 1
  Asyn = {}
  Calls = {"give","minor","resync"}
  Proposals <- ToResponder
SPECIFICATION FairSpec
CHECK_DEADLOCK FALSE
INVARIANTS TokenHeldOnce TokenNotLost SsnInStep ResyncAgreed
PROPERTIES ResyncCompletes
