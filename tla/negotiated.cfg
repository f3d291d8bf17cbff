CONSTANTS
  Requirements = {"HALFDUPLEX","NEGOTIATED","MINORSYNC","EXCEPTIONS","TYPEDATA","ACTIVITY","CAPABILITY"}
  Expd = FALSE
  Overtake = FALSE
  MaxSsn = 1
  MaxQueue = 1
  Asyn = {}
  Calls = {"minor","data","typed","control","capd","actstart","give","report","release","reject","timeout"}
  Proposals <- OneSided
SPECIFICATION Spec
CHECK_DEADLOCK FALSE
INVARIANTS ExceptionClearable ExceptionPaired
