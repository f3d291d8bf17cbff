CONSTANTS
  Requirements = {"HALFDUPLEX","MINORSYNC","ACTIVITY","EXCEPTIONS"}
  Expd = FALSE
  Overtake = FALSE
  MaxSsn = 4
  MaxQueue = 12
  Asyn = {}
  Calls = {"abort","data","please","control","minor","minresp","actend","actstart","actintr","report","release","timeout"}
  Proposals = {}
  Windows = {1}
  MaxPlease = 1
  MaxChunks = 3
  MaxTransfers = 2
  MaxRefusals = 1
SPECIFICATION RoSpec
CHECK_DEADLOCK FALSE
INVARIANTS RoTypeOK DeliveredOnce TurnInStep WindowKept LostOnlyByRefusal HandedInOrder
PROPERTIES DeliveredWhole TransferReturns ReadyReturns
