SPECIFICATION FairSpec
CONSTANTS
  HEADER = 2
  NONCE = 1
  HASH = 1
  MAXLEN = 3
  PayloadSizes = {1, 2}
  MaxPackets = 2
  MaxFaults = 1
  KnownKeys = {"own", "other"}
  DialledKeys = {"own", "unknown"}
INVARIANTS TypeOK KeystreamsInStep ErrorsNeedFaults EstablishedAgree
PROPERTIES ImplementsFifoChannel PacketArrives
CHECK_DEADLOCK FALSE
