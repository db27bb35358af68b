SPECIFICATION Spec
CONSTANTS
  NumGroups = 2
  DqPerGroup = 2
  VFIFO_SIZE = 3
  IO_DQS_EN_PHASE_MAX = 2
  IO_DQS_EN_DELAY_MAX = 4
  IO_DELAY_PER_OPA_TAP = 3
  IO_DELAY_PER_DQS_EN_DCHAIN_TAP = 1
  IO_DQS_IN_DELAY_MAX = 3
  IO_IO_IN_DELAY_MAX = 3
  IO_IO_OUT1_DELAY_MAX = 3
  IO_DQS_IN_RESERVE = 1
  IO_DQS_OUT_RESERVE = 1
  Boards <- MCBoards
  Drifted <- MCDrifted
  ReadLatency = 1
  WriteLatency = 1
  LatencySlack = 3
  MaxLatency = 6
  MaxRequests = 1
INVARIANTS
  TypeOK
  
  EnCentred
  HandedOver
PROPERTIES
  ChainsOwned
  CalibrationEnds
CHECK_DEADLOCK FALSE
