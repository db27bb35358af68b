SPECIFICATION LiveSpec
CONSTANTS
  ClkDivs = {6, 7, 8}
  MAX_BYTES = 2
  Xtns <- MCXtns
  SlaveBytes <- MCSlaveBytes
  LB_GAP = 2
  MaxXtn = 2
INVARIANTS
  CallHonest
PROPERTIES
  BusProtocol
