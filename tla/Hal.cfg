SPECIFICATION FairSpec
CONSTANTS
  ALT_MAX_FD = 6
  TICK_MOD = 3
  TICKS_PER_SECOND = 1
  JTAG_BUF_LEN = 2
  JTAG_FIFO = 1
  DEFAULT_TIMEOUT = 2
  INT_MAX = 4
  UART_BUF_LEN = 2
  Lens = {2}
  Timeouts = {0}
  Bounds <- HalBounds
INVARIANTS
  
  AlarmsExact
  
PROPERTIES
  CallReturns
CHECK_DEADLOCK FALSE
