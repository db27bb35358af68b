SPECIFICATION LiveSpec
CONSTANTS
  NUM_SAMPLES = 2
  BPS = 1
  BCLK_DIV = 6
  FsVals = {2, 3}
  NUM_IDS = 5
  MaxWrites = 2
INVARIANTS
  DacInOrder
  BlocksWhole
PROPERTIES
  CaptureEnds
