SPECIFICATION LiveSpec
CONSTANTS
  HVALID_W = 2
  HFP_W = 1
  HSYNC_W = 1
  HBP_W = 2
  VVALID_W = 2
  VFP_W = 1
  VSYNC_W = 1
  VBP_W = 1
  BFFR_DEPTH = 4
  AFULL_MARGIN = 3
  MaxOut = 2
  CFG_GAP = 2
  MaxCfg = 3
INVARIANTS
  
  TimingInStep
  PixelInPlace
PROPERTIES
  ShowsFrame
