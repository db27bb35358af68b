SPECIFICATION Spec
CONSTANTS
  NUM_AGENTS = 2
  INGR_BFFR_DEPTH = 4
  DEL_BFFR_DEPTH = 4
  EGR_BFFR_0_DEPTH = 8
  EGR_BFFR_1_DEPTH = 2
  Ops = {"wr"}
  MaxVer <- VerBound
  Ver0 = 1
  Max0 = 1
  Max1 = 7
  MaxReq <- ReqBound
INVARIANTS
  LookUpInStep
  IngressKept
  DropsBounded
