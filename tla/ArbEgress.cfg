SPECIFICATION LiveSpec
CONSTANTS
  NUM_AGENTS = 2
  INGR_BFFR_DEPTH = 4
  DEL_BFFR_DEPTH = 4
  EGR_BFFR_0_DEPTH = 8
  EGR_BFFR_1_DEPTH = 2
  Ops = {"rd","wr"}
  MaxVer <- VerBound
  Ver0 = 0
  Max0 = 1
  Max1 = 2
  MaxReq <- ReqBound
INVARIANTS
  AnswersRight

  
