SPECIFICATION FairSpec
CONSTANTS
  Apps <- PassApps
  Junk = 3
  MaxPlugs = 3
  MaxNacks = 1
  NackIn = {"rd", "probe", "status"}
  PlugInIsr = FALSE
  IsrSleeps = FALSE
  PowerOn = 90
  MSenseRetries = 2
  PwrOnRetries = 2
INVARIANTS
  
  
  AudioCoherent

  
CHECK_DEADLOCK FALSE
