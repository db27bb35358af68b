SPECIFICATION FairSpec
CONSTANTS
  Threads = {"main", "peer", "low"}
  Main = "main"
  Idle = "idle"
  CH_TIME_QUANTUM = 1
  TimeMod = 4
  Sems = {"s1", "s2"}
  Mutexes = {"m1", "m2"}
  Conds = {"c1"}
  Items = {"a", "b"}
  NoItem = "nothing"
  Size = 2
  MaxCnt = 1
  Apps <- OtherApps
  ResetRaces = FALSE
  RegRaces = FALSE
  CoreSize = 16
  MEM_ALIGN_SIZE = 2
  HeaderSize = 4
  ObjectSize = 3
INVARIANTS
  NoIdleQueue
  MemTiled
  
PROPERTIES
  QueuesAreBuffers
  TickServes
