CONSTANTS
  Threads = {t1, t2, t3}
  BlockSize = 2
  NumBlocks = 2
  MemId = 1
  CntMod = 7
  MaxCalls = 7
SPECIFICATION Spec
INVARIANTS TypeOK CasAccurate NothingLost
CHECK_DEADLOCK FALSE
