CONSTANTS
  Threads = {t1, t2}
  Items = {x1, x2, x3}
  Null = Null
  Ops = {"put", "del", "get"}
  MaxPuts = 2
  NumMod = 256
SPECIFICATION FairSpec
INVARIANTS TypeOK NoStalePointer QueueWhole
PROPERTIES FifoSpec CallsReturn Released
