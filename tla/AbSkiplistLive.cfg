CONSTANTS
  Threads = {t1, t2}
  Items = {x1, x2, x3, x4, x5}
  head = head
  Null = Null
  Keys = {1}
  MaxHeight = 2
  Starts <- SameKeys
  Ops = {"insert", "delete"}
  Incrs = {0, 3}
  NumMod = 256
SPECIFICATION FairSpec
PROPERTY CallsReturn
CHECK_DEADLOCK FALSE
