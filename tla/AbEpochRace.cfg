CONSTANTS
  N = 2
  Items = {x1, x2, x3}
  NoItem = NoItem
  Linked0 = {}
  TickPeriod = 1
  MaxEpoch = 4
  Careless = {}
  ThreadCount0 = 0
SPECIFICATION Spec
INVARIANT GcExclusive
