CONSTANTS
  N = 2
  Items = {x1, x2, x3}
  NoItem = NoItem
  Linked0 = {x1, x2, x3}
  TickPeriod = 1
  MaxEpoch = 2
  Careless = {1}
  ThreadCount0 = 0
SPECIFICATION FairSpec
PROPERTIES FreeReturns CountSettles
