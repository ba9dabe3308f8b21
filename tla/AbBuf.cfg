CONSTANTS
  Threads = {t1, t2}
  x1 = x1
  x2 = x2
  Items <- MCItems
  Null = Null
  Schemas <- MCSchemas
  Keys = {1, 2}
  Held <- MCHeld
  Garbage = 9
  Tops = {1, 2}
  MaxFails = 2
  MaxCalls = 2
SPECIFICATION FairSpec
INVARIANTS TypeOK OneOwner ValueWhole NoStaleValue MultiGet
CHECK_DEADLOCK FALSE
PROPERTIES CallsReturn
