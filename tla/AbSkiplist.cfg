CONSTANTS
  Threads = {t1, t2}
  Items = {x1, x2, x3, x4, x5}
  head = head
  Null = Null
  Keys = {1, 2}
  MaxHeight = 2
  Starts <- Lists
  Ops = {"insert", "delete", "get"}
  Incrs = {0, 3}
  NumMod = 4
SPECIFICATION Spec
INVARIANTS TypeOK LevelsWhole ListIsRecs NoStalePointer
PROPERTY OrderSpec
CHECK_DEADLOCK FALSE
SYMMETRY Symmetry
