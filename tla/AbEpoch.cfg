CONSTANTS
  N = 2
  Items = {x1, x2, x3}
  NoItem = NoItem
  Linked0 = {}
  TickPeriod = 1
  MaxEpoch = 8
  Careless = {0, 1}
  ThreadCount0 = 2
SPECIFICATION Spec
SYMMETRY Symmetry
INVARIANTS NoReuseWhileHeld AtMostOneGc GcListQuiet IInv
PROPERTY ReclaimSpec
