CONSTANTS
  h1 = h1
  h3 = h3
  h5 = h5
  Threads = {t1, t2}
  Keys = {h1, h3}
  Hash <- OwnHash
  NoKey = NoKey
  Null = Null
  Bits = 4
  ENTRYS_PER_BLOCK = 2
  MaxNodes = 8
  MaxInserts = 2
  Ops = {"insert", "delete", "get"}
  NumMod = 256
SPECIFICATION Spec
INVARIANTS TypeOK SplitOrder ChainIsDict
PROPERTIES LoadFollows MapSpec
SYMMETRY Symmetry
