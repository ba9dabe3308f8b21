CONSTANTS
  h1 = h1
  h3 = h3
  h5 = h5
  Threads = {t1, t2}
  Keys = {h1, h3}
  Hash <- OwnHash
  NoKey = NoKey
  Null = Null
  Bits = 4
  ENTRYS_PER_BLOCK = 1
  MaxNodes = 5
  MaxInserts = 2
  Ops = {"insert", "delete"}
  NumMod = 256
SPECIFICATION FairSpec
PROPERTY CallsReturn
