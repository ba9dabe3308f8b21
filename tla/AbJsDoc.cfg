CONSTANTS
  VarBase = 16
  NumWord = 128
  PrintBufferSize = 4
  ItemRoom = 32
  Pieces <- MCPieces
  Starts <- MCStarts
  MaxPieces = 6
  Rooms = {23, 60}
  Segments <- MCSegments
  MaxSegs = 2
  Longs = {1, 63}
  Strings <- MCStrings
  MaxSets = 2
SPECIFICATION Spec
INVARIANTS TypeOK ParseExact RoundTrip Selects NothingLost Written
CHECK_DEADLOCK FALSE
