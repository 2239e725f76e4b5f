SPECIFICATION AsciiSpec
CONSTANTS
  CR = CR
  LF = LF
  NUL = NUL
  Others = {x}
  BlockSize = 3
  Files <- AllFiles
  Streams <- AllStreams
  Rooms = {0, 1, 1000}
INVARIANTS
  RoundTrip
  CutsDoNotMatter
CHECK_DEADLOCK FALSE
