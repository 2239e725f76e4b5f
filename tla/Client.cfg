CONSTANTS
  h1 = h1
  h2 = h2
  f = f
  NoHost = NoHost
  Hosts = {h1, h2}
  Names = {f}
  Commands <- AllCommands
  Unsafe = FALSE
  NBlocks = 2
  TimeoutLimit = 2
  MaxCommands = 2
  MaxDup = 1
  MaxIntr = 1
  MaxRefused = 1
SPECIFICATION Spec
INVARIANTS GotStays TimerInFrame ServIsWhole ZeroMeansDone
PROPERTIES PutIsStored 
