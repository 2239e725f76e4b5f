SPECIFICATION LiveSpec
CONSTANTS
  NBlocks = 5
  BlockSize = 2
  LastSize = 1
  WindowSize = 2
  BlockMod = 5
  Rollover = 0
  Limits = {6, 100}
  TimeoutLimit = 3
  StaleWindows = 1
  MaxDups = 1
INVARIANTS
  DeliveredInOrder
  SuccessMeansStored
  WindowsAligned
  WithinMaxBytes
PROPERTIES
  ImplementsTransfer
  Terminates
