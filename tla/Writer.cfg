SPECIFICATION LiveSpec
CONSTANTS
  NBlocks = 7
  RingSizes = {2, 6}
  WindowSize = 3
INVARIANTS
  NothingShared
  AckedIsFlushed
PROPERTIES
  ImplementsSink
  EngineFinishes
