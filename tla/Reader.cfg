SPECIFICATION ReaderLiveSpec
CONSTANTS
  FileBlocks = 9
  Slots = 5
  Window = 2
INVARIANTS
  WindowIntact
PROPERTIES
  ImplementsSource
  EngineFinishes
