SPECIFICATION RemapSpec
CONSTANTS
  NRules = 3
  MapSteps = 4
  MaxStrings = 10
INVARIANTS
  HeapSafe
  StepsExact
PROPERTIES
  Terminates
