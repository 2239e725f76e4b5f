SPECIFICATION PrivSpec
CONSTANTS
  Ids = {0, 1, 2}
  Confs <- FewGroups
INVARIANTS
  NotDroppedEarly
  OnlyWhatIsNeeded
CHECK_DEADLOCK FALSE
