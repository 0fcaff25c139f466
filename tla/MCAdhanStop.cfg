SPECIFICATION Spec
CONSTANTS
  Players = {"task", "test"}
  Stoppers = {"command", "toast"}
  MaxAdhans = 3
  MaxStops = 2
  MaxFaults = 1
INVARIANTS
  TypeOK
  LeavesNothing
PROPERTIES
  ToldTruly
  StopEndsAll
CHECK_DEADLOCK FALSE
