SPECIFICATION Spec
CONSTANTS
  Places = {1, 2}
  MaxFaults = 2
INVARIANTS
  TypeOK
  TornUnitNoticed
PROPERTIES
  InstallWorks
  UninstallRemoves
  ReportsTrue
  StatusConsistent
CHECK_DEADLOCK FALSE
