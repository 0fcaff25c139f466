SPECIFICATION Spec
CONSTANTS
  TicksPerSec = 2
  MinuteSecs = 3
  Places = {1, 2}
  MaxDue = 2
  MaxSignals = 2
INVARIANTS
  TypeOK
  NeverAsleepWithStop
  LeavesNothing
PROPERTIES
  StopHonoured
  MinuteByMinute
CHECK_DEADLOCK FALSE
