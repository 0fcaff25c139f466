SPECIFICATION Spec
CONSTANTS
  Prayers = {1, 2}
  Prefs = {"plain", "one", "full"}
  Locations = {"spill", "early", "polar"}
  LastDay = 1
  DayLen = 8
  CatchupMax = 2
  MaxTriggers = 6
  MaxReminders = 2
  Enabled <- MCEnabled
  AdhanOn <- MCAdhanOn
  Reminders <- MCReminders
  PrayerMinute <- MCPrayerMinute
INVARIANTS
  TypeOK
  BuildAgrees
  LoopDisposesOfAllDue
  CapacityNeverCostsAdhan
  OvertakenReminderHasItsPrayer
  ScheduledOnce
CHECK_DEADLOCK FALSE
