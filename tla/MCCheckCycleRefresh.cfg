SPECIFICATION Spec
CONSTANTS
  Prayers = {1, 2}
  Prefs = {"both", "one"}
  Locations = {"unset", "home", "away"}
  LastDay = 0
  DayLen = 4
  CatchupMax = 1
  MaxTriggers = 6
  MaxReminders = 1
  Enabled <- MCEnabled
  AdhanOn <- MCAdhanOn
  Reminders <- MCReminders
  PrayerMinute <- MCPrayerMinute
  Nil = Nil
  Unset = "unset"
  Detectable = {"home", "away"}
  Initial <- MCDetected
  RefreshEvery = 2
  RetryAfter = 2
  ProcessPerCycle = FALSE
  MaxEdits = 1
  MaxMishaps = 2
  MaxBlock = 0
INVARIANTS
  Accounted
  FreshCache
PROPERTIES
  GivenUpWithReason
  KeepsPromise
CHECK_DEADLOCK FALSE
