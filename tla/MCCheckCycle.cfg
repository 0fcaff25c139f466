SPECIFICATION Spec
CONSTANTS
  Prayers = {1, 2}
  Prefs = {"both", "one"}
  Locations = {"unset", "home"}
  LastDay = 1
  DayLen = 3
  CatchupMax = 1
  MaxTriggers = 6
  MaxReminders = 1
  Enabled <- MCEnabled
  AdhanOn <- MCAdhanOn
  Reminders <- MCReminders
  PrayerMinute <- MCPrayerMinute
  Nil = Nil
  Unset = "unset"
  Detectable = {"home"}
  Initial <- MCFresh
  RefreshEvery = 0
  RetryAfter = 2
  ProcessPerCycle = FALSE
  MaxEdits = 1
  MaxMishaps = 1
  MaxBlock = 0
INVARIANTS
  TypeOK
  Accounted
  NeverTwice
  FreshCache
PROPERTIES
  GivenUpWithReason
CHECK_DEADLOCK FALSE
