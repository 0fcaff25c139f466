SPECIFICATION TimelySpec
CONSTANTS
  Prayers = {1, 2}
  Prefs = {"both", "one"}
  Locations = {"unset", "home", "away"}
  LastDay = 0
  DayLen = 4
  CatchupMax = 1
  MaxTriggers = 6
  MaxReminders = 1
  Enabled <- MCEnabled
  AdhanOn <- MCAdhanOn
  Reminders <- MCReminders
  PrayerMinute <- MCPrayerMinute
  Nil = Nil
  Unset = "unset"
  Detectable = {"home", "away"}
  Initial <- MCDetected
  RefreshEvery = 1
  RetryAfter = 2
  ProcessPerCycle = FALSE
  MaxEdits = 0
  MaxMishaps = 0
  MaxBlock = 1
PROPERTIES
  RefreshSkipsOnlyHandled
CHECK_DEADLOCK FALSE
