SPECIFICATION TimelySpec
CONSTANTS
  Prayers = {1, 2}
  Prefs = {"both", "one"}
  Locations = {"unset", "west"}
  LastDay = 1
  DayLen = 4
  CatchupMax = 1
  MaxTriggers = 6
  MaxReminders = 1
  Enabled <- MCEnabled
  AdhanOn <- MCAdhanOn
  Reminders <- MCReminders
  PrayerMinute <- MCPrayerMinute
  Nil = Nil
  Unset = "unset"
  Detectable = {"west"}
  Initial <- MCWest
  RefreshEvery = 0
  RetryAfter = 2
  ProcessPerCycle = FALSE
  MaxEdits = 0
  MaxMishaps = 0
  MaxBlock = 1
PROPERTIES
  CatchUpHonoured
CHECK_DEADLOCK FALSE
