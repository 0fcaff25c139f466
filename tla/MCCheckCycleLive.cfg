SPECIFICATION TimelySpec
CONSTANTS
  Prayers = {1, 2}
  Prefs = {"both", "one"}
  Locations = {"unset", "home", "away"}
  LastDay = 1
  DayLen = 5
  CatchupMax = 2
  MaxTriggers = 6
  MaxReminders = 1
  Enabled <- MCEnabled
  AdhanOn <- MCAdhanOn
  Reminders <- MCReminders
  PrayerMinute <- MCPrayerMinute
  Nil = Nil
  Unset = "unset"
  Detectable = {"home"}
  Initial <- MCManual
  RefreshEvery = 0
  RetryAfter = 2
  ProcessPerCycle = FALSE
  MaxEdits = 0
  MaxMishaps = 1
  MaxBlock = 1
PROPERTIES
  EveryPrayerAnnounced
CHECK_DEADLOCK FALSE
