SPECIFICATION Spec
CONSTANTS
  Prayers = {1, 2}
  Prefs = {"both", "one"}
  Locations = {"unset", "home", "away"}
  LastDay = 0
  DayLen = 4
  CatchupMax = 1
  MaxTriggers = 6
  MaxReminders = 1
  Enabled <- MCEnabled
  AdhanOn <- MCAdhanOn
  Reminders <- MCReminders
  PrayerMinute <- MCPrayerMinute
  Nil = Nil
  Unset = "unset"
  Detectable = {"home", "away"}
  Initial <- MCManual
  RefreshEvery = 0
  RetryAfter = 2
  ProcessPerCycle = FALSE
  MaxEdits = 1
  MaxMishaps = 0
  MaxBlock = 0
INVARIANTS
  SettingsTakeEffect
CHECK_DEADLOCK FALSE
