CONSTANTS
  Prayers <- MCPrayers
  PrayerNames <- MCPrayerNames
  Methods <- MCMethods
  Cut <- MCCut
  NotArray = NotArray
  IntMax = 10000
  Nil = Nil
  Junk = Junk
  Free = Free
  Hosts <- MCHosts
  Zones <- MCZones
  WindowsZones <- MCWindowsZones
  CountryTable <- MCCountryTable
  Upper <- MCUpper
  GpsdLines <- MCGpsdLines
  GpsdMaxLines = 2
  WindowsRequests <- MCWindowsRequests
  Replies <- MCReplies
  Now = 100000
  Paths <- MCPaths
  Groups <- MCGroups
  Commands <- MCCommands
  HandEdits <- MCHandEdits
  MaxCommands = 2
  MaxEdits = 2
SPECIFICATION Spec
INVARIANTS
  TypeOK
  ReportsTrue
PROPERTY
  DoesWhatWasAsked
CHECK_DEADLOCK FALSE
