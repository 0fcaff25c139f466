SPECIFICATION Spec
CONSTANTS
  DepthLimit = 3
  MaxItems = 3
  Savers = {"daemon", "command"}
  Values <- MCValues
  Characters <- MCCharacters
  Absent = Absent
  Torn = Torn
  Inodes = {1, 2, 3, 4, 5, 6}
  BlockLen = 26
  MaxSaves = 3
  MaxFaults = 1
INVARIANTS
  TypeOK
  NoLitter
  CutsRefused
  ReadBack
PROPERTIES
  Implements
  ReadUndisturbed
CHECK_DEADLOCK FALSE
