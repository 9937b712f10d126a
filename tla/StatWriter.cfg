CONSTANTS
  NModules = 1
  U32 = 2
  DayLen = 2
  KeepStat = 1
  WestOfUTC = 1
  Faults = {"dstat", "chart"}
  Octets = {1}
  StartTime = 2
  MaxTime = 8
  MaxCount = 1
  MaxRestarts = 1
SPECIFICATION Spec
INVARIANTS
  TypeOK
  RecordsInPlace
  OldFilesGo
  StreamsOpen
PROPERTIES
  ImplementsStatLog
  KeepsHistory
CHECK_DEADLOCK FALSE
