CONSTANTS
  Uninit = Uninit
  Files <- MCFiles
  Numeral <- MCNumeral
  GarbageWords = {"3"}
  Kilo = 10
  IntMod = 4096
  LongMod = 65536
  KEEP_STAT = 31
  NFQ_DEFLEN = 100
SPECIFICATION SpecWithTraffic
INVARIANTS
  TypeOK
  ReleasedAtExit
  StatThreadUsesLiveData
  StartsAsAssumed
  CrashesOnlyInRelease
  SettingsComeFromLines
  MarksWeighAsWritten
  LimitAsWritten
PROPERTY SignalEndsProgram
CHECK_DEADLOCK FALSE
