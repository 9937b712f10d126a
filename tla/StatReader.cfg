CONSTANTS
  DayLen = 3
  KeepStat = 1
  U32 = 8
  Values = {1, 7}
  GarbageEnds = {0, 11}
  StartTime = 5
  MaxTime = 9
  Queries <- MCQueries
  GarbageRanges <- MCGarbageRanges
  ChartH = 4
  Pngs <- MCPngs
SPECIFICATION Spec
INVARIANTS
  TypeOK
  ReadsOwnSecond
  PlotFitsPeak
  ImageSurvivesEncoding
PROPERTIES
  ReadsAllRecorded
  ColumnsShowTheirSeconds
  RequestsAnswered
