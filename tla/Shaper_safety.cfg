CONSTANTS
  p1 = p1
  p2 = p2
  p3 = p3
  Packets = {p1, p2, p3}
  NoPacket = NoPacket
  Size <- MCSize
  ModWeights <- MCModWeights
  QLen = 2
  NfqLen = 3
  NModules = 2
  U32 = 4
  UINT64_MAX = 100
  Limits = {0, 10, 100}
  Faults = {"payload", "verdict"}
SPECIFICATION Spec
INVARIANTS
  TypeOK
  OneVerdict
  SlotsHoldUnjudged
  SpecialLimits
  StatsAccountForVerdicts
PROPERTIES
  HeaviestFirst
  ImplementsQueue
