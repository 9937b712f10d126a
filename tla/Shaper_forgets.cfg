CONSTANTS
  p1 = p1
  p2 = p2
  p3 = p3
  Packets = {p1, p2, p3}
  NoPacket = NoPacket
  Size <- MCSize
  ModWeights <- MCModWeights
  QLen = 1
  NfqLen = 2
  NModules = 1
  U32 = 4
  UINT64_MAX = 100
  Limits = {0, 10, 100}
  Faults = {}
SPECIFICATION Spec
INVARIANT NoPacketForgotten
