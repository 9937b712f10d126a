CONSTANTS
  ab = ab
  cd = cd
  ef = ef
  p1 = p1
  p2 = p2
  x = x
  y = y
  plain = plain
  unwanted = unwanted
  Packets <- MCWholePackets
  nflows = 2
  Pairs = {ab, cd, ef}
  Ports = {p1, p2}
  ZeroPair = zero
  ZeroPort = none
  Symbols = {x, y}
  U32 = 4
  HeaderLen = 1
  Marks = {plain, unwanted}
  UnwantedMarks = {unwanted}
  MaxPackets = 5
SPECIFICATION Spec
INVARIANT EntropyDropsNothing
CHECK_DEADLOCK FALSE
