CONSTANTS
  Billion = 10
  Limits = {3, 7}
  Sizes = {1, 3, 4}
  IdleOctets = 2
  Delays = {0, 1}
  MaxTime = 40
  MaxSends = 6
  IntRange = 64
SPECIFICATION Spec
INVARIANTS
  RateBound
