CONSTANTS
  QLen = 3
  Weights = {2, 3, 4, 5}
  DblMax = 100
  MaxOffers = 6
SPECIFICATION Spec
INVARIANTS
  ScansStopWhereSpecified
  KeepsTheHeaviest
