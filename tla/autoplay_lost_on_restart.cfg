CONSTANTS
  a = a
  b = b
  None = None
  Spots = {a, b}
  Lineups <- MixedLineups
  Intervals = {1, 2}
  Grace = 1
  MaxOps = 3
  MayCrash = TRUE
SPECIFICATION Spec
INVARIANTS
  ReloadsAfterRestart
