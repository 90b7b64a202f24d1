CONSTANTS
  a = a
  b = b
  None = None
  Spots = {a, b}
  Lineups <- MixedLineups
  Intervals = {1, 2}
  Grace = 1
  MaxOps = 6
  MayCrash = TRUE
SPECIFICATION FairSpec
INVARIANTS
  TypeOK
  DisabledNotArmed
  JobMatchesConfig
  ArmedOrBroken
  Inv
PROPERTIES
  PlaysSuccessor
  KeepsPlaying
