SPECIFICATION FairSpec
CONSTANTS
  one = one
  two = two
  Labs = {one, two}
  Shapes <- MCShapes
  NoLab = NoLab
  MaxCalls = 2
  MaxActs = 3
  MaxFailures = 1
CHECK_DEADLOCK FALSE
INVARIANTS TypeOK DetailFollowsSelection DiffWithinLab EveryIntervalIsHeld
PROPERTIES ViewSettles
