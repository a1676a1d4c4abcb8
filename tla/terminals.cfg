SPECIFICATION FairSpec
CONSTANTS
  Labs = {one, two}
  Host = Host
  MaxSessions = 2
  MaxFont = 2
  MaxActs = 3
CHECK_DEADLOCK FALSE
INVARIANTS TypeOK TabsConsistent SizeInSync
PROPERTIES SessionEndsWhole
