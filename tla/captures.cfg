SPECIFICATION FairSpec
CONSTANTS
  Requests = {r1, r2, r3}
  Nodes = {a}
  MaxRestarts = 1
  NoTask = NoTask
CHECK_DEADLOCK FALSE
INVARIANTS TypeOK RunningIsTracked TrackedHasWaiter
PROPERTIES EndedIsForgotten StopEndsCapture
