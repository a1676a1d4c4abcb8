SPECIFICATION FairSpec
CONSTANTS
  n1 = n1
  n2 = n2
  Procs = {p1, p2}
  Labs = {l1}
  Nodes = {n1, n2}
  Links = {k1}
  Ends <- MCEnds
  StageNodes <- MCStageNodes
  MgmtEnabled = TRUE
  HostEth0 = FALSE
  SameLab = TRUE
  FaultKinds = {"err", "late"}
  TeardownFaults = {"err", "late"}
  MaxFaults = 1
CHECK_DEADLOCK FALSE
PROPERTY EveryCommandEnds
