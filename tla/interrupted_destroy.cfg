SPECIFICATION Spec
CONSTANTS
  n1 = n1
  n2 = n2
  Procs = {p1, p2, p3}
  Labs = {l1}
  Nodes = {n1, n2}
  Links = {k1}
  Ends <- MCEnds
  StageNodes <- MCStageNodes
  MgmtEnabled = TRUE
  HostEth0 = FALSE
  SameLab = FALSE
  FaultKinds = {"kill"}
  TeardownFaults = {}
  MaxFaults = 1
CHECK_DEADLOCK FALSE
PROPERTY DestroyTearsDown
