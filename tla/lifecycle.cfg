SPECIFICATION Spec
CONSTANTS
  n1 = n1
  n2 = n2
  Procs = {p1, p2, p3}
  Labs = {l1, l2}
  Nodes = {n1, n2}
  Links = {k1}
  Ends <- MCEnds
  StageNodes <- MCStageNodes
  MgmtEnabled = TRUE
  HostEth0 = FALSE
  SameLab = FALSE
  FaultKinds = {"err", "late", "kill"}
  TeardownFaults = {"err", "late"}
  MaxFaults = 1
CHECK_DEADLOCK FALSE
SYMMETRY Symmetry
INVARIANTS TypeOK LeftoversKeepTheirDir FaultFreeNeverFails
PROPERTIES ImplementsRegistry SavedOnlyWhenBuilt
