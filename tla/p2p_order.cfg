SPECIFICATION PlanSpec
CONSTANTS
  Configs <- MCConfigs
  LanBlock = 8
CHECK_DEADLOCK FALSE
INVARIANT LowerNameLowerAddress
