SPECIFICATION PlanSpec
CONSTANTS
  Configs <- MCConfigs
  LanBlock = 8
CHECK_DEADLOCK FALSE
INVARIANTS PlanTypeOK SubnetsApart AddressesUsable AcceptedIfPlannable
  RoutesLead FailsOnlyWhenSplit GatewaysLocal
