SPECIFICATION Spec
CONSTANTS
  one = one
  two = two
  Invalid = Invalid
  Labs = {one, two}
  Nodes <- MCNodes
  Texts = {"", "h[", "h"}
  Matching <- MCMatching
  Kinds = {"pcap"}
  MaxCalls = 2
  MaxActs = 5
CHECK_DEADLOCK FALSE
INVARIANTS TypeOK MarksFollowSelection ProgressEnds ListTellsOutcome TouchesOnlyShown
