CONSTANTS
  Clients = {c1, c2}
  Graph <- LoopGraph
  Routes = {}
  FailureTypes = {"implementation_error", "security_risk"}
  Signatures = {"s"}
  MaxTools = 24
  EarlyCalls = FALSE
  MaxFaults = 1
SPECIFICATION FairSpec
INVARIANTS ApprovalsMatchNodes GatedNodesAreApproved NeverWedged
PROPERTIES  RunEnds
CHECK_DEADLOCK FALSE
