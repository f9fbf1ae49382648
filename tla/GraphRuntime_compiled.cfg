CONSTANTS
  Clients = {c1, c2}
  Graph <- CompiledGraph
  Routes = {}
  FailureTypes = {"design_error", "evidence_gap"}
  Signatures = {"s"}
  MaxTools = 20
  EarlyCalls = TRUE
  MaxFaults = 0
SYMMETRY Symmetry
SPECIFICATION Spec
INVARIANTS  JoinsWait
CHECK_DEADLOCK FALSE
