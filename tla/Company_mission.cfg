CONSTANTS
  Driver = {d1, d2}
  Courier = {e1, e2}
  Kind <- FourKinds
  DependsOn <- Chain
  JoinsAll <- Joins
  Role <- FourRoles
  MaxAttempts <- Attempts
  MaxTicks = 5
  Simulation = FALSE
  ProducesCode = TRUE
  FailureTypes = {"implementation_error", "security_risk"}
  MaxProposals = 2
  MaxFaults = 1
  None = None
SPECIFICATION Spec
INVARIANTS ApprovalsMatchItems OneWorkerIsHeard GateIsEarned DeliveriesAreApproved
PROPERTIES CompletedIsFinal
SYMMETRY Symmetric
CHECK_DEADLOCK FALSE
