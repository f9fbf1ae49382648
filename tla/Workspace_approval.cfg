CONSTANTS
  Invoker = {i1, i2}
  Operator = {o1, o2}
  ActionCount = 2
  MaxProposals = 2
  MaxCalls = 3
  MaxFaults = 1
SPECIFICATION Spec
SYMMETRY Symmetry
INVARIANTS OnlyApprovedIsApplied  ExecutedOnce
CHECK_DEADLOCK FALSE
