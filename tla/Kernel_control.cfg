CONSTANTS
  Kernels = {k1, k2}
  Node <- Nodes
  NoNode = NoNode
  Graphs <- RacedGraphs
  Parallel = 2
  Attempts = 2
  MaxCommands = 1
  MaxFaults = 1
SYMMETRY Symmetry
SPECIFICATION Spec
INVARIANTS OneWorker NoOrphans OperatorIsObeyed
CHECK_DEADLOCK FALSE
