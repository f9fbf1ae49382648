CONSTANTS
  Clients = {c1, c2}
  Hooks = {h1}
  Runs = {r1, r2, r3}
  NoRun = NoRun
  MaxFaults = 2
  Faults = {"crash", "error", "advance_error"}
SPECIFICATION FairSpec
INVARIANTS  LetThroughIsPaid
PROPERTIES Released
CHECK_DEADLOCK FALSE
