CONSTANTS
  Procs = {p1, p2, p3}
  NoFile = NoFile
  MaxTxn = 4
  MaxFaults = 3
  Faults = {"crash", "io_error", "broken_create", "torn_append"}
SPECIFICATION FairSpec
  
PROPERTIES  EveryCallReturns
