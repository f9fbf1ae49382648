CONSTANTS
  Caller = {c1, c2}
  Key = {k1}
  None = None
  Absent = Absent
  Data <- Queues
  Initial <- NoJobs
  MaxAttempts = 2
  LockRetries = 0
  ReadRetries = 1
  MaxFaults = 1
  MaxJobs = 1
  Offered <- OneKey
  k1 = k1
  MaxBeats = 1
  MaxRev = 4
SPECIFICATION Spec
PROPERTIES ImplementsDurableQueue EveryCallReturns
CHECK_DEADLOCK FALSE
