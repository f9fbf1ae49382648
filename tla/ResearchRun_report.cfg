CONSTANTS
  Caller = {c1, c2}
  Task = {t1}
  RoleOf <- OneTask
  Claim = {k1}
  Source = {s1, s2}
  Page = {"a1", "a2", "b1"}
  Host <- PageHost
  Moved <- PageMoved
  Suspect = {}
  Allowed = {"a", "b"}
  MinSources = 2
  MaxFetches = 2
  MaxClaims = 1
  MaxRedirects = 1
  MaxItems = 2
  MaxFaults = 1
  Offered = {"a1", "a2", "supports", "supported", "success", "failed"}
  None = None
SYMMETRY Symmetric
SPECIFICATION Spec
INVARIANTS EvidenceIsGrounded
PROPERTIES ReportIsSound ReportStands
CHECK_DEADLOCK FALSE
