SPECIFICATION HostSpec
CONSTANTS
  Invocation = {"a"}
  Adapter <- MCAdapter
  MaxCheckpoints = 1
  MaxMail = 2
  AllowInline = TRUE
  CancelsUi = FALSE
  Host = {"opencode", "pi"}
  Request = {1, 2}
  Script <- MCScript
  MaxRuns = 1
  MaxRevision = 2
  MaxDecisions = 1
  MayCrash = {"pi"}
  AllowMutation = TRUE
  Isolated = TRUE
CHECK_DEADLOCK FALSE
INVARIANTS  ToolsStayInRuns ResultIsOwn
PROPERTIES EveryRequestEnds
