CONSTANTS
  Driver = {cp, cli}
  Request = {r1, r2}
  Command = {c1}
  Orders = {"resolve", "decide", "pause", "resume", "retry", "abort", "resolve mission"}
  Risks = {"low", "high"}
  Findings = {"nothing", "failures"}
  AllowMedium = FALSE
  MaxCycles = 2
  MaxAsks = 1
  MaxDeaths = 1
  MaxAtOnce = 2
SPECIFICATION OSSpec
INVARIANTS NextMissionIsFree CommandsRunOnce
PROPERTIES NobodyIsStranded
SYMMETRY Symmetric
CHECK_DEADLOCK FALSE
