CONSTANTS
  fast = fast
  odd = odd
  slow = slow
  Clk <- MCClk
  Period <- MCPeriod
  SEC = 5
  WORD = 16
  MAX_DOMAINS = 2
  MaxComps = 2
  MaxSec = 5
SPECIFICATION Spec
INVARIANTS BoundedSkew LastReportWins
PROPERTIES Chronological EveryDomainAdvances
CHECK_DEADLOCK FALSE
