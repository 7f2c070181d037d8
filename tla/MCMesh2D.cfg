CONSTANTS
  NoPkt = NoPkt
  Columns = 2
  Rows = 2
  Elems = 1
  Flows <- MCFlows
  Mem = {}
  MaxSend <- MCMaxSend
  MaxTime = 1
SPECIFICATION Spec
PROPERTIES ImplementsNetwork KeepsTimestamp
CHECK_DEADLOCK FALSE
