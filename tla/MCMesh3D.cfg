CONSTANTS
  NoPkt = NoPkt
  Columns = 2
  Rows = 2
  Layers = 2
  Elems = 1
  Flows <- MCFlows
  Mem = {}
  MaxSend <- MCMaxSend
  MaxTime = 0
SPECIFICATION Spec
PROPERTIES ImplementsNetwork
INVARIANTS NoCyclicWait
CHECK_DEADLOCK FALSE
