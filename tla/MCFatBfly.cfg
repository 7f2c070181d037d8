CONSTANTS
  NoPkt = NoPkt
  Layers = 2
  Flows <- MCFlows
  MaxSend <- MCMaxSend
SPECIFICATION Spec
INVARIANTS SortedAtRoot
PROPERTIES ImplementsNetwork Drains
CHECK_DEADLOCK FALSE
