CONSTANTS
  NoPkt = NoPkt
  Clusters = 2
  Elems = 3
  Flows <- MCFlows
  MaxSend <- MCMaxSend
  MaxTime = 3
  Mem <- MCMem
SPECIFICATION Spec
PROPERTIES ImplementsNetwork WedgedForEver SettlesOrWedged
CHECK_DEADLOCK FALSE
