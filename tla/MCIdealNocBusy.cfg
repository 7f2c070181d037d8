CONSTANTS
  NoPkt = NoPkt
  Elem = {0, 1, 2}
  latency = 0
  Prompt = FALSE
  Flows <- MCFlows
  MaxSend <- MCMaxSend
SPECIFICATION Spec
PROPERTIES OldestFirst
CHECK_DEADLOCK FALSE
