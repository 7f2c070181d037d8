CONSTANTS
  NoReq = NoReq
  Lanes = 3
  Block = {0, 1}
  Byte = {0, 1}
  Ops <- MCOps
SPECIFICATION Spec
INVARIANTS AnswersMatchRequests OneReaderPerBlock NobodyForgotten
PROPERTIES ImplementsLaneMemory QuietLanesAreAnswered
