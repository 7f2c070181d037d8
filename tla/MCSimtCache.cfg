CONSTANTS
  NoReq = NoReq
  Lanes = 3
  Addr = {0, 1}
  Ops <- AllOps
SPECIFICATION Spec
INVARIANTS AnswersMatchRequests NobodyForgotten
PROPERTIES ImplementsLaneMemory QuietLanesAreAnswered
