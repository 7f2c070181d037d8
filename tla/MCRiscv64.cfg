CONSTANTS
  None = None
  imem = imem
  dmem = bus
  inbox = bus
  ctrl = bus
  Controller = {c1, c2}
  Line = 16
  ByteBits = 2
  ImmBits = 6
  JalBits = 8
  Reg <- MCReg
  Prog <- MCProg
  Boot <- MCBoot
  Cells <- MCCells
SPECIFICATION Spec
INVARIANTS StatesMatchPackets NoAnswerDropped
PROPERTIES ErrorsEndTheRun ImplementsSequential KeepsExecuting ControllersAnswered
CHECK_DEADLOCK FALSE
