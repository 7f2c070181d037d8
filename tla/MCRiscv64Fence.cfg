CONSTANTS
  None = None
  imem = imem
  dmem = bus
  inbox = bus
  ctrl = bus
  Controller = {c1}
  Line = 16
  ByteBits = 2
  ImmBits = 6
  JalBits = 8
  Reg <- MCReg
  Prog <- FenceProg
  Boot <- FenceBoot
  Cells <- MCCells
SPECIFICATION Spec
PROPERTIES FenceIsNop
CHECK_DEADLOCK FALSE
