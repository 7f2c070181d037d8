CONSTANTS
  Nowhere = Nowhere
  None = None
  core1 = core1
  core2 = core2
  core3 = core3
  mem = mem
  uart = uart
  Master <- MCMaster
  Mem <- MCMem
  Uart <- MCUart
  Slot <- MCSlot
  Word = 6
  MaxRegions = 3
  Layouts <- MCLayouts
SPECIFICATION SystemSpec
INVARIANTS
  OnePacketPerTransfer ErrorMeansRefused WedgeTakesTwo
  OwnsItsStart OverlapsOnlyAround
PROPERTIES WedgedForEver QuietBusSettles OwnersStable
CHECK_DEADLOCK FALSE
