SPECIFICATION PrimitivesSpec
CONSTANTS
  M = 6
  Bits = {0}
  W = 2
  SI_SIZE = 16
  Counts <- MCCounts
  Numbers <- MCNumbers
  Bases = {2, 10, 16}
  Buffers <- MCBuffers
  BUF_SZ = 16
INVARIANTS MemoryRight ResultRight DirectionClear ShiftRight PrintRight
