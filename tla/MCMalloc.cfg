SPECIFICATION FairSpec
CONSTANTS
  HEAP_SZ = 32
  BLOCK_SZ = 2
  INT_MAX = 127
  heap_base = 100
  Sizes <- MCSizes
INVARIANTS TypeOK Separation BitmapExact IndInv
PROPERTIES CallsReturn ImplementsHeap
