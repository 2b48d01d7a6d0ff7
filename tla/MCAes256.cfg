SPECIFICATION AesSpec
CONSTANTS
  AesKeys <- MCKeys
  AesBlocks <- MCBlocks
  AesCalls = 3
INVARIANTS ScheduleRight CryptsRight
CHECK_DEADLOCK FALSE
