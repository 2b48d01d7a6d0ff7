SPECIFICATION Spec
CONSTANTS
  BLOCK_SZ = 4
  DIGEST_SZ = 2
  PBKDF2_MAX_DIGEST_LENGTH = 3
  BYTE = 3
  PassLengths = {0, 3, 4, 5}
  SaltLengths = {1, 2}
  KeyLengths = {0, 1, 2, 4, 7}
  IterationCounts = {1, 2, 3}
  OUT = 8
INVARIANTS HmacRight KeySoFar
PROPERTIES KeyComesOut
CHECK_DEADLOCK FALSE
