SPECIFICATION HashingSpec
CONSTANTS
  Hashes <- MCHashes
INVARIANT DigestRight
CHECK_DEADLOCK FALSE
