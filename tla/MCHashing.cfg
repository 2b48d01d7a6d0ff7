SPECIFICATION HashingSpec
CONSTANTS
  Hashes <- MCHashes
INVARIANTS ChunksDoNotMatter DigestRightUnlessOverlap RoundsRight DigestPublished
CHECK_DEADLOCK FALSE
