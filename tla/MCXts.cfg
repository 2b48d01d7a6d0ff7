SPECIFICATION Spec
CONSTANTS
  blk_sz = 16
  BITS = 8
  XTS_ALPHA = {0, 1, 2, 7}
  Lengths = {0, 16, 17, 448}
  Keys = {1, 2}
  KeyLens = {32, 33, 64}
  Ivs = {0, 1}
  First <- MCFirst
  MaxCalls = 2
INVARIANTS TweakIsPower RoundTrip
