SPECIFICATION Spec
CONSTANTS
  HEAP_SZ = 2048
  BLOCK_SZ = 64
  INT_MAX = 32767
  heap_base = 40960
  Sizes <- MCSizes
  Chars <- MCChars
  Lines <- MCLines
  maxlen = 64
  Passes <- MCPasses
  Drives = {128, 129}
  boot_drive = 129
  DGROUP = 160
  Segments = {0, 160}
  NPrfs = 3
  XTS_CTX_SZ = 216
  ReadErrors = TRUE
INVARIANT FreshHeader
CHECK_DEADLOCK FALSE
