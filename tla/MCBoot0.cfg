SPECIFICATION Spec
CONSTANTS
  SECTOR = 6
  TCHDR = 6
  ImageSizes <- MCSizes
  Versions = {v1, v2}
  Cuts = {3, 8}
  Unread <- MCUnread
  MEM = 40
  LOAD = 2
  STACK_TOP = 19
  BOOT0 = 30
  AL_SIZE = 8
  BiosStacks <- MCBiosStacks
  FRAME = 2
  Drives = {128, 129}
  MaxBoots = 2
  MaxUnnoticed = 1
INVARIANTS RunsWhatWasBuilt RunsUntouched EntersOnlyWhole GoodDiskBoots BuiltUnlessUnnoticed
SYMMETRY MCSymmetry
CHECK_DEADLOCK FALSE
