SPECIFICATION FairSpec
CONSTANTS
  Chars = {"a", "BEL", "LF"}
  maxlen = 3
  FlagSets <- MCFlagSets
  KBD_BUF = 2
  COLUMNS = 4
  Prompt <- MCPrompt
  MaxKeys = 6
INVARIANTS LineIsWhatSurvives EndsOnce NoKeyLost EchoInStep
PROPERTIES ReturnHeard
CHECK_DEADLOCK FALSE
