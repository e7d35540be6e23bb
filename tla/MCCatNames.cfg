CONSTANTS
  NumCmds <- MCNumCmds
  Cmds <- MCCmds
  InputChars <- MCInputChars
  BufSize <- MCBufSize
  QueueSize = 1
  MaxName = 3
  MaxArgs = 1
  Triggers = {}
  WriteResults = {TRUE}
  UninitValues = {0, 7}
SPECIFICATION Spec
INVARIANT EnabledOnly
PROPERTY SearchResolves
PROPERTY OneResultPerLine
CHECK_DEADLOCK TRUE
