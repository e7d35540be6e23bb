CONSTANTS
  NumCmds <- MCNumCmds
  Cmds <- MCCmds
  InputChars <- MCInputChars
  BufSize <- MCBufSize
  QueueSize = 1
  MaxName = 1
  MaxArgs = 1
  Triggers <- MCTriggers
  WriteResults = {TRUE}
  UninitValues = {0}
SPECIFICATION Spec
INVARIANT NotBusyMeansQuiet
CHECK_DEADLOCK TRUE
