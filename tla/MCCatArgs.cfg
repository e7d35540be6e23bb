CONSTANTS
  NumCmds <- MCNumCmds
  Cmds <- MCCmds
  InputChars <- MCInputChars
  BufSize <- MCBufSize
  QueueSize = 1
  MaxName = 2
  MaxArgs = 5
  Triggers = {}
  WriteResults = {TRUE}
  UninitValues = {0}
SPECIFICATION Spec
INVARIANT CommandDereference
INVARIANT OutputTerminated
INVARIANT WriteArgsParsed
CHECK_DEADLOCK TRUE
