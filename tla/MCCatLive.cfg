CONSTANTS
  NumCmds <- MCNumCmds
  Cmds <- MCCmds
  InputChars <- MCInputChars
  BufSize <- MCBufSize
  QueueSize = 2
  MaxName = 1
  MaxArgs = 1
  Triggers <- MCTriggers
  WriteResults = {TRUE}
  UninitValues = {0}
SPECIFICATION FairSpec
PROPERTY AnswersLines
PROPERTY OutputNotStarved
PROPERTY EventsInOrder
PROPERTY HoldReleased
CHECK_DEADLOCK TRUE
