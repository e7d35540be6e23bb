CONSTANTS
  c1 = c1
  c2 = c2
  NoCmd = NoCmd
  Size = 2
  Commands <- MCCommands
  Questions <- MCQuestions
SPECIFICATION FairSpec
INVARIANT RingOK
INVARIANT OkForAnyType
PROPERTY RingIsFifo
CHECK_DEADLOCK TRUE
