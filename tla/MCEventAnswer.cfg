CONSTANTS
  c1 = c1
  c2 = c2
  NoCmd = NoCmd
  Size = 2
  Commands <- MCCommands
  Questions <- MCQuestions
SPECIFICATION Spec
INVARIANT OkMeansAbsent
CHECK_DEADLOCK TRUE
