SPECIFICATION Spec
CONSTANTS
  Commands <- MCCommands
  Chars <- MCChars
  Limit <- MCLimit
  Word = 32
  MaxField = 4
INVARIANT VarTypeOK
INVARIANT HookSeesValue
INVARIANT RejectedRightly
INVARIANT ReadsBack
