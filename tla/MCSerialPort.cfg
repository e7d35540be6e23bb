CONSTANTS
  Cap = 2
  MaxBytes = 3
SPECIFICATION FairSpec
INVARIANT PortTypeOK
INVARIANT BuffersDistinct
INVARIANT AcceptedArrive
PROPERTY InputDrains
CHECK_DEADLOCK TRUE
