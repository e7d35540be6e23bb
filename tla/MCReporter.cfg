CONSTANTS
  TotalSensors = 2
  register_map <- MCRegisterMap
  MaxPeriod = 2
  TickMod = 5
  NoLine = NoLine
  SensorArgs <- MCSensorArgs
  RegArgs <- MCRegArgs
  PeriodArgs <- MCPeriodArgs
SPECIFICATION Spec
INVARIANT ReporterTypeOK
INVARIANT ReportsSpaced
INVARIANT ReportsPrompt
INVARIANT ReportsOwnLine
CHECK_DEADLOCK TRUE
