CONSTANTS
  TotalSensors = 1
  register_map <- MCRegisterMap
  MaxPeriod = 1
  TickMod = 4
  NoLine = NoLine
  SensorArgs <- MCSensorArgs
  RegArgs <- MCRegArgs
  PeriodArgs <- MCPeriodArgs
  IdMod = 4
  RwArgs <- MCRwArgs
  SensorIdArgs <- MCSensorIdArgs
  ValueArgs = {0}
SPECIFICATION FairSysregSpec
INVARIANT SysregTypeOK
INVARIANT OkInForce
PROPERTY ErrorKeepsPeriods
PROPERTY AcknowledgedReported
CHECK_DEADLOCK TRUE
