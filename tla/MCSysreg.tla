------------------------------ MODULE MCSysreg ------------------------------
\* One sensor with one register.  Ids are cut to four values, so that 4 is typed for
\* sensor 0 and 1 for a sensor that does not exist; 0 is no register.  The word has
\* four values: 3 is the sentinel, and 2 is over MAX_PERIOD too.
EXTENDS SysregCommand

MCRegisterMap == <<76>>
MCSensorArgs == 0 .. 3
MCRegArgs == {0, 76}
MCPeriodArgs == 0 .. 3
MCRwArgs == {1}
MCSensorIdArgs == {0, 1, 4}
=============================================================================
