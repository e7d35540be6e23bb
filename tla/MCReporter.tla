----------------------------- MODULE MCReporter -----------------------------
\* Two sensors with one register each; a word of five values, so that the tick
\* counter wraps, and periods up to the largest word, the sentinel, with two of them
\* over MAX_PERIOD.
EXTENDS ValueReporter

MCRegisterMap == <<"FREQ">>
MCSensorArgs == {0, 1, 2}
MCRegArgs == {"FREQ", "NONE"}
MCPeriodArgs == 0 .. 4
=============================================================================
