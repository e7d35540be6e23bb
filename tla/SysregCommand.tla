---------------------------- MODULE SysregCommand ---------------------------
(***************************************************************************)
(* The +SYSREG command of src/at_command.c above the value reporter.  The  *)
(* parser stores the arguments of a line one by one in the five variables  *)
(* g_sysreg_*, in calls of cat_service of its own, and then calls          *)
(* cmd_sysreg_write, which reads the variables and sets a period.  A line  *)
(* may stop after any argument (need_all_vars is not set) and may fail at  *)
(* any argument, and the variables keep what was stored until then.  The   *)
(* timer interrupt may come between any two of these steps.                *)
(*                                                                         *)
(* An argument is the number it denotes.  The parameter sensorId of        *)
(* value_reporter_set_report_period is a uint8_t: IdMod stands for 2^8.    *)
(* So is reg, which keeps the first byte typed; sysreg.reg is that byte.   *)
(***************************************************************************)
EXTENDS ValueReporter

CONSTANTS
  IdMod,          \* 2^8
  RwArgs,         \* bound: values typed for r/w
  SensorIdArgs,   \* bound: sensor ids typed, 32 bits wide
  ValueArgs       \* bound: values typed for value

ASSUME SysregAssumption ==
  /\ IdMod \in Nat \ {0}
  /\ SensorIdArgs \subseteq Nat
  /\ {s % IdMod : s \in SensorIdArgs \cup {0}} \subseteq SensorArgs
  /\ 0 \in RegArgs /\ 0 \in PeriodArgs

VARIABLES
  sysreg,   \* g_sysreg_*
  line,     \* the arguments stored from the current line
  phase,    \* whether the parser is idle, at the arguments or at the handler
  answer,   \* the result code of the line, "none" until there is one
  kept      \* history: what the variables held when the line started

sysregVars == <<sysreg, line, phase, answer, kept>>

Fields == <<"rw", "sensor_id", "reg", "value", "interval">>

ArgValues == [rw |-> RwArgs, sensor_id |-> SensorIdArgs, reg |-> RegArgs,
              value |-> ValueArgs, interval |-> PeriodArgs]

SysregInit ==
  /\ Init
  /\ sysreg = [rw |-> 0, sensor_id |-> 0, reg |-> 0, value |-> 0, interval |-> 0]
  /\ line = <<>>
  /\ phase = "IDLE"
  /\ answer = "none"
  /\ kept = sysreg

-----------------------------------------------------------------------------
\* Mutant: the variables are cleared when a line starts.
LineStarts_Clears ==
  /\ phase = "IDLE"
  /\ phase' = "PARSE_WRITE_ARGS"
  /\ line' = <<>>
  /\ answer' = "none"
  /\ kept' = sysreg
  /\ sysreg' = [f \in DOMAIN sysreg |-> 0]
  /\ UNCHANGED vars

LineStarts ==
  /\ phase = "IDLE"
  /\ phase' = "PARSE_WRITE_ARGS"
  /\ line' = <<>>
  /\ answer' = "none"
  /\ kept' = sysreg
  /\ UNCHANGED <<sysreg, vars>>

\* Mutant: the comma after the last argument is taken for a separator.
AfterArg_NoLimit(count, more) ==
  [phase |-> IF more THEN "PARSE_WRITE_ARGS" ELSE "WRITE_LOOP", answer |-> "none"]

\* Where parse_write_args goes after an argument, more if a comma follows it.
AfterArg(count, more) ==
  IF ~more THEN [phase |-> "WRITE_LOOP", answer |-> "none"]
  ELSE IF count < Len(Fields) THEN [phase |-> "PARSE_WRITE_ARGS", answer |-> "none"]
  ELSE [phase |-> "IDLE", answer |-> "ERROR"]

ArgStored ==
  /\ phase = "PARSE_WRITE_ARGS"
  /\ \E v \in ArgValues[Fields[Len(line) + 1]], more \in BOOLEAN :
       LET next == AfterArg(Len(line) + 1, more)
       IN  /\ sysreg' = [sysreg EXCEPT ![Fields[Len(line) + 1]] = v]
           /\ line' = Append(line, v)
           /\ phase' = next.phase
           /\ answer' = next.answer
  /\ UNCHANGED <<kept, vars>>

\* A number that is malformed or too large for its variable is not stored; of a bad
\* hexadecimal string the bytes before the bad one are.
ArgRefused ==
  /\ phase = "PARSE_WRITE_ARGS"
  /\ \/ UNCHANGED sysreg
     \/ /\ Fields[Len(line) + 1] = "reg"
        /\ \E v \in RegArgs : sysreg' = [sysreg EXCEPT !.reg = v]
  /\ phase' = "IDLE"
  /\ answer' = "ERROR"
  /\ UNCHANGED <<line, kept, vars>>

\* r/w and value are not looked at.
cmd_sysreg_write ==
  LET sensorId == sysreg.sensor_id % IdMod
  IN  /\ phase = "WRITE_LOOP"
      /\ value_reporter_set_report_period(sensorId, sysreg.reg, sysreg.interval)
      /\ answer' = IF SetResult(sensorId, sysreg.reg, sysreg.interval) = sysreg.interval
                   THEN "OK" ELSE "ERROR"
      /\ phase' = "IDLE"
      /\ UNCHANGED <<sysreg, line, kept>>

TimerThread == (value_reporter_start \/ value_reporter_timer_handler) /\ UNCHANGED sysregVars

SysregNext ==
  \/ LineStarts
  \/ ArgStored
  \/ ArgRefused
  \/ cmd_sysreg_write
  \/ TimerThread

SysregSpec == SysregInit /\ [][SysregNext]_<<vars, sysregVars>>

\* The kernel timer fires every second, whatever the parser does; nobody has to type.
FairSysregSpec == SysregSpec /\ WF_<<vars, sysregVars>>(TimerThread)

-----------------------------------------------------------------------------
\* Types; the parser never asks for an argument after the last.
SysregTypeOK ==
  /\ {sysreg, kept} \subseteq
       [rw : RwArgs \cup {0}, sensor_id : SensorIdArgs \cup {0}, reg : RegArgs,
        value : ValueArgs \cup {0}, interval : PeriodArgs]
  /\ phase \in {"IDLE", "PARSE_WRITE_ARGS", "WRITE_LOOP"}
  /\ answer \in {"none", "OK", "ERROR"}
  /\ phase = "PARSE_WRITE_ARGS" => Len(line) < Len(Fields)

\* The argument i that the line stands for: its own if it has one, otherwise what
\* earlier lines left in the variable.
Meant(i) == IF i <= Len(line) THEN line[i] ELSE kept[Fields[i]]

MeantSensor == Meant(2) % IdMod
MeantRegister == <<MeantSensor, atm90e26_get_register_index(Meant(3))>>

\* An OK means that the register the line stands for has the interval it stands for,
\* however few of the arguments the line has and whatever failed before it.  (With
\* PERIOD_NOT_VALIDE itself as the interval it does not: the refusal is returned as
\* that value, and the command compares the result with the interval.)
OkInForce ==
  answer = "OK" /\ Meant(5) # PERIOD_NOT_VALIDE =>
    /\ MeantSensor < TotalSensors /\ IsRegister(Meant(3))
    /\ report_periods[MeantRegister] = Meant(5)

\* A line that is answered with ERROR changes no period, although it may have changed
\* some of the variables.
ErrorKeepsPeriods == [][answer' = "ERROR" => UNCHANGED report_periods]_<<vars, sysregVars>>

\* What was acknowledged happens: after an OK for an interval that is not 0 the timer
\* reports the register, whatever is typed meanwhile, unless its period becomes 0.
AcknowledgedReported ==
  \A r \in Registers :
    (answer = "OK" /\ Meant(5) \notin {0, PERIOD_NOT_VALIDE} /\ r = MeantRegister)
      ~> (report_periods[r] = 0 \/ \E l \in logged : l.reg = r)
=============================================================================
