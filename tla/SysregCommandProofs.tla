------------------------- MODULE SysregCommandProofs ------------------------
(***************************************************************************)
(* An OK means that the period is in force, whatever is typed, however     *)
(* short the line and whenever the timer fires; and the reporter spaces    *)
(* its reports with the command above it as it does alone.                 *)
(***************************************************************************)
EXTENDS SysregCommand, ValueReporterProofs

FieldNames == {"rw", "sensor_id", "reg", "value", "interval"}

\* The types of the variables that are passed on.
Passable(v) == /\ DOMAIN v = FieldNames
               /\ v["sensor_id"] \in SensorIdArgs \cup {0}
               /\ v["reg"] \in RegArgs
               /\ v["interval"] \in PeriodArgs

\* While a line is open, the variables of the fields it has stored hold its arguments,
\* and the others what they held when it started.
LineInv ==
  /\ phase \in {"PARSE_WRITE_ARGS", "WRITE_LOOP"} =>
       /\ answer = "none"
       /\ \A i \in 1 .. 5 : sysreg[Fields[i]] = Meant(i)
  /\ phase = "PARSE_WRITE_ARGS" => Len(line) < 5

SysregInv ==
  /\ Passable(sysreg)
  /\ line \in Seq(UNION {RwArgs, SensorIdArgs, RegArgs, ValueArgs, PeriodArgs})
  /\ phase \in {"IDLE", "PARSE_WRITE_ARGS", "WRITE_LOOP"}
  /\ LineInv
  /\ OkInForce

-----------------------------------------------------------------------------
LEMMA FieldFacts ==
  /\ Len(Fields) = 5
  /\ Fields[1] = "rw" /\ Fields[2] = "sensor_id" /\ Fields[3] = "reg"
  /\ Fields[4] = "value" /\ Fields[5] = "interval"
  /\ \A i \in 1 .. 5 : Fields[i] \in FieldNames
  /\ \A i, j \in 1 .. 5 : Fields[i] = Fields[j] => i = j
BY DEF Fields, FieldNames

LEMMA ArgFacts ==
  /\ ArgValues["rw"] = RwArgs /\ ArgValues["sensor_id"] = SensorIdArgs
  /\ ArgValues["reg"] = RegArgs /\ ArgValues["value"] = ValueArgs
  /\ ArgValues["interval"] = PeriodArgs
BY DEF ArgValues

LEMMA InitSysregInv == SysregInit => SysregInv
<1> SUFFICES ASSUME SysregInit
             PROVE  SysregInv
  OBVIOUS
<1>1. Passable(sysreg)
  BY SysregAssumption DEF SysregInit, Passable, FieldNames
<1>2. line = <<>> /\ phase = "IDLE" /\ answer = "none"
  BY DEF SysregInit
<1> QED
  BY <1>1, <1>2 DEF SysregInv, LineInv, OkInForce

-----------------------------------------------------------------------------
LEMMA ArgStoredStep ==
  ASSUME SysregInv, ArgStored
  PROVE  SysregInv'
<1> DEFINE n == Len(line) + 1
<1>1. /\ phase = "PARSE_WRITE_ARGS" /\ Len(line) < 5 /\ Len(line) \in Nat
      /\ \A i \in 1 .. 5 : sysreg[Fields[i]] = Meant(i)
  BY DEF SysregInv, LineInv, ArgStored
<1>2. n \in 1 .. 5
  BY <1>1
<1>3. PICK v \in ArgValues[Fields[n]], more \in BOOLEAN :
        /\ sysreg' = [sysreg EXCEPT ![Fields[n]] = v]
        /\ line' = Append(line, v)
        /\ phase' = AfterArg(n, more).phase
        /\ answer' = AfterArg(n, more).answer
        /\ kept' = kept
  BY DEF ArgStored
<1>4. Passable(sysreg')
  <2>1. DOMAIN sysreg' = FieldNames
    BY <1>3 DEF SysregInv, Passable
  <2>2. sysreg'["sensor_id"] \in SensorIdArgs \cup {0}
    BY <1>2, <1>3, FieldFacts, ArgFacts DEF SysregInv, Passable
  <2>3. sysreg'["reg"] \in RegArgs
    BY <1>2, <1>3, FieldFacts, ArgFacts DEF SysregInv, Passable
  <2>4. sysreg'["interval"] \in PeriodArgs
    BY <1>2, <1>3, FieldFacts, ArgFacts DEF SysregInv, Passable
  <2> QED
    BY <2>1, <2>2, <2>3, <2>4 DEF Passable
<1>5. v \in UNION {RwArgs, SensorIdArgs, RegArgs, ValueArgs, PeriodArgs}
  <2>1. ArgValues[Fields[n]] \in {RwArgs, SensorIdArgs, RegArgs, ValueArgs, PeriodArgs}
    BY <1>2, FieldFacts, ArgFacts
  <2> QED
    BY <1>3, <2>1
<1>6. /\ line' \in Seq(UNION {RwArgs, SensorIdArgs, RegArgs, ValueArgs, PeriodArgs})
      /\ Len(line') = n /\ line'[n] = v
      /\ \A i \in 1 .. Len(line) : line'[i] = line[i]
  BY <1>3, <1>5 DEF SysregInv
<1>7. \A i \in 1 .. 5 : sysreg'[Fields[i]] = Meant(i)'
  <2> SUFFICES ASSUME NEW i \in 1 .. 5
               PROVE  sysreg'[Fields[i]] = Meant(i)'
    OBVIOUS
  <2>1. Fields[i] \in DOMAIN sysreg
    BY FieldFacts DEF SysregInv, Passable
  <2>2. CASE i = n
    BY <1>3, <1>6, <2>1, <2>2 DEF Meant
  <2>3. CASE i # n
    <3>1. Fields[i] # Fields[n]
      BY <1>2, <2>3, FieldFacts
    <3>2. sysreg'[Fields[i]] = Meant(i)
      BY <1>1, <1>3, <2>1, <3>1
    <3>3. Meant(i)' = Meant(i)
      BY <1>1, <1>3, <1>6, <2>3 DEF Meant
    <3> QED
      BY <3>2, <3>3
  <2> QED
    BY <2>2, <2>3
<1>8. /\ phase' \in {"IDLE", "PARSE_WRITE_ARGS", "WRITE_LOOP"}
      /\ answer' # "OK"
      /\ phase' # "IDLE" => answer' = "none"
      /\ phase' = "PARSE_WRITE_ARGS" => n < 5
  BY <1>2, <1>3, FieldFacts DEF AfterArg
<1> HIDE DEF n
<1>9. LineInv'
  BY <1>6, <1>7, <1>8 DEF LineInv
<1>10. OkInForce'
  BY <1>8 DEF OkInForce
<1> QED
  BY <1>4, <1>6, <1>8, <1>9, <1>10 DEF SysregInv

\* The call is one the reporter's specification allows, and a period that was
\* returned as it was given is in force unless it is the sentinel.
LEMMA WriteStep ==
  ASSUME SysregInv, ReporterTypeOK, cmd_sysreg_write
  PROVE  SysregInv' /\ Next
<1> DEFINE id == sysreg["sensor_id"] % IdMod
           reg == sysreg["reg"]
           p == sysreg["interval"]
<1>1. /\ phase = "WRITE_LOOP" /\ phase' = "IDLE"
      /\ value_reporter_set_report_period(id, reg, p)
      /\ answer' = IF SetResult(id, reg, p) = p THEN "OK" ELSE "ERROR"
      /\ UNCHANGED <<sysreg, line, kept>>
  BY DEF cmd_sysreg_write
<1>2. id \in SensorArgs /\ reg \in RegArgs /\ p \in PeriodArgs
  BY SysregAssumption DEF SysregInv, Passable
<1>3. Next
  BY <1>1, <1>2 DEF Next
<1>4. OkInForce'
  <2>1. /\ Meant(2) = sysreg["sensor_id"] /\ Meant(3) = reg /\ Meant(5) = p
        /\ Meant(2)' = Meant(2) /\ Meant(3)' = Meant(3) /\ Meant(5)' = Meant(5)
    BY <1>1, FieldFacts DEF SysregInv, LineInv, Meant
  <2> SUFFICES ASSUME answer' = "OK", p # PERIOD_NOT_VALIDE
               PROVE  /\ id < TotalSensors /\ IsRegister(reg)
                      /\ report_periods'[<<id, atm90e26_get_register_index(reg)>>] = p
    BY <2>1 DEF OkInForce, MeantSensor, MeantRegister, IsRegister,
                atm90e26_get_register_index
  <2>2. id < TotalSensors /\ IsRegister(reg)
    BY <1>1 DEF SetResult
  <2> DEFINE r == <<id, atm90e26_get_register_index(reg)>>
  <2>3. report_periods' = [report_periods EXCEPT ![r] = p]
    BY <1>1, <2>2 DEF value_reporter_set_report_period
  <2>4. r \in Registers
    <3>1. atm90e26_get_register_index(reg) \in RegIndex
      BY <2>2 DEF IsRegister, atm90e26_get_register_index
    <3>2. id \in 0 .. TotalSensors - 1
      <4> HIDE DEF id
      <4> QED
        BY <1>2, <2>2, ReporterAssumption
    <3> QED
      BY <3>1, <3>2 DEF Registers
  <2>5. report_periods'[r] = p
    BY <2>3, <2>4 DEF ReporterTypeOK
  <2> QED
    BY <2>2, <2>5
<1> QED
  BY <1>1, <1>3, <1>4 DEF SysregInv, LineInv

\* Nothing but the line, what was set before it and the periods matters here.
LEMMA QuietStep ==
  ASSUME SysregInv, UNCHANGED <<sysregVars, report_periods>>
  PROVE  SysregInv'
<1>1. \A i \in 1 .. 5 : Meant(i)' = Meant(i)
  BY DEF Meant, sysregVars
<1>2. MeantSensor' = MeantSensor /\ MeantRegister' = MeantRegister
  BY <1>1 DEF MeantSensor, MeantRegister, atm90e26_get_register_index
<1>3. OkInForce'
  BY <1>1, <1>2 DEF SysregInv, OkInForce, IsRegister, sysregVars
<1>4. LineInv'
  BY <1>1 DEF SysregInv, LineInv, sysregVars
<1> QED
  BY <1>3, <1>4 DEF SysregInv, sysregVars

\* Whatever the step, it is a step of the reporter or leaves it alone.
LEMMA SysregStep ==
  ASSUME SysregInv, ReporterTypeOK, [SysregNext]_<<vars, sysregVars>>
  PROVE  SysregInv' /\ [Next]_vars
<1>1. CASE LineStarts
  <2>1. /\ line' = <<>> /\ answer' = "none" /\ phase' = "PARSE_WRITE_ARGS"
        /\ kept' = sysreg /\ UNCHANGED <<sysreg, vars>>
    BY <1>1 DEF LineStarts
  <2>2. \A i \in 1 .. 5 : Meant(i)' = sysreg[Fields[i]]
    BY <2>1 DEF Meant
  <2> QED
    BY <2>1, <2>2 DEF SysregInv, LineInv, OkInForce
<1>2. CASE ArgStored
  BY <1>2, ArgStoredStep DEF ArgStored
<1>3. CASE ArgRefused
  <2>1. /\ phase' = "IDLE" /\ answer' = "ERROR" /\ UNCHANGED <<line, kept, vars>>
        /\ UNCHANGED sysreg \/ \E v \in RegArgs : sysreg' = [sysreg EXCEPT !["reg"] = v]
    BY <1>3 DEF ArgRefused
  <2>2. Passable(sysreg')
    BY <2>1 DEF SysregInv, Passable, FieldNames
  <2> QED
    BY <2>1, <2>2 DEF SysregInv, LineInv, OkInForce
<1>4. CASE cmd_sysreg_write
  BY <1>4, WriteStep
<1>5. CASE TimerThread
  <2>1. UNCHANGED sysregVars /\ report_periods' = report_periods
    BY <1>5 DEF TimerThread, value_reporter_start, value_reporter_timer_handler
  <2>2. Next
    BY <1>5 DEF TimerThread, Next
  <2> QED
    BY <2>1, <2>2, QuietStep
<1>6. CASE UNCHANGED <<vars, sysregVars>>
  BY <1>6, QuietStep DEF vars
<1> QED
  BY <1>1, <1>2, <1>3, <1>4, <1>5, <1>6 DEF SysregNext

LEMMA SysregInvariants ==
  SysregSpec => [](SysregInv /\ ReporterInv) /\ [][Next]_vars
<1>1. SysregInit => SysregInv /\ ReporterInv
  BY InitSysregInv, InitReporterInv DEF SysregInit
<1>2. SysregInv /\ ReporterInv /\ [SysregNext]_<<vars, sysregVars>> =>
        (SysregInv /\ ReporterInv)' /\ [Next]_vars
  BY SysregStep, NextReporterInv DEF ReporterInv
<1> QED
  BY <1>1, <1>2, PTL DEF SysregSpec

-----------------------------------------------------------------------------
\* The command changes the reporter's state by its own operations only.
LEMMA SysregImplementsReporter == SysregSpec => Spec
<1>1. SysregInit => Init
  BY DEF SysregInit
<1>2. SysregSpec => SysregInit
  BY DEF SysregSpec
<1> QED
  BY <1>1, <1>2, SysregInvariants DEF Spec

\* An OK means that the register the line stands for has the interval it stands for,
\* with the arguments it lacks taken from the lines before it.
THEOREM OkInForceHolds == SysregSpec => []OkInForce
<1>1. SysregInv /\ ReporterInv => OkInForce
  BY DEF SysregInv
<1> QED
  BY <1>1, SysregInvariants, PTL

\* With the command above it, the reporter still spaces its reports by the period.
THEOREM SysregReportsSpaced == SysregSpec => []ReportsSpaced
BY SysregImplementsReporter, ReportsSpacedHolds, PTL

\* A refused line leaves every period alone.
THEOREM ErrorKeepsPeriodsHolds == SysregSpec => ErrorKeepsPeriods
<1>1. [SysregNext]_<<vars, sysregVars>> =>
        [answer' = "ERROR" => UNCHANGED report_periods]_<<vars, sysregVars>>
  <2> SUFFICES ASSUME SysregNext, answer' = "ERROR"
               PROVE  UNCHANGED report_periods
    OBVIOUS
  <2>1. CASE LineStarts \/ ArgStored \/ ArgRefused
    BY <2>1 DEF LineStarts, ArgStored, ArgRefused, vars
  <2>2. CASE cmd_sysreg_write
    BY <2>2 DEF cmd_sysreg_write, SetResult, value_reporter_set_report_period
  <2>3. CASE TimerThread
    BY <2>3 DEF TimerThread, value_reporter_start, value_reporter_timer_handler
  <2> QED
    BY <2>1, <2>2, <2>3 DEF SysregNext
<1> QED
  BY <1>1, PTL DEF SysregSpec, ErrorKeepsPeriods

-----------------------------------------------------------------------------
(* Type correctness.                                                       *)

SysregType ==
  [rw : RwArgs \cup {0}, sensor_id : SensorIdArgs \cup {0}, reg : RegArgs,
   value : ValueArgs \cup {0}, interval : PeriodArgs]

Typed == sysreg \in SysregType /\ kept \in SysregType /\ answer \in {"none", "OK", "ERROR"}

\* An argument is stored in the variable of its field.
LEMMA StoreTyped ==
  ASSUME sysreg \in SysregType, NEW n \in 1 .. 5, NEW v \in ArgValues[Fields[n]]
  PROVE  [sysreg EXCEPT ![Fields[n]] = v] \in SysregType
<1>1. CASE n = 1
  BY <1>1, FieldFacts, ArgFacts DEF SysregType
<1>2. CASE n = 2
  BY <1>2, FieldFacts, ArgFacts DEF SysregType
<1>3. CASE n = 3
  BY <1>3, FieldFacts, ArgFacts DEF SysregType
<1>4. CASE n = 4
  BY <1>4, FieldFacts, ArgFacts DEF SysregType
<1>5. CASE n = 5
  BY <1>5, FieldFacts, ArgFacts DEF SysregType
<1> QED
  BY <1>1, <1>2, <1>3, <1>4, <1>5

LEMMA TypedStep ==
  ASSUME SysregInv, Typed, [SysregNext]_<<vars, sysregVars>>
  PROVE  Typed'
<1>1. CASE LineStarts
  BY <1>1 DEF LineStarts, Typed
<1>2. CASE ArgStored
  <2>1. Len(line) + 1 \in 1 .. 5
    BY <1>2 DEF ArgStored, SysregInv, LineInv
  <2>2. PICK v \in ArgValues[Fields[Len(line) + 1]], more \in BOOLEAN :
          /\ sysreg' = [sysreg EXCEPT ![Fields[Len(line) + 1]] = v]
          /\ answer' = AfterArg(Len(line) + 1, more).answer
          /\ kept' = kept
    BY <1>2 DEF ArgStored
  <2>3. sysreg' \in SysregType
    BY <2>1, <2>2, StoreTyped DEF Typed
  <2>4. answer' \in {"none", "ERROR"}
    BY <2>2 DEF AfterArg
  <2> QED
    BY <2>2, <2>3, <2>4 DEF Typed
<1>3. CASE ArgRefused
  <2>1. /\ answer' = "ERROR" /\ kept' = kept
        /\ UNCHANGED sysreg \/ \E v \in RegArgs : sysreg' = [sysreg EXCEPT !.reg = v]
    BY <1>3 DEF ArgRefused
  <2> QED
    BY <2>1 DEF Typed, SysregType
<1>4. CASE cmd_sysreg_write
  BY <1>4 DEF cmd_sysreg_write, Typed
<1>5. CASE UNCHANGED sysregVars
  BY <1>5 DEF sysregVars, Typed
<1> QED
  BY <1>1, <1>2, <1>3, <1>4, <1>5 DEF SysregNext, TimerThread

\* Each variable g_sysreg_* only ever holds a value of its own field, and the
\* parser asks for no argument after the last of the five.
THEOREM SysregTypeOKHolds == SysregSpec => []SysregTypeOK
<1>1. SysregInit => Typed
  BY SysregAssumption DEF SysregInit, Typed, SysregType
<1>2. SysregInv /\ Typed => SysregTypeOK
  BY FieldFacts DEF SysregInv, LineInv, Typed, SysregType, SysregTypeOK
<1>3. SysregInv /\ Typed /\ [SysregNext]_<<vars, sysregVars>> => Typed'
  BY TypedStep
<1> QED
  BY <1>1, <1>2, <1>3, SysregInvariants, PTL DEF SysregSpec
=============================================================================
