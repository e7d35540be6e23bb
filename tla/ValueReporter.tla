---------------------------- MODULE ValueReporter ---------------------------
(***************************************************************************)
(* The value reporter of src/value_reporter.c.  Once a second a kernel     *)
(* timer calls value_reporter_timer_handler, which logs a line for every   *)
(* register whose period has elapsed; the thread of the AT parser changes  *)
(* periods with value_reporter_set_report_period.  The handler runs in the *)
(* timer interrupt, so a thread never sees it half done.                   *)
(*                                                                         *)
(* Ticks and periods are 32-bit words: TickMod stands for 2^32 and every   *)
(* operation on them wraps.  The handler formats all its lines into one    *)
(* buffer, which is clear when it starts; make_report refuses a period     *)
(* over MAX_PERIOD, and the handler logs the buffer all the same, so what  *)
(* it logs is a register whose line the buffer holds, or NoLine.           *)
(***************************************************************************)
EXTENDS Naturals, Sequences

CONSTANTS
  TotalSensors,   \* TOTAL_SENSOR_ID
  register_map,   \* the register addresses, in the order of their indices
  MaxPeriod,      \* MAX_PERIOD
  TickMod,        \* 2^32
  NoLine,         \* what an empty buffer logs
  SensorArgs,     \* bound: sensor ids callers pass
  RegArgs,        \* bound: register addresses callers pass
  PeriodArgs      \* bound: periods callers pass

RegIndex == 0 .. Len(register_map) - 1
Registers == (0 .. TotalSensors - 1) \X RegIndex
Tick == 0 .. TickMod - 1

PERIOD_NOT_VALIDE == TickMod - 1

ASSUME ReporterAssumption ==
  /\ TotalSensors \in Nat
  /\ Len(register_map) \in Nat
  /\ \A i, j \in DOMAIN register_map : register_map[i] = register_map[j] => i = j
  /\ TickMod \in Nat \ {0}
  /\ MaxPeriod \in Nat
  /\ NoLine \notin Registers
  /\ SensorArgs \subseteq Nat
  /\ PeriodArgs \subseteq Tick

VARIABLES
  timer_started,      \* value_reporter_start has run
  report_periods,
  report_last_tick,
  current_tick,
  logged,             \* the lines of the last call of the handler
  age,                \* history: calls of the handler since the last report
  waited              \* history: calls that could have reported and did not
                      \* (both counters stop at TickMod)

vars == <<timer_started, report_periods, report_last_tick, current_tick, logged,
          age, waited>>

Init ==
  /\ timer_started = FALSE
  /\ report_periods = [r \in Registers |-> 0]
  /\ report_last_tick = [r \in Registers |-> 0]
  /\ current_tick = 0
  /\ logged = {}
  /\ age = [r \in Registers |-> 0]
  /\ waited = [r \in Registers |-> 0]

-----------------------------------------------------------------------------
value_reporter_start ==
  /\ ~timer_started
  /\ timer_started' = TRUE
  /\ UNCHANGED <<report_periods, report_last_tick, current_tick, logged, age, waited>>

IsRegister(reg) == \E i \in RegIndex : register_map[i + 1] = reg

atm90e26_get_register_index(reg) == CHOOSE i \in RegIndex : register_map[i + 1] = reg

\* Mutant: a limit on the period is applied to the result, after the store.
SetResult_LateLimit(sensorId, reg, period) ==
  IF sensorId < TotalSensors /\ IsRegister(reg) /\ period <= MaxPeriod
  THEN period ELSE PERIOD_NOT_VALIDE

\* What the call returns; the check of the id and of the address come before the store.
SetResult(sensorId, reg, period) ==
  IF sensorId < TotalSensors /\ IsRegister(reg) THEN period ELSE PERIOD_NOT_VALIDE

\* The last tick is kept: the new period counts from the last report.
value_reporter_set_report_period(sensorId, reg, period) ==
  LET r == <<sensorId, atm90e26_get_register_index(reg)>>
  IN  /\ IF sensorId < TotalSensors /\ IsRegister(reg)
         THEN /\ report_periods' = [report_periods EXCEPT ![r] = period]
              /\ waited' = [waited EXCEPT ![r] = 0]
         ELSE UNCHANGED <<report_periods, waited>>
      /\ UNCHANGED <<timer_started, report_last_tick, current_tick, logged, age>>

-----------------------------------------------------------------------------
\* Unsigned 32-bit subtraction and increment.
TickDiff(a, b) == IF a >= b THEN a - b ELSE (a + TickMod) - b

\* Mutant: the counter is wider than the ticks it is stored in.
TickNext_Wide(t) == t + 1
TickNext(t) == IF t = TickMod - 1 THEN 0 ELSE t + 1

\* Mutants: the comparison is made with the tick at which the report falls due, in a
\* wider word or wrapped.
NeedReport_DueTick(r) ==
  /\ report_periods[r] # 0
  /\ current_tick >= report_last_tick[r] + report_periods[r]
NeedReport_DueTickWrapped(r) ==
  /\ report_periods[r] # 0
  /\ current_tick >= (report_last_tick[r] + report_periods[r]) % TickMod

value_reporter_check_reg_need_report(r) ==
  /\ report_periods[r] # 0
  /\ TickDiff(current_tick, report_last_tick[r]) >= report_periods[r]

Due == {r \in Registers : value_reporter_check_reg_need_report(r)}

\* The order of the handler's two loops.
ScannedBefore(q, r) == q[1] < r[1] \/ (q[1] = r[1] /\ q[2] < r[2])

\* Mutant: the largest period is taken for one that is too large.
MakesReport_Strict(r) == report_periods[r] < MaxPeriod

MakesReport(r) == report_periods[r] <= MaxPeriod

\* The register whose line is in the buffer when the one of r is logged.
report_buff(r) ==
  LET filled == {q \in Due : MakesReport(q) /\ (q = r \/ ScannedBefore(q, r))}
  IN  IF filled = {} THEN NoLine
      ELSE CHOOSE q \in filled : \A p \in filled : p = q \/ ScannedBefore(p, q)

value_reporter_timer_handler ==
  /\ timer_started
  /\ logged' = {[reg |-> r, line |-> report_buff(r), period |-> report_periods[r],
                 age |-> age[r]] : r \in Due}
  /\ report_last_tick' = [r \in Registers |->
                            IF r \in Due THEN current_tick ELSE report_last_tick[r]]
  /\ current_tick' = TickNext(current_tick)
  /\ age' = [r \in Registers |-> IF r \in Due THEN 1
                                 ELSE IF age[r] = TickMod THEN TickMod ELSE age[r] + 1]
  /\ waited' = [r \in Registers |-> IF r \in Due \/ report_periods[r] = 0 THEN 0
                                    ELSE IF waited[r] = TickMod THEN TickMod
                                    ELSE waited[r] + 1]
  /\ UNCHANGED <<timer_started, report_periods>>

Next ==
  \/ value_reporter_start
  \/ \E s \in SensorArgs, reg \in RegArgs, p \in PeriodArgs :
       value_reporter_set_report_period(s, reg, p)
  \/ value_reporter_timer_handler

Spec == Init /\ [][Next]_vars

-----------------------------------------------------------------------------
LoggedLine == [reg : Registers, line : Registers \cup {NoLine}, period : Tick,
               age : 0 .. TickMod]

\* Types of the reporter's state; periods and ticks stay within a word.
ReporterTypeOK ==
  /\ timer_started \in BOOLEAN
  /\ report_periods \in [Registers -> Tick]
  /\ report_last_tick \in [Registers -> Tick]
  /\ current_tick \in Tick
  /\ logged \subseteq LoggedLine
  /\ age \in [Registers -> 0 .. TickMod]
  /\ waited \in [Registers -> Nat]

\* A register is never reported sooner than its period after its last report, even
\* when the tick counter wrapped in between or the period was changed.  (Before its
\* first report the time counts from the first call of the handler.)
ReportsSpaced == \A l \in logged : l.age >= l.period

\* An enabled register does not wait longer than its period, counted in calls of the
\* handler from its last report or from the moment the period was set, across a wrap
\* of the counter and however long it had been disabled.
ReportsPrompt ==
  \A r \in Registers : report_periods[r] # 0 => waited[r] <= report_periods[r]

\* A report with a period the format has room for logs the line of its own register,
\* whatever else was due in the same call.
ReportsOwnLine == \A l \in logged : l.period <= MaxPeriod => l.line = l.reg
=============================================================================
