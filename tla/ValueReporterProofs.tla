------------------------- MODULE ValueReporterProofs ------------------------
(***************************************************************************)
(* Safety of the value reporter for any number of sensors and registers,   *)
(* any word size and any MAX_PERIOD.                                       *)
(*                                                                         *)
(* The distance between the tick counter and the last report, as the       *)
(* handler computes it, is never more than the age of the last report and, *)
(* while a register is enabled, never less than the time it has waited:    *)
(* it can wrap to zero only where it was TickMod - 1, and there an enabled *)
(* register is due.                                                        *)
(***************************************************************************)
EXTENDS ValueReporter, WellFoundedInduction, TLAPS

Elapsed(r) == TickDiff(current_tick, report_last_tick[r])

ReporterInv ==
  /\ ReporterTypeOK
  /\ ReportsSpaced
  /\ ReportsOwnLine
  /\ \A r \in Registers :
       /\ Elapsed(r) <= age[r]
       /\ report_periods[r] # 0 => waited[r] <= Elapsed(r)
       /\ report_periods[r] # 0 => waited[r] <= report_periods[r]

-----------------------------------------------------------------------------
\* A set of naturals that is not empty has a least element, and a greatest one if
\* it is bounded.
LEMMA LeastNatural ==
  ASSUME NEW T \in SUBSET Nat, T # {}
  PROVE  \E x \in T : \A y \in T : x <= y
<1> DEFINE R == OpToRel(<, Nat)
<1>1. IsWellFoundedOn(R, Nat)
  BY NatLessThanWellFounded
<1>2. \A x, y \in Nat : x < y => <<x, y>> \in R
  BY DEF OpToRel
<1> HIDE DEF R
<1>3. PICK x \in T : \A y \in T : ~ (<<y, x>> \in R)
  BY <1>1, WFMin
<1>4. ASSUME NEW y \in T
      PROVE  x <= y
  <2>1. x \in Nat /\ y \in Nat
    OBVIOUS
  <2>2. ~ (y < x)
    BY <1>2, <1>3, <2>1
  <2> QED
    BY <2>1, <2>2
<1> QED
  BY <1>4

LEMMA GreatestNatural ==
  ASSUME NEW K \in Nat, NEW T \in SUBSET (0 .. K), T # {}
  PROVE  \E x \in T : \A y \in T : y <= x
<1> DEFINE S == {K - y : y \in T}
<1>1. S \in SUBSET Nat /\ S # {}
  <2>1. \A y \in 0 .. K : K - y \in Nat
    OBVIOUS
  <2> QED
    BY <2>1
<1>2. PICK m \in S : \A z \in S : m <= z
  BY <1>1, LeastNatural
<1>3. PICK x \in T : m = K - x
  BY <1>2
<1>4. ASSUME NEW y \in T
      PROVE  y <= x
  BY <1>2, <1>3
<1> QED
  BY <1>4

\* The handler scans registers one after the other, so some register of a set is
\* scanned last.
LEMMA LastScanned ==
  ASSUME NEW F \in SUBSET Registers, F # {}
  PROVE  \E q \in F : \A p \in F : p = q \/ ScannedBefore(p, q)
<1> DEFINE sensors == {q[1] : q \in F}
<1>1. sensors \in SUBSET (0 .. TotalSensors) /\ sensors # {} /\ TotalSensors \in Nat
  BY ReporterAssumption DEF Registers
<1>2. PICK s \in sensors : \A t \in sensors : t <= s
  BY <1>1, GreatestNatural
<1> DEFINE indices == {q[2] : q \in {p \in F : p[1] = s}}
<1>3. indices \in SUBSET (0 .. Len(register_map)) /\ indices # {}
  BY <1>2, ReporterAssumption DEF Registers, RegIndex
<1>4. PICK i \in indices : \A j \in indices : j <= i
  BY <1>3, ReporterAssumption, GreatestNatural
<1>5. PICK q \in F : q[1] = s /\ q[2] = i
  BY <1>4
<1>6. ASSUME NEW p \in F
      PROVE  p = q \/ ScannedBefore(p, q)
  <2>1. /\ p \in Registers /\ q \in Registers
        /\ p = <<p[1], p[2]>> /\ q = <<q[1], q[2]>>
        /\ p[1] \in Nat /\ p[2] \in Nat /\ q[1] \in Nat /\ q[2] \in Nat
    BY ReporterAssumption DEF Registers, RegIndex
  <2>2. p[1] <= q[1]
    BY <1>2, <1>5
  <2>3. p[1] = q[1] => p[2] <= q[2]
    BY <1>4, <1>5
  <2> QED
    BY <2>1, <2>2, <2>3 DEF ScannedBefore
<1> QED
  BY <1>6

\* What is logged is a register's line or nothing.
LEMMA BufferType ==
  ASSUME NEW r \in Registers
  PROVE  report_buff(r) \in Registers \cup {NoLine}
<1> DEFINE filled == {q \in Due : MakesReport(q) /\ (q = r \/ ScannedBefore(q, r))}
<1>1. filled \in SUBSET Registers
  BY DEF Due
<1> HIDE DEF filled
<1>2. CASE filled = {}
  BY <1>2 DEF report_buff, filled
<1>3. CASE filled # {}
  <2>1. \E q \in filled : \A p \in filled : p = q \/ ScannedBefore(p, q)
    BY <1>1, <1>3, LastScanned
  <2>2. (CHOOSE q \in filled : \A p \in filled : p = q \/ ScannedBefore(p, q)) \in filled
    BY <2>1
  <2>3. report_buff(r) = CHOOSE q \in filled : \A p \in filled : p = q \/ ScannedBefore(p, q)
    BY <1>3 DEF report_buff, filled
  <2> QED
    BY <1>1, <2>2, <2>3
<1> QED
  BY <1>2, <1>3

\* A due register whose line fits the format finds its own line in the buffer.
LEMMA BufferOwn ==
  ASSUME NEW r \in Due, MakesReport(r)
  PROVE  report_buff(r) = r
<1> DEFINE filled == {q \in Due : MakesReport(q) /\ (q = r \/ ScannedBefore(q, r))}
           q0 == CHOOSE q \in filled : \A p \in filled : p = q \/ ScannedBefore(p, q)
<1>1. r \in filled /\ filled \in SUBSET Registers
  BY DEF Due
<1>2. \A p \in filled : p = r \/ ScannedBefore(p, r)
  OBVIOUS
<1>3. report_buff(r) = q0
  BY <1>1 DEF report_buff
<1> HIDE DEF filled
<1>4. q0 \in filled /\ \A p \in filled : p = q0 \/ ScannedBefore(p, q0)
  BY <1>1, <1>2
<1> HIDE DEF q0
<1>5. ~ (ScannedBefore(q0, r) /\ ScannedBefore(r, q0))
  BY <1>1, <1>4, ReporterAssumption DEF ScannedBefore, Registers, RegIndex
<1> QED
  BY <1>1, <1>2, <1>3, <1>4, <1>5

-----------------------------------------------------------------------------
\* The arithmetic of a word.
LEMMA TickFacts ==
  /\ \A t \in Tick : TickNext(t) \in Tick
  /\ \A a, b \in Tick : TickDiff(a, b) \in Tick
  /\ \A a, b \in Tick : TickDiff(a, b) < TickMod - 1 =>
                          TickDiff(TickNext(a), b) = TickDiff(a, b) + 1
  /\ \A a, b \in Tick : TickDiff(a, b) = TickMod - 1 => TickDiff(TickNext(a), b) = 0
  /\ \A a \in Tick : TickDiff(TickNext(a), a) <= 1
  /\ TickMod \in Nat \ {0} /\ 0 \in Tick /\ Tick \subseteq Nat
BY ReporterAssumption DEF Tick, TickNext, TickDiff

LEMMA InitReporterInv == Init => ReporterInv
<1> SUFFICES ASSUME Init
             PROVE  ReporterInv
  OBVIOUS
<1>1. ReporterTypeOK
  <2>1. 0 \in 0 .. TickMod
    BY TickFacts
  <2> QED
    BY <2>1, TickFacts DEF Init, ReporterTypeOK
<1>2. \A r \in Registers : Elapsed(r) = 0 /\ age[r] = 0 /\ report_periods[r] = 0
  BY TickFacts DEF Init, Elapsed, TickDiff
<1>3. logged = {}
  BY DEF Init
<1> QED
  BY <1>1, <1>2, <1>3 DEF ReporterInv, ReportsSpaced, ReportsOwnLine

-----------------------------------------------------------------------------
\* A new period restarts the wait and leaves the last report alone.
LEMMA SetPeriodStep ==
  ASSUME ReporterInv, NEW s \in SensorArgs, NEW reg \in RegArgs, NEW p \in PeriodArgs,
         value_reporter_set_report_period(s, reg, p)
  PROVE  ReporterInv'
<1> DEFINE r0 == <<s, atm90e26_get_register_index(reg)>>
<1> USE DEF ReporterInv
<1>1. p \in Tick /\ s \in Nat
  BY ReporterAssumption
<1>2. UNCHANGED <<timer_started, report_last_tick, current_tick, logged, age>>
  BY DEF value_reporter_set_report_period
<1>3. CASE s < TotalSensors /\ IsRegister(reg)
  <2>1. r0 \in Registers
    <3>1. atm90e26_get_register_index(reg) \in RegIndex
      BY <1>3 DEF IsRegister, atm90e26_get_register_index
    <3>2. s \in 0 .. TotalSensors - 1
      BY <1>1, <1>3, ReporterAssumption
    <3> QED
      BY <3>1, <3>2 DEF Registers
  <2>2. /\ report_periods' = [report_periods EXCEPT ![r0] = p]
        /\ waited' = [waited EXCEPT ![r0] = 0]
    BY <1>3 DEF value_reporter_set_report_period
  <2> HIDE DEF r0
  <2>3. ReporterTypeOK'
    BY <1>1, <1>2, <2>1, <2>2 DEF ReporterTypeOK
  <2>4. ReportsSpaced' /\ ReportsOwnLine'
    BY <1>2 DEF ReportsSpaced, ReportsOwnLine
  <2>5. ASSUME NEW r \in Registers
        PROVE  /\ (Elapsed(r) <= age[r])'
               /\ (report_periods[r] # 0 => waited[r] <= Elapsed(r))'
               /\ (report_periods[r] # 0 => waited[r] <= report_periods[r])'
    <3>1. Elapsed(r)' = Elapsed(r) /\ Elapsed(r) \in Tick
      BY <1>2, TickFacts DEF Elapsed, ReporterTypeOK
    <3>2. Elapsed(r) \in Nat /\ p \in Nat
      BY <1>1, <3>1, TickFacts
    <3>3. CASE r = r0
      <4>1. waited'[r] = 0 /\ report_periods'[r] = p
        BY <2>1, <2>2, <3>3 DEF ReporterTypeOK
      <4> QED
        BY <1>2, <3>1, <3>2, <4>1
    <3>4. CASE r # r0
      <4>1. waited'[r] = waited[r] /\ report_periods'[r] = report_periods[r]
        BY <2>1, <2>2, <3>4 DEF ReporterTypeOK
      <4> QED
        BY <1>2, <3>1, <4>1
    <3> QED
      BY <3>3, <3>4
  <2> QED
    BY <2>3, <2>4, <2>5
<1>4. CASE ~ (s < TotalSensors /\ IsRegister(reg))
  <2>1. UNCHANGED vars
    BY <1>2, <1>4 DEF value_reporter_set_report_period, vars
  <2> QED
    BY <2>1 DEF vars, ReporterTypeOK, ReportsSpaced, ReportsOwnLine, Elapsed
<1> QED
  BY <1>3, <1>4

-----------------------------------------------------------------------------
\* One call of the handler, seen by one register.
LEMMA HandlerRegister ==
  ASSUME ReporterInv, value_reporter_timer_handler, NEW r \in Registers
  PROVE  /\ (Elapsed(r) <= age[r])'
         /\ (report_periods[r] # 0 => waited[r] <= Elapsed(r))'
         /\ (report_periods[r] # 0 => waited[r] <= report_periods[r])'
<1> DEFINE e == Elapsed(r)
<1>1. /\ current_tick \in Tick /\ report_last_tick[r] \in Tick
      /\ report_periods[r] \in Tick /\ age[r] \in 0 .. TickMod /\ waited[r] \in Nat
      /\ e \in Tick
  BY TickFacts DEF ReporterInv, ReporterTypeOK, Elapsed
<1>2. /\ report_periods' = report_periods
      /\ current_tick' = TickNext(current_tick)
      /\ report_last_tick'[r] = IF r \in Due THEN current_tick ELSE report_last_tick[r]
      /\ age'[r] = IF r \in Due THEN 1
                   ELSE IF age[r] = TickMod THEN TickMod ELSE age[r] + 1
      /\ waited'[r] = IF r \in Due \/ report_periods[r] = 0 THEN 0
                      ELSE IF waited[r] = TickMod THEN TickMod ELSE waited[r] + 1
  BY DEF value_reporter_timer_handler
<1>3. Elapsed(r)' = TickDiff(TickNext(current_tick), report_last_tick'[r])
  BY <1>2 DEF Elapsed
<1>4. r \in Due <=> report_periods[r] # 0 /\ e >= report_periods[r]
  BY DEF Due, value_reporter_check_reg_need_report, Elapsed
<1>5. e <= age[r] /\ (report_periods[r] # 0 => waited[r] <= e)
  BY DEF ReporterInv
<1>6. CASE r \in Due
  <2>1. Elapsed(r)' = TickDiff(TickNext(current_tick), current_tick)
    BY <1>2, <1>3, <1>6
  <2>2. TickNext(current_tick) \in Tick
    BY <1>1, TickFacts
  <2>3. Elapsed(r)' \in Tick /\ Elapsed(r)' <= 1
    <3>1. TickDiff(TickNext(current_tick), current_tick) \in Tick
      BY <1>1, <2>2, TickFacts
    <3>2. TickDiff(TickNext(current_tick), current_tick) <= 1
      BY <1>1, TickFacts
    <3> QED
      BY <2>1, <3>1, <3>2
  <2>4. Elapsed(r)' \in Nat /\ report_periods[r] \in Nat
    BY <1>1, <2>3, TickFacts
  <2> QED
    BY <1>2, <1>6, <2>3, <2>4
<1>7. CASE r \notin Due
  <2>1. Elapsed(r)' = TickDiff(TickNext(current_tick), report_last_tick[r])
    BY <1>2, <1>3, <1>7
  <2>2. e < TickMod - 1 => Elapsed(r)' = e + 1
    BY <1>1, <2>1, TickFacts DEF Elapsed
  <2>3. e = TickMod - 1 => Elapsed(r)' = 0
    BY <1>1, <2>1, TickFacts DEF Elapsed
  <2>4. e \in 0 .. TickMod - 1 /\ report_periods[r] \in 0 .. TickMod - 1 /\ TickMod \in Nat
    BY <1>1, TickFacts DEF Tick
  <2> HIDE DEF e
  <2>5. (Elapsed(r) <= age[r])'
    BY <1>1, <1>2, <1>5, <1>7, <2>2, <2>3, <2>4
  <2>6. CASE report_periods[r] = 0
    BY <1>2, <2>5, <2>6
  <2>7. CASE report_periods[r] # 0
    <3>1. e < report_periods[r]
      BY <1>4, <1>7, <2>4, <2>7
    <3>2. waited'[r] = waited[r] + 1 /\ Elapsed(r)' = e + 1
      BY <1>1, <1>2, <1>5, <1>7, <2>2, <2>4, <2>7, <3>1
    <3> QED
      BY <1>1, <1>2, <1>5, <2>4, <2>5, <2>7, <3>1, <3>2
  <2> QED
    BY <2>6, <2>7
<1> QED
  BY <1>6, <1>7

LEMMA HandlerStep ==
  ASSUME ReporterInv, value_reporter_timer_handler
  PROVE  ReporterInv'
<1>1. ASSUME NEW r \in Due
      PROVE  /\ r \in Registers /\ age[r] \in 0 .. TickMod /\ report_periods[r] \in Tick
             /\ age[r] >= report_periods[r]
             /\ report_buff(r) \in Registers \cup {NoLine}
             /\ report_periods[r] <= MaxPeriod => report_buff(r) = r
  <2>1. r \in Registers /\ Elapsed(r) >= report_periods[r]
    BY DEF Due, value_reporter_check_reg_need_report, Elapsed
  <2>2. /\ age[r] \in 0 .. TickMod /\ report_periods[r] \in Tick
        /\ current_tick \in Tick /\ report_last_tick[r] \in Tick
    BY <2>1 DEF ReporterInv, ReporterTypeOK
  <2>3. Elapsed(r) \in Nat /\ report_periods[r] \in Nat /\ age[r] \in Nat
    <3>1. Elapsed(r) \in Tick
      BY <2>2, TickFacts DEF Elapsed
    <3>2. \A n \in 0 .. TickMod : n \in Nat
      BY ReporterAssumption
    <3>3. \A n \in Tick : n \in Nat
      BY DEF Tick
    <3> QED
      BY <2>2, <3>1, <3>2, <3>3
  <2>4. Elapsed(r) <= age[r]
    BY <2>1 DEF ReporterInv
  <2> QED
    BY <2>1, <2>2, <2>3, <2>4, BufferType, BufferOwn DEF MakesReport
<1>2. logged' = {[reg |-> r, line |-> report_buff(r), period |-> report_periods[r],
                  age |-> age[r]] : r \in Due}
  BY DEF value_reporter_timer_handler
<1>3. logged' \subseteq LoggedLine
  BY <1>1, <1>2 DEF LoggedLine
<1>4. ReportsSpaced' /\ ReportsOwnLine'
  BY <1>1, <1>2 DEF ReportsSpaced, ReportsOwnLine
<1>5. ReporterTypeOK'
  <2>1. /\ timer_started' \in BOOLEAN /\ report_periods' \in [Registers -> Tick]
        /\ current_tick' \in Tick
    BY TickFacts DEF ReporterInv, ReporterTypeOK, value_reporter_timer_handler
  <2>2. report_last_tick' \in [Registers -> Tick]
    BY DEF ReporterInv, ReporterTypeOK, value_reporter_timer_handler
  <2>3. age' \in [Registers -> 0 .. TickMod]
    <3>1. \A r \in Registers : age[r] \in 0 .. TickMod
      BY DEF ReporterInv, ReporterTypeOK
    <3>2. 1 \in 0 .. TickMod /\ TickMod \in 0 .. TickMod
      BY ReporterAssumption
    <3>3. \A a \in 0 .. TickMod : a # TickMod => a + 1 \in 0 .. TickMod
      BY ReporterAssumption
    <3> QED
      BY <3>1, <3>2, <3>3 DEF value_reporter_timer_handler
  <2>4. waited' \in [Registers -> Nat]
    BY ReporterAssumption DEF ReporterInv, ReporterTypeOK, value_reporter_timer_handler
  <2> QED
    BY <1>3, <2>1, <2>2, <2>3, <2>4 DEF ReporterTypeOK
<1> QED
  BY <1>4, <1>5, HandlerRegister DEF ReporterInv

LEMMA NextReporterInv == ReporterInv /\ [Next]_vars => ReporterInv'
<1> SUFFICES ASSUME ReporterInv, [Next]_vars
             PROVE  ReporterInv'
  OBVIOUS
<1>1. CASE value_reporter_start
  <2>1. timer_started' \in BOOLEAN
        /\ UNCHANGED <<report_periods, report_last_tick, current_tick, logged, age, waited>>
    BY <1>1 DEF value_reporter_start
  <2> QED
    BY <2>1 DEF ReporterInv, ReporterTypeOK, ReportsSpaced, ReportsOwnLine, Elapsed
<1>2. CASE \E s \in SensorArgs, reg \in RegArgs, p \in PeriodArgs :
             value_reporter_set_report_period(s, reg, p)
  BY <1>2, SetPeriodStep
<1>3. CASE value_reporter_timer_handler
  BY <1>3, HandlerStep
<1>4. CASE UNCHANGED vars
  BY <1>4 DEF ReporterInv, vars, ReporterTypeOK, ReportsSpaced, ReportsOwnLine, Elapsed
<1> QED
  BY <1>1, <1>2, <1>3, <1>4 DEF Next

-----------------------------------------------------------------------------
\* Periods and ticks stay within a word, and what is logged is a line of a register.
THEOREM ReporterTypeCorrect == Spec => []ReporterTypeOK
<1>1. ReporterInv => ReporterTypeOK
  BY DEF ReporterInv
<1> QED
  BY <1>1, InitReporterInv, NextReporterInv, PTL DEF Spec

\* No register is reported sooner than its period after its last report, for any word
\* size: neither a wrap of the counter nor a change of the period brings one forward.
THEOREM ReportsSpacedHolds == Spec => []ReportsSpaced
<1>1. ReporterInv => ReportsSpaced
  BY DEF ReporterInv
<1> QED
  BY <1>1, InitReporterInv, NextReporterInv, PTL DEF Spec

\* No enabled register waits longer than its period for a report.
THEOREM ReportsPromptHolds == Spec => []ReportsPrompt
<1>1. ReporterInv => ReportsPrompt
  BY DEF ReporterInv, ReportsPrompt
<1> QED
  BY <1>1, InitReporterInv, NextReporterInv, PTL DEF Spec

\* With a period the format has room for, a register's report is its own line,
\* although one buffer serves all the lines of a call.
THEOREM ReportsOwnLineHolds == Spec => []ReportsOwnLine
<1>1. ReporterInv => ReportsOwnLine
  BY DEF ReporterInv
<1> QED
  BY <1>1, InitReporterInv, NextReporterInv, PTL DEF Spec
=============================================================================
