-------------------------- MODULE CatControlProofs --------------------------
(***************************************************************************)
(* What the steps of CatParser do to the control of the two machines: the  *)
(* state, the state after a flush, the command and its type.  Everything   *)
(* else of a record is forgotten, which leaves a graph small enough to     *)
(* split into cases; the theorems on enabled commands, on the events and   *)
(* on the line protocol are proved on that graph.                          *)
(***************************************************************************)
EXTENDS CatParserProofs

ReadStates == {"FORMAT_READ_ARGS", "READ_LOOP", "AFTER_FLUSH_FORMAT_READ_ARGS"}
TestStates == {"FORMAT_TEST_ARGS", "TEST_LOOP", "AFTER_FLUSH_FORMAT_TEST_ARGS"}

Kept(r, s) == s.cmd = r.cmd /\ s.cmd_type = r.cmd_type

\* The command stays, the state is one of S.
Goes(r, s, S) == Kept(r, s) /\ s.state \in S

\* The same, perhaps after a line of output.
Responds(r, s, S) ==
  Kept(r, s) /\ s.state # "FLUSH_IO_WRITE" /\ Pending(s) \in S

\* A result is on its way.
Acked(r, s) ==
  /\ Kept(r, s)
  /\ s.state = "FLUSH_IO_WRITE_WAIT" /\ s.write_state_after = "AFTER_FLUSH_RESET"

Reset(s) == s.state = "IDLE" /\ s.cmd = NoCmd /\ s.cmd_type = "NONE"

Ended(f, r, s) == IF f = AT THEN Acked(r, s) ELSE Reset(s)

ReadMove(f, r, s) == Ended(f, r, s) \/ Responds(r, s, ReadStates \cup {"AFTER_FLUSH_OK"})
TestMove(f, r, s) == Ended(f, r, s) \/ Responds(r, s, TestStates \cup {"AFTER_FLUSH_OK"})

\* The listing of the commands starts.
Lists(r, s) == s.cmd = r.cmd /\ s.state = "PRINT_CMD"

\* The output line is taken when the other machine does not write.
TakesLine(f, r, s) ==
  /\ fsm[Other(f)].state # "FLUSH_IO_WRITE"
  /\ Goes(r, s, {"FLUSH_IO_WRITE"}) /\ s.write_state_after = r.write_state_after

Writes(r, s) ==
  /\ Kept(r, s)
  /\ \/ s.state = "FLUSH_IO_WRITE" /\ s.write_state_after = r.write_state_after
     \/ s.state = r.write_state_after

\* A step of a handler the machines share, hold requests aside.
SharedMove(f, r, s) ==
  \/ r.state \in ReadStates /\ ReadMove(f, r, s)
  \/ r.state \in TestStates /\ (TestMove(f, r, s) \/ (f = AT /\ Lists(r, s)))
  \/ r.state = "AFTER_FLUSH_OK" /\ Ended(f, r, s)
  \/ r.state = "AFTER_FLUSH_RESET" /\ Reset(s)
  \/ r.state = "FLUSH_IO_WRITE_WAIT" /\ (s = r \/ TakesLine(f, r, s))
  \/ r.state = "FLUSH_IO_WRITE" /\ Writes(r, s)

\* A handler asks for hold: of the two machines only the command machine moves.
HoldMove(f) ==
  /\ fsm[f].state \in {"RUN_LOOP", "WRITE_LOOP", "READ_LOOP", "TEST_LOOP"}
  /\ fsm'[AT].state = "HOLD"
  /\ fsm'[UN].state = fsm[UN].state /\ Kept(fsm[UN], fsm'[UN])

-----------------------------------------------------------------------------
(* The functions on one machine's record.                                  *)

\* A started output line leads to the state given.
LEMMA FlushMoves ==
  ASSUME NEW r \in FsmRec, NEW after
  PROVE  /\ Kept(r, start_flush_io_buffer(r, after))
         /\ start_flush_io_buffer(r, after).state = "FLUSH_IO_WRITE_WAIT"
         /\ start_flush_io_buffer(r, after).write_state_after = after
         /\ Pending(start_flush_io_buffer(r, after)) = after
<1> DEFINE s == start_flush_io_buffer(r, after)
<1>1. Kept(r, s) /\ s.state = "FLUSH_IO_WRITE_WAIT" /\ s.write_state_after = after
  BY DEF start_flush_io_buffer, FsmRec, Kept
<1> HIDE DEF s
<1>2. Pending(s) = after
  BY <1>1 DEF Pending, Flushing
<1> QED
  BY <1>1, <1>2 DEF s

LEMMA AckMoves ==
  ASSUME NEW r \in FsmRec
  PROVE  Acked(r, ack_ok(r)) /\ Acked(r, ack_error(r))
<1>1. ASSUME NEW n \in {2, 5}
      PROVE  Acked(r, Acknowledge(r, n))
  <2> DEFINE s == [r EXCEPT !.buf = Text(n)]
  <2>1. Text(n) \in Buffer
    BY DEF Text, Buffer
  <2>2. s \in FsmRec /\ s.cmd = r.cmd /\ s.cmd_type = r.cmd_type
    BY <2>1 DEF FsmRec
  <2>3. Acknowledge(r, n) = start_flush_io_buffer(s, "AFTER_FLUSH_RESET")
    BY BufSizeFacts DEF Acknowledge
  <2> HIDE DEF s
  <2> QED
    BY <2>2, <2>3, FlushMoves DEF Acked, Kept
<1> QED
  BY <1>1 DEF ack_ok, ack_error

LEMMA EndMoves ==
  ASSUME NEW f \in Fsm, NEW r \in FsmRec
  PROVE  /\ Ended(f, r, end_processing_with_ok(f, r))
         /\ Ended(f, r, end_processing_with_error(f, r))
<1>1. Reset(unsolicited_reset_state(r))
  BY DEF Reset, unsolicited_reset_state, FsmRec
<1> QED
  BY <1>1, AckMoves DEF Ended, end_processing_with_ok, end_processing_with_error

\* An end of processing depends on the command only.
LEMMA EndedFrom ==
  ASSUME NEW f, NEW r, NEW p, NEW s, Kept(r, p), Ended(f, p, s)
  PROVE  Ended(f, r, s)
BY DEF Ended, Acked, Kept

LEMMA ReadStartMoves ==
  ASSUME NEW f \in Fsm, NEW r0 \in FsmRec, r0.cmd \in CmdIds
  PROVE  ReadMove(f, r0, start_processing_format_read_args(f, r0))
<1> DEFINE r == [r0 EXCEPT !.position = 0]
           n == Len(Command_of(r).name) + 1
           p == Printed(r, n)
<1>1. r \in FsmRec /\ r.cmd = r0.cmd /\ Kept(r0, r)
  BY DEF FsmRec, Kept
<1>2. n \in Nat
  BY <1>1, TableFacts DEF Command_of
<1> HIDE DEF r, n
<1>3. CASE ~PrintFits(f, r, n)
  BY <1>1, <1>3, EndMoves, EndedFrom DEF start_processing_format_read_args, r, n, ReadMove
<1>4. CASE PrintFits(f, r, n)
  <2>1. p \in FsmRec /\ Kept(r0, p)
    BY <1>1, <1>2, <1>4, PrintOK DEF Kept
  <2>2. start_processing_format_read_args(f, r0) \in
          {[p EXCEPT !.state = "FORMAT_READ_ARGS", !.index = 0],
           end_processing_with_error(f, p), [p EXCEPT !.state = "READ_LOOP"]}
    BY <1>4 DEF start_processing_format_read_args, r, n
  <2> HIDE DEF p
  <2>3. Ended(f, r0, end_processing_with_error(f, p))
    BY <2>1, EndMoves, EndedFrom
  <2>4. ASSUME NEW s \in {[p EXCEPT !.state = "FORMAT_READ_ARGS", !.index = 0],
                          [p EXCEPT !.state = "READ_LOOP"]}
        PROVE  Responds(r0, s, ReadStates \cup {"AFTER_FLUSH_OK"})
    <3>1. Kept(r0, s) /\ s.state \in {"FORMAT_READ_ARGS", "READ_LOOP"}
      BY <2>1 DEF FsmRec, Kept
    <3> QED
      BY <3>1 DEF Responds, Pending, Flushing, ReadStates
  <2> QED
    BY <2>2, <2>3, <2>4 DEF ReadMove
<1> QED
  BY <1>3, <1>4

LEMMA ResponseTestMoves ==
  ASSUME NEW f \in Fsm, NEW r \in FsmRec, r.cmd \in CmdIds
  PROVE  TestMove(f, r, print_response_test(f, r))
<1> DEFINE c == Command_of(r)
           n == IF c.descr > 0 THEN 2 + c.descr ELSE 0
           p == IF n > 0 THEN Printed(r, n) ELSE r
<1>1. n \in Nat
  BY TableFacts DEF Command_of
<1> HIDE DEF n
<1>2. CASE n > 0 /\ ~PrintFits(f, r, n)
  BY <1>2, EndMoves DEF print_response_test, n, TestMove
<1>3. CASE ~(n > 0 /\ ~PrintFits(f, r, n))
  <2>1. p \in FsmRec /\ Kept(r, p)
    BY <1>1, <1>3, PrintOK DEF Kept
  <2>2. print_response_test(f, r) \in
          {[p EXCEPT !.state = "TEST_LOOP"], start_flush_io_buffer(p, "AFTER_FLUSH_OK")}
    BY <1>3 DEF print_response_test, n
  <2> HIDE DEF p
  <2>3. Responds(r, start_flush_io_buffer(p, "AFTER_FLUSH_OK"),
                 TestStates \cup {"AFTER_FLUSH_OK"})
    BY <2>1, FlushMoves DEF Responds, Kept
  <2>4. [p EXCEPT !.state = "TEST_LOOP"].state = "TEST_LOOP"
        /\ Kept(r, [p EXCEPT !.state = "TEST_LOOP"])
    BY <2>1 DEF FsmRec, Kept
  <2>5. Responds(r, [p EXCEPT !.state = "TEST_LOOP"], TestStates \cup {"AFTER_FLUSH_OK"})
    BY <2>4 DEF Responds, Pending, Flushing, TestStates
  <2> QED
    BY <2>2, <2>3, <2>5 DEF TestMove
<1> QED
  BY <1>2, <1>3

LEMMA TestStartMoves ==
  ASSUME NEW f \in Fsm, NEW r0 \in FsmRec, r0.cmd \in CmdIds
  PROVE  TestMove(f, r0, start_processing_format_test_args(f, r0))
<1> DEFINE r == [r0 EXCEPT !.position = 0]
           n == Len(Command_of(r).name) + 1
           p == Printed(r, n)
<1>1. r \in FsmRec /\ r.cmd = r0.cmd /\ Kept(r0, r)
  BY DEF FsmRec, Kept
<1>2. n \in Nat
  BY <1>1, TableFacts DEF Command_of
<1> HIDE DEF r, n
<1>3. CASE ~PrintFits(f, r, n)
  BY <1>1, <1>3, EndMoves, EndedFrom DEF start_processing_format_test_args, r, n, TestMove
<1>4. CASE PrintFits(f, r, n)
  <2>1. p \in FsmRec /\ Kept(r0, p) /\ p.cmd = r0.cmd
    BY <1>1, <1>2, <1>4, PrintOK DEF Kept
  <2>2. start_processing_format_test_args(f, r0) \in
          {[p EXCEPT !.state = "FORMAT_TEST_ARGS", !.index = 0], print_response_test(f, p)}
    BY <1>4 DEF start_processing_format_test_args, r, n
  <2> HIDE DEF p
  <2>3. TestMove(f, r0, print_response_test(f, p))
    BY <2>1, ResponseTestMoves, EndedFrom DEF TestMove, Responds, Kept
  <2> DEFINE s == [p EXCEPT !.state = "FORMAT_TEST_ARGS", !.index = 0]
  <2>4. Kept(r0, s) /\ s.state = "FORMAT_TEST_ARGS"
    BY <2>1 DEF FsmRec, Kept
  <2> HIDE DEF s
  <2>5. Responds(r0, s, TestStates \cup {"AFTER_FLUSH_OK"})
    BY <2>4 DEF Responds, Pending, Flushing, TestStates
  <2> QED
    BY <2>2, <2>3, <2>5 DEF TestMove, s
<1> QED
  BY <1>3, <1>4

\* The next variable is formatted in the same state.
LEMMA NextVarMoves ==
  ASSUME NEW f \in Fsm, NEW r \in FsmRec, NEW done,
         r.state \in {"FORMAT_READ_ARGS", "FORMAT_TEST_ARGS"},
         NEW s, s = next_format_var_by_fsm(f, r, done)
  PROVE  s = done \/ Ended(f, r, s) \/ Responds(r, s, {r.state})
<1> DEFINE q == [r EXCEPT !.position = r.position + 1, !.buf = Text(BufSize[f])]
<1>1. Kept(r, q) /\ q.state = r.state
  BY DEF FsmRec, Kept
<1>2. s \in {done, end_processing_with_error(f, r), q}
  BY DEF next_format_var_by_fsm
<1> HIDE DEF q
<1>3. Responds(r, q, {r.state})
  BY <1>1 DEF Responds, Pending, Flushing
<1> QED
  BY <1>2, <1>3, EndMoves

-----------------------------------------------------------------------------
(* The handlers the machines share.                                        *)

\* What one of them does to the machines.
SharedStepMoves(f) ==
  \/ \E s : Becomes(f, s) /\ SharedMove(f, fsm[f], s)
  \/ HoldMove(f)

LEMMA FormatReadArgsMoves ==
  ASSUME HandlersInv, NEW f \in Fsm, format_read_args(f)
  PROVE  SharedStepMoves(f)
<1> DEFINE r == fsm[f]
           q(n) == [Printed(r, n) EXCEPT !.index = r.index + 1]
           next(n) == next_format_var_by_fsm(f, q(n), ArgsFormatted(f, q(n)))
<1>1. r \in FsmRec /\ r.state = "FORMAT_READ_ARGS" /\ r.cmd \in CmdIds
      /\ r.index < Len(Command_of(r).vars)
  BY MachineFacts DEF format_read_args, MachineOK, Dereferences, Pending, Flushing,
     NeedsCommand
<1>2. ASSUME NEW n \in Var_of(r).widths, PrintFits(f, r, n)
      PROVE  ReadMove(f, r, next(n))
  <2>1. n \in Nat
    BY <1>1, VariableFacts
  <2>2. q(n) \in FsmRec /\ q(n).cmd = r.cmd /\ q(n).state = "FORMAT_READ_ARGS"
        /\ Terminated(f, q(n))
    BY <1>1, <1>2, <2>1, PrintedVarOK
  <2>3. Kept(r, q(n))
    BY <1>1, <1>2, <2>1, PrintOK DEF FsmRec, Kept
  <2> HIDE DEF q, r
  <2> DEFINE done == ArgsFormatted(f, q(n))
             loop == [q(n) EXCEPT !.state = "READ_LOOP"]
  <2>5. loop.state = "READ_LOOP" /\ Kept(r, loop)
    BY <2>2, <2>3 DEF FsmRec, Kept
  <2>6. done \in {loop, start_flush_io_buffer(q(n), "AFTER_FLUSH_OK")}
    BY DEF ArgsFormatted
  <2> HIDE DEF done, loop
  <2>7. Responds(r, loop, ReadStates \cup {"AFTER_FLUSH_OK"})
    BY <2>5 DEF Responds, Pending, Flushing, ReadStates
  <2>8. Responds(r, start_flush_io_buffer(q(n), "AFTER_FLUSH_OK"),
                 ReadStates \cup {"AFTER_FLUSH_OK"})
    BY <2>2, <2>3, FlushMoves DEF Responds, Kept
  <2>9. next(n) = done \/ Ended(f, q(n), next(n)) \/ Responds(q(n), next(n), {"FORMAT_READ_ARGS"})
    BY <2>2, NextVarMoves DEF done
  <2> HIDE DEF next
  <2>10. Responds(q(n), next(n), {"FORMAT_READ_ARGS"}) =>
           Responds(r, next(n), ReadStates \cup {"AFTER_FLUSH_OK"})
    BY <2>3 DEF Responds, Kept, ReadStates
  <2> QED
    BY <2>3, <2>6, <2>7, <2>8, <2>9, <2>10, EndedFrom DEF ReadMove
<1>3. ReadMove(f, r, end_processing_with_error(f, r))
  BY <1>1, EndMoves DEF ReadMove
<1>4. \/ Becomes(f, end_processing_with_error(f, r))
      \/ \E n \in Var_of(r).widths : PrintFits(f, r, n) /\ Becomes(f, next(n))
  BY DEF format_read_args
<1> HIDE DEF q, next
<1> QED
  BY <1>1, <1>2, <1>3, <1>4 DEF SharedStepMoves, SharedMove, ReadStates

LEMMA FormatTestArgsMoves ==
  ASSUME HandlersInv, NEW f \in Fsm, format_test_args(f)
  PROVE  SharedStepMoves(f)
<1> DEFINE r == fsm[f]
           n == Var_of(r).info
           q == [Printed(r, n) EXCEPT !.index = r.index + 1]
           next == next_format_var_by_fsm(f, q, print_response_test(f, q))
<1>1. r \in FsmRec /\ r.state = "FORMAT_TEST_ARGS" /\ r.cmd \in CmdIds
      /\ r.index < Len(Command_of(r).vars)
  BY MachineFacts DEF format_test_args, MachineOK, Dereferences, Pending, Flushing,
     NeedsCommand
<1>2. ASSUME PrintFits(f, r, n)
      PROVE  TestMove(f, r, next)
  <2>1. n \in Nat
    BY <1>1, VariableFacts
  <2>2. q \in FsmRec /\ q.cmd = r.cmd /\ q.state = "FORMAT_TEST_ARGS"
        /\ Terminated(f, q)
    BY <1>1, <1>2, <2>1, PrintedVarOK
  <2>3. Kept(r, q)
    BY <1>1, <1>2, <2>1, PrintOK DEF FsmRec, Kept
  <2> HIDE DEF q, r
  <2>5. TestMove(f, q, print_response_test(f, q))
    BY <1>1, <2>2, ResponseTestMoves
  <2>6. \/ next = print_response_test(f, q)
        \/ Ended(f, q, next)
        \/ Responds(q, next, {"FORMAT_TEST_ARGS"})
    BY <2>2, NextVarMoves
  <2> HIDE DEF next
  <2>8. TestMove(f, q, next)
    BY <2>5, <2>6 DEF TestMove, Responds, TestStates
  <2> QED
    BY <2>3, <2>8, EndedFrom DEF TestMove, Responds, Kept
<1>3. TestMove(f, r, end_processing_with_error(f, r))
  BY <1>1, EndMoves DEF TestMove
<1>4. \/ Becomes(f, end_processing_with_error(f, r))
      \/ PrintFits(f, r, n) /\ Becomes(f, next)
  BY DEF format_test_args
<1> HIDE DEF q, next
<1> QED
  BY <1>1, <1>2, <1>3, <1>4 DEF SharedStepMoves, SharedMove, TestStates

\* A handler leaves the command alone.
LEMMA AfterHandlerKept ==
  ASSUME HandlersInv, NEW f \in Fsm, NEW r \in AfterHandler(f)
  PROVE  Kept(fsm[f], r)
BY MachineFacts DEF AfterHandler, FsmRec, Kept

\* Hold puts the command machine on hold, whichever handler asked.
LEMMA EnableHoldMoves ==
  ASSUME HandlersInv, NEW f \in Fsm, NEW r \in FsmRec, enable_hold_state(f, r),
         Kept(fsm[f], r), r.state = fsm[f].state,
         fsm[f].state \in {"RUN_LOOP", "WRITE_LOOP", "READ_LOOP", "TEST_LOOP"}
  PROVE  HoldMove(f)
<1>1. fsm \in [Fsm -> FsmRec] /\ f \in {AT, UN} /\ AT # UN /\ AT \in Fsm /\ UN \in Fsm
  BY BufSizeFacts DEF HandlersInv, MachinesInv, Fsm
<1> DEFINE g == [fsm EXCEPT ![f] = r]
<1>2. g \in [Fsm -> FsmRec] /\ fsm' = [g EXCEPT ![AT].state = "HOLD"]
      /\ g[UN] = (IF f = UN THEN r ELSE fsm[UN])
  BY <1>1 DEF enable_hold_state
<1> HIDE DEF g
<1>3. fsm'[UN] = (IF f = UN THEN r ELSE fsm[UN]) /\ fsm'[AT] = [g[AT] EXCEPT !.state = "HOLD"]
  BY <1>1, <1>2
<1>4. g[AT] \in FsmRec
  BY <1>1, <1>2
<1>5. fsm'[AT].state = "HOLD"
  BY <1>3, <1>4 DEF FsmRec
<1> QED
  BY <1>3, <1>5 DEF HoldMove, Kept

\* What the read and test handlers' results have in common.
LEMMA HandlerReturnedMoves ==
  ASSUME HandlersInv, NEW f \in Fsm, fsm[f].state \in {"READ_LOOP", "TEST_LOOP"},
         NEW r \in AfterHandler(f), NEW ret, NEW after, NEW restarted, NEW S,
         after \in S, "AFTER_FLUSH_OK" \in S,
         HandlerReturned(f, r, ret, after, restarted)
  PROVE  \/ Becomes(f, restarted)
         \/ \E s : Becomes(f, s) /\ (Ended(f, fsm[f], s) \/ Responds(fsm[f], s, S))
         \/ HoldMove(f)
<1>1. r \in FsmRec /\ r.state = fsm[f].state /\ Kept(fsm[f], r)
  BY AfterHandlerOK, AfterHandlerKept
<1>2. Ended(f, fsm[f], end_processing_with_ok(f, r))
      /\ Ended(f, fsm[f], end_processing_with_error(f, r))
  BY <1>1, EndMoves, EndedFrom
<1>3. \A a \in S : Responds(fsm[f], start_flush_io_buffer(r, a), S)
  BY <1>1, FlushMoves DEF Responds, Kept
<1>4. enable_hold_state(f, r) => HoldMove(f)
  BY <1>1, EnableHoldMoves
<1> QED
  BY <1>2, <1>3, <1>4 DEF HandlerReturned

LEMMA ReadLoopMoves ==
  ASSUME HandlersInv, NEW f \in Fsm, process_read_loop(f)
  PROVE  SharedStepMoves(f)
<1>1. fsm[f].state = "READ_LOOP"
  BY DEF process_read_loop
<1>2. PICK ret \in Command_of(fsm[f]).read, r \in AfterHandler(f) :
        \/ HandlerReturned(f, r, ret, "AFTER_FLUSH_FORMAT_READ_ARGS",
                           start_processing_format_read_args(f, r))
        \/ Becomes(f, end_processing_with_error(f, r))
  BY DEF process_read_loop
<1>3. r \in FsmRec /\ r.cmd \in CmdIds /\ Kept(fsm[f], r)
  BY <1>1, AfterHandlerOK, AfterHandlerKept
<1>4. ReadMove(f, r, start_processing_format_read_args(f, r))
      /\ Ended(f, fsm[f], end_processing_with_error(f, r))
  BY <1>3, ReadStartMoves, EndMoves, EndedFrom
<1>5. ReadMove(f, fsm[f], start_processing_format_read_args(f, r))
  BY <1>3, <1>4, EndedFrom DEF ReadMove, Responds, Kept
<1> DEFINE S == ReadStates \cup {"AFTER_FLUSH_OK"}
<1>6. "AFTER_FLUSH_FORMAT_READ_ARGS" \in S /\ "AFTER_FLUSH_OK" \in S
  BY DEF ReadStates
<1>7. \/ \E s : Becomes(f, s) /\ ReadMove(f, fsm[f], s)
      \/ HoldMove(f)
  <2> HIDE DEF S
  <2>1. CASE Becomes(f, end_processing_with_error(f, r))
    BY <1>4, <2>1 DEF ReadMove
  <2>2. CASE HandlerReturned(f, r, ret, "AFTER_FLUSH_FORMAT_READ_ARGS",
                             start_processing_format_read_args(f, r))
    <3>1. \/ Becomes(f, start_processing_format_read_args(f, r))
          \/ \E s : Becomes(f, s) /\ (Ended(f, fsm[f], s) \/ Responds(fsm[f], s, S))
          \/ HoldMove(f)
      BY <1>1, <1>6, <2>2, HandlerReturnedMoves
    <3> QED
      BY <1>5, <3>1 DEF ReadMove, S
  <2> QED
    BY <1>2, <2>1, <2>2
<1> QED
  BY <1>1, <1>7 DEF SharedStepMoves, SharedMove, ReadStates

LEMMA TestLoopMoves ==
  ASSUME HandlersInv, NEW f \in Fsm, process_test_loop(f)
  PROVE  SharedStepMoves(f)
<1>1. fsm[f].state = "TEST_LOOP"
  BY DEF process_test_loop
<1>2. PICK ret \in Command_of(fsm[f]).test, r \in AfterHandler(f) :
        \/ HandlerReturned(f, r, ret, "AFTER_FLUSH_FORMAT_TEST_ARGS",
                           start_processing_format_test_args(f, r))
        \/ f = AT /\ Becomes(f, start_print_cmd_list(r))
        \/ Becomes(f, end_processing_with_ok(f, r))
  BY DEF process_test_loop
<1>3. r \in FsmRec /\ r.cmd \in CmdIds /\ Kept(fsm[f], r)
  BY <1>1, AfterHandlerOK, AfterHandlerKept
<1>4. TestMove(f, r, start_processing_format_test_args(f, r))
      /\ Ended(f, fsm[f], end_processing_with_ok(f, r))
  BY <1>3, TestStartMoves, EndMoves, EndedFrom
<1>5. TestMove(f, fsm[f], start_processing_format_test_args(f, r))
  BY <1>3, <1>4, EndedFrom DEF TestMove, Responds, Kept
<1>6. Lists(fsm[f], start_print_cmd_list(r))
  BY <1>3 DEF Lists, start_print_cmd_list, FsmRec, Kept
<1> DEFINE S == TestStates \cup {"AFTER_FLUSH_OK"}
<1>7. "AFTER_FLUSH_FORMAT_TEST_ARGS" \in S /\ "AFTER_FLUSH_OK" \in S
  BY DEF TestStates
<1>8. \/ \E s : Becomes(f, s) /\ (TestMove(f, fsm[f], s) \/ (f = AT /\ Lists(fsm[f], s)))
      \/ HoldMove(f)
  <2> HIDE DEF S
  <2>1. CASE Becomes(f, end_processing_with_ok(f, r))
    BY <1>4, <2>1 DEF TestMove
  <2>2. CASE f = AT /\ Becomes(f, start_print_cmd_list(r))
    BY <1>6, <2>2
  <2>3. CASE HandlerReturned(f, r, ret, "AFTER_FLUSH_FORMAT_TEST_ARGS",
                             start_processing_format_test_args(f, r))
    <3>1. \/ Becomes(f, start_processing_format_test_args(f, r))
          \/ \E s : Becomes(f, s) /\ (Ended(f, fsm[f], s) \/ Responds(fsm[f], s, S))
          \/ HoldMove(f)
      BY <1>1, <1>7, <2>3, HandlerReturnedMoves
    <3> QED
      BY <1>5, <3>1 DEF TestMove, S
  <2> QED
    BY <1>2, <2>1, <2>2, <2>3
<1> QED
  BY <1>1, <1>8 DEF SharedStepMoves, SharedMove, TestStates

LEMMA IoWriteMoves ==
  ASSUME HandlersInv, NEW f \in Fsm, process_io_write_wait(f) \/ process_io_write(f)
  PROVE  SharedStepMoves(f)
<1> DEFINE r == fsm[f]
           grant == [r EXCEPT !.state = "FLUSH_IO_WRITE"]
           head == [r EXCEPT !.position = 0, !.write_buf = "buf",
                             !.write_state = "MAIN_BUFFER"]
           tail == [r EXCEPT !.position = 0, !.write_buf = "newline",
                             !.write_state = "AFTER"]
           done == [r EXCEPT !.state = r.write_state_after]
           char == [r EXCEPT !.position = r.position + 1]
<1>1. r \in FsmRec /\ r.write_state \in {"BEFORE", "MAIN_BUFFER", "AFTER"}
  BY MachineFacts DEF FsmRec
<1>2. CASE process_io_write_wait(f)
  <2>1. Goes(r, grant, {"FLUSH_IO_WRITE"}) /\ grant.write_state_after = r.write_state_after
    BY <1>1 DEF FsmRec, Goes, Kept
  <2>2. \/ Becomes(f, grant) /\ fsm[Other(f)].state # "FLUSH_IO_WRITE"
        \/ Becomes(f, r)
    BY <1>2 DEF process_io_write_wait
  <2> QED
    BY <1>2, <2>1, <2>2 DEF process_io_write_wait, SharedStepMoves, SharedMove, TakesLine
<1>3. CASE process_io_write(f)
  <2>1. r.state = "FLUSH_IO_WRITE"
    BY <1>3 DEF process_io_write
  <2>2. \E s \in {head, tail, done, char, r} : Becomes(f, s)
    BY <1>1, <1>3 DEF process_io_write
  <2>3. Writes(r, head) /\ Writes(r, tail) /\ Writes(r, done) /\ Writes(r, char)
        /\ Writes(r, r)
    <3> HIDE DEF r
    <3> QED
      BY <1>1, <2>1 DEF FsmRec, Writes, Kept
  <2> HIDE DEF head, tail, done, char
  <2> QED
    BY <2>1, <2>2, <2>3 DEF SharedStepMoves, SharedMove
<1> QED
  BY <1>2, <1>3

LEMMA AfterFlushMoves ==
  ASSUME HandlersInv, NEW f \in Fsm, AfterFlush(f)
  PROVE  SharedStepMoves(f)
<1> DEFINE r == fsm[f]
<1>1. r \in FsmRec /\ MachineOK(f, r)
  BY MachineFacts
<1>2. CASE r.state = "AFTER_FLUSH_RESET"
  <2>1. Reset(unsolicited_reset_state(r))
    BY <1>1 DEF Reset, unsolicited_reset_state, FsmRec
  <2>2. ASSUME f = AT
        PROVE  reset_state(r) = unsolicited_reset_state(r)
    BY <1>2, <2>2 DEF HandlersInv, MachinesInv, HoldFlagMatchesState, reset_state,
       unsolicited_reset_state
  <2>3. Becomes(f, unsolicited_reset_state(r))
    BY <1>2, <2>2 DEF AfterFlush
  <2> QED
    BY <1>2, <2>1, <2>3 DEF SharedStepMoves, SharedMove
<1>3. CASE r.state = "AFTER_FLUSH_OK"
  BY <1>1, <1>3, EndMoves DEF AfterFlush, SharedStepMoves, SharedMove
<1>4. CASE r.state = "AFTER_FLUSH_FORMAT_READ_ARGS"
  <2>1. r.cmd \in CmdIds
    BY <1>1, <1>4 DEF MachineOK, Dereferences, Pending, Flushing, NeedsCommand
  <2> QED
    BY <1>1, <1>4, <2>1, ReadStartMoves DEF AfterFlush, SharedStepMoves, SharedMove, ReadStates
<1>5. CASE r.state = "AFTER_FLUSH_FORMAT_TEST_ARGS"
  <2>1. r.cmd \in CmdIds
    BY <1>1, <1>5 DEF MachineOK, Dereferences, Pending, Flushing, NeedsCommand
  <2> QED
    BY <1>1, <1>5, <2>1, TestStartMoves DEF AfterFlush, SharedStepMoves, SharedMove, TestStates
<1> QED
  BY <1>2, <1>3, <1>4, <1>5 DEF AfterFlush

LEMMA SharedMoves ==
  ASSUME HandlersInv, NEW f \in Fsm, Shared(f)
  PROVE  SharedStepMoves(f) /\ UNCHANGED current_char
<1>1. UNCHANGED current_char
  BY DEF Shared, format_read_args, format_test_args, process_read_loop,
     process_test_loop, process_io_write_wait, process_io_write, AfterFlush
<1> QED
  BY <1>1, FormatReadArgsMoves, FormatTestArgsMoves, ReadLoopMoves, TestLoopMoves,
     IoWriteMoves, AfterFlushMoves DEF Shared

-----------------------------------------------------------------------------
(* The handlers of the command machine.                                    *)

\* The search starts, with no command found yet.
Searches(s) == s.state = "SEARCH_COMMAND" /\ s.cmd = NoCmd

\* A step that read the character d.
ReadingMove(r, s, d) ==
  \/ /\ r.state = "ERROR"
     /\ IF d = "NL" THEN Acked(r, s) ELSE s = r
  \/ /\ r.state = "IDLE"
     /\ IF d = "NL" THEN s = r ELSE Goes(r, s, {"PARSE_PREFIX", "ERROR"})
  \/ /\ r.state = "PARSE_PREFIX"
     /\ IF d = "NL" THEN Acked(r, s)
        ELSE \/ Goes(r, s, {"ERROR"})
             \/ s.state = "PARSE_COMMAND_CHAR" /\ s.cmd_type = "RUN"
  \/ /\ r.state = "PARSE_COMMAND_CHAR"
     /\ IF d = "NL" THEN Acked(r, s) \/ (Searches(s) /\ s.cmd_type = r.cmd_type)
        ELSE \/ Searches(s) /\ s.cmd_type = "WRITE"
             \/ s.state = "WAIT_READ_ACKNOWLEDGE" /\ s.cmd_type = "READ"
             \/ Goes(r, s, {"UPDATE_COMMAND_STATE", "ERROR"})
  \/ /\ r.state = "WAIT_READ_ACKNOWLEDGE"
     /\ IF d = "NL" THEN Searches(s) /\ s.cmd_type = r.cmd_type
        ELSE Goes(r, s, {"ERROR"})
  \/ /\ r.state = "WAIT_TEST_ACKNOWLEDGE"
     /\ IF d = "NL" THEN TestMove(AT, r, s) ELSE Goes(r, s, {"ERROR"})
  \/ /\ r.state = "PARSE_COMMAND_ARGS"
     /\ IF d = "NL"
          THEN \/ Acked(r, s)
               \/ /\ Goes(r, s, {"PARSE_WRITE_ARGS", "WRITE_LOOP"})
                  /\ ~Command_of(r).only_test
          ELSE /\ s.cmd = r.cmd
               /\ s.state \in {"WAIT_TEST_ACKNOWLEDGE", "PARSE_COMMAND_ARGS", "ERROR"}

\* A step that matches the name, or acts on what was found; the last character
\* read is c.
NameMove(r, s, c) ==
  \/ /\ r.state = "UPDATE_COMMAND_STATE"
     /\ \/ Goes(r, s, {"UPDATE_COMMAND_STATE", "PARSE_COMMAND_CHAR"})
        \/ Searches(s) /\ s.cmd_type = "WRITE"
  \/ /\ r.state = "SEARCH_COMMAND"
     /\ s.cmd_type = r.cmd_type
     /\ s.cmd \in {r.cmd} \cup Enabled
     /\ \/ s.state = "SEARCH_COMMAND"
        \/ s.state = "COMMAND_FOUND" /\ s.cmd # NoCmd
        \/ s.state = "COMMAND_NOT_FOUND"
        \/ s.state = "ERROR" /\ c # "NL"
  \/ /\ r.state = "COMMAND_FOUND"
     /\ \/ Acked(r, s) /\ r.cmd_type \in {"RUN", "READ"}
        \/ /\ r.cmd_type = "RUN" /\ ~Command_of(r).only_test
           /\ Goes(r, s, {"RUN_LOOP"})
        \/ /\ r.cmd_type = "READ" /\ ~Command_of(r).only_test
           /\ ReadMove(AT, r, s)
        \/ /\ r.cmd_type = "WRITE"
           /\ Goes(r, s, {"PARSE_COMMAND_ARGS"})
  \/ r.state = "COMMAND_NOT_FOUND" /\ Acked(r, s)

\* A step that parses arguments, runs a handler or lists the commands.
HandlerMove(r, s) ==
  \/ /\ r.state = "PARSE_WRITE_ARGS"
     /\ Acked(r, s) \/ Goes(r, s, {"PARSE_WRITE_ARGS", "WRITE_LOOP"})
  \/ r.state = "WRITE_LOOP" /\ (s = r \/ Acked(r, s))
  \/ r.state = "RUN_LOOP" /\ (s = r \/ Acked(r, s) \/ Lists(r, s))
  \/ r.state = "HOLD" /\ (s = r \/ Acked(r, s))
  \/ /\ r.state = "PRINT_CMD"
     /\ s.state \in {"PRINT_CMD", "FLUSH_IO_WRITE_WAIT"}
     /\ Pending(s) \in {"PRINT_CMD", "AFTER_FLUSH_RESET"}

AtStepMoves ==
  \/ \E s : Becomes(AT, s) /\ ReadingMove(at, s, current_char')
  \/ /\ UNCHANGED current_char
     /\ \/ \E s : /\ Becomes(AT, s)
                  /\ \/ NameMove(at, s, current_char)
                     \/ HandlerMove(at, s)
                     \/ SharedMove(AT, at, s)
        \/ HoldMove(AT)
        \/ UNCHANGED fsm

\* The end of a line is no character of a name.
LEMMA ValidNotEnd == ~is_valid_cmd_name_char("NL")
BY DEF is_valid_cmd_name_char, UpperOf

LEMMA StartSearchMoves ==
  ASSUME NEW r \in FsmRec
  PROVE  Searches(StartSearch(r)) /\ StartSearch(r).cmd_type = r.cmd_type
BY DEF StartSearch, Searches, FsmRec

LEMMA LineStartMoves ==
  ASSUME HandlersInv, error_state \/ process_idle_state \/ parse_prefix
  PROVE  AtStepMoves
<1> DEFINE p == [prepare_parse_command(at) EXCEPT !.state = "PARSE_COMMAND_CHAR"]
<1>1. at \in FsmRec
  BY AtFacts
<1>2. Acked(at, ack_error(at))
  BY <1>1, AckMoves
<1>3. \A st \in Free : Goes(at, [at EXCEPT !.state = st], {st})
  BY <1>1 DEF Goes, Kept, FsmRec
<1>4. p.state = "PARSE_COMMAND_CHAR" /\ p.cmd_type = "RUN"
  BY <1>1 DEF prepare_parse_command, FsmRec
<1> HIDE DEF p
<1>5. CASE error_state
  BY <1>2, <1>5 DEF error_state, read_cmd_char, AtStepMoves, ReadingMove
<1>6. CASE process_idle_state
  BY <1>3, <1>6 DEF process_idle_state, read_cmd_char, AtStepMoves, ReadingMove, Free, Goes
<1>7. CASE parse_prefix
  BY <1>2, <1>3, <1>4, <1>7
     DEF parse_prefix, read_cmd_char, AtStepMoves, ReadingMove, Free, p
<1> QED
  BY <1>5, <1>6, <1>7

LEMMA NameReadMoves ==
  ASSUME HandlersInv,
         parse_command \/ wait_read_acknowledge \/ wait_test_acknowledge
  PROVE  AtStepMoves
<1>1. at \in FsmRec /\ MachineOK(AT, at)
  BY AtFacts
<1>2. Goes(at, [at EXCEPT !.state = "ERROR"], {"ERROR"})
  BY <1>1 DEF Goes, Kept, FsmRec
<1>3. CASE parse_command
  <2> DEFINE read == [at EXCEPT !.cmd_type = "READ", !.state = "WAIT_READ_ACKNOWLEDGE"]
             update == [at EXCEPT !.state = "UPDATE_COMMAND_STATE"]
             write == [at EXCEPT !.cmd_type = "WRITE"]
  <2>1. at.state = "PARSE_COMMAND_CHAR"
    BY <1>3 DEF parse_command, read_cmd_char
  <2>2. /\ read.state = "WAIT_READ_ACKNOWLEDGE" /\ read.cmd_type = "READ"
        /\ Goes(at, update, {"UPDATE_COMMAND_STATE", "ERROR"})
    BY <1>1 DEF Goes, Kept, FsmRec
  <2>3. write \in FsmRec /\ write.cmd_type = "WRITE"
    BY <1>1 DEF FsmRec, CmdType
  <2>4. \/ /\ current_char' = "NL"
           /\ \/ Becomes(AT, ack_ok(at))
              \/ Becomes(AT, StartSearch(at))
        \/ /\ current_char' # "NL"
           /\ \/ Becomes(AT, StartSearch(write))
              \/ Becomes(AT, read)
              \/ Becomes(AT, update)
              \/ Becomes(AT, [at EXCEPT !.state = "ERROR"])
    BY <1>3, ValidNotEnd DEF parse_command
  <2> HIDE DEF read, update, write
  <2>5. Acked(at, ack_ok(at))
    BY <1>1, AckMoves
  <2>6. /\ Searches(StartSearch(at)) /\ StartSearch(at).cmd_type = at.cmd_type
        /\ Searches(StartSearch(write)) /\ StartSearch(write).cmd_type = "WRITE"
    BY <1>1, <2>3, StartSearchMoves
  <2>7. \E s : Becomes(AT, s) /\ ReadingMove(at, s, current_char')
    BY <1>2, <2>1, <2>2, <2>4, <2>5, <2>6 DEF ReadingMove, Goes
  <2> QED
    BY <2>7 DEF AtStepMoves
<1>4. CASE wait_read_acknowledge
  <2>1. Searches(StartSearch(at)) /\ StartSearch(at).cmd_type = at.cmd_type
    BY <1>1, StartSearchMoves
  <2> QED
    BY <1>2, <1>4, <2>1 DEF wait_read_acknowledge, read_cmd_char, AtStepMoves, ReadingMove
<1>5. CASE wait_test_acknowledge
  <2>1. at.state = "WAIT_TEST_ACKNOWLEDGE"
    BY <1>5 DEF wait_test_acknowledge, read_cmd_char
  <2>2. at.cmd \in CmdIds
    BY <1>1, <2>1 DEF MachineOK, Dereferences, Pending, Flushing, NeedsCommand
  <2>3. TestMove(AT, at, start_processing_format_test_args(AT, at))
    BY <1>1, <2>2, TestStartMoves, BufSizeFacts
  <2> QED
    BY <1>2, <1>5, <2>1, <2>3 DEF wait_test_acknowledge, AtStepMoves, ReadingMove
<1> QED
  BY <1>3, <1>4, <1>5

LEMMA UpdateMoves ==
  ASSUME HandlersInv, update_command
  PROVE  AtStepMoves
<1> DEFINE i == at.index
           live == get_cmd_state(i) # "NOT_MATCH"
           m == IF live THEN [at.buf.match EXCEPT ![i] = NameMatch(i)]
                ELSE at.buf.match
           r == [at EXCEPT !.buf = Matches(m)]
           write == [r EXCEPT !.cmd_type = "WRITE"]
<1>1. at \in FsmRec /\ MachineOK(AT, at) /\ at.state = "UPDATE_COMMAND_STATE"
  BY AtFacts DEF update_command
<1>2. Matches(m) \in Buffer
  <2>1. i \in CmdIds /\ at.buf \in [kind : {"match"}, match : [CmdIds -> MatchState]]
    BY <1>1, NumCmdsAssumption DEF MachineOK, BufferMatches, NameState, Dereferences,
       CmdIds, FsmRec
  <2>2. at.buf.match \in [CmdIds -> MatchState] /\ NameMatch(i) \in MatchState
    BY <2>1 DEF NameMatch, MatchState
  <2>3. m \in [CmdIds -> MatchState]
    BY <2>2
  <2> HIDE DEF m
  <2> QED
    BY <2>3 DEF Matches, Buffer
<1>3. \/ Becomes(AT, [r EXCEPT !.index = i + 1])
      \/ Becomes(AT, [r EXCEPT !.index = 0, !.state = "PARSE_COMMAND_CHAR"])
      \/ Becomes(AT, StartSearch(write))
  BY DEF update_command
<1> HIDE DEF m
<1>4. r \in FsmRec /\ Kept(at, r) /\ r.state = at.state
  BY <1>1, <1>2 DEF FsmRec, Kept
<1> HIDE DEF r
<1>5. /\ Goes(at, [r EXCEPT !.index = i + 1], {"UPDATE_COMMAND_STATE"})
      /\ Goes(at, [r EXCEPT !.index = 0, !.state = "PARSE_COMMAND_CHAR"],
              {"PARSE_COMMAND_CHAR"})
      /\ write \in FsmRec /\ write.cmd_type = "WRITE"
  BY <1>1, <1>4 DEF Goes, Kept, FsmRec, CmdType
<1> HIDE DEF write
<1>6. Searches(StartSearch(write)) /\ StartSearch(write).cmd_type = "WRITE"
  BY <1>5, StartSearchMoves
<1>7. \E s : Becomes(AT, s) /\ NameMove(at, s, current_char)
  BY <1>1, <1>3, <1>5, <1>6 DEF NameMove, Goes
<1>8. UNCHANGED current_char
  BY DEF update_command
<1> QED
  BY <1>7, <1>8 DEF AtStepMoves

LEMMA SearchMoves ==
  ASSUME HandlersInv, search_command
  PROVE  AtStepMoves
<1> DEFINE i == at.index
           Next_cmd(s) == /\ s.cmd_type = at.cmd_type
                          /\ s.cmd \in {at.cmd} \cup Enabled
<1>1. at \in FsmRec /\ at.state = "SEARCH_COMMAND" /\ i \in CmdIds
  BY AtFacts, NumCmdsAssumption DEF search_command, MachineOK, Dereferences, CmdIds, FsmRec
<1>2. get_cmd_state(i) # "NOT_MATCH" => i \in Enabled
  BY <1>1 DEF get_cmd_state, Enabled
<1>3. i # NoCmd
  BY <1>1, NumCmdsAssumption DEF CmdIds, NoCmd
<1>4. \E s : Becomes(AT, s) /\ NameMove(at, s, current_char)
  <2>1. CASE /\ get_cmd_state(i) = "FULL_MATCH"
             /\ Becomes(AT, [at EXCEPT !.cmd = i, !.state = "COMMAND_FOUND"])
    <3> DEFINE s == [at EXCEPT !.cmd = i, !.state = "COMMAND_FOUND"]
    <3>1. s.cmd = i /\ s.state = "COMMAND_FOUND" /\ s.cmd_type = at.cmd_type
      BY <1>1 DEF FsmRec
    <3> HIDE DEF s
    <3>2. NameMove(at, s, current_char)
      BY <1>1, <1>2, <1>3, <2>1, <3>1 DEF NameMove
    <3> QED
      BY <2>1, <3>2 DEF s
  <2>2. CASE Becomes(AT, [at EXCEPT !.state = NotFound])
    <3> DEFINE s == [at EXCEPT !.state = NotFound]
    <3>1. s.cmd = at.cmd /\ s.state = NotFound /\ s.cmd_type = at.cmd_type
      BY <1>1 DEF FsmRec
    <3> HIDE DEF s
    <3>2. NameMove(at, s, current_char)
      BY <1>1, <3>1 DEF NameMove, NotFound
    <3> QED
      BY <2>2, <3>2 DEF s
  <2>3. ASSUME NEW c \in {at.cmd} \cup Enabled, NEW n,
               Becomes(AT, [at EXCEPT
                    !.index = i + 1, !.cmd = c,
                    !.state = CASE ~(i + 1 >= NumCmds) -> "SEARCH_COMMAND"
                                [] i + 1 >= NumCmds /\ c = NoCmd -> NotFound
                                [] i + 1 >= NumCmds /\ c # NoCmd /\ n = 1 -> "COMMAND_FOUND"
                                [] OTHER -> "COMMAND_NOT_FOUND"])
        PROVE  \E s : Becomes(AT, s) /\ NameMove(at, s, current_char)
    <3> DEFINE st == CASE ~(i + 1 >= NumCmds) -> "SEARCH_COMMAND"
                       [] i + 1 >= NumCmds /\ c = NoCmd -> NotFound
                       [] i + 1 >= NumCmds /\ c # NoCmd /\ n = 1 -> "COMMAND_FOUND"
                       [] OTHER -> "COMMAND_NOT_FOUND"
               s == [at EXCEPT !.index = i + 1, !.cmd = c, !.state = st]
    <3>1. \/ st = "SEARCH_COMMAND"
          \/ st = "COMMAND_FOUND" /\ c # NoCmd
          \/ st = "COMMAND_NOT_FOUND"
          \/ st = "ERROR" /\ current_char # "NL"
      BY DEF NotFound
    <3>2. Becomes(AT, s)
      BY <2>3
    <3> HIDE DEF st
    <3>3. s.cmd = c /\ s.state = st /\ s.cmd_type = at.cmd_type
      BY <1>1 DEF FsmRec
    <3> HIDE DEF s
    <3>4. NameMove(at, s, current_char)
      BY <1>1, <3>1, <3>3 DEF NameMove
    <3> QED
      BY <3>2, <3>4
  <2>4. get_cmd_state(i) = "PARTIAL_MATCH" => i \in Enabled
    BY <1>2
  <2>5. (IF get_cmd_state(i) = "PARTIAL_MATCH" THEN i ELSE at.cmd) \in {at.cmd} \cup Enabled
    BY <2>4
  <2> QED
    BY <2>1, <2>2, <2>3, <2>5 DEF search_command
<1>5. UNCHANGED current_char
  BY DEF search_command
<1> QED
  BY <1>4, <1>5 DEF AtStepMoves

LEMMA FoundMoves ==
  ASSUME HandlersInv, command_found \/ command_not_found
  PROVE  AtStepMoves
<1>1. at \in FsmRec /\ MachineOK(AT, at)
  BY AtFacts
<1>2. Acked(at, ack_error(at))
  BY <1>1, AckMoves
<1>3. CASE command_found
  <2>1. at.state = "COMMAND_FOUND"
    BY <1>3 DEF command_found
  <2>2. at.cmd \in CmdIds
    BY <1>1, <2>1 DEF MachineOK, Dereferences, Pending, Flushing, NeedsCommand
  <2>3. ReadMove(AT, at, start_processing_format_read_args(AT, at))
    BY <1>1, <2>2, ReadStartMoves, BufSizeFacts
  <2>4. Goes(at, [at EXCEPT !.state = "RUN_LOOP"], {"RUN_LOOP"})
        /\ Goes(at, [at EXCEPT !.buf = Args(<<>>), !.state = "PARSE_COMMAND_ARGS"],
                {"PARSE_COMMAND_ARGS"})
    BY <1>1 DEF Goes, Kept, FsmRec
  <2>5. \E s : Becomes(AT, s) /\ NameMove(at, s, current_char)
    <3>1. CASE at.cmd_type = "RUN"
      BY <1>2, <1>3, <2>1, <2>4, <3>1 DEF command_found, NameMove
    <3>2. CASE at.cmd_type = "READ"
      BY <1>2, <1>3, <2>1, <2>3, <3>2 DEF command_found, NameMove
    <3>3. CASE at.cmd_type = "WRITE"
      BY <1>3, <2>1, <2>4, <3>3 DEF command_found, NameMove
    <3> QED
      BY <1>3, <3>1, <3>2, <3>3 DEF command_found
  <2> QED
    BY <1>3, <2>5 DEF AtStepMoves, command_found
<1>4. CASE command_not_found
  BY <1>2, <1>4 DEF command_not_found, AtStepMoves, NameMove
<1> QED
  BY <1>3, <1>4

LEMMA ArgsMoves ==
  ASSUME HandlersInv, parse_command_args \/ parse_write_args
  PROVE  AtStepMoves
<1>1. at \in FsmRec /\ MachineOK(AT, at)
  BY AtFacts
<1>2. Acked(at, ack_error(at))
  BY <1>1, AckMoves
<1>3. CASE parse_command_args
  <2> DEFINE test == [at EXCEPT !.cmd_type = "TEST", !.state = "WAIT_TEST_ACKNOWLEDGE"]
             more(st) == [at EXCEPT !.buf = Args(Append(at.buf.s, current_char')),
                                    !.state = st]
  <2>1. at.state = "PARSE_COMMAND_ARGS"
    BY <1>3 DEF parse_command_args, read_cmd_char
  <2>2. test.cmd = at.cmd /\ test.state = "WAIT_TEST_ACKNOWLEDGE"
    BY <1>1 DEF FsmRec
  <2>3. \A st \in {"PARSE_COMMAND_ARGS", "ERROR"} : more(st).cmd = at.cmd /\ more(st).state = st
    BY <1>1 DEF FsmRec
  <2>4. \/ current_char' = "NL" /\ Becomes(AT, StartWrite(at))
        \/ Becomes(AT, test) /\ current_char' # "NL"
        \/ /\ current_char' # "NL"
           /\ \E st \in {"PARSE_COMMAND_ARGS", "ERROR"} : Becomes(AT, more(st))
    BY <1>3 DEF parse_command_args, AsksTest
  <2> HIDE DEF test, more
  <2>5. CASE current_char' = "NL" /\ Becomes(AT, StartWrite(at))
    <3> DEFINE parse == [at EXCEPT !.state = "PARSE_WRITE_ARGS", !.position = 0, !.index = 0]
               loop == [at EXCEPT !.state = "WRITE_LOOP", !.index = 0]
    <3>1. /\ Goes(at, parse, {"PARSE_WRITE_ARGS", "WRITE_LOOP"})
          /\ Goes(at, loop, {"PARSE_WRITE_ARGS", "WRITE_LOOP"})
      BY <1>1 DEF Goes, Kept, FsmRec
    <3>2. \/ StartWrite(at) = ack_error(at)
          \/ StartWrite(at) \in {parse, loop} /\ ~Command_of(at).only_test
      BY DEF StartWrite
    <3> HIDE DEF parse, loop
    <3>3. ReadingMove(at, StartWrite(at), current_char')
      BY <1>2, <2>1, <2>5, <3>1, <3>2 DEF ReadingMove
    <3> QED
      BY <2>5, <3>3 DEF AtStepMoves
  <2>6. CASE current_char' # "NL"
    <3>1. \E s : Becomes(AT, s) /\ ReadingMove(at, s, current_char')
      BY <2>1, <2>2, <2>3, <2>4, <2>6 DEF ReadingMove
    <3> QED
      BY <3>1 DEF AtStepMoves
  <2> QED
    BY <2>4, <2>5, <2>6
<1>4. CASE parse_write_args
  <2>1. at.state = "PARSE_WRITE_ARGS" /\ at.position \in Nat /\ at.index \in Nat
    BY <1>1, <1>4 DEF parse_write_args, FsmRec
  <2>2. ASSUME NEW end \in ParseEnds(Var_of(at), at.buf.s, at.position), NEW more
        PROVE  HandlerMove(at, ArgsParsed([at EXCEPT !.index = at.index + 1,
                                                     !.position = end], more))
    <3> DEFINE r == [at EXCEPT !.index = at.index + 1, !.position = end]
               loop == [r EXCEPT !.state = "WRITE_LOOP"]
    <3>1. at.buf.s \in Seq(Char) /\ Len(at.buf.s) \in Nat
      BY <1>1, <2>1 DEF MachineOK, BufferMatches
    <3>2. end \in at.position + 1 .. Len(at.buf.s) + 1
      BY DEF ParseEnds
    <3>3. end \in Nat /\ at.index + 1 \in Nat
      BY <2>1, <3>1, <3>2
    <3>4. r \in FsmRec /\ Kept(at, r) /\ r.state = "PARSE_WRITE_ARGS"
      BY <1>1, <2>1, <3>3 DEF FsmRec, Kept
    <3>5. ArgsParsed(r, more) \in {r, loop, ack_ok(r), ack_error(r)}
      BY DEF ArgsParsed
    <3> HIDE DEF r
    <3>6. Goes(at, r, {"PARSE_WRITE_ARGS"}) /\ Goes(at, loop, {"WRITE_LOOP"})
      BY <3>4 DEF Goes, Kept, FsmRec
    <3>7. Acked(at, ack_ok(r)) /\ Acked(at, ack_error(r))
      BY <3>4, AckMoves DEF Acked, Kept
    <3> HIDE DEF loop
    <3>8. HandlerMove(at, ArgsParsed(r, more))
      BY <2>1, <3>5, <3>6, <3>7 DEF HandlerMove, Goes
    <3> QED
      BY <3>8 DEF r
  <2>3. HandlerMove(at, ack_error(at))
    BY <1>2, <2>1 DEF HandlerMove
  <2>4. \E s : Becomes(AT, s) /\ HandlerMove(at, s)
    BY <1>4, <2>2, <2>3 DEF parse_write_args
  <2> QED
    BY <1>4, <2>4 DEF AtStepMoves, parse_write_args
<1> QED
  BY <1>3, <1>4

LEMMA LoopMoves ==
  ASSUME HandlersInv, process_write_loop \/ process_run_loop \/ process_hold_state
  PROVE  AtStepMoves
<1>1. at \in FsmRec /\ at = fsm[AT] /\ AT \in Fsm
  BY AtFacts, BufSizeFacts
<1>2. Acked(at, ack_error(at)) /\ Acked(at, ack_ok(at))
  BY <1>1, AckMoves
<1>3. Lists(at, start_print_cmd_list(at))
  BY <1>1 DEF Lists, start_print_cmd_list, FsmRec
<1>4. at.state \in {"RUN_LOOP", "WRITE_LOOP"} /\ enable_hold_state(AT, at) => HoldMove(AT)
  BY <1>1, EnableHoldMoves DEF Kept
<1>5. UNCHANGED current_char
  BY DEF process_write_loop, process_run_loop, process_hold_state
<1>6. CASE process_write_loop
  <2>1. \/ \E s : Becomes(AT, s) /\ HandlerMove(at, s)
        \/ HoldMove(AT)
        \/ UNCHANGED fsm
    BY <1>2, <1>4, <1>6 DEF process_write_loop, HandlerMove
  <2> QED
    BY <1>5, <2>1 DEF AtStepMoves
<1>7. CASE process_run_loop
  <2>1. \/ \E s : Becomes(AT, s) /\ HandlerMove(at, s)
        \/ HoldMove(AT)
        \/ UNCHANGED fsm
    BY <1>2, <1>3, <1>4, <1>7 DEF process_run_loop, HandlerMove
  <2> QED
    BY <1>5, <2>1 DEF AtStepMoves
<1>8. CASE process_hold_state
  <2>1. \/ \E s : Becomes(AT, s) /\ HandlerMove(at, s)
        \/ UNCHANGED fsm
    BY <1>2, <1>8 DEF process_hold_state, HandlerMove
  <2> QED
    BY <1>5, <2>1 DEF AtStepMoves
<1> QED
  BY <1>6, <1>7, <1>8

LEMMA ListMoves ==
  ASSUME HandlersInv, print_cmd_list
  PROVE  AtStepMoves
<1> DEFINE r == [at EXCEPT !.cmd = at.index]
           q == [r EXCEPT !.position = 0]
           p(n) == Printed(q, n)
           Listed(s) == /\ s.state \in {"PRINT_CMD", "FLUSH_IO_WRITE_WAIT"}
                        /\ Pending(s) \in {"PRINT_CMD", "AFTER_FLUSH_RESET"}
<1>1. at.state = "PRINT_CMD" /\ at \in FsmRec /\ at.index \in CmdIds
  BY AtFacts, NumCmdsAssumption DEF print_cmd_list, MachineOK, Dereferences, Pending,
     Flushing, FsmRec, CmdIds
<1>2. /\ r \in FsmRec /\ r.state = "PRINT_CMD" /\ r.cmd \in CmdIds /\ r.index \in Nat
  BY <1>1 DEF FsmRec
<1>3. \/ Becomes(AT, NextListed(r))
      \/ \E t : Becomes(AT, [r EXCEPT !.cmd_type = t])
      \/ /\ r.cmd_type \in DOMAIN NextForm
         /\ \E n \in {FullNameLen(Command_of(r), r.cmd_type)} :
              Becomes(AT, IF PrintFits(AT, q, n)
                THEN start_flush_io_buffer_raw(
                       [Printed(q, n) EXCEPT !.cmd_type = NextForm[r.cmd_type]],
                       "PRINT_CMD")
                ELSE ack_error(q))
  BY DEF print_cmd_list
<1> HIDE DEF r
<1>4. q \in FsmRec
  BY <1>2 DEF FsmRec
<1> HIDE DEF q
<1>5. \A s \in FsmRec : Listed(ack_ok(s)) /\ Listed(ack_error(s))
  BY AckMoves DEF Acked, Pending, Flushing
<1>6. Listed(NextListed(r))
  <2>1. [r EXCEPT !.index = r.index + 1] \in FsmRec
    BY <1>2 DEF FsmRec
  <2> DEFINE s == [r EXCEPT !.index = r.index + 1, !.cmd_type = "NONE"]
  <2>2. s.state = "PRINT_CMD"
    BY <1>2 DEF FsmRec
  <2>3. NextListed(r) \in {s, ack_ok([r EXCEPT !.index = r.index + 1])}
    BY DEF NextListed
  <2> HIDE DEF s
  <2> QED
    BY <1>5, <2>1, <2>2, <2>3 DEF Pending, Flushing
<1>7. ASSUME NEW t
      PROVE  Listed([r EXCEPT !.cmd_type = t])
  <2>1. [r EXCEPT !.cmd_type = t].state = "PRINT_CMD"
    BY <1>2 DEF FsmRec
  <2> QED
    BY <2>1 DEF Pending, Flushing
<1>8. ASSUME NEW n, NEW t
      PROVE  Listed(start_flush_io_buffer_raw([p(n) EXCEPT !.cmd_type = t], "PRINT_CMD"))
  <2> DEFINE s == start_flush_io_buffer_raw([p(n) EXCEPT !.cmd_type = t], "PRINT_CMD")
  <2>1. s.state = "FLUSH_IO_WRITE_WAIT" /\ s.write_state_after = "PRINT_CMD"
    BY <1>4 DEF FsmRec, Printed, start_flush_io_buffer_raw
  <2> HIDE DEF s
  <2>2. Listed(s)
    BY <2>1 DEF Pending, Flushing
  <2> QED
    BY <2>2 DEF s
<1>9. \E s : Becomes(AT, s) /\ Listed(s)
  <2> HIDE DEF Listed
  <2> QED
    BY <1>3, <1>4, <1>5, <1>6, <1>7, <1>8
<1>10. \E s : Becomes(AT, s) /\ HandlerMove(at, s)
  BY <1>1, <1>9 DEF HandlerMove
<1> QED
  BY <1>10 DEF AtStepMoves, print_cmd_list

LEMMA AtMoves ==
  ASSUME HandlersInv, AtCommand
  PROVE  AtStepMoves
<1>1. NoInput => AtStepMoves
  BY DEF NoInput, AtStepMoves
<1>2. Shared(AT) => AtStepMoves
  BY SharedMoves, BufSizeFacts DEF SharedStepMoves, AtStepMoves, at
<1> QED
  BY <1>1, <1>2, LineStartMoves, NameReadMoves, UpdateMoves, SearchMoves, FoundMoves,
     ArgsMoves, LoopMoves, ListMoves DEF AtCommand

-----------------------------------------------------------------------------
(* The steps of the system.                                                *)

\* The unsolicited machine takes the oldest event.
TakesEvent ==
  /\ fsm[UN].state = "IDLE"
  /\ queue # <<>> /\ queue' = Tail(queue)
  /\ \E r, s : /\ Becomes(UN, s)
               /\ <<r.cmd, r.cmd_type>> = Head(queue)
               /\ ReadMove(UN, r, s) \/ TestMove(UN, r, s)

AcceptsEvent ==
  /\ UNCHANGED fsm
  /\ Len(queue) < QueueSize
  /\ \E e \in Triggers : queue' = Append(queue, e)

LEMMA StepMoves ==
  ASSUME IInv, Next
  PROVE  \/ AtStepMoves /\ UNCHANGED queue
         \/ /\ UNCHANGED current_char
            /\ \/ (SharedStepMoves(UN) \/ UNCHANGED fsm) /\ UNCHANGED queue
               \/ TakesEvent
               \/ AcceptsEvent
<1>1. HandlersInv /\ queue \in Seq(CmdIds \X {"READ", "TEST"}) /\ UN \in Fsm
  BY BufSizeFacts DEF IInv, RestInv
<1>2. CASE AtCommand
  BY <1>1, <1>2, AtMoves DEF AtCommand
<1>3. CASE Unsolicited
  <2>1. CASE Shared(UN) /\ UNCHANGED queue
    BY <1>1, <2>1, SharedMoves
  <2>2. CASE check_unsolicited_buffers /\ queue = <<>>
    BY <2>2 DEF check_unsolicited_buffers
  <2>3. CASE check_unsolicited_buffers /\ queue # <<>>
    <3> DEFINE r == [fsm[UN] EXCEPT !.cmd = Head(queue)[1], !.cmd_type = Head(queue)[2]]
    <3>1. Head(queue) \in CmdIds \X {"READ", "TEST"}
      BY <1>1, <2>3
    <3>2. /\ Head(queue)[1] \in CmdIds /\ Head(queue)[2] \in CmdType
          /\ Head(queue) = <<Head(queue)[1], Head(queue)[2]>>
      BY <3>1 DEF CmdType
    <3>3. r \in FsmRec /\ r.cmd = Head(queue)[1] /\ r.cmd_type = Head(queue)[2]
      BY <1>1, <3>2, MachineFacts DEF FsmRec
    <3>4. \/ Becomes(UN, start_processing_format_read_args(UN, r))
          \/ Becomes(UN, start_processing_format_test_args(UN, r))
      BY <2>3 DEF check_unsolicited_buffers
    <3>5. /\ fsm[UN].state = "IDLE" /\ queue' = Tail(queue) /\ UNCHANGED current_char
      BY <2>3 DEF check_unsolicited_buffers
    <3> HIDE DEF r
    <3>6. /\ ReadMove(UN, r, start_processing_format_read_args(UN, r))
          /\ TestMove(UN, r, start_processing_format_test_args(UN, r))
      BY <1>1, <3>2, <3>3, ReadStartMoves, TestStartMoves
    <3>7. \E s : Becomes(UN, s) /\ (ReadMove(UN, r, s) \/ TestMove(UN, r, s))
      BY <3>4, <3>6
    <3> QED
      BY <2>3, <3>2, <3>3, <3>5, <3>7 DEF TakesEvent
  <2> QED
    BY <1>3, <2>1, <2>2, <2>3 DEF Unsolicited
<1>4. CASE cat_trigger_unsolicited_event \/ cat_hold_exit
  BY <1>4 DEF cat_trigger_unsolicited_event, cat_hold_exit, AcceptsEvent
<1> QED
  BY <1>2, <1>3, <1>4 DEF Next

\* A machine's step leaves the other machine alone.
LEMMA OtherUnchanged ==
  ASSUME IInv, NEW s
  PROVE  /\ Becomes(AT, s) => fsm'[AT] = s /\ fsm'[UN] = fsm[UN]
         /\ Becomes(UN, s) => fsm'[UN] = s /\ fsm'[AT] = fsm[AT]
BY BufSizeFacts DEF IInv, HandlersInv, MachinesInv, Becomes

-----------------------------------------------------------------------------
(* Disabled and test-only commands.                                        *)

\* States that lead to handlers an only_test command must not run.
NotOnlyTest == ReadStates \cup {"RUN_LOOP", "PARSE_WRITE_ARGS", "WRITE_LOOP"}

\* The command is enabled from the search to the end of the response, and the
\* flag of test-only commands has been looked at before other handlers run.
CmdInv(r) ==
  /\ Pending(r) \in NeedsCommand => r.cmd \in Enabled
  /\ r.state = "SEARCH_COMMAND" => r.cmd \in Enabled \cup {NoCmd}
  /\ Pending(r) \in NotOnlyTest => ~Command_of(r).only_test

\* Ends of a step after which no command is needed.
LEMMA CmdNotNeeded ==
  ASSUME NEW r, NEW s,
         \/ Acked(r, s) \/ Reset(s) \/ Searches(s) \/ Lists(r, s)
         \/ s.state \in {"IDLE", "ERROR", "PARSE_PREFIX", "PARSE_COMMAND_CHAR",
                         "UPDATE_COMMAND_STATE", "WAIT_READ_ACKNOWLEDGE",
                         "COMMAND_NOT_FOUND", "HOLD"}
         \/ Pending(s) \in {"PRINT_CMD", "AFTER_FLUSH_RESET", "AFTER_FLUSH_OK"}
  PROVE  CmdInv(s)
<1>1. Acked(r, s) => Pending(s) = "AFTER_FLUSH_RESET"
  BY DEF Acked, Pending, Flushing
<1>2. Reset(s) => s.state = "IDLE"
  BY DEF Reset
<1>3. CASE Searches(s)
  BY <1>3 DEF Searches, CmdInv, Pending, Flushing, NeedsCommand, NotOnlyTest, ReadStates
<1>4. CASE Pending(s) \in {"PRINT_CMD", "AFTER_FLUSH_RESET", "AFTER_FLUSH_OK"}
  BY <1>4 DEF CmdInv, Pending, Flushing, NeedsCommand, NotOnlyTest, ReadStates
<1>5. CASE s.state \in {"IDLE", "ERROR", "PARSE_PREFIX", "PARSE_COMMAND_CHAR",
                        "UPDATE_COMMAND_STATE", "WAIT_READ_ACKNOWLEDGE",
                        "COMMAND_NOT_FOUND", "HOLD"}
  BY <1>5 DEF CmdInv, Pending, Flushing, NeedsCommand, NotOnlyTest, ReadStates
<1>6. Lists(r, s) => Pending(s) = "PRINT_CMD"
  BY DEF Lists, Pending, Flushing
<1> QED
  BY <1>1, <1>2, <1>3, <1>4, <1>5, <1>6

\* Ends that keep the command.
LEMMA CmdKept ==
  ASSUME NEW r, NEW s, s.cmd = r.cmd, r.cmd \in Enabled,
         s.state # "SEARCH_COMMAND",
         Pending(s) \in NotOnlyTest => ~Command_of(r).only_test
  PROVE  CmdInv(s)
BY DEF CmdInv, Command_of

LEMMA ReadMoveCmd ==
  ASSUME NEW r, NEW s, ReadMove(AT, r, s), r.cmd \in Enabled, ~Command_of(r).only_test
  PROVE  CmdInv(s)
<1>1. CASE Acked(r, s)
  BY <1>1, CmdNotNeeded
<1>2. CASE Responds(r, s, ReadStates \cup {"AFTER_FLUSH_OK"})
  <2>1. s.state # "SEARCH_COMMAND"
    BY <1>2 DEF Responds, Pending, Flushing, ReadStates
  <2> QED
    BY <1>2, <2>1, CmdKept DEF Responds, Kept
<1> QED
  BY <1>1, <1>2 DEF ReadMove, Ended

LEMMA TestMoveCmd ==
  ASSUME NEW r, NEW s, TestMove(AT, r, s), r.cmd \in Enabled
  PROVE  CmdInv(s)
<1>1. CASE Acked(r, s)
  BY <1>1, CmdNotNeeded
<1>2. CASE Responds(r, s, TestStates \cup {"AFTER_FLUSH_OK"})
  <2>1. s.state # "SEARCH_COMMAND" /\ Pending(s) \notin NotOnlyTest
    BY <1>2 DEF Responds, Pending, Flushing, TestStates, NotOnlyTest, ReadStates
  <2> QED
    BY <1>2, <2>1, CmdKept DEF Responds, Kept
<1> QED
  BY <1>1, <1>2 DEF TestMove, Ended

LEMMA ReadingCmd ==
  ASSUME NEW r, NEW s, NEW d, CmdInv(r), ReadingMove(r, s, d)
  PROVE  CmdInv(s)
<1>1. CASE s = r
  BY <1>1
<1>2. CASE Acked(r, s) \/ Searches(s)
  BY <1>2, CmdNotNeeded
<1>3. CASE s.state \in {"ERROR", "PARSE_PREFIX", "PARSE_COMMAND_CHAR",
                        "UPDATE_COMMAND_STATE", "WAIT_READ_ACKNOWLEDGE"}
  BY <1>3, CmdNotNeeded
<1>4. CASE r.state = "WAIT_TEST_ACKNOWLEDGE" /\ TestMove(AT, r, s)
  <2>1. r.cmd \in Enabled
    BY <1>4 DEF CmdInv, Pending, Flushing, NeedsCommand
  <2> QED
    BY <1>4, <2>1, TestMoveCmd
<1>5. CASE /\ r.state = "PARSE_COMMAND_ARGS" /\ s.cmd = r.cmd
           /\ s.state \in {"PARSE_WRITE_ARGS", "WRITE_LOOP", "WAIT_TEST_ACKNOWLEDGE",
                           "PARSE_COMMAND_ARGS"}
           /\ s.state \in {"PARSE_WRITE_ARGS", "WRITE_LOOP"} => ~Command_of(r).only_test
  <2>1. r.cmd \in Enabled
    BY <1>5 DEF CmdInv, Pending, Flushing, NeedsCommand
  <2>2. Pending(s) \in NotOnlyTest => ~Command_of(r).only_test
    BY <1>5 DEF Pending, Flushing, NotOnlyTest, ReadStates
  <2> QED
    BY <1>5, <2>1, <2>2, CmdKept
<1> QED
  BY <1>1, <1>2, <1>3, <1>4, <1>5 DEF ReadingMove, Goes, Kept

LEMMA NameCmd ==
  ASSUME NEW r, NEW s, NEW c, CmdInv(r), NameMove(r, s, c)
  PROVE  CmdInv(s)
<1>1. CASE r.state = "UPDATE_COMMAND_STATE"
  BY <1>1, CmdNotNeeded DEF NameMove, Goes
<1>2. CASE r.state = "SEARCH_COMMAND"
  <2>1. s.cmd \in Enabled \cup {NoCmd}
    BY <1>2 DEF NameMove, CmdInv
  <2>2. CASE s.state = "SEARCH_COMMAND"
    BY <2>1, <2>2 DEF CmdInv, Pending, Flushing, NeedsCommand, NotOnlyTest, ReadStates
  <2>3. CASE s.state = "COMMAND_FOUND" /\ s.cmd # NoCmd
    BY <2>1, <2>3 DEF CmdInv, Pending, Flushing, NeedsCommand, NotOnlyTest, ReadStates
  <2> QED
    BY <1>2, <2>2, <2>3, CmdNotNeeded DEF NameMove
<1>3. CASE r.state = "COMMAND_FOUND"
  <2>1. r.cmd \in Enabled
    BY <1>3 DEF CmdInv, Pending, Flushing, NeedsCommand
  <2>2. CASE Goes(r, s, {"RUN_LOOP"}) /\ ~Command_of(r).only_test
    BY <2>1, <2>2, CmdKept DEF Goes, Kept
  <2>3. CASE Goes(r, s, {"PARSE_COMMAND_ARGS"})
    <3>1. s.state # "SEARCH_COMMAND" /\ Pending(s) \notin NotOnlyTest
      BY <2>3 DEF Goes, Pending, Flushing, NotOnlyTest, ReadStates
    <3> QED
      BY <2>1, <2>3, <3>1, CmdKept DEF Goes, Kept
  <2> QED
    BY <1>3, <2>1, <2>2, <2>3, CmdNotNeeded, ReadMoveCmd DEF NameMove
<1> QED
  BY <1>1, <1>2, <1>3, CmdNotNeeded DEF NameMove

LEMMA HandlerCmd ==
  ASSUME NEW r, NEW s, CmdInv(r), HandlerMove(r, s)
  PROVE  CmdInv(s)
<1>1. CASE r.state = "PARSE_WRITE_ARGS" /\ Goes(r, s, {"PARSE_WRITE_ARGS", "WRITE_LOOP"})
  <2>1. r.cmd \in Enabled /\ ~Command_of(r).only_test
    BY <1>1 DEF CmdInv, Pending, Flushing, NeedsCommand, NotOnlyTest
  <2> QED
    BY <1>1, <2>1, CmdKept DEF Goes, Kept
<1>2. CASE s = r
  BY <1>2
<1> QED
  BY <1>1, <1>2, CmdNotNeeded DEF HandlerMove

LEMMA SharedCmd ==
  ASSUME NEW r, NEW s, CmdInv(r), SharedMove(AT, r, s),
         r.state \in Flushing => r.write_state_after \in AfterFlushState(AT)
  PROVE  CmdInv(s)
<1>1. CASE r.state \in ReadStates /\ ReadMove(AT, r, s)
  <2>1. r.cmd \in Enabled /\ ~Command_of(r).only_test
    BY <1>1 DEF CmdInv, Pending, Flushing, NeedsCommand, NotOnlyTest, ReadStates
  <2> QED
    BY <1>1, <2>1, ReadMoveCmd
<1>2. CASE r.state \in TestStates /\ TestMove(AT, r, s)
  <2>1. r.cmd \in Enabled
    BY <1>2 DEF CmdInv, Pending, Flushing, NeedsCommand, TestStates
  <2> QED
    BY <1>2, <2>1, TestMoveCmd
<1>3. CASE r.state \in Flushing /\ s.cmd = r.cmd /\ Pending(s) = Pending(r)
           /\ s.state # "SEARCH_COMMAND"
  BY <1>3 DEF CmdInv, Command_of
<1>4. CASE r.state \in Flushing /\ s # r
  <2>1. /\ s.cmd = r.cmd
        /\ \/ s.state = "FLUSH_IO_WRITE" /\ s.write_state_after = r.write_state_after
           \/ s.state = r.write_state_after
    BY <1>4 DEF SharedMove, TakesLine, Goes, Writes, Kept, Flushing, ReadStates, TestStates
  <2>2. r.write_state_after \notin {"SEARCH_COMMAND"} \cup Flushing
    BY <1>4 DEF AfterFlushState, Flushing
  <2>3. Pending(s) = Pending(r) /\ s.state # "SEARCH_COMMAND"
    BY <1>4, <2>1, <2>2 DEF Pending, Flushing
  <2> QED
    BY <1>3, <1>4, <2>1, <2>3
<1>5. CASE r.state \notin ReadStates \cup TestStates \cup Flushing
  BY <1>5, CmdNotNeeded DEF SharedMove, Ended, Flushing
<1> QED
  BY <1>1, <1>2, <1>4, <1>5, CmdNotNeeded DEF SharedMove, Flushing, ReadStates, TestStates

LEMMA CmdInvStep ==
  ASSUME IInv, CmdInv(fsm[AT]), [Next]_vars
  PROVE  CmdInv(fsm'[AT])
<1> DEFINE r == fsm[AT]
<1>1. r.state \in Flushing => r.write_state_after \in AfterFlushState(AT)
  BY BufSizeFacts, MachineFacts DEF IInv, MachineOK
<1>2. HoldMove(AT) \/ HoldMove(UN) => CmdInv(fsm'[AT])
  BY CmdNotNeeded DEF HoldMove
<1>3. UNCHANGED fsm => CmdInv(fsm'[AT])
  OBVIOUS
<1>4. CASE AtStepMoves
  <2>1. ASSUME NEW s, Becomes(AT, s),
               \/ ReadingMove(r, s, current_char') \/ NameMove(r, s, current_char)
               \/ HandlerMove(r, s) \/ SharedMove(AT, r, s)
        PROVE  CmdInv(fsm'[AT])
    <3>1. CmdInv(s)
      BY <1>1, <2>1, ReadingCmd, NameCmd, HandlerCmd, SharedCmd
    <3> QED
      BY <2>1, <3>1, OtherUnchanged
  <2> QED
    BY <1>2, <1>3, <1>4, <2>1 DEF AtStepMoves, at
<1>5. ASSUME NEW s, Becomes(UN, s)
      PROVE  CmdInv(fsm'[AT])
  BY <1>5, OtherUnchanged
<1> QED
  BY <1>2, <1>3, <1>4, <1>5, StepMoves DEF SharedStepMoves, TakesEvent, AcceptsEvent, vars

\* No handler of a disabled command runs for a typed line, and of a test-only
\* command only the test handler, for every table: command_found,
\* parse_command_args and the loops never test the flags again.
THEOREM EnabledOnlyHolds == Spec => []EnabledOnly
<1>1. Init => CmdInv(fsm[AT])
  <2> SUFFICES ASSUME Init
               PROVE  CmdInv(fsm[AT])
    OBVIOUS
  <2>1. fsm[AT].state = "IDLE"
    BY BufSizeFacts DEF Init, InitialFsm
  <2> QED
    BY <2>1, CmdNotNeeded
<1>2. IInv /\ CmdInv(fsm[AT]) /\ [Next]_vars => CmdInv(fsm[AT])'
  BY CmdInvStep
<1>3. CmdInv(fsm[AT]) => EnabledOnly
  <2> SUFFICES ASSUME CmdInv(fsm[AT])
               PROVE  EnabledOnly
    OBVIOUS
  <2>1. fsm[AT].state \in NeedsCommand => fsm[AT].cmd \in Enabled
    BY DEF CmdInv, Pending, Flushing, NeedsCommand
  <2>2. fsm[AT].state \in {"RUN_LOOP", "READ_LOOP", "WRITE_LOOP"} =>
          ~Command_of(fsm[AT]).only_test
    BY DEF CmdInv, Pending, Flushing, NotOnlyTest, ReadStates
  <2> QED
    BY <2>1, <2>2 DEF EnabledOnly, Enabled
<1> QED
  BY <1>1, <1>2, <1>3, IInvHolds, PTL DEF Spec

-----------------------------------------------------------------------------
(* The events, in order.                                                   *)

\* The unsolicited machine has a command exactly while it is not idle.
UnInv == fsm[UN].state = "IDLE" <=> fsm[UN].cmd = NoCmd

\* It keeps its event until it is done with it.
LEMMA UnsolicitedMove ==
  ASSUME NEW r, NEW s, SharedMove(UN, r, s),
         r.state \in Flushing => r.write_state_after \in AfterFlushState(UN)
  PROVE  r.state # "IDLE" /\ (Reset(s) \/ (Kept(r, s) /\ s.state # "IDLE"))
<1>1. \A S : Responds(r, s, S) /\ "IDLE" \notin S => Kept(r, s) /\ s.state # "IDLE"
  BY DEF Responds, Pending, Flushing
<1>2. r.state \in Flushing => r.write_state_after # "IDLE"
  BY DEF AfterFlushState
<1>3. Ended(UN, r, s) => Reset(s)
  BY BufSizeFacts DEF Ended
<1>4. UN # AT
  BY BufSizeFacts
<1>5. CASE r.state \in Flushing
  BY <1>2, <1>4, <1>5 DEF SharedMove, TakesLine, Goes, Writes, Kept, Flushing,
     ReadStates, TestStates
<1>6. CASE r.state \notin Flushing
  <2>1. /\ r.state \in {"AFTER_FLUSH_OK", "AFTER_FLUSH_RESET"} \cup ReadStates \cup TestStates
        /\ \/ Reset(s)
           \/ Responds(r, s, ReadStates \cup {"AFTER_FLUSH_OK"})
           \/ Responds(r, s, TestStates \cup {"AFTER_FLUSH_OK"})
    BY <1>3, <1>4, <1>6 DEF SharedMove, ReadMove, TestMove, Flushing
  <2>2. "IDLE" \notin ReadStates \cup TestStates \cup {"AFTER_FLUSH_OK"}
    BY DEF ReadStates, TestStates
  <2> QED
    BY <1>1, <2>1, <2>2 DEF ReadStates, TestStates
<1> QED
  BY <1>5, <1>6

LEMMA EventStep ==
  ASSUME IInv, UnInv, [Next]_vars
  PROVE  UnInv' /\ [Fifo!Next]_(Fifo!fifo)
<1> USE DEF Fifo!Next, Fifo!fifo
<1>1. /\ queue \in Seq(CmdIds \X {"READ", "TEST"})
      /\ fsm[UN].state \in Flushing => fsm[UN].write_state_after \in AfterFlushState(UN)
  BY BufSizeFacts, MachineFacts DEF IInv, RestInv, MachineOK
<1>2. CASE UNCHANGED queue /\ fsm'[UN].state = fsm[UN].state /\ Kept(fsm[UN], fsm'[UN])
  BY <1>2 DEF UnInv, Processed, Kept
<1>3. ASSUME NEW s, Becomes(UN, s), SharedMove(UN, fsm[UN], s), UNCHANGED queue
      PROVE  UnInv' /\ [Fifo!Next]_(Fifo!fifo)
  <2>1. fsm'[UN] = s
    BY <1>3, OtherUnchanged
  <2>2. /\ fsm[UN].cmd # NoCmd
        /\ Reset(s) \/ (Kept(fsm[UN], s) /\ s.state # "IDLE")
    BY <1>1, <1>3, UnsolicitedMove DEF UnInv
  <2>3. CASE Reset(s)
    <3>1. Processed = <<fsm[UN].cmd, fsm[UN].cmd_type>> /\ Processed' = <<NoCmd, "NONE">>
      BY <2>1, <2>2, <2>3 DEF Processed, Reset
    <3>2. Fifo!Finish
      BY <1>3, <2>2, <3>1 DEF Fifo!Finish
    <3> QED
      BY <2>1, <2>3, <3>2 DEF UnInv, Reset
  <2>4. CASE Kept(fsm[UN], s) /\ s.state # "IDLE"
    BY <1>3, <2>1, <2>2, <2>4 DEF UnInv, Processed, Kept
  <2> QED
    BY <2>2, <2>3, <2>4
<1>4. CASE TakesEvent
  <2>1. PICK r, s : /\ Becomes(UN, s)
                    /\ <<r.cmd, r.cmd_type>> = Head(queue)
                    /\ ReadMove(UN, r, s) \/ TestMove(UN, r, s)
    BY <1>4 DEF TakesEvent
  <2>2. fsm'[UN] = s /\ Processed = <<NoCmd, "NONE">> /\ fsm[UN].state = "IDLE"
    BY <1>4, <2>1, OtherUnchanged DEF UnInv, Processed, TakesEvent
  <2>3. Head(queue) \in CmdIds \X {"READ", "TEST"} /\ NoCmd \notin CmdIds
    BY <1>1, <1>4, NumCmdsAssumption DEF TakesEvent, CmdIds, NoCmd
  <2>4. r.cmd # NoCmd
    BY <2>1, <2>3
  <2>5. CASE Reset(s)
    <3>1. Processed' = <<NoCmd, "NONE">> /\ UnInv'
      BY <2>2, <2>5 DEF Processed, Reset, UnInv
    <3> QED
      BY <1>4, <2>2, <3>1 DEF TakesEvent, Fifo!Take
  <2>6. CASE Kept(r, s) /\ s.state # "IDLE"
    <3>1. Processed' = Head(queue) /\ UnInv'
      BY <2>1, <2>2, <2>4, <2>6 DEF Processed, Kept, UnInv
    <3> QED
      BY <1>4, <2>2, <3>1 DEF TakesEvent, Fifo!Take
  <2>7. Reset(s) \/ (Kept(r, s) /\ s.state # "IDLE")
    BY <2>1, BufSizeFacts DEF ReadMove, TestMove, Ended, Responds, Pending, Flushing,
       ReadStates, TestStates
  <2> QED
    BY <2>5, <2>6, <2>7
<1>5. CASE AcceptsEvent
  <2>1. UnInv' /\ UNCHANGED Processed
    BY <1>5 DEF AcceptsEvent, UnInv, Processed
  <2> QED
    BY <1>5, <2>1 DEF AcceptsEvent, Fifo!Accept
<1>6. HoldMove(AT) \/ HoldMove(UN) =>
        fsm'[UN].state = fsm[UN].state /\ Kept(fsm[UN], fsm'[UN])
  BY DEF HoldMove
<1>7. ASSUME NEW s, Becomes(AT, s)
      PROVE  fsm'[UN].state = fsm[UN].state /\ Kept(fsm[UN], fsm'[UN])
  BY <1>7, OtherUnchanged DEF Kept
<1>8. UNCHANGED fsm => fsm'[UN].state = fsm[UN].state /\ Kept(fsm[UN], fsm'[UN])
  BY DEF Kept
<1>9. CASE Next
  <2>1. AtStepMoves => fsm'[UN].state = fsm[UN].state /\ Kept(fsm[UN], fsm'[UN])
    BY <1>6, <1>7, <1>8 DEF AtStepMoves
  <2>2. CASE SharedStepMoves(UN) /\ UNCHANGED queue
    BY <1>2, <1>3, <1>6, <2>2 DEF SharedStepMoves
  <2> QED
    BY <1>2, <1>4, <1>5, <1>8, <1>9, <2>1, <2>2, StepMoves
<1>10. CASE UNCHANGED vars
  BY <1>2, <1>8, <1>10 DEF vars
<1> QED
  BY <1>9, <1>10

\* Whatever the command machine does meanwhile, and for every table and buffer
\* size, events are processed in the order in which they were accepted, one at
\* a time, none twice and none that was not accepted. (That each is processed
\* in the end is liveness, the other half of EventsInOrder.)
THEOREM EventsImplementFifo == Spec => Fifo!Spec
<1>1. Init => Fifo!Init /\ UnInv
  <2> SUFFICES ASSUME Init
               PROVE  Fifo!Init /\ UnInv
    OBVIOUS
  <2>1. fsm[UN].cmd = NoCmd /\ fsm[UN].state = "IDLE"
    BY BufSizeFacts DEF Init, InitialFsm
  <2> QED
    BY <2>1 DEF Init, Fifo!Init, Processed, UnInv
<1>2. IInv /\ UnInv /\ [Next]_vars => UnInv' /\ [Fifo!Next]_(Fifo!fifo)
  BY EventStep
<1> QED
  BY <1>1, <1>2, IInvHolds, PTL DEF Spec, Fifo!Spec

-----------------------------------------------------------------------------
(* The line protocol.  The last character read tells whether the line has  *)
(* ended; LineInv says which states it fits.                               *)

LineStates == {"ERROR", "PARSE_PREFIX", "PARSE_COMMAND_CHAR", "UPDATE_COMMAND_STATE",
               "WAIT_READ_ACKNOWLEDGE", "WAIT_TEST_ACKNOWLEDGE", "PARSE_COMMAND_ARGS"}

BusyStates == ReadStates \cup TestStates \cup
              {"RUN_LOOP", "PARSE_WRITE_ARGS", "WRITE_LOOP", "AFTER_FLUSH_OK", "PRINT_CMD"}

\* The type of a resolved line tells whether its end was read: a write command
\* is resolved at its "=", or where an implicit one is complete.
TypeFits(r, c) ==
  \/ r.cmd_type = "WRITE" /\ c # "NL"
  \/ r.cmd_type \in {"RUN", "READ"} /\ c = "NL"

LineInv(r, c) ==
  /\ r.state \in LineStates => c # "NL"
  /\ Pending(r) \in BusyStates => c = "NL"
  /\ r.state \in {"PARSE_COMMAND_CHAR", "UPDATE_COMMAND_STATE"} => r.cmd_type = "RUN"
  /\ r.state = "WAIT_READ_ACKNOWLEDGE" => r.cmd_type = "READ"
  /\ r.state \in {"SEARCH_COMMAND", "COMMAND_FOUND"} => TypeFits(r, c)

PhaseOf(r, c) ==
  CASE r.state = "IDLE" -> "idle"
    [] r.state = "HOLD" -> "hold"
    [] r.state = "AFTER_FLUSH_RESET" -> "done"
    [] r.state \in Flushing /\ r.write_state_after = "AFTER_FLUSH_RESET" ->
         IF c = "NL" THEN "result" ELSE "early"
    [] OTHER -> IF c = "NL" THEN "busy" ELSE "line"

\* Steps of the phase that involve no output.
Turns(p, q, refused) ==
  \/ q = p
  \/ p = "idle" /\ q = "line"
  \/ p = "line" /\ q \in {"busy", "result"}
  \/ p = "busy" /\ q = "result"
  \/ p = "line" /\ q = "early" /\ refused
  \/ p = "done" /\ q = "idle"
  \/ p = "hold" /\ q \in {"result", "early"}

\* A step of the command machine that involves no output.
QuietMove(r, s, c, d, refused) ==
  /\ LineInv(s, d)
  /\ Turns(PhaseOf(r, c), PhaseOf(s, d), refused)
  /\ r.state # "FLUSH_IO_WRITE" /\ s.state # "FLUSH_IO_WRITE"

\* The machine is neither between lines, nor on hold, nor writing a result.
Working(r) ==
  /\ r.state \notin {"IDLE", "HOLD", "AFTER_FLUSH_RESET"}
  /\ r.state \in Flushing => r.write_state_after # "AFTER_FLUSH_RESET"

LEMMA PhaseWorking ==
  ASSUME NEW r, NEW c, Working(r)
  PROVE  PhaseOf(r, c) = IF c = "NL" THEN "busy" ELSE "line"
BY DEF PhaseOf, Working, Flushing

LEMMA AckArrives ==
  ASSUME NEW r, NEW s, NEW d, Acked(r, s)
  PROVE  /\ LineInv(s, d) /\ s.state # "FLUSH_IO_WRITE"
         /\ PhaseOf(s, d) = IF d = "NL" THEN "result" ELSE "early"
<1>1. s.state = "FLUSH_IO_WRITE_WAIT" /\ Pending(s) = "AFTER_FLUSH_RESET"
  BY DEF Acked, Pending, Flushing
<1>2. LineInv(s, d)
  BY <1>1 DEF LineInv, LineStates, BusyStates, ReadStates, TestStates
<1> QED
  BY <1>1, <1>2 DEF PhaseOf, Acked, Flushing

LEMMA BusyArrives ==
  ASSUME NEW s, Pending(s) \in BusyStates, s.state # "FLUSH_IO_WRITE"
  PROVE  /\ LineInv(s, "NL") /\ PhaseOf(s, "NL") = "busy"
<1>1. s.state \in BusyStates \cup {"FLUSH_IO_WRITE_WAIT"}
  BY DEF Pending, Flushing
<1>2. LineInv(s, "NL")
  BY <1>1 DEF LineInv, LineStates, BusyStates, ReadStates, TestStates
<1>3. Working(s)
  BY <1>1 DEF Working, Pending, Flushing, BusyStates, ReadStates, TestStates
<1> QED
  BY <1>2, <1>3, PhaseWorking

LEMMA LineArrives ==
  ASSUME NEW s, NEW d, d # "NL", s.state \in LineStates,
         s.state \in {"PARSE_COMMAND_CHAR", "UPDATE_COMMAND_STATE"} => s.cmd_type = "RUN",
         s.state = "WAIT_READ_ACKNOWLEDGE" => s.cmd_type = "READ"
  PROVE  LineInv(s, d) /\ PhaseOf(s, d) = "line" /\ s.state # "FLUSH_IO_WRITE"
<1>1. Working(s) /\ s.state # "FLUSH_IO_WRITE" /\ Pending(s) \notin BusyStates
  BY DEF Working, LineStates, Flushing, Pending, BusyStates, ReadStates, TestStates
<1> QED
  BY <1>1, PhaseWorking DEF LineInv, LineStates

\* States of the search, and of what it found.
LEMMA SearchArrives ==
  ASSUME NEW s, NEW d,
         s.state \in {"SEARCH_COMMAND", "COMMAND_FOUND", "COMMAND_NOT_FOUND"},
         TypeFits(s, d)
  PROVE  /\ LineInv(s, d) /\ s.state # "FLUSH_IO_WRITE"
         /\ PhaseOf(s, d) = IF d = "NL" THEN "busy" ELSE "line"
<1>1. Working(s) /\ s.state # "FLUSH_IO_WRITE" /\ Pending(s) \notin BusyStates
  BY DEF Working, Flushing, Pending, BusyStates, ReadStates, TestStates
<1> QED
  BY <1>1, PhaseWorking DEF LineInv, LineStates

LEMMA ReadMoveLine ==
  ASSUME NEW r, NEW s, ReadMove(AT, r, s) \/ TestMove(AT, r, s)
  PROVE  /\ LineInv(s, "NL") /\ PhaseOf(s, "NL") \in {"busy", "result"}
         /\ s.state # "FLUSH_IO_WRITE"
<1>1. Responds(r, s, ReadStates \cup {"AFTER_FLUSH_OK"})
        \/ Responds(r, s, TestStates \cup {"AFTER_FLUSH_OK"})
      => Pending(s) \in BusyStates /\ s.state # "FLUSH_IO_WRITE"
  BY DEF Responds, BusyStates
<1> QED
  BY <1>1, AckArrives, BusyArrives DEF ReadMove, TestMove, Ended

LEMMA ReadingLine ==
  ASSUME NEW r, NEW s, NEW c, NEW d, LineInv(r, c), ReadingMove(r, s, d)
  PROVE  QuietMove(r, s, c, d, FALSE)
<1>1. r.state \in {"IDLE"} \cup LineStates
  BY DEF ReadingMove, LineStates
<1>2. /\ r.state # "FLUSH_IO_WRITE"
      /\ r.state = "IDLE" => PhaseOf(r, c) = "idle"
      /\ r.state # "IDLE" => PhaseOf(r, c) = "line"
  <2>1. r.state # "IDLE" => Working(r) /\ c # "NL"
    BY <1>1 DEF LineInv, LineStates, Working, Flushing
  <2>2. r.state # "IDLE" => PhaseOf(r, c) = "line"
    BY <2>1, PhaseWorking
  <2>3. r.state = "IDLE" => PhaseOf(r, c) = "idle"
    BY DEF PhaseOf, Flushing
  <2>4. r.state # "FLUSH_IO_WRITE"
    BY <1>1 DEF LineStates
  <2> QED
    BY <2>2, <2>3, <2>4
<1>3. CASE s.state \in LineStates /\ d # "NL"
  <2>1. r.cmd_type = "RUN" \/ r.state \notin {"PARSE_COMMAND_CHAR", "UPDATE_COMMAND_STATE"}
    BY DEF LineInv
  <2>2. /\ s.state \in {"PARSE_COMMAND_CHAR", "UPDATE_COMMAND_STATE"} => s.cmd_type = "RUN"
        /\ s.state = "WAIT_READ_ACKNOWLEDGE" => s.cmd_type = "READ"
    BY <1>3, <2>1 DEF ReadingMove, Goes, Kept, Searches, LineStates
  <2> QED
    BY <1>2, <1>3, <2>2, LineArrives DEF QuietMove, Turns
<1>4. CASE Acked(r, s) /\ d = "NL" /\ r.state # "IDLE"
  BY <1>2, <1>4, AckArrives DEF QuietMove, Turns
<1>5. CASE r.state = "IDLE" /\ s = r
  <2>1. LineInv(r, d) /\ PhaseOf(r, d) = "idle"
    BY <1>5 DEF LineInv, LineStates, Pending, Flushing, BusyStates, ReadStates,
       TestStates, PhaseOf
  <2> QED
    BY <1>2, <1>5, <2>1 DEF QuietMove, Turns
<1>6. CASE /\ s.state = "SEARCH_COMMAND" /\ TypeFits(s, d) /\ r.state # "IDLE"
  BY <1>2, <1>6, SearchArrives DEF QuietMove, Turns
<1>7. CASE d = "NL" /\ r.state = "WAIT_TEST_ACKNOWLEDGE" /\ TestMove(AT, r, s)
  BY <1>2, <1>7, ReadMoveLine DEF QuietMove, Turns
<1>8. CASE d = "NL" /\ s.state \in {"PARSE_WRITE_ARGS", "WRITE_LOOP"}
           /\ r.state = "PARSE_COMMAND_ARGS"
  <2>1. Pending(s) \in BusyStates /\ s.state # "FLUSH_IO_WRITE"
    BY <1>8 DEF Pending, Flushing, BusyStates
  <2> QED
    BY <1>2, <1>8, <2>1, BusyArrives DEF QuietMove, Turns
<1>9. CASE r.state \in {"ERROR", "IDLE", "PARSE_PREFIX"}
  BY <1>3, <1>4, <1>5, <1>9 DEF ReadingMove, Goes, LineStates
<1>10. CASE r.state \in {"PARSE_COMMAND_CHAR", "WAIT_READ_ACKNOWLEDGE"}
  <2>1. r.cmd_type \in {"RUN", "READ"}
    BY <1>10 DEF LineInv
  <2>2. \/ s.state \in LineStates /\ d # "NL"
        \/ Acked(r, s) /\ d = "NL"
        \/ s.state = "SEARCH_COMMAND" /\ TypeFits(s, d)
    BY <1>10, <2>1 DEF ReadingMove, Goes, LineStates, Searches, TypeFits
  <2> QED
    BY <1>3, <1>4, <1>6, <1>10, <2>2
<1>11. CASE r.state \in {"WAIT_TEST_ACKNOWLEDGE", "PARSE_COMMAND_ARGS"}
  BY <1>3, <1>4, <1>7, <1>8, <1>11 DEF ReadingMove, Goes, LineStates
<1> QED
  BY <1>1, <1>9, <1>10, <1>11 DEF ReadingMove

\* An early result can only come from a name that was not resolved.
LEMMA NameLine ==
  ASSUME NEW r, NEW s, NEW c, LineInv(r, c), NameMove(r, s, c)
  PROVE  QuietMove(r, s, c, c, r.state = "COMMAND_NOT_FOUND" /\ c # "NL")
<1>1. /\ r.state \in {"UPDATE_COMMAND_STATE", "SEARCH_COMMAND", "COMMAND_FOUND",
                      "COMMAND_NOT_FOUND"}
      /\ r.state # "FLUSH_IO_WRITE"
  BY DEF NameMove
<1>2. PhaseOf(r, c) = IF c = "NL" THEN "busy" ELSE "line"
  BY <1>1, PhaseWorking DEF Working, Flushing
<1>3. CASE r.state = "UPDATE_COMMAND_STATE"
  <2>1. c # "NL" /\ r.cmd_type = "RUN"
    BY <1>3 DEF LineInv, LineStates
  <2>2. CASE Goes(r, s, {"UPDATE_COMMAND_STATE", "PARSE_COMMAND_CHAR"})
    BY <1>1, <1>2, <2>1, <2>2, LineArrives DEF QuietMove, Turns, Goes, Kept, LineStates
  <2>3. CASE Searches(s) /\ s.cmd_type = "WRITE"
    BY <1>1, <1>2, <2>1, <2>3, SearchArrives DEF QuietMove, Turns, Searches, TypeFits
  <2> QED
    BY <1>3, <2>2, <2>3 DEF NameMove
<1>4. CASE r.state = "SEARCH_COMMAND"
  <2>1. TypeFits(s, c)
    BY <1>4 DEF LineInv, NameMove, TypeFits
  <2>2. CASE s.state = "ERROR" /\ c # "NL"
    BY <1>1, <1>2, <2>2, LineArrives DEF QuietMove, Turns, LineStates
  <2>3. CASE s.state \in {"SEARCH_COMMAND", "COMMAND_FOUND", "COMMAND_NOT_FOUND"}
    BY <1>1, <1>2, <2>1, <2>3, SearchArrives DEF QuietMove, Turns
  <2> QED
    BY <1>4, <2>2, <2>3 DEF NameMove
<1>5. CASE r.state = "COMMAND_FOUND"
  <2>1. TypeFits(r, c)
    BY <1>5 DEF LineInv
  <2>2. CASE r.cmd_type \in {"RUN", "READ"} /\ Acked(r, s)
    BY <1>1, <1>2, <2>1, <2>2, AckArrives DEF QuietMove, Turns, TypeFits
  <2>3. CASE r.cmd_type = "RUN" /\ Goes(r, s, {"RUN_LOOP"})
    <3>1. c = "NL" /\ Pending(s) \in BusyStates /\ s.state # "FLUSH_IO_WRITE"
      BY <2>1, <2>3 DEF TypeFits, Goes, Pending, Flushing, BusyStates
    <3> QED
      BY <1>1, <1>2, <3>1, BusyArrives DEF QuietMove, Turns
  <2>4. CASE r.cmd_type = "READ" /\ ReadMove(AT, r, s)
    BY <1>1, <1>2, <2>1, <2>4, ReadMoveLine DEF QuietMove, Turns, TypeFits
  <2>5. CASE r.cmd_type = "WRITE" /\ Goes(r, s, {"PARSE_COMMAND_ARGS"})
    BY <1>1, <1>2, <2>1, <2>5, LineArrives DEF QuietMove, Turns, TypeFits, Goes, LineStates
  <2> QED
    BY <1>5, <2>2, <2>3, <2>4, <2>5 DEF NameMove
<1>6. CASE r.state = "COMMAND_NOT_FOUND"
  BY <1>1, <1>2, <1>6, AckArrives DEF NameMove, QuietMove, Turns
<1> QED
  BY <1>1, <1>3, <1>4, <1>5, <1>6

LEMMA HandlerLine ==
  ASSUME NEW r, NEW s, NEW c, LineInv(r, c), HandlerMove(r, s)
  PROVE  QuietMove(r, s, c, c, FALSE)
<1>1. r.state \notin Flushing
  BY DEF HandlerMove, Flushing
<1>2. CASE s = r
  BY <1>1, <1>2 DEF QuietMove, Turns, Flushing
<1>3. CASE r.state = "HOLD" /\ Acked(r, s)
  BY <1>3, AckArrives DEF QuietMove, Turns, PhaseOf
<1>4. CASE r.state # "HOLD"
  <2>1. Pending(r) \in BusyStates /\ Working(r)
    BY <1>4 DEF HandlerMove, Pending, Flushing, BusyStates, Working
  <2>2. c = "NL" /\ PhaseOf(r, c) = "busy"
    BY <2>1, PhaseWorking DEF LineInv
  <2>3. CASE Acked(r, s)
    BY <1>1, <2>2, <2>3, AckArrives DEF QuietMove, Turns, Flushing
  <2>4. CASE Pending(s) \in BusyStates /\ s.state # "FLUSH_IO_WRITE"
    BY <1>1, <2>2, <2>4, BusyArrives DEF QuietMove, Turns, Flushing
  <2>5. CASE /\ s.state = "FLUSH_IO_WRITE_WAIT"
             /\ s.write_state_after = "AFTER_FLUSH_RESET"
    <3>1. Acked([cmd |-> s.cmd, cmd_type |-> s.cmd_type], s)
      BY <2>5 DEF Acked, Kept
    <3> QED
      BY <1>1, <2>2, <3>1, AckArrives DEF QuietMove, Turns, Flushing
  <2>6. \/ s = r \/ Acked(r, s)
        \/ Pending(s) \in BusyStates /\ s.state # "FLUSH_IO_WRITE"
        \/ s.state = "FLUSH_IO_WRITE_WAIT" /\ s.write_state_after = "AFTER_FLUSH_RESET"
    BY <1>4 DEF HandlerMove, Goes, Lists, Pending, Flushing, BusyStates
  <2> QED
    BY <1>2, <2>3, <2>4, <2>5, <2>6
<1> QED
  BY <1>2, <1>3, <1>4 DEF HandlerMove

LEMMA SharedLine ==
  ASSUME NEW r, NEW s, NEW c, LineInv(r, c), SharedMove(AT, r, s), r.state \notin Flushing
  PROVE  QuietMove(r, s, c, c, FALSE)
<1>1. r.state # "FLUSH_IO_WRITE"
  BY DEF Flushing
<1>2. CASE r.state = "AFTER_FLUSH_RESET"
  <2>1. Reset(s)
    BY <1>2 DEF SharedMove, ReadStates, TestStates
  <2>2. LineInv(s, c) /\ PhaseOf(s, c) = "idle" /\ s.state # "FLUSH_IO_WRITE"
    BY <2>1 DEF Reset, LineInv, LineStates, Pending, Flushing, BusyStates, ReadStates,
       TestStates, PhaseOf
  <2> QED
    BY <1>1, <1>2, <2>2 DEF QuietMove, Turns, PhaseOf
<1>3. CASE r.state # "AFTER_FLUSH_RESET"
  <2>1. r.state \in ReadStates \cup TestStates \cup {"AFTER_FLUSH_OK"}
    BY <1>3 DEF SharedMove, Flushing
  <2>2. Pending(r) \in BusyStates /\ Working(r)
    BY <2>1 DEF Pending, Flushing, BusyStates, Working, ReadStates, TestStates
  <2>3. c = "NL" /\ PhaseOf(r, c) = "busy"
    BY <2>2, PhaseWorking DEF LineInv
  <2>4. CASE ReadMove(AT, r, s) \/ TestMove(AT, r, s)
    BY <1>1, <2>3, <2>4, ReadMoveLine DEF QuietMove, Turns
  <2>5. CASE Lists(r, s)
    <3>1. Pending(s) \in BusyStates /\ s.state # "FLUSH_IO_WRITE"
      BY <2>5 DEF Lists, Pending, Flushing, BusyStates
    <3> QED
      BY <1>1, <2>3, <3>1, BusyArrives DEF QuietMove, Turns
  <2>6. Ended(AT, r, s) => ReadMove(AT, r, s)
    BY DEF ReadMove
  <2> QED
    BY <1>3, <2>1, <2>4, <2>5, <2>6 DEF SharedMove, ReadStates, TestStates
<1> QED
  BY <1>2, <1>3

\* While the line is written the phase stays; then a result is done.
FlushInv(r) == r.state \in Flushing => r.write_state_after \in AfterFlushState(AT)

LEMMA TakesLineMove ==
  ASSUME NEW r, NEW s, NEW c, LineInv(r, c), FlushInv(r),
         r.state = "FLUSH_IO_WRITE_WAIT", TakesLine(AT, r, s)
  PROVE  /\ LineInv(s, c) /\ s.state = "FLUSH_IO_WRITE"
         /\ PhaseOf(s, c) = PhaseOf(r, c)
         /\ PhaseOf(r, c) \in {"busy", "result", "early"}
<1>1. /\ s.state = "FLUSH_IO_WRITE" /\ s.write_state_after = r.write_state_after
      /\ r.write_state_after \in {"AFTER_FLUSH_RESET"} \cup BusyStates
  BY DEF TakesLine, Goes, FlushInv, Flushing, AfterFlushState, BusyStates, ReadStates,
     TestStates
<1>2. Pending(s) = Pending(r) /\ Pending(r) = r.write_state_after
  BY <1>1 DEF Pending, Flushing
<1>3. LineInv(s, c)
  BY <1>1, <1>2 DEF LineInv, LineStates
<1>4. CASE r.write_state_after = "AFTER_FLUSH_RESET"
  <2>1. /\ PhaseOf(r, c) = IF c = "NL" THEN "result" ELSE "early"
        /\ PhaseOf(s, c) = IF c = "NL" THEN "result" ELSE "early"
    BY <1>1, <1>4 DEF PhaseOf, Flushing
  <2> QED
    BY <1>1, <1>3, <2>1
<1>5. CASE r.write_state_after # "AFTER_FLUSH_RESET"
  <2>1. c = "NL" /\ Working(r) /\ Working(s)
    BY <1>1, <1>2, <1>5 DEF LineInv, Working
  <2> QED
    BY <1>1, <1>3, <2>1, PhaseWorking
<1> QED
  BY <1>4, <1>5

LEMMA WritesMove ==
  ASSUME NEW r, NEW s, NEW c, LineInv(r, c), FlushInv(r),
         r.state = "FLUSH_IO_WRITE", Writes(r, s)
  PROVE  /\ LineInv(s, c)
         /\ IF s.state = "FLUSH_IO_WRITE" THEN PhaseOf(s, c) = PhaseOf(r, c)
            ELSE PhaseOf(s, c) = IF PhaseOf(r, c) \in {"result", "early"} THEN "done"
                                 ELSE PhaseOf(r, c)
<1>1. /\ r.write_state_after \in {"AFTER_FLUSH_RESET"} \cup BusyStates
      /\ r.write_state_after \notin Flushing
  BY DEF FlushInv, Flushing, AfterFlushState, BusyStates, ReadStates, TestStates
<1>2. Pending(r) = r.write_state_after /\ Pending(s) = r.write_state_after
  BY <1>1 DEF Pending, Flushing, Writes
<1>3. r.write_state_after = "AFTER_FLUSH_RESET" =>
        PhaseOf(r, c) = IF c = "NL" THEN "result" ELSE "early"
  BY DEF PhaseOf, Flushing
<1>4. r.write_state_after # "AFTER_FLUSH_RESET" => c = "NL" /\ PhaseOf(r, c) = "busy"
  <2> SUFFICES ASSUME r.write_state_after # "AFTER_FLUSH_RESET"
               PROVE  c = "NL" /\ PhaseOf(r, c) = "busy"
    OBVIOUS
  <2>1. c = "NL" /\ Working(r)
    BY <1>1, <1>2 DEF LineInv, Working
  <2> QED
    BY <2>1, PhaseWorking
<1>5. CASE s.state = "FLUSH_IO_WRITE" /\ s.write_state_after = r.write_state_after
  <2>1. LineInv(s, c)
    BY <1>2, <1>5 DEF LineInv, LineStates
  <2>2. r.write_state_after = "AFTER_FLUSH_RESET" =>
          PhaseOf(s, c) = IF c = "NL" THEN "result" ELSE "early"
    BY <1>5 DEF PhaseOf, Flushing
  <2>3. r.write_state_after # "AFTER_FLUSH_RESET" => Working(s)
    BY <1>5 DEF Working
  <2> QED
    BY <1>3, <1>4, <1>5, <2>1, <2>2, <2>3, PhaseWorking
<1>6. CASE s.state = r.write_state_after
  <2>1. s.state # "FLUSH_IO_WRITE"
    BY <1>1, <1>6 DEF Flushing
  <2>2. CASE s.state = "AFTER_FLUSH_RESET"
    <3>1. LineInv(s, c) /\ PhaseOf(s, c) = "done"
      BY <1>2, <1>6, <2>2 DEF LineInv, LineStates, BusyStates, ReadStates, TestStates,
         PhaseOf, Flushing
    <3> QED
      BY <1>3, <1>6, <2>1, <2>2, <3>1
  <2>3. CASE s.state # "AFTER_FLUSH_RESET"
    <3>1. Pending(s) \in BusyStates
      BY <1>1, <1>2, <1>6, <2>3
    <3> QED
      BY <1>4, <1>6, <2>1, <2>3, <3>1, BusyArrives
  <2> QED
    BY <2>2, <2>3
<1> QED
  BY <1>5, <1>6 DEF Writes

\* A name refused before its line has ended is ambiguous.
RefusalInv ==
  fsm[AT].state = "COMMAND_NOT_FOUND" /\ current_char # "NL" => SomeAmbiguous

WriterOf(a, u) ==
  CASE a = "FLUSH_IO_WRITE" -> "response"
    [] u = "FLUSH_IO_WRITE" -> "event"
    [] OTHER -> "none"

\* What the step does to the states decides what the protocol sees.
LEMMA QuietStep ==
  ASSUME NEW s, fsm'[AT] = s, fsm'[UN].state = fsm[UN].state, RefusalInv,
         NEW d, current_char' = d,
         QuietMove(fsm[AT], s, current_char, d,
                   fsm[AT].state = "COMMAND_NOT_FOUND" /\ current_char # "NL")
  PROVE  LineInv(fsm[AT], current_char)' /\ [Protocol!Next]_(Protocol!protocol)
<1>1. /\ Phase = PhaseOf(fsm[AT], current_char) /\ Phase' = PhaseOf(s, d)
  BY DEF Phase, PhaseOf, at, Flushing
<1>2. Writer' = Writer
  BY DEF Writer, QuietMove
<1>3. LineInv(fsm[AT], current_char)'
  BY DEF QuietMove, LineInv, LineStates, TypeFits, Pending, Flushing, BusyStates,
     ReadStates, TestStates
<1>4. /\ Turns(Phase, Phase',
               fsm[AT].state = "COMMAND_NOT_FOUND" /\ current_char # "NL")
      /\ fsm[AT].state = "COMMAND_NOT_FOUND" /\ current_char # "NL" => SomeAmbiguous
  BY <1>1 DEF QuietMove, RefusalInv
<1>5. [Protocol!Next]_(Protocol!protocol)
  BY <1>2, <1>4 DEF Turns, Protocol!Next, Protocol!protocol, Protocol!ReadChar,
     Protocol!ReadEnd, Protocol!Decide, Protocol!RefuseName, Protocol!Close,
     Protocol!Release, Protocol!Results
<1> QED
  BY <1>3, <1>5

\* The record of a command machine put on hold.
LEMMA HoldArrives ==
  ASSUME NEW s, NEW d, s.state = "HOLD"
  PROVE  LineInv(s, d) /\ PhaseOf(s, d) = "hold"
BY DEF LineInv, LineStates, Pending, Flushing, BusyStates, ReadStates, TestStates, PhaseOf

LEMMA HoldStep ==
  ASSUME NEW f \in Fsm, HoldMove(f), LineInv(fsm[AT], current_char)
  PROVE  LineInv(fsm[AT], current_char)' /\ [Protocol!Next]_(Protocol!protocol)
<1> DEFINE s == fsm'[AT]
           d == current_char'
<1>1. /\ s.state = "HOLD" /\ fsm'[UN].state = fsm[UN].state
      /\ fsm[f].state \in {"RUN_LOOP", "WRITE_LOOP", "READ_LOOP", "TEST_LOOP"}
  BY DEF HoldMove
<1>2. LineInv(s, d) /\ PhaseOf(s, d) = "hold"
  BY <1>1, HoldArrives
<1>3. LineInv(fsm[AT], current_char)'
  BY <1>2 DEF LineInv, LineStates, TypeFits, Pending, Flushing, BusyStates, ReadStates,
     TestStates
<1>4. Phase = PhaseOf(fsm[AT], current_char) /\ Phase' = PhaseOf(s, d)
  BY DEF Phase, PhaseOf, at, Flushing
<1>5. f = AT \/ f = UN
  BY DEF Fsm
<1>6. Writer' = IF Writer = "response" THEN "none" ELSE Writer
  BY <1>1, <1>5 DEF Writer
<1>7. CASE fsm[AT].state = "HOLD"
  <2>1. Phase = "hold" /\ Writer # "response"
    BY <1>4, <1>7, HoldArrives DEF Writer
  <2> QED
    BY <1>2, <1>3, <1>4, <1>6, <2>1 DEF Protocol!protocol
<1>8. CASE fsm[AT].state # "HOLD"
  <2>1. Phase # "hold"
    BY <1>4, <1>8 DEF PhaseOf, Flushing
  <2> QED
    BY <1>2, <1>3, <1>4, <1>6, <2>1 DEF Protocol!Next, Protocol!Hold
<1> QED
  BY <1>7, <1>8

\* A step of the output of the command machine.
LEMMA FlushStep ==
  ASSUME NEW s, fsm'[AT] = s, fsm'[UN].state = fsm[UN].state, UNCHANGED current_char,
         LineInv(fsm[AT], current_char), FlushInv(fsm[AT]), OutputExclusion,
         SharedMove(AT, fsm[AT], s), fsm[AT].state \in Flushing
  PROVE  LineInv(fsm[AT], current_char)' /\ [Protocol!Next]_(Protocol!protocol)
<1> DEFINE r == fsm[AT]
           c == current_char
<1>1. Phase = PhaseOf(r, c) /\ Phase' = PhaseOf(s, c)
  BY DEF Phase, PhaseOf, at, Flushing
<1>2. LineInv(s, c) => LineInv(fsm[AT], current_char)'
  BY DEF LineInv, LineStates, TypeFits, Pending, Flushing, BusyStates, ReadStates,
     TestStates
<1>3. CASE r.state = "FLUSH_IO_WRITE_WAIT" /\ s = r
  <2>1. UNCHANGED Protocol!protocol
    BY <1>1, <1>3 DEF Protocol!protocol, Writer
  <2> QED
    BY <1>2, <1>3, <2>1
<1>4. CASE r.state = "FLUSH_IO_WRITE_WAIT" /\ TakesLine(AT, r, s)
  <2>1. /\ LineInv(s, c) /\ s.state = "FLUSH_IO_WRITE"
        /\ PhaseOf(s, c) = PhaseOf(r, c)
        /\ PhaseOf(r, c) \in {"busy", "result", "early"}
    BY <1>4, TakesLineMove
  <2>2. fsm[UN].state # "FLUSH_IO_WRITE"
    BY <1>4, BufSizeFacts DEF TakesLine, Other
  <2>3. Writer = "none" /\ Writer' = "response"
    BY <1>4, <2>1, <2>2 DEF Writer
  <2>4. Protocol!StartResponse
    BY <1>1, <2>1, <2>3 DEF Protocol!StartResponse, Protocol!Results
  <2> QED
    BY <1>2, <2>1, <2>4 DEF Protocol!Next
<1>5. CASE r.state = "FLUSH_IO_WRITE" /\ Writes(r, s)
  <2>1. /\ LineInv(s, c)
        /\ IF s.state = "FLUSH_IO_WRITE" THEN PhaseOf(s, c) = PhaseOf(r, c)
           ELSE PhaseOf(s, c) = IF PhaseOf(r, c) \in {"result", "early"} THEN "done"
                                ELSE PhaseOf(r, c)
    BY <1>5, WritesMove
  <2>2. Writer = "response" /\ fsm'[UN].state # "FLUSH_IO_WRITE"
    BY <1>5 DEF Writer, OutputExclusion
  <2>3. CASE s.state = "FLUSH_IO_WRITE"
    BY <1>1, <1>2, <2>1, <2>2, <2>3 DEF Protocol!protocol, Writer
  <2>4. CASE s.state # "FLUSH_IO_WRITE"
    <3>1. Writer' = "none"
      BY <2>2, <2>4 DEF Writer
    <3>2. Protocol!EndResponse
      BY <1>1, <2>1, <2>2, <2>4, <3>1 DEF Protocol!EndResponse, Protocol!Results
    <3> QED
      BY <1>2, <2>1, <3>2 DEF Protocol!Next
  <2> QED
    BY <2>3, <2>4
<1> QED
  BY <1>3, <1>4, <1>5 DEF SharedMove, Flushing, ReadStates, TestStates

\* A step of the unsolicited machine moves only the writer.
LEMMA UnStep ==
  ASSUME NEW s, fsm'[UN] = s, fsm'[AT] = fsm[AT], UNCHANGED current_char,
         LineInv(fsm[AT], current_char), OutputExclusion,
         fsm[UN].state \in Flushing => fsm[UN].write_state_after \in AfterFlushState(UN),
         SharedMove(UN, fsm[UN], s)
  PROVE  LineInv(fsm[AT], current_char)' /\ [Protocol!Next]_(Protocol!protocol)
<1> DEFINE r == fsm[UN]
<1>1. LineInv(fsm[AT], current_char)' /\ UNCHANGED Phase
  BY DEF LineInv, LineStates, TypeFits, Pending, Flushing, BusyStates, ReadStates,
     TestStates, Phase, at
<1>2. CASE r.state = "FLUSH_IO_WRITE_WAIT" /\ TakesLine(UN, r, s)
  <2>1. s.state = "FLUSH_IO_WRITE" /\ fsm[AT].state # "FLUSH_IO_WRITE"
    BY <1>2, BufSizeFacts DEF TakesLine, Other, Goes
  <2>2. Protocol!StartEvent
    BY <1>1, <1>2, <2>1 DEF Protocol!StartEvent, Writer
  <2> QED
    BY <1>1, <2>2 DEF Protocol!Next
<1>3. CASE r.state = "FLUSH_IO_WRITE" /\ s.state # "FLUSH_IO_WRITE"
  <2>1. Protocol!EndEvent
    BY <1>1, <1>3 DEF Protocol!EndEvent, Writer, OutputExclusion
  <2> QED
    BY <1>1, <2>1 DEF Protocol!Next
<1>4. CASE (r.state = "FLUSH_IO_WRITE") = (s.state = "FLUSH_IO_WRITE")
  BY <1>1, <1>4 DEF Protocol!protocol, Writer
<1>5. \A S : "FLUSH_IO_WRITE" \notin S /\ Responds(r, s, S) => s.state # "FLUSH_IO_WRITE"
  BY DEF Responds
<1>6. Ended(UN, r, s) => s.state # "FLUSH_IO_WRITE"
  BY BufSizeFacts DEF Ended, Reset
<1>7. r.state \notin Flushing => s.state # "FLUSH_IO_WRITE"
  BY <1>5, <1>6, BufSizeFacts DEF SharedMove, ReadMove, TestMove, ReadStates, TestStates,
     Flushing, Reset
<1>8. CASE r.state = "FLUSH_IO_WRITE_WAIT" /\ s = r
  BY <1>4, <1>8
<1>9. CASE r.state = "FLUSH_IO_WRITE" /\ s.state = "FLUSH_IO_WRITE"
  BY <1>4, <1>9
<1> QED
  BY <1>2, <1>3, <1>4, <1>7, <1>8, <1>9 DEF SharedMove, Flushing, ReadStates, TestStates

\* Every step is a step of the protocol, or none.
LEMMA ProtocolStep ==
  ASSUME IInv, LineInv(fsm[AT], current_char), RefusalInv, [Next]_vars
  PROVE  LineInv(fsm[AT], current_char)' /\ [Protocol!Next]_(Protocol!protocol)
<1> DEFINE r == fsm[AT]
           Refused == fsm[AT].state = "COMMAND_NOT_FOUND" /\ current_char # "NL"
           Good == LineInv(fsm[AT], current_char)' /\ [Protocol!Next]_(Protocol!protocol)
<1>1. /\ OutputExclusion /\ FlushInv(r) /\ AT \in Fsm /\ UN \in Fsm
      /\ fsm[UN].state \in Flushing => fsm[UN].write_state_after \in AfterFlushState(UN)
  BY BufSizeFacts DEF IInv, HandlersInv, MachinesInv, MachineOK, FlushInv
<1>2. CASE UNCHANGED <<fsm, current_char>>
  BY <1>2 DEF LineInv, LineStates, TypeFits, Pending, Flushing, BusyStates, ReadStates,
     TestStates, Protocol!protocol, Phase, Writer, at
<1>3. ASSUME NEW s, Becomes(AT, s), NEW d, current_char' = d,
             QuietMove(r, s, current_char, d, FALSE)
      PROVE  Good
  <2>1. QuietMove(r, s, current_char, d, Refused)
    BY <1>3 DEF QuietMove, Turns
  <2>2. fsm'[AT] = s /\ fsm'[UN] = fsm[UN]
    BY <1>3, OtherUnchanged
  <2> HIDE DEF Refused
  <2> QED
    BY <1>3, <2>1, <2>2, QuietStep DEF Refused
<1>4. CASE AtStepMoves
  <2>1. CASE \E s : Becomes(AT, s) /\ ReadingMove(at, s, current_char')
    BY <1>3, <2>1, ReadingLine DEF at
  <2>2. CASE UNCHANGED current_char /\ \E s : Becomes(AT, s) /\ NameMove(at, s, current_char)
    <3>1. PICK s : Becomes(AT, s) /\ NameMove(r, s, current_char)
      BY <2>2 DEF at
    <3>2. fsm'[AT] = s /\ fsm'[UN] = fsm[UN]
      BY <3>1, OtherUnchanged
    <3> QED
      BY <2>2, <3>1, <3>2, NameLine, QuietStep
  <2>3. CASE UNCHANGED current_char /\ \E s : Becomes(AT, s) /\ HandlerMove(at, s)
    BY <1>3, <2>3, HandlerLine DEF at
  <2>4. CASE UNCHANGED current_char /\ \E s : Becomes(AT, s) /\ SharedMove(AT, at, s)
    <3>1. PICK s : Becomes(AT, s) /\ SharedMove(AT, r, s)
      BY <2>4 DEF at
    <3>2. CASE r.state \in Flushing
      <4>1. fsm'[AT] = s /\ fsm'[UN] = fsm[UN]
        BY <3>1, OtherUnchanged
      <4> QED
        BY <1>1, <2>4, <3>1, <3>2, <4>1, FlushStep
    <3>3. CASE r.state \notin Flushing
      BY <1>3, <2>4, <3>1, <3>3, SharedLine
    <3> QED
      BY <3>2, <3>3
  <2>5. HoldMove(AT) => Good
    BY <1>1, HoldStep
  <2> QED
    BY <1>2, <1>4, <2>1, <2>2, <2>3, <2>4, <2>5 DEF AtStepMoves
<1>5. CASE UNCHANGED current_char /\ SharedStepMoves(UN)
  <2>1. HoldMove(UN) => Good
    BY <1>1, HoldStep
  <2>2. ASSUME NEW s, Becomes(UN, s), SharedMove(UN, fsm[UN], s)
        PROVE  Good
    BY <1>1, <1>5, <2>2, OtherUnchanged, UnStep
  <2> QED
    BY <1>5, <2>1, <2>2 DEF SharedStepMoves
<1>6. CASE UNCHANGED current_char /\ TakesEvent
  <2>1. PICK q, s : Becomes(UN, s) /\ (ReadMove(UN, q, s) \/ TestMove(UN, q, s))
    BY <1>6 DEF TakesEvent
  <2>2. fsm'[UN].state # "FLUSH_IO_WRITE" /\ fsm'[AT] = fsm[AT]
    BY <2>1, OtherUnchanged, BufSizeFacts
       DEF ReadMove, TestMove, Ended, Reset, Responds
  <2>3. UNCHANGED <<Phase, Writer>>
    BY <1>6, <2>2 DEF Phase, at, Writer, TakesEvent
  <2> QED
    BY <1>6, <2>2, <2>3 DEF Protocol!protocol, LineInv, LineStates, TypeFits, Pending,
       Flushing, BusyStates, ReadStates, TestStates
<1>7. CASE UNCHANGED vars
  BY <1>2, <1>7 DEF vars
<1>8. AcceptsEvent => UNCHANGED fsm
  BY DEF AcceptsEvent
<1> QED
  BY <1>2, <1>4, <1>5, <1>6, <1>7, <1>8, StepMoves
=============================================================================
