--------------------------- MODULE CatParserProofs ---------------------------
(***************************************************************************)
(* The safety invariants of CatParser, for every command table.  The       *)
(* inductive invariant says of each machine's record alone what its state  *)
(* needs (MachineOK), and relates the two machines only by the output line *)
(* and the hold flag.                                                      *)
(***************************************************************************)
EXTENDS CatParser, TLAPS

AfterFlushState(f) ==
  {"AFTER_FLUSH_OK", "AFTER_FLUSH_FORMAT_READ_ARGS",
   "AFTER_FLUSH_FORMAT_TEST_ARGS"}
    \cup IF f = AT THEN {"AFTER_FLUSH_RESET", "PRINT_CMD"} ELSE {}

TextBuffer == [kind : {"text"}, len : Nat]

Terminated(f, r) == r.buf \in TextBuffer /\ r.buf.len < BufSize[f]

BufferMatches(f, r) ==
  /\ r.state \in NameState \ {"COMMAND_FOUND", "COMMAND_NOT_FOUND"} =>
       r.buf \in [kind : {"match"}, match : [CmdIds -> MatchState]]
  /\ r.state \in {"PARSE_COMMAND_ARGS", "PARSE_WRITE_ARGS", "WRITE_LOOP"} =>
       r.buf \in [kind : {"args"}, s : Seq(Char)]
  /\ r.state \in Flushing \cup {"READ_LOOP", "TEST_LOOP"} => Terminated(f, r)
  /\ r.state \in Flushing => r.position <= WriteEnd(r)

MachineOK(f, r) ==
  /\ r \in FsmRec
  /\ f = UN => r.state \in UnsolicitedState
  /\ Dereferences(r)
  /\ BufferMatches(f, r)
  /\ r.state \in Flushing => r.write_state_after \in AfterFlushState(f)
  /\ r.state = "PARSE_COMMAND_CHAR" => r.index < NumCmds

\* A record most handlers end in: well formed, neither on hold nor writing.
Settled(f, r) == MachineOK(f, r) /\ r.state \notin {"HOLD", "FLUSH_IO_WRITE"}

MachinesInv ==
  /\ fsm \in [Fsm -> FsmRec]
  /\ \A f \in Fsm : MachineOK(f, fsm[f])
  /\ hold_state_flag \in BOOLEAN
  /\ hold_exit_status \in {-1, 0, 1}
  /\ HoldFlagMatchesState
  /\ OutputExclusion

\* What the handlers of both machines keep.
HandlersInv ==
  /\ MachinesInv
  /\ length \in Nat
  /\ partial_cntr \in Nat
  /\ current_char \in Char
  /\ implicit_write_flag \in BOOLEAN

RestInv ==
  /\ queue \in Seq(CmdIds \X {"READ", "TEST"}) /\ Len(queue) <= QueueSize
  /\ mutex \in {"free", "service"}
  /\ typed \in Seq(Char)

IInv == HandlersInv /\ RestInv

-----------------------------------------------------------------------------
(* The table.                                                              *)

\* What the typing of the table says of one command.
LEMMA TableFacts ==
  ASSUME NEW i \in CmdIds
  PROVE  /\ Len(Cmds[i].name) \in Nat
         /\ Cmds[i].descr \in Nat
         /\ Cmds[i].vars \in Seq(Variable)
         /\ Len(Cmds[i].vars) \in Nat
         /\ DOMAIN Cmds[i].vars = 1 .. Len(Cmds[i].vars)
         /\ \A n \in Cmds[i].reply : n \in Nat /\ \A f \in Fsm : n < BufSize[f]
         /\ Cmds[i].read \subseteq ReturnState
         /\ Cmds[i].write \subseteq ReturnState
         /\ Cmds[i].run \subseteq ReturnState
         /\ Cmds[i].test \subseteq ReturnState
<1>1. Cmds[i] \in Command
  BY CmdsAssumption
<1>2. /\ Cmds[i].name \in Seq(STRING)
      /\ Cmds[i].vars \in Seq(Variable)
      /\ Cmds[i].descr \in Nat
      /\ Cmds[i].reply \subseteq Nat
  BY <1>1 DEF Command
<1>3. /\ Cmds[i].read \subseteq ReturnState
      /\ Cmds[i].write \subseteq ReturnState
      /\ Cmds[i].run \subseteq ReturnState
      /\ Cmds[i].test \subseteq ReturnState
  BY <1>1 DEF Command
<1>4. Len(Cmds[i].name) \in Nat /\ Len(Cmds[i].vars) \in Nat
      /\ DOMAIN Cmds[i].vars = 1 .. Len(Cmds[i].vars)
  BY <1>2
<1> QED
  BY <1>2, <1>3, <1>4, ReplyAssumption

\* A command with an accessible variable has a variable.
LEMMA AccessibleHasVars ==
  ASSUME NEW i \in CmdIds, NEW a, is_variables_access_possible(Cmds[i], a)
  PROVE  0 < Len(Cmds[i].vars)
BY TableFacts DEF is_variables_access_possible

\* Buffer sizes are numbers, and the parser's holds the acknowledgements.
LEMMA BufSizeFacts ==
  /\ \A f \in Fsm : BufSize[f] \in Nat /\ BufSize[f] > 0
  /\ BufSize[AT] > 5
  /\ AT \in Fsm /\ UN \in Fsm /\ AT # UN
BY BufSizeAssumption, AckFitsAssumption DEF Fsm, AT, UN

-----------------------------------------------------------------------------
(* What each function on one machine's record returns.                     *)

\* A started output line is well formed, if what follows it will be.
LEMMA StartFlushOK ==
  ASSUME NEW f \in Fsm, NEW r \in FsmRec, NEW after \in AfterFlushState(f),
         Terminated(f, r),
         after \in NeedsCommand => r.cmd \in CmdIds,
         after = "PRINT_CMD" => r.index < NumCmds
  PROVE  Settled(f, start_flush_io_buffer(r, after))
<1> DEFINE s == start_flush_io_buffer(r, after)
<1>1. s \in FsmRec
  BY DEF FsmRec, start_flush_io_buffer, AfterFlushState, CatState
<1>2. /\ s.state = "FLUSH_IO_WRITE_WAIT" /\ s.write_state_after = after
      /\ s.cmd = r.cmd /\ s.index = r.index /\ s.buf = r.buf
      /\ s.position = 0 /\ s.write_buf = "newline"
  BY DEF FsmRec, start_flush_io_buffer
<1> HIDE DEF s
<1>3. Dereferences(s)
  BY <1>2 DEF Dereferences, Pending, Flushing, NeedsCommand
<1>4. BufferMatches(f, s)
  BY <1>2 DEF BufferMatches, NameState, Flushing, Terminated, WriteEnd
<1>5. Settled(f, s)
  BY <1>1, <1>2, <1>3, <1>4 DEF Settled, MachineOK, UnsolicitedState
<1> QED
  BY <1>5 DEF s

\* The states and types the handlers assign, as members of their sets.
LEMMA StateNames ==
  /\ {"IDLE", "ERROR", "SEARCH_COMMAND", "COMMAND_FOUND", "COMMAND_NOT_FOUND",
      "WAIT_READ_ACKNOWLEDGE", "WAIT_TEST_ACKNOWLEDGE", "FLUSH_IO_WRITE_WAIT",
      "PRINT_CMD"} \subseteq CatState
  /\ {"NONE", "RUN", "READ", "WRITE", "TEST"} \subseteq CmdType
BY DEF CatState, CmdType

\* The same for a line printed by print_cmd_list.
LEMMA StartFlushRawOK ==
  ASSUME NEW r \in FsmRec, Terminated(AT, r), r.index < NumCmds
  PROVE  Settled(AT, start_flush_io_buffer_raw(r, "PRINT_CMD"))
<1> DEFINE s == start_flush_io_buffer_raw(r, "PRINT_CMD")
<1>1. s \in FsmRec
  <2>1. "FLUSH_IO_WRITE_WAIT" \in CatState /\ "PRINT_CMD" \in CatState
    BY StateNames
  <2> QED
    BY <2>1 DEF FsmRec, start_flush_io_buffer_raw
<1>2. /\ s.state = "FLUSH_IO_WRITE_WAIT" /\ s.write_state_after = "PRINT_CMD"
      /\ s.cmd = r.cmd /\ s.index = r.index /\ s.buf = r.buf
      /\ s.position = 0 /\ s.write_buf = "buf"
  BY DEF FsmRec, start_flush_io_buffer_raw
<1> HIDE DEF s
<1>3. Dereferences(s)
  BY <1>2 DEF Dereferences, Pending, Flushing, NeedsCommand
<1>4. BufferMatches(AT, s)
  BY <1>2 DEF BufferMatches, NameState, Flushing, Terminated, TextBuffer, WriteEnd
<1>5. Settled(AT, s)
  BY <1>1, <1>2, <1>3, <1>4, BufSizeFacts
     DEF Settled, MachineOK, UnsolicitedState, AfterFlushState
<1> QED
  BY <1>5 DEF s

\* An acknowledge fits the buffer and needs no command.
LEMMA AckOK ==
  ASSUME NEW r \in FsmRec
  PROVE  Settled(AT, ack_ok(r)) /\ Settled(AT, ack_error(r))
<1>1. ASSUME NEW n \in {2, 5}
      PROVE  Settled(AT, Acknowledge(r, n))
  <2> DEFINE s == [r EXCEPT !.buf = Text(n)]
  <2>1. s \in FsmRec /\ s.buf = Text(n)
    BY <1>1 DEF FsmRec, Text, Buffer
  <2>2. Terminated(AT, s)
    BY <2>1, <1>1, BufSizeFacts DEF Terminated, Text, TextBuffer
  <2> HIDE DEF s
  <2>3. Settled(AT, start_flush_io_buffer(s, "AFTER_FLUSH_RESET"))
    BY <2>1, <2>2, StartFlushOK, BufSizeFacts DEF AfterFlushState, NeedsCommand
  <2>4. Acknowledge(r, n) = start_flush_io_buffer(s, "AFTER_FLUSH_RESET")
    BY <1>1, BufSizeFacts DEF Acknowledge, s
  <2> QED
    BY <2>3, <2>4
<1> QED
  BY <1>1 DEF ack_ok, ack_error

\* The unsolicited machine goes back to IDLE without a command.
LEMMA UnsolicitedResetOK ==
  ASSUME NEW r \in FsmRec
  PROVE  Settled(UN, unsolicited_reset_state(r))
<1> DEFINE s == unsolicited_reset_state(r)
<1>1. s \in FsmRec /\ s.state = "IDLE"
  <2>1. "IDLE" \in CatState /\ "NONE" \in CmdType
    BY StateNames
  <2> QED
    BY <2>1 DEF FsmRec, unsolicited_reset_state
<1> HIDE DEF s
<1>2. Settled(UN, s)
  BY <1>1 DEF Settled, MachineOK, Dereferences, BufferMatches, Pending, Flushing,
              NeedsCommand, NameState, UnsolicitedState
<1> QED
  BY <1>2 DEF s

LEMMA EndProcessingOK ==
  ASSUME NEW f \in Fsm, NEW r \in FsmRec
  PROVE  /\ Settled(f, end_processing_with_ok(f, r))
         /\ Settled(f, end_processing_with_error(f, r))
BY AckOK, UnsolicitedResetOK, BufSizeFacts
   DEF end_processing_with_ok, end_processing_with_error, Fsm

\* Printing what fits leaves a terminated text.
LEMMA PrintOK ==
  ASSUME NEW f \in Fsm, NEW r \in FsmRec, NEW n \in Nat, PrintFits(f, r, n)
  PROVE  /\ Printed(r, n) \in FsmRec
         /\ Terminated(f, Printed(r, n))
         /\ Printed(r, n).cmd = r.cmd /\ Printed(r, n).index = r.index
         /\ Printed(r, n).state = r.state /\ Printed(r, n).cmd_type = r.cmd_type
         /\ Printed(r, n).position = r.position + n
<1>1. r.position \in Nat /\ BufSize[f] \in Nat
  BY BufSizeFacts DEF FsmRec
<1>2. r.position + n \in Nat /\ Text(r.position + n) \in Buffer
  BY <1>1 DEF Text, Buffer
<1>3. Printed(r, n) \in FsmRec /\ Printed(r, n).buf = Text(r.position + n)
  BY <1>2 DEF Printed, FsmRec
<1>4. Terminated(f, Printed(r, n))
  BY <1>1, <1>2, <1>3 DEF PrintFits, Terminated, Text, TextBuffer
<1> QED
  BY <1>3, <1>4 DEF Printed, FsmRec

\* Starting to format a read response.
LEMMA FormatReadOK ==
  ASSUME NEW f \in Fsm, NEW r0 \in FsmRec, r0.cmd \in CmdIds
  PROVE  Settled(f, start_processing_format_read_args(f, r0))
<1> DEFINE r == [r0 EXCEPT !.position = 0]
           n == Len(Command_of(r).name) + 1
           p == Printed(r, n)
<1>1. r \in FsmRec /\ r.cmd = r0.cmd /\ r.cmd \in CmdIds
  BY DEF FsmRec
<1>2. n \in Nat /\ Len(Command_of(r).vars) \in Nat
  BY <1>1, TableFacts DEF Command_of
<1> HIDE DEF r
<1>3. CASE ~PrintFits(f, r, n)
  BY <1>1, <1>3, EndProcessingOK DEF start_processing_format_read_args, r
<1>4. CASE PrintFits(f, r, n)
  <2>1. p \in FsmRec /\ Terminated(f, p) /\ p.cmd = r.cmd
    BY <1>1, <1>2, <1>4, PrintOK
  <2> HIDE DEF p, n
  <2>2. ASSUME is_variables_access_possible(Command_of(r), "READ_ONLY")
        PROVE  Settled(f, [p EXCEPT !.state = "FORMAT_READ_ARGS", !.index = 0])
    <3> DEFINE s == [p EXCEPT !.state = "FORMAT_READ_ARGS", !.index = 0]
    <3>1. s \in FsmRec /\ s.state = "FORMAT_READ_ARGS" /\ s.index = 0 /\ s.cmd = r.cmd
      BY <2>1 DEF FsmRec, CatState
    <3> HIDE DEF s
    <3>2. s.index < Len(Command_of(s).vars)
      BY <1>1, <2>2, <3>1, AccessibleHasVars DEF Command_of
    <3>3. Settled(f, s)
      BY <1>1, <3>1, <3>2 DEF Settled, MachineOK, Dereferences, BufferMatches,
           Pending, Flushing, NeedsCommand, NameState, UnsolicitedState
    <3> QED
      BY <3>3 DEF s
  <2>3. ASSUME Command_of(r).read # {}
        PROVE  Settled(f, [p EXCEPT !.state = "READ_LOOP"])
    <3> DEFINE s == [p EXCEPT !.state = "READ_LOOP"]
    <3>1. s \in FsmRec /\ s.state = "READ_LOOP" /\ s.cmd = r.cmd /\ s.buf = p.buf
      BY <2>1 DEF FsmRec, CatState
    <3> HIDE DEF s
    <3>2. Settled(f, s)
      BY <1>1, <2>1, <2>3, <3>1 DEF Settled, MachineOK, Dereferences, BufferMatches,
           Pending, Flushing, NeedsCommand, NameState, UnsolicitedState,
           Terminated, Command_of
    <3> QED
      BY <3>2 DEF s
  <2>4. Settled(f, end_processing_with_error(f, p))
    BY <2>1, EndProcessingOK
  <2>5. start_processing_format_read_args(f, r0) =
          IF is_variables_access_possible(Command_of(r), "READ_ONLY")
            THEN [p EXCEPT !.state = "FORMAT_READ_ARGS", !.index = 0]
          ELSE IF Command_of(r).read = {} THEN end_processing_with_error(f, p)
          ELSE [p EXCEPT !.state = "READ_LOOP"]
    BY <1>4 DEF start_processing_format_read_args, r, n, p
  <2> QED
    BY <2>2, <2>3, <2>4, <2>5
<1> QED
  BY <1>3, <1>4

\* The description and what follows it.
LEMMA ResponseTestOK ==
  ASSUME NEW f \in Fsm, NEW r \in FsmRec, r.cmd \in CmdIds, Terminated(f, r)
  PROVE  Settled(f, print_response_test(f, r))
<1> DEFINE c == Command_of(r)
           n == IF c.descr > 0 THEN 2 + c.descr ELSE 0
           p == IF n > 0 THEN Printed(r, n) ELSE r
<1>1. n \in Nat
  BY TableFacts DEF Command_of
<1> HIDE DEF n
<1>2. CASE n > 0 /\ ~PrintFits(f, r, n)
  BY <1>2, EndProcessingOK DEF print_response_test, n
<1>3. CASE ~(n > 0 /\ ~PrintFits(f, r, n))
  <2>1. p \in FsmRec /\ Terminated(f, p) /\ p.cmd = r.cmd
    BY <1>1, <1>3, PrintOK
  <2> HIDE DEF p
  <2>2. ASSUME c.test # {}
        PROVE  Settled(f, [p EXCEPT !.state = "TEST_LOOP"])
    <3> DEFINE s == [p EXCEPT !.state = "TEST_LOOP"]
    <3>1. s \in FsmRec /\ s.state = "TEST_LOOP" /\ s.cmd = r.cmd /\ s.buf = p.buf
      BY <2>1 DEF FsmRec, CatState
    <3> HIDE DEF s
    <3>2. Settled(f, s)
      BY <2>1, <2>2, <3>1 DEF Settled, MachineOK, Dereferences, BufferMatches,
           Pending, Flushing, NeedsCommand, NameState, UnsolicitedState,
           Terminated, Command_of
    <3> QED
      BY <3>2 DEF s
  <2>3. Settled(f, start_flush_io_buffer(p, "AFTER_FLUSH_OK"))
    BY <2>1, StartFlushOK DEF AfterFlushState, NeedsCommand
  <2>4. print_response_test(f, r) =
          IF c.test # {} THEN [p EXCEPT !.state = "TEST_LOOP"]
          ELSE start_flush_io_buffer(p, "AFTER_FLUSH_OK")
    BY <1>3 DEF print_response_test, n, p
  <2> QED
    BY <2>2, <2>3, <2>4
<1> QED
  BY <1>2, <1>3

\* Starting to format a test response.
LEMMA FormatTestOK ==
  ASSUME NEW f \in Fsm, NEW r0 \in FsmRec, r0.cmd \in CmdIds
  PROVE  Settled(f, start_processing_format_test_args(f, r0))
<1> DEFINE r == [r0 EXCEPT !.position = 0]
           n == Len(Command_of(r).name) + 1
           p == Printed(r, n)
<1>1. r \in FsmRec /\ r.cmd = r0.cmd /\ r.cmd \in CmdIds
  BY DEF FsmRec
<1>2. n \in Nat
  BY <1>1, TableFacts DEF Command_of
<1> HIDE DEF r
<1>3. CASE ~PrintFits(f, r, n)
  BY <1>1, <1>3, EndProcessingOK DEF start_processing_format_test_args, r
<1>4. CASE PrintFits(f, r, n)
  <2>1. p \in FsmRec /\ Terminated(f, p) /\ p.cmd = r.cmd
    BY <1>1, <1>2, <1>4, PrintOK
  <2> HIDE DEF p, n
  <2>2. ASSUME Command_of(r).vars # <<>>
        PROVE  Settled(f, [p EXCEPT !.state = "FORMAT_TEST_ARGS", !.index = 0])
    <3> DEFINE s == [p EXCEPT !.state = "FORMAT_TEST_ARGS", !.index = 0]
    <3>1. s \in FsmRec /\ s.state = "FORMAT_TEST_ARGS" /\ s.index = 0 /\ s.cmd = r.cmd
      BY <2>1 DEF FsmRec, CatState
    <3> HIDE DEF s
    <3>2. s.index < Len(Command_of(s).vars)
      BY <1>1, <2>2, <3>1, TableFacts DEF Command_of
    <3>3. Settled(f, s)
      BY <1>1, <3>1, <3>2 DEF Settled, MachineOK, Dereferences, BufferMatches,
           Pending, Flushing, NeedsCommand, NameState, UnsolicitedState
    <3> QED
      BY <3>3 DEF s
  <2>3. Settled(f, print_response_test(f, p))
    BY <1>1, <2>1, ResponseTestOK
  <2>4. start_processing_format_test_args(f, r0) =
          IF Command_of(r).vars # <<>>
            THEN [p EXCEPT !.state = "FORMAT_TEST_ARGS", !.index = 0]
          ELSE print_response_test(f, p)
    BY <1>4 DEF start_processing_format_test_args, r, n, p
  <2> QED
    BY <2>2, <2>3, <2>4
<1> QED
  BY <1>3, <1>4

\* The next variable, if there is one.
LEMMA NextFormatVarOK ==
  ASSUME NEW f \in Fsm, NEW r \in FsmRec, r.cmd \in CmdIds, NEW done,
         r.state \in {"FORMAT_READ_ARGS", "FORMAT_TEST_ARGS"}, Settled(f, done)
  PROVE  Settled(f, next_format_var_by_fsm(f, r, done))
<1>1. CASE r.index >= Len(Command_of(r).vars)
  BY <1>1 DEF next_format_var_by_fsm
<1>2. CASE r.index < Len(Command_of(r).vars)
  <2> DEFINE s == [r EXCEPT !.position = r.position + 1, !.buf = Text(BufSize[f])]
  <2>1. r.index \in Nat /\ r.position + 1 \in Nat /\ Len(Command_of(r).vars) \in Nat
        /\ Text(BufSize[f]) \in Buffer
    BY BufSizeFacts, TableFacts DEF FsmRec, Command_of, Text, Buffer
  <2>2. /\ s \in FsmRec /\ s.state = r.state /\ s.index = r.index /\ s.cmd = r.cmd
    BY <2>1 DEF FsmRec
  <2> HIDE DEF s
  <2>3. Settled(f, s)
    BY <1>2, <2>2 DEF Settled, MachineOK, Dereferences, BufferMatches, Pending,
         Flushing, NeedsCommand, NameState, UnsolicitedState, Command_of
  <2>4. next_format_var_by_fsm(f, r, done) \in {s, end_processing_with_error(f, r)}
    BY <1>2, <2>1 DEF next_format_var_by_fsm, s
  <2> QED
    BY <2>3, <2>4, EndProcessingOK
<1>3. r.index \in Nat /\ Len(Command_of(r).vars) \in Nat
  BY TableFacts DEF FsmRec, Command_of
<1> QED
  BY <1>1, <1>2, <1>3

-----------------------------------------------------------------------------
(* What one step of a machine preserves.                                   *)

\* A machine that ends in a settled record preserves the invariant, unless it
\* is the command machine leaving hold.
LEMMA SettledStep ==
  ASSUME MachinesInv, NEW f \in Fsm, NEW r, Settled(f, r), Becomes(f, r),
         UNCHANGED hold, f = AT => fsm[AT].state # "HOLD"
  PROVE  MachinesInv'
<1>1. /\ r \in FsmRec /\ fsm' = [fsm EXCEPT ![f] = r] /\ AT # UN
      /\ AT \in Fsm /\ UN \in Fsm
  BY BufSizeFacts DEF Settled, MachineOK, Becomes
<1>2. fsm' \in [Fsm -> FsmRec] /\ \A g \in Fsm : MachineOK(g, fsm'[g])
  BY <1>1 DEF MachinesInv, Settled
<1>3. HoldFlagMatchesState'
  BY <1>1 DEF MachinesInv, HoldFlagMatchesState, Settled, hold
<1>4. OutputExclusion'
  <2>1. f = AT \/ f = UN
    BY DEF Fsm
  <2>2. fsm'[f].state # "FLUSH_IO_WRITE"
    BY <1>1 DEF Settled, MachinesInv
  <2> QED
    BY <2>1, <2>2 DEF OutputExclusion
<1> QED
  BY <1>2, <1>3, <1>4 DEF MachinesInv, hold

\* The hold request of a handler of either machine.
LEMMA EnableHoldStep ==
  ASSUME MachinesInv, NEW f \in Fsm, NEW r, Settled(f, r) \/ r = fsm[f],
         r.state # "FLUSH_IO_WRITE", enable_hold_state(f, r)
  PROVE  MachinesInv'
<1> DEFINE h(q) == [q EXCEPT !.state = "HOLD"]
<1>1. ASSUME NEW q \in FsmRec
      PROVE  MachineOK(AT, h(q)) /\ h(q).state = "HOLD" /\ h(q) \in FsmRec
  <2>1. h(q) \in FsmRec /\ h(q).state = "HOLD"
    BY DEF FsmRec, CatState
  <2> HIDE DEF h
  <2> QED
    BY <2>1, BufSizeFacts DEF MachineOK, Dereferences, BufferMatches, Pending, Flushing,
         NeedsCommand, NameState
<1>2. /\ MachineOK(f, r) /\ r \in FsmRec /\ AT # UN
      /\ AT \in Fsm /\ UN \in Fsm /\ f \in {AT, UN}
  BY BufSizeFacts DEF Settled, MachineOK, MachinesInv, Fsm
<1>3. /\ fsm' \in [Fsm -> FsmRec]
      /\ fsm'[AT] = h(IF f = AT THEN r ELSE fsm[AT])
      /\ f = UN => fsm'[UN] = r
      /\ f = AT => fsm'[UN] = fsm[UN]
  <2>1. fsm' = [[fsm EXCEPT ![f] = r] EXCEPT ![AT] = h(IF f = AT THEN r ELSE fsm[AT])]
    BY <1>2 DEF enable_hold_state, MachinesInv
  <2>2. h(IF f = AT THEN r ELSE fsm[AT]) \in FsmRec
    BY <1>1, <1>2 DEF MachinesInv
  <2> HIDE DEF h
  <2> QED
    BY <1>2, <2>1, <2>2 DEF MachinesInv
<1>4. MachineOK(AT, fsm'[AT]) /\ fsm'[AT].state = "HOLD"
  BY <1>1, <1>2, <1>3 DEF MachinesInv
<1> HIDE DEF h
<1>5. \A g \in Fsm : MachineOK(g, fsm'[g])
  BY <1>2, <1>3, <1>4 DEF MachinesInv, Fsm
<1> QED
  BY <1>3, <1>4, <1>5 DEF MachinesInv, HoldFlagMatchesState, OutputExclusion,
     enable_hold_state

\* hold_exit changes the requested status only.
LEMMA HoldExitStep ==
  ASSUME MachinesInv, NEW f \in Fsm, NEW r, Settled(f, r), Becomes(f, r),
         NEW status \in {-1, 1}, hold_exit(status), f = AT => fsm[AT].state # "HOLD"
  PROVE  MachinesInv'
<1>1. /\ r \in FsmRec /\ fsm' = [fsm EXCEPT ![f] = r] /\ AT # UN
      /\ AT \in Fsm /\ UN \in Fsm
  BY BufSizeFacts DEF Settled, MachineOK, Becomes
<1>2. fsm' \in [Fsm -> FsmRec] /\ \A g \in Fsm : MachineOK(g, fsm'[g])
  BY <1>1 DEF MachinesInv, Settled
<1>3. HoldFlagMatchesState'
  BY <1>1 DEF MachinesInv, HoldFlagMatchesState, Settled, hold_exit
<1>4. OutputExclusion'
  <2>1. f = AT \/ f = UN
    BY DEF Fsm
  <2>2. fsm'[f].state # "FLUSH_IO_WRITE"
    BY <1>1 DEF Settled, MachinesInv
  <2> QED
    BY <2>1, <2>2 DEF OutputExclusion
<1> QED
  BY <1>2, <1>3, <1>4 DEF MachinesInv, hold_exit

\* A step that leaves both machines and the hold fields alone.
LEMMA IdleStep ==
  ASSUME MachinesInv, UNCHANGED <<fsm, hold>>
  PROVE  MachinesInv'
BY DEF MachinesInv, hold, HoldFlagMatchesState, OutputExclusion

-----------------------------------------------------------------------------
(* The handlers that read a command line.                                  *)

LEMMA AtFacts ==
  ASSUME HandlersInv
  PROVE  at \in FsmRec /\ MachineOK(AT, at) /\ at = fsm[AT]
BY BufSizeFacts DEF HandlersInv, MachinesInv, at

\* Moving on to a state that needs nothing of the record.
Free == {"IDLE", "ERROR", "PARSE_PREFIX", "COMMAND_NOT_FOUND"}

LEMMA FreeOK ==
  ASSUME NEW r \in FsmRec, NEW st \in Free
  PROVE  Settled(AT, [r EXCEPT !.state = st])
<1> DEFINE s == [r EXCEPT !.state = st]
<1>1. s \in FsmRec /\ s.state = st
  BY DEF FsmRec, CatState, Free
<1> HIDE DEF s
<1>2. Settled(AT, s)
  BY <1>1, BufSizeFacts DEF Settled, MachineOK, Dereferences, BufferMatches, Pending,
       Flushing, NeedsCommand, NameState, Free
<1> QED
  BY <1>2 DEF s

LEMMA CharRead ==
  ASSUME NEW st, read_cmd_char(st)
  PROVE  current_char' \in Char /\ at.state = st
BY DEF read_cmd_char, Char

LEMMA NoInputStep ==
  ASSUME HandlersInv, NoInput
  PROVE  HandlersInv'
BY IdleStep DEF HandlersInv, NoInput, search

LEMMA ErrorStateStep ==
  ASSUME HandlersInv, error_state
  PROVE  HandlersInv'
<1> DEFINE r == IF current_char' = "NL" THEN ack_error(at) ELSE at
<1>1. at.state = "ERROR" /\ current_char' \in Char
  BY CharRead DEF error_state
<1>2. Settled(AT, r)
  BY <1>1, AtFacts, AckOK DEF Settled
<1>3. Becomes(AT, r)
  BY DEF error_state
<1> HIDE DEF r
<1>4. MachinesInv'
  BY <1>1, <1>2, <1>3, AtFacts, SettledStep, BufSizeFacts DEF HandlersInv, error_state
<1> QED
  BY <1>1, <1>4 DEF HandlersInv, error_state, search

LEMMA IdleStateStep ==
  ASSUME HandlersInv, process_idle_state
  PROVE  HandlersInv'
<1> DEFINE r == CASE current_char' = "A" -> [at EXCEPT !.state = "PARSE_PREFIX"]
                  [] current_char' = "NL" -> at
                  [] OTHER -> [at EXCEPT !.state = "ERROR"]
<1>1. at.state = "IDLE" /\ current_char' \in Char
  BY CharRead DEF process_idle_state
<1>2. Settled(AT, r)
  <2>1. CASE current_char' = "A"
    BY <2>1, AtFacts, FreeOK DEF Free
  <2>2. CASE current_char' = "NL"
    BY <2>2, <1>1, AtFacts DEF Settled
  <2>3. CASE current_char' \notin {"A", "NL"}
    BY <2>3, AtFacts, FreeOK DEF Free
  <2> QED
    BY <2>1, <2>2, <2>3
<1>3. Becomes(AT, r)
  BY DEF process_idle_state
<1> HIDE DEF r
<1>4. MachinesInv'
  BY <1>1, <1>2, <1>3, AtFacts, SettledStep, BufSizeFacts DEF HandlersInv, process_idle_state
<1> QED
  BY <1>1, <1>4 DEF HandlersInv, process_idle_state, search

LEMMA ParsePrefixStep ==
  ASSUME HandlersInv, parse_prefix
  PROVE  HandlersInv'
<1> DEFINE p == [prepare_parse_command(at) EXCEPT !.state = "PARSE_COMMAND_CHAR"]
<1>1. at.state = "PARSE_PREFIX" /\ current_char' \in Char
  BY CharRead DEF parse_prefix
<1>2. Settled(AT, p)
  <2> DEFINE b == Matches([i \in CmdIds |-> "PARTIAL_MATCH"])
  <2>1. b \in [kind : {"match"}, match : [CmdIds -> MatchState]]
    BY DEF Matches, MatchState
  <2>2. b \in Buffer
    BY <2>1 DEF Buffer
  <2> DEFINE q == prepare_parse_command(at)
  <2>3. q = [at EXCEPT !.buf = b, !.index = 0, !.cmd_type = "RUN"]
    BY DEF prepare_parse_command
  <2> HIDE DEF b, q
  <2>4. q \in FsmRec /\ q.index = 0 /\ q.buf = b
    BY <2>2, <2>3, AtFacts DEF FsmRec, CmdType
  <2>5. p = [q EXCEPT !.state = "PARSE_COMMAND_CHAR"]
    BY DEF q
  <2>6. p \in FsmRec /\ p.state = "PARSE_COMMAND_CHAR" /\ p.index = 0 /\ p.buf = b
    BY <2>4, <2>5 DEF FsmRec, CatState
  <2> HIDE DEF p
  <2> QED
    BY <2>1, <2>6, NumCmdsAssumption, BufSizeFacts DEF Settled, MachineOK, Dereferences,
         BufferMatches, Pending, Flushing, NeedsCommand, NameState
<1>3. Settled(AT, ack_error(at)) /\ Settled(AT, [at EXCEPT !.state = "ERROR"])
  BY AtFacts, AckOK, FreeOK DEF Free
<1>4. \E r \in {p, ack_error(at), [at EXCEPT !.state = "ERROR"]} : Becomes(AT, r)
  BY DEF parse_prefix
<1> HIDE DEF p
<1>5. MachinesInv'
  BY <1>1, <1>2, <1>3, <1>4, AtFacts, SettledStep, BufSizeFacts DEF HandlersInv, parse_prefix
<1>6. length' \in Nat
  BY DEF HandlersInv, parse_prefix
<1> QED
  BY <1>1, <1>5, <1>6 DEF HandlersInv, parse_prefix, search

\* The search starts with the match states in place.
LEMMA StartSearchOK ==
  ASSUME NEW r \in FsmRec,
         r.buf \in [kind : {"match"}, match : [CmdIds -> MatchState]]
  PROVE  Settled(AT, StartSearch(r))
<1> DEFINE s == StartSearch(r)
<1>1. s \in FsmRec /\ s.state = "SEARCH_COMMAND" /\ s.index = 0 /\ s.buf = r.buf
  BY DEF FsmRec, StartSearch, CatState
<1> HIDE DEF s
<1>2. Settled(AT, s)
  BY <1>1, NumCmdsAssumption, BufSizeFacts DEF Settled, MachineOK, Dereferences,
       BufferMatches, Pending, Flushing, NeedsCommand, NameState
<1> QED
  BY <1>2 DEF s

LEMMA ParseCommandStep ==
  ASSUME HandlersInv, parse_command
  PROVE  HandlersInv'
<1>1. /\ at.state = "PARSE_COMMAND_CHAR" /\ current_char' \in Char
      /\ at.buf \in [kind : {"match"}, match : [CmdIds -> MatchState]]
      /\ at.index < NumCmds
  BY CharRead, AtFacts DEF parse_command, MachineOK, BufferMatches, NameState
<1>2. PICK r : Settled(AT, r) /\ Becomes(AT, r)
  <2>1. CASE Becomes(AT, ack_ok(at))
    BY <2>1, AtFacts, AckOK
  <2>2. CASE Becomes(AT, StartSearch(at))
    BY <2>2, <1>1, AtFacts, StartSearchOK
  <2>3. CASE Becomes(AT, StartSearch([at EXCEPT !.cmd_type = "WRITE"]))
    <3>1. [at EXCEPT !.cmd_type = "WRITE"] \in FsmRec
          /\ [at EXCEPT !.cmd_type = "WRITE"].buf = at.buf
      BY AtFacts DEF FsmRec, CmdType
    <3> QED
      BY <2>3, <3>1, <1>1, StartSearchOK
  <2>4. CASE Becomes(AT, [at EXCEPT !.cmd_type = "READ",
                                    !.state = "WAIT_READ_ACKNOWLEDGE"])
    <3> DEFINE s == [at EXCEPT !.cmd_type = "READ", !.state = "WAIT_READ_ACKNOWLEDGE"]
    <3>1. s \in FsmRec /\ s.state = "WAIT_READ_ACKNOWLEDGE" /\ s.buf = at.buf
      <4>1. "WAIT_READ_ACKNOWLEDGE" \in CatState /\ "READ" \in CmdType
        BY StateNames
      <4> QED
        BY <4>1, AtFacts DEF FsmRec
    <3> HIDE DEF s
    <3>2. Settled(AT, s)
      BY <1>1, <3>1, BufSizeFacts DEF Settled, MachineOK, Dereferences, BufferMatches,
           Pending, Flushing, NeedsCommand, NameState
    <3> QED
      BY <2>4, <3>2 DEF s
  <2>5. CASE Becomes(AT, [at EXCEPT !.state = "UPDATE_COMMAND_STATE"])
    <3> DEFINE s == [at EXCEPT !.state = "UPDATE_COMMAND_STATE"]
    <3>1. s \in FsmRec /\ s.state = "UPDATE_COMMAND_STATE" /\ s.buf = at.buf
          /\ s.index = at.index
      BY AtFacts DEF FsmRec, CatState
    <3> HIDE DEF s
    <3>2. Settled(AT, s)
      BY <1>1, <3>1, BufSizeFacts DEF Settled, MachineOK, Dereferences, BufferMatches,
           Pending, Flushing, NeedsCommand, NameState
    <3> QED
      BY <2>5, <3>2 DEF s
  <2>6. CASE Becomes(AT, [at EXCEPT !.state = "ERROR"])
    BY <2>6, AtFacts, FreeOK DEF Free
  <2> QED
    BY <2>1, <2>2, <2>3, <2>4, <2>5, <2>6 DEF parse_command
<1>3. MachinesInv'
  BY <1>1, <1>2, AtFacts, SettledStep, BufSizeFacts DEF HandlersInv, parse_command
<1>4. length' \in Nat /\ partial_cntr' \in Nat
  BY DEF HandlersInv, parse_command
<1> QED
  BY <1>1, <1>3, <1>4 DEF HandlersInv, parse_command, search

LEMMA WaitReadStep ==
  ASSUME HandlersInv, wait_read_acknowledge
  PROVE  HandlersInv'
<1>1. /\ at.state = "WAIT_READ_ACKNOWLEDGE" /\ current_char' \in Char
      /\ at.buf \in [kind : {"match"}, match : [CmdIds -> MatchState]]
  BY CharRead, AtFacts DEF wait_read_acknowledge, MachineOK, BufferMatches, NameState
<1>2. PICK r : Settled(AT, r) /\ Becomes(AT, r)
  BY <1>1, AtFacts, StartSearchOK, FreeOK DEF wait_read_acknowledge, Free
<1>3. MachinesInv'
  BY <1>1, <1>2, AtFacts, SettledStep, BufSizeFacts DEF HandlersInv, wait_read_acknowledge
<1> QED
  BY <1>1, <1>3 DEF HandlersInv, wait_read_acknowledge

LEMMA WaitTestStep ==
  ASSUME HandlersInv, wait_test_acknowledge
  PROVE  HandlersInv'
<1>1. /\ at.state = "WAIT_TEST_ACKNOWLEDGE" /\ current_char' \in Char
      /\ at.cmd \in CmdIds
  BY CharRead, AtFacts DEF wait_test_acknowledge, MachineOK, Dereferences, Pending,
     Flushing, NeedsCommand
<1>2. PICK r : Settled(AT, r) /\ Becomes(AT, r)
  BY <1>1, AtFacts, FormatTestOK, FreeOK, BufSizeFacts DEF wait_test_acknowledge, Free
<1>3. MachinesInv'
  BY <1>1, <1>2, AtFacts, SettledStep, BufSizeFacts DEF HandlersInv, wait_test_acknowledge
<1> QED
  BY <1>1, <1>3 DEF HandlersInv, wait_test_acknowledge, search

-----------------------------------------------------------------------------
(* Matching the name, and the arguments.                                   *)

LEMMA UpdateCommandStep ==
  ASSUME HandlersInv, update_command
  PROVE  HandlersInv'
<1> DEFINE i == at.index
           live == get_cmd_state(i) # "NOT_MATCH"
           m == IF live THEN [at.buf.match EXCEPT ![i] = NameMatch(i)]
                ELSE at.buf.match
           flag == \/ implicit_write_flag
                   \/ live /\ m[i] = "FULL_MATCH" /\ Cmds[i].implicit_write
           r == [at EXCEPT !.buf = Matches(m)]
<1>1. /\ at.state = "UPDATE_COMMAND_STATE" /\ i \in CmdIds
      /\ at.buf \in [kind : {"match"}, match : [CmdIds -> MatchState]]
  BY AtFacts, NumCmdsAssumption DEF update_command, MachineOK, BufferMatches, NameState,
     Dereferences, CmdIds, FsmRec
<1>2. at.buf.match \in [CmdIds -> MatchState]
  BY <1>1
<1>3. NameMatch(i) \in MatchState
  BY <1>1, <1>2 DEF NameMatch, MatchState
<1>4. m \in [CmdIds -> MatchState]
  BY <1>2, <1>3
<1>5. Cmds[i].implicit_write \in BOOLEAN
  BY <1>1, CmdsAssumption DEF Command
<1>6. flag \in BOOLEAN
  BY <1>5 DEF HandlersInv
<1> HIDE DEF m
<1>7. r \in FsmRec /\ r.buf \in [kind : {"match"}, match : [CmdIds -> MatchState]]
  BY <1>4, AtFacts DEF FsmRec, Matches, Buffer
<1>8. [r EXCEPT !.cmd_type = "WRITE"] \in FsmRec
      /\ [r EXCEPT !.cmd_type = "WRITE"].buf = r.buf
      /\ r.state = "UPDATE_COMMAND_STATE"
  BY <1>1, <1>7, AtFacts DEF FsmRec, CmdType
<1> HIDE DEF r
<1>9. Settled(AT, StartSearch([r EXCEPT !.cmd_type = "WRITE"]))
  BY <1>7, <1>8, StartSearchOK
<1>10. ASSUME NEW k \in Nat, k < NumCmds,
              NEW st \in {"UPDATE_COMMAND_STATE", "PARSE_COMMAND_CHAR"}
       PROVE  Settled(AT, [r EXCEPT !.index = k, !.state = st])
  <2> DEFINE s == [r EXCEPT !.index = k, !.state = st]
  <2>1. s \in FsmRec /\ s.state = st /\ s.buf = r.buf /\ s.index = k
    BY <1>7, <1>10 DEF FsmRec, CatState
  <2> HIDE DEF s
  <2>2. Settled(AT, s)
    BY <1>7, <1>10, <2>1, BufSizeFacts DEF Settled, MachineOK, Dereferences,
         BufferMatches, Pending, Flushing, NeedsCommand, NameState
  <2> QED
    BY <2>2 DEF s
<1>11. [r EXCEPT !.index = i + 1] = [r EXCEPT !.index = i + 1, !.state = "UPDATE_COMMAND_STATE"]
  BY <1>7, <1>8 DEF FsmRec
<1>12. PICK q : Settled(AT, q) /\ Becomes(AT, q)
  <2>1. \/ i + 1 < NumCmds /\ Becomes(AT, [r EXCEPT !.index = i + 1])
        \/ Becomes(AT, [r EXCEPT !.index = 0, !.state = "PARSE_COMMAND_CHAR"])
        \/ Becomes(AT, StartSearch([r EXCEPT !.cmd_type = "WRITE"]))
    BY DEF update_command, r, m
  <2>2. 0 < NumCmds /\ i + 1 \in Nat
    BY <1>1, NumCmdsAssumption DEF CmdIds
  <2> QED
    BY <1>9, <1>10, <1>11, <2>1, <2>2
<1>13. MachinesInv'
  BY <1>1, <1>12, AtFacts, SettledStep, BufSizeFacts DEF HandlersInv, update_command
<1>14. implicit_write_flag' \in BOOLEAN
  BY <1>6 DEF update_command, r, m
<1>15. partial_cntr' \in {partial_cntr, 0}
  BY DEF update_command
<1> QED
  BY <1>13, <1>14, <1>15 DEF HandlersInv, update_command

LEMMA SearchCommandStep ==
  ASSUME HandlersInv, search_command
  PROVE  HandlersInv'
<1> DEFINE i == at.index
<1>1. /\ at.state = "SEARCH_COMMAND" /\ i \in CmdIds /\ i \in Nat
      /\ at.buf \in [kind : {"match"}, match : [CmdIds -> MatchState]]
      /\ at.cmd \in CmdIds \cup {NoCmd}
  BY AtFacts, NumCmdsAssumption DEF search_command, MachineOK, BufferMatches, NameState,
     Dereferences, CmdIds, FsmRec
<1>2. ASSUME NEW k \in Nat, NEW c \in CmdIds \cup {NoCmd},
             NEW st \in {"SEARCH_COMMAND", "COMMAND_FOUND", "COMMAND_NOT_FOUND", "ERROR"},
             st = "SEARCH_COMMAND" => k < NumCmds, st = "COMMAND_FOUND" => c \in CmdIds
      PROVE  Settled(AT, [at EXCEPT !.index = k, !.cmd = c, !.state = st])
  <2> DEFINE s == [at EXCEPT !.index = k, !.cmd = c, !.state = st]
  <2>1. s \in FsmRec /\ s.state = st /\ s.buf = at.buf /\ s.index = k /\ s.cmd = c
    <3>1. st \in CatState
      BY <1>2, StateNames
    <3> QED
      BY <1>2, <3>1, AtFacts DEF FsmRec
  <2> HIDE DEF s
  <2>2. Settled(AT, s)
    BY <1>1, <1>2, <2>1, BufSizeFacts DEF Settled, MachineOK, Dereferences,
         BufferMatches, Pending, Flushing, NeedsCommand, NameState
  <2> QED
    BY <2>2 DEF s
<1>3. PICK k \in Nat, c \in CmdIds \cup {NoCmd},
           st \in {"SEARCH_COMMAND", "COMMAND_FOUND", "COMMAND_NOT_FOUND", "ERROR"} :
        /\ st = "SEARCH_COMMAND" => k < NumCmds
        /\ st = "COMMAND_FOUND" => c \in CmdIds
        /\ Becomes(AT, [at EXCEPT !.index = k, !.cmd = c, !.state = st])
  <2>1. CASE Becomes(AT, [at EXCEPT !.cmd = i, !.state = "COMMAND_FOUND"])
    <3>1. [at EXCEPT !.cmd = i, !.state = "COMMAND_FOUND"] =
            [at EXCEPT !.index = i, !.cmd = i, !.state = "COMMAND_FOUND"]
      BY AtFacts DEF FsmRec
    <3> QED
      BY <1>1, <2>1, <3>1
  <2>2. CASE Becomes(AT, [at EXCEPT !.state = NotFound])
    <3>1. NotFound \in {"COMMAND_NOT_FOUND", "ERROR"}
      BY DEF NotFound
    <3>2. [at EXCEPT !.state = NotFound] =
            [at EXCEPT !.index = i, !.cmd = at.cmd, !.state = NotFound]
      BY AtFacts DEF FsmRec
    <3> QED
      BY <1>1, <2>2, <3>1, <3>2
  <2>3. CASE \E c \in CmdIds \cup {NoCmd}, n \in Nat :
               Becomes(AT, [at EXCEPT
                    !.index = i + 1, !.cmd = c,
                    !.state = CASE ~(i + 1 >= NumCmds) -> "SEARCH_COMMAND"
                                [] i + 1 >= NumCmds /\ c = NoCmd -> NotFound
                                [] i + 1 >= NumCmds /\ c # NoCmd /\ n = 1 -> "COMMAND_FOUND"
                                [] OTHER -> "COMMAND_NOT_FOUND"])
    <3> DEFINE st(c, n) == CASE ~(i + 1 >= NumCmds) -> "SEARCH_COMMAND"
                             [] i + 1 >= NumCmds /\ c = NoCmd -> NotFound
                             [] i + 1 >= NumCmds /\ c # NoCmd /\ n = 1 -> "COMMAND_FOUND"
                             [] OTHER -> "COMMAND_NOT_FOUND"
    <3>1. PICK c \in CmdIds \cup {NoCmd}, n \in Nat :
               Becomes(AT, [at EXCEPT !.index = i + 1, !.cmd = c, !.state = st(c, n)])
      BY <2>3
    <3>2. /\ st(c, n) \in {"SEARCH_COMMAND", "COMMAND_FOUND", "COMMAND_NOT_FOUND", "ERROR"}
          /\ st(c, n) = "SEARCH_COMMAND" => ~(i + 1 >= NumCmds)
          /\ st(c, n) = "COMMAND_FOUND" => c # NoCmd
      BY DEF NotFound
    <3> HIDE DEF st, i
    <3>3. i + 1 \in Nat /\ (~(i + 1 >= NumCmds) => i + 1 < NumCmds)
      BY <1>1, NumCmdsAssumption
    <3>4. c # NoCmd => c \in CmdIds
      OBVIOUS
    <3> USE <3>2, <3>3
    <3> WITNESS i + 1 \in Nat, c \in CmdIds \cup {NoCmd},
                st(c, n) \in {"SEARCH_COMMAND", "COMMAND_FOUND", "COMMAND_NOT_FOUND", "ERROR"}
    <3> QED
      BY <3>1, <3>2, <3>3, <3>4
  <2>4. partial_cntr \in Nat /\ partial_cntr + 1 \in Nat
    BY DEF HandlersInv
  <2> QED
    BY <1>1, <2>1, <2>2, <2>3, <2>4 DEF search_command
<1>4. MachinesInv'
  BY <1>1, <1>2, <1>3, AtFacts, SettledStep, BufSizeFacts DEF HandlersInv, search_command
<1>5. partial_cntr' \in Nat
  BY DEF HandlersInv, search_command
<1> QED
  BY <1>4, <1>5 DEF HandlersInv, search_command

\* The text of the arguments is in the buffer while they are parsed.
ArgsBuffer == [kind : {"args"}, s : Seq(Char)]

LEMMA CommandFoundStep ==
  ASSUME HandlersInv, command_found
  PROVE  HandlersInv'
<1>1. at.state = "COMMAND_FOUND" /\ at.cmd \in CmdIds
  BY AtFacts DEF command_found, MachineOK, Dereferences, Pending, Flushing, NeedsCommand
<1>2. Command_of(at).run # {} => Settled(AT, [at EXCEPT !.state = "RUN_LOOP"])
  <2> DEFINE s == [at EXCEPT !.state = "RUN_LOOP"]
  <2>1. s \in FsmRec /\ s.state = "RUN_LOOP" /\ s.cmd = at.cmd
    BY AtFacts DEF FsmRec, CatState
  <2> HIDE DEF s
  <2>2. Command_of(at).run # {} => Settled(AT, s)
    BY <1>1, <2>1, BufSizeFacts DEF Settled, MachineOK, Dereferences, BufferMatches,
         Pending, Flushing, NeedsCommand, NameState, Command_of
  <2> QED
    BY <2>2 DEF s
<1>3. Settled(AT, [at EXCEPT !.buf = Args(<<>>), !.state = "PARSE_COMMAND_ARGS"])
  <2> DEFINE s == [at EXCEPT !.buf = Args(<<>>), !.state = "PARSE_COMMAND_ARGS"]
  <2>1. Args(<<>>) \in ArgsBuffer
    BY DEF Args, ArgsBuffer
  <2>2. Args(<<>>) \in Buffer
    BY <2>1 DEF Buffer, ArgsBuffer
  <2>3. s \in FsmRec /\ s.state = "PARSE_COMMAND_ARGS" /\ s.cmd = at.cmd
        /\ s.buf \in ArgsBuffer
    BY <2>1, <2>2, AtFacts DEF FsmRec, CatState
  <2> HIDE DEF s
  <2>4. Settled(AT, s)
    BY <1>1, <2>3, BufSizeFacts DEF Settled, MachineOK, Dereferences, BufferMatches,
         Pending, Flushing, NeedsCommand, NameState, ArgsBuffer
  <2> QED
    BY <2>4 DEF s
<1>4. Settled(AT, ack_error(at)) /\ Settled(AT, start_processing_format_read_args(AT, at))
  BY <1>1, AtFacts, AckOK, FormatReadOK, BufSizeFacts
<1>5. PICK r : Settled(AT, r) /\ Becomes(AT, r)
  BY <1>2, <1>3, <1>4 DEF command_found
<1>6. MachinesInv'
  BY <1>1, <1>5, AtFacts, SettledStep, BufSizeFacts DEF HandlersInv, command_found
<1>7. length' \in {length, 0}
  BY DEF command_found
<1> QED
  BY <1>6, <1>7 DEF HandlersInv, command_found, search

LEMMA CommandNotFoundStep ==
  ASSUME HandlersInv, command_not_found
  PROVE  HandlersInv'
<1>1. MachinesInv'
  BY AtFacts, AckOK, SettledStep, BufSizeFacts DEF HandlersInv, command_not_found
<1> QED
  BY <1>1 DEF HandlersInv, command_not_found, search

\* The end of the line starts the write, if the command has one.
LEMMA StartWriteOK ==
  ASSUME NEW r \in FsmRec, r.cmd \in CmdIds, r.buf \in ArgsBuffer
  PROVE  Settled(AT, StartWrite(r))
<1> DEFINE parse == [r EXCEPT !.state = "PARSE_WRITE_ARGS", !.position = 0, !.index = 0]
           loop == [r EXCEPT !.state = "WRITE_LOOP", !.index = 0]
<1>1. /\ parse \in FsmRec /\ parse.state = "PARSE_WRITE_ARGS" /\ parse.index = 0
      /\ parse.cmd = r.cmd /\ parse.buf = r.buf
  BY DEF FsmRec, CatState
<1>2. /\ loop \in FsmRec /\ loop.state = "WRITE_LOOP"
      /\ loop.cmd = r.cmd /\ loop.buf = r.buf
  BY DEF FsmRec, CatState
<1>3. StartWrite(r) = IF Command_of(r).only_test THEN ack_error(r)
                      ELSE IF is_variables_access_possible(Command_of(r), "WRITE_ONLY")
                             THEN parse
                      ELSE IF Command_of(r).write = {} THEN ack_error(r)
                      ELSE loop
  BY DEF StartWrite
<1> HIDE DEF parse, loop
<1>4. ASSUME is_variables_access_possible(Command_of(r), "WRITE_ONLY")
      PROVE  Settled(AT, parse)
  <2>1. parse.index < Len(Command_of(parse).vars)
    BY <1>1, <1>4, AccessibleHasVars DEF Command_of
  <2> QED
    BY <1>1, <2>1, BufSizeFacts DEF Settled, MachineOK, Dereferences, BufferMatches,
         Pending, Flushing, NeedsCommand, NameState, ArgsBuffer
<1>5. ASSUME Command_of(r).write # {}
      PROVE  Settled(AT, loop)
  BY <1>2, <1>5, BufSizeFacts DEF Settled, MachineOK, Dereferences, BufferMatches,
       Pending, Flushing, NeedsCommand, NameState, ArgsBuffer, Command_of
<1> QED
  BY <1>3, <1>4, <1>5, AckOK

LEMMA ParseCommandArgsStep ==
  ASSUME HandlersInv, parse_command_args
  PROVE  HandlersInv'
<1>1. /\ at.state = "PARSE_COMMAND_ARGS" /\ current_char' \in Char
      /\ at.buf \in ArgsBuffer /\ at.cmd \in CmdIds
  BY CharRead, AtFacts DEF parse_command_args, MachineOK, BufferMatches, NameState,
     Dereferences, Pending, Flushing, NeedsCommand, ArgsBuffer
<1>2. Settled(AT, StartWrite(at))
  BY <1>1, AtFacts, StartWriteOK
<1>3. Settled(AT, [at EXCEPT !.cmd_type = "TEST", !.state = "WAIT_TEST_ACKNOWLEDGE"])
  <2> DEFINE s == [at EXCEPT !.cmd_type = "TEST", !.state = "WAIT_TEST_ACKNOWLEDGE"]
  <2>1. s \in FsmRec /\ s.state = "WAIT_TEST_ACKNOWLEDGE" /\ s.cmd = at.cmd
    <3>1. "WAIT_TEST_ACKNOWLEDGE" \in CatState /\ "TEST" \in CmdType
      BY StateNames
    <3> QED
      BY <3>1, AtFacts DEF FsmRec
  <2> HIDE DEF s
  <2>2. Settled(AT, s)
    BY <1>1, <2>1, BufSizeFacts DEF Settled, MachineOK, Dereferences, BufferMatches,
         Pending, Flushing, NeedsCommand, NameState
  <2> QED
    BY <2>2 DEF s
<1>4. ASSUME NEW st \in {"PARSE_COMMAND_ARGS", "ERROR"}
      PROVE  Settled(AT, [at EXCEPT !.buf = Args(Append(at.buf.s, current_char')),
                                    !.state = st])
  <2> DEFINE b == Args(Append(at.buf.s, current_char'))
             s == [at EXCEPT !.buf = b, !.state = st]
  <2>1. Append(at.buf.s, current_char') \in Seq(Char)
    BY <1>1 DEF ArgsBuffer
  <2>2. b \in ArgsBuffer
    BY <2>1 DEF Args, ArgsBuffer
  <2> HIDE DEF b
  <2>3. b \in Buffer
    BY <2>2 DEF Buffer, ArgsBuffer
  <2>4. s \in FsmRec /\ s.state = st /\ s.cmd = at.cmd /\ s.buf = b
    BY <1>4, <2>3, AtFacts DEF FsmRec, CatState
  <2> HIDE DEF s
  <2>5. Settled(AT, s)
    BY <1>1, <1>4, <2>2, <2>4, BufSizeFacts DEF Settled, MachineOK, Dereferences,
         BufferMatches, Pending, Flushing, NeedsCommand, NameState, ArgsBuffer
  <2> QED
    BY <2>5 DEF s, b
<1>5. PICK r : Settled(AT, r) /\ Becomes(AT, r)
  BY <1>2, <1>3, <1>4 DEF parse_command_args
<1>6. MachinesInv'
  BY <1>1, <1>5, AtFacts, SettledStep, BufSizeFacts DEF HandlersInv, parse_command_args
<1>7. length' \in {length, length + 1}
  BY DEF parse_command_args
<1> QED
  BY <1>1, <1>6, <1>7 DEF HandlersInv, parse_command_args, search

LEMMA ParseWriteArgsStep ==
  ASSUME HandlersInv, parse_write_args
  PROVE  HandlersInv'
<1>1. /\ at.state = "PARSE_WRITE_ARGS" /\ at.buf \in ArgsBuffer /\ at.cmd \in CmdIds
  BY AtFacts DEF parse_write_args, MachineOK, BufferMatches, NameState,
     Dereferences, Pending, Flushing, NeedsCommand, ArgsBuffer
<1>1a. at.index \in Nat /\ at.position \in Nat
  BY AtFacts DEF FsmRec
<1>1b. at.buf.s \in Seq(Char)
  BY <1>1 DEF ArgsBuffer
<1>1c. Len(at.buf.s) \in Nat
  BY <1>1b
<1>2. ASSUME NEW end \in ParseEnds(Var_of(at), at.buf.s, at.position)
      PROVE  Settled(AT, ArgsParsed([at EXCEPT !.index = at.index + 1, !.position = end],
                                    end <= Len(at.buf.s)))
  <2> DEFINE r == [at EXCEPT !.index = at.index + 1, !.position = end]
             loop == [r EXCEPT !.state = "WRITE_LOOP"]
             more == end <= Len(at.buf.s)
  <2>0. end \in at.position + 1 .. Len(at.buf.s) + 1
    BY DEF ParseEnds
  <2>1. end \in Nat /\ at.index + 1 \in Nat
    BY <1>1a, <1>1c, <2>0
  <2>2. r \in FsmRec /\ r.state = "PARSE_WRITE_ARGS" /\ r.cmd = at.cmd /\ r.buf = at.buf
    BY <1>1, <2>1, AtFacts DEF FsmRec
  <2> HIDE DEF r, more
  <2>3. loop \in FsmRec /\ loop.state = "WRITE_LOOP" /\ loop.cmd = at.cmd /\ loop.buf = at.buf
    BY <2>2 DEF FsmRec, CatState
  <2>4. ArgsParsed(r, more) =
          IF r.index < Len(Command_of(r).vars) /\ more THEN r
          ELSE IF more \/ (Command_of(r).need_all_vars /\ r.index # Len(Command_of(r).vars))
            THEN ack_error(r)
          ELSE IF Command_of(r).write = {} THEN ack_ok(r)
          ELSE loop
    BY DEF ArgsParsed
  <2> HIDE DEF loop
  <2>5. ASSUME r.index < Len(Command_of(r).vars)
        PROVE  Settled(AT, r)
    BY <1>1, <2>2, <2>5, BufSizeFacts DEF Settled, MachineOK, Dereferences,
         BufferMatches, Pending, Flushing, NeedsCommand, NameState, ArgsBuffer
  <2>6. ASSUME Command_of(r).write # {}
        PROVE  Settled(AT, loop)
    BY <1>1, <2>2, <2>3, <2>6, BufSizeFacts DEF Settled, MachineOK, Dereferences,
         BufferMatches, Pending, Flushing, NeedsCommand, NameState, ArgsBuffer, Command_of
  <2>7. Settled(AT, ArgsParsed(r, more))
    BY <2>2, <2>4, <2>5, <2>6, AckOK
  <2> QED
    BY <2>7 DEF r, more
<1>3. PICK r : Settled(AT, r) /\ Becomes(AT, r)
  BY <1>2, AtFacts, AckOK DEF parse_write_args
<1>4. MachinesInv'
  BY <1>1, <1>3, AtFacts, SettledStep, BufSizeFacts DEF HandlersInv, parse_write_args
<1> QED
  BY <1>4 DEF HandlersInv, parse_write_args, search

-----------------------------------------------------------------------------
(* Formatting and the application's handlers, in either machine.           *)

LEMMA MachineFacts ==
  ASSUME HandlersInv, NEW f \in Fsm
  PROVE  fsm[f] \in FsmRec /\ MachineOK(f, fsm[f])
BY DEF HandlersInv, MachinesInv

\* The variable a machine processes is one of the table.
LEMMA VariableFacts ==
  ASSUME NEW r \in FsmRec, r.cmd \in CmdIds, r.index < Len(Command_of(r).vars)
  PROVE  Var_of(r).widths \subseteq Nat /\ Var_of(r).info \in Nat
<1>1. Cmds[r.cmd].vars \in Seq(Variable) /\ r.index \in Nat
      /\ Len(Cmds[r.cmd].vars) \in Nat
  BY TableFacts DEF FsmRec
<1>2. r.index + 1 \in 1 .. Len(Cmds[r.cmd].vars)
  BY <1>1 DEF Command_of
<1>3. Var_of(r) \in Variable
  BY <1>1, <1>2 DEF Var_of
<1> QED
  BY <1>3 DEF Variable

\* The value of one variable printed, the next variable or the end follows.
LEMMA PrintedVarOK ==
  ASSUME NEW f \in Fsm, NEW r \in FsmRec, r.cmd \in CmdIds, NEW n \in Nat,
         r.state \in {"FORMAT_READ_ARGS", "FORMAT_TEST_ARGS"}, PrintFits(f, r, n)
  PROVE  LET q == [Printed(r, n) EXCEPT !.index = r.index + 1]
         IN  /\ q \in FsmRec /\ q.cmd = r.cmd /\ q.state = r.state
             /\ Terminated(f, q)
<1> DEFINE p == Printed(r, n)
           q == [p EXCEPT !.index = r.index + 1]
<1>1. p \in FsmRec /\ Terminated(f, p) /\ p.cmd = r.cmd /\ p.state = r.state
  BY PrintOK
<1>2. r.index + 1 \in Nat
  BY DEF FsmRec
<1> HIDE DEF p
<1>3. q \in FsmRec /\ q.cmd = p.cmd /\ q.state = p.state /\ q.buf = p.buf
  BY <1>1, <1>2 DEF FsmRec
<1>4. Terminated(f, q)
  BY <1>1, <1>3 DEF Terminated
<1> QED
  BY <1>1, <1>3, <1>4 DEF p

LEMMA ArgsFormattedOK ==
  ASSUME NEW f \in Fsm, NEW r \in FsmRec, r.cmd \in CmdIds, Terminated(f, r)
  PROVE  Settled(f, ArgsFormatted(f, r))
<1> DEFINE s == [r EXCEPT !.state = "READ_LOOP"]
<1>1. s \in FsmRec /\ s.state = "READ_LOOP" /\ s.cmd = r.cmd /\ s.buf = r.buf
  BY DEF FsmRec, CatState
<1>2. ArgsFormatted(f, r) = IF Command_of(r).read # {} THEN s
                            ELSE start_flush_io_buffer(r, "AFTER_FLUSH_OK")
  BY DEF ArgsFormatted
<1> HIDE DEF s
<1>3. Command_of(r).read # {} => Settled(f, s)
  BY <1>1 DEF Settled, MachineOK, Dereferences, BufferMatches, Pending, Flushing,
     NeedsCommand, NameState, UnsolicitedState, Terminated, Command_of
<1>4. Settled(f, start_flush_io_buffer(r, "AFTER_FLUSH_OK"))
  BY StartFlushOK DEF AfterFlushState, NeedsCommand
<1> QED
  BY <1>2, <1>3, <1>4

LEMMA FormatReadArgsStep ==
  ASSUME HandlersInv, NEW f \in Fsm, format_read_args(f)
  PROVE  HandlersInv'
<1> DEFINE r == fsm[f]
           q(n) == [Printed(r, n) EXCEPT !.index = r.index + 1]
<1>1. r \in FsmRec /\ r.state = "FORMAT_READ_ARGS" /\ r.cmd \in CmdIds
      /\ r.index < Len(Command_of(r).vars)
  BY MachineFacts DEF format_read_args, MachineOK, Dereferences, Pending, Flushing,
     NeedsCommand
<1>2. ASSUME NEW n \in Var_of(r).widths, PrintFits(f, r, n)
      PROVE  Settled(f, next_format_var_by_fsm(f, q(n), ArgsFormatted(f, q(n))))
  <2>1. n \in Nat
    BY <1>1, VariableFacts
  <2>2. q(n) \in FsmRec /\ q(n).cmd \in CmdIds /\ q(n).state = "FORMAT_READ_ARGS"
        /\ Terminated(f, q(n))
    BY <1>1, <1>2, <2>1, PrintedVarOK
  <2> HIDE DEF q, r
  <2>3. Settled(f, ArgsFormatted(f, q(n)))
    BY <2>2, ArgsFormattedOK
  <2> QED
    BY <2>2, <2>3, NextFormatVarOK
<1>3. Settled(f, end_processing_with_error(f, r))
  BY <1>1, EndProcessingOK
<1>4. \/ Becomes(f, end_processing_with_error(f, r))
      \/ \E n \in Var_of(r).widths :
           PrintFits(f, r, n)
           /\ Becomes(f, next_format_var_by_fsm(f, q(n), ArgsFormatted(f, q(n))))
  BY DEF format_read_args
<1> HIDE DEF q
<1>5. MachinesInv'
  BY <1>1, <1>2, <1>3, <1>4, SettledStep DEF HandlersInv, format_read_args
<1> QED
  BY <1>5 DEF HandlersInv, format_read_args, search

LEMMA FormatTestArgsStep ==
  ASSUME HandlersInv, NEW f \in Fsm, format_test_args(f)
  PROVE  HandlersInv'
<1> DEFINE r == fsm[f]
           n == Var_of(r).info
           q == [Printed(r, n) EXCEPT !.index = r.index + 1]
<1>1. r \in FsmRec /\ r.state = "FORMAT_TEST_ARGS" /\ r.cmd \in CmdIds
      /\ r.index < Len(Command_of(r).vars)
  BY MachineFacts DEF format_test_args, MachineOK, Dereferences, Pending, Flushing,
     NeedsCommand
<1>2. ASSUME PrintFits(f, r, n)
      PROVE  Settled(f, next_format_var_by_fsm(f, q, print_response_test(f, q)))
  <2>1. n \in Nat
    BY <1>1, VariableFacts
  <2>2. q \in FsmRec /\ q.cmd \in CmdIds /\ q.state = "FORMAT_TEST_ARGS"
        /\ Terminated(f, q)
    BY <1>1, <1>2, <2>1, PrintedVarOK
  <2> HIDE DEF q, r
  <2>3. Settled(f, print_response_test(f, q))
    BY <2>2, ResponseTestOK
  <2> QED
    BY <2>2, <2>3, NextFormatVarOK
<1>3. Settled(f, end_processing_with_error(f, r))
  BY <1>1, EndProcessingOK
<1>4. \/ Becomes(f, end_processing_with_error(f, r))
      \/ /\ PrintFits(f, r, n)
         /\ Becomes(f, next_format_var_by_fsm(f, q, print_response_test(f, q)))
  BY DEF format_test_args
<1> HIDE DEF q
<1>5. MachinesInv'
  BY <1>1, <1>2, <1>3, <1>4, SettledStep DEF HandlersInv, format_test_args
<1> QED
  BY <1>5 DEF HandlersInv, format_test_args, search

\* The listing starts with the first command.
LEMMA StartPrintOK ==
  ASSUME NEW r \in FsmRec
  PROVE  Settled(AT, start_print_cmd_list(r))
<1> DEFINE s == start_print_cmd_list(r)
<1>1. s \in FsmRec /\ s.state = "PRINT_CMD" /\ s.index = 0
  <2>1. "PRINT_CMD" \in CatState /\ "NONE" \in CmdType
    BY StateNames
  <2> QED
    BY <2>1 DEF FsmRec, start_print_cmd_list
<1> HIDE DEF s
<1>2. Settled(AT, s)
  BY <1>1, NumCmdsAssumption, BufSizeFacts DEF Settled, MachineOK, Dereferences,
     BufferMatches, Pending, Flushing, NeedsCommand, NameState
<1> QED
  BY <1>2 DEF s

LEMMA RunLoopStep ==
  ASSUME HandlersInv, process_run_loop
  PROVE  HandlersInv'
<1>1. at.state = "RUN_LOOP" /\ at \in FsmRec /\ at = fsm[AT] /\ AT \in Fsm
  BY AtFacts, BufSizeFacts DEF process_run_loop
<1>2. Settled(AT, ack_ok(at)) /\ Settled(AT, ack_error(at))
      /\ Settled(AT, start_print_cmd_list(at))
  BY <1>1, AckOK, StartPrintOK
<1>3. \/ \E r : Settled(AT, r) /\ Becomes(AT, r) /\ UNCHANGED hold
      \/ UNCHANGED <<fsm, hold>>
      \/ enable_hold_state(AT, at)
  BY <1>2 DEF process_run_loop
<1>4. MachinesInv'
  BY <1>1, <1>3, SettledStep, IdleStep, EnableHoldStep DEF HandlersInv
<1>5. length' \in {length, 0}
  BY DEF process_run_loop
<1> QED
  BY <1>4, <1>5 DEF HandlersInv, process_run_loop, search

LEMMA WriteLoopStep ==
  ASSUME HandlersInv, process_write_loop
  PROVE  HandlersInv'
<1>1. at.state = "WRITE_LOOP" /\ at \in FsmRec /\ at = fsm[AT] /\ AT \in Fsm
  BY AtFacts, BufSizeFacts DEF process_write_loop
<1>2. Settled(AT, ack_ok(at)) /\ Settled(AT, ack_error(at))
  BY <1>1, AckOK
<1>3. \/ \E r : Settled(AT, r) /\ Becomes(AT, r) /\ UNCHANGED hold
      \/ UNCHANGED <<fsm, hold>>
      \/ enable_hold_state(AT, at)
  BY <1>2 DEF process_write_loop
<1>4. MachinesInv'
  BY <1>1, <1>3, SettledStep, IdleStep, EnableHoldStep DEF HandlersInv
<1> QED
  BY <1>4 DEF HandlersInv, process_write_loop, search

\* The handler leaves a terminated text, and the rest of the record alone.
LEMMA AfterHandlerOK ==
  ASSUME HandlersInv, NEW f \in Fsm, fsm[f].state \in {"READ_LOOP", "TEST_LOOP"},
         NEW r \in AfterHandler(f)
  PROVE  /\ r \in FsmRec /\ r.cmd \in CmdIds /\ r.state = fsm[f].state
         /\ Terminated(f, r) /\ Settled(f, r)
<1>1. /\ fsm[f] \in FsmRec /\ fsm[f].cmd \in CmdIds /\ Terminated(f, fsm[f])
      /\ MachineOK(f, fsm[f])
  BY MachineFacts DEF MachineOK, Dereferences, Pending, Flushing, NeedsCommand,
     BufferMatches
<1>2. CASE r = fsm[f]
  BY <1>1, <1>2 DEF Settled
<1>3. ASSUME NEW n \in Command_of(fsm[f]).reply, r = [fsm[f] EXCEPT !.buf = Text(n)]
      PROVE  /\ r \in FsmRec /\ r.cmd \in CmdIds /\ r.state = fsm[f].state
             /\ Terminated(f, r) /\ Settled(f, r)
  <2>1. n \in Nat /\ n < BufSize[f]
    BY <1>1, TableFacts DEF Command_of
  <2>2. Text(n) \in TextBuffer /\ Text(n) \in Buffer /\ Text(n).len = n
    BY <2>1 DEF Text, TextBuffer, Buffer
  <2>3. /\ r \in FsmRec /\ r.cmd = fsm[f].cmd /\ r.state = fsm[f].state
        /\ r.buf = Text(n)
    BY <1>1, <1>3, <2>2 DEF FsmRec
  <2>4. Terminated(f, r)
    BY <2>1, <2>2, <2>3 DEF Terminated
  <2>5. Settled(f, r)
    BY <1>1, <2>3, <2>4 DEF Settled, MachineOK, Dereferences, BufferMatches, Pending,
       Flushing, NeedsCommand, NameState, UnsolicitedState, Command_of
  <2> QED
    BY <1>1, <2>3, <2>4, <2>5
<1> QED
  BY <1>2, <1>3 DEF AfterHandler

LEMMA HandlerReturnedStep ==
  ASSUME HandlersInv, NEW f \in Fsm, fsm[f].state \in {"READ_LOOP", "TEST_LOOP"},
         NEW r \in AfterHandler(f), NEW ret, NEW after, NEW restarted,
         after \in {"AFTER_FLUSH_FORMAT_READ_ARGS", "AFTER_FLUSH_FORMAT_TEST_ARGS"},
         Settled(f, restarted), HandlerReturned(f, r, ret, after, restarted)
  PROVE  MachinesInv'
<1>1. /\ r \in FsmRec /\ r.cmd \in CmdIds /\ r.state = fsm[f].state
      /\ Terminated(f, r) /\ Settled(f, r)
  BY AfterHandlerOK
<1>2. \A a \in {after, "AFTER_FLUSH_OK"} : Settled(f, start_flush_io_buffer(r, a))
  <2>1. {after, "AFTER_FLUSH_OK"} \subseteq AfterFlushState(f) \ {"PRINT_CMD"}
    BY DEF AfterFlushState
  <2> QED
    BY <1>1, <2>1, StartFlushOK
<1>3. Settled(f, end_processing_with_ok(f, r)) /\ Settled(f, end_processing_with_error(f, r))
  BY <1>1, EndProcessingOK
<1>4. \/ \E q : Settled(f, q) /\ Becomes(f, q) /\ UNCHANGED hold
      \/ enable_hold_state(f, r)
      \/ hold_exit(1) /\ \E q : Settled(f, q) /\ Becomes(f, q)
      \/ hold_exit(-1) /\ \E q : Settled(f, q) /\ Becomes(f, q)
  BY <1>2, <1>3 DEF HandlerReturned
<1> QED
  BY <1>1, <1>4, SettledStep, EnableHoldStep, HoldExitStep DEF HandlersInv

LEMMA ReadLoopStep ==
  ASSUME HandlersInv, NEW f \in Fsm, process_read_loop(f)
  PROVE  HandlersInv'
<1>1. fsm[f].state = "READ_LOOP"
  BY DEF process_read_loop
<1>2. PICK ret \in Command_of(fsm[f]).read, r \in AfterHandler(f) :
        \/ HandlerReturned(f, r, ret, "AFTER_FLUSH_FORMAT_READ_ARGS",
                           start_processing_format_read_args(f, r))
        \/ Becomes(f, end_processing_with_error(f, r)) /\ UNCHANGED hold
  BY DEF process_read_loop
<1>3. r \in FsmRec /\ r.cmd \in CmdIds
  BY <1>1, AfterHandlerOK
<1>4. Settled(f, start_processing_format_read_args(f, r))
      /\ Settled(f, end_processing_with_error(f, r))
  BY <1>3, FormatReadOK, EndProcessingOK
<1>5. MachinesInv'
  BY <1>1, <1>2, <1>4, HandlerReturnedStep, SettledStep DEF HandlersInv
<1> QED
  BY <1>5 DEF HandlersInv, process_read_loop, search

LEMMA TestLoopStep ==
  ASSUME HandlersInv, NEW f \in Fsm, process_test_loop(f)
  PROVE  HandlersInv'
<1>1. fsm[f].state = "TEST_LOOP"
  BY DEF process_test_loop
<1>2. PICK ret \in Command_of(fsm[f]).test, r \in AfterHandler(f) :
        \/ HandlerReturned(f, r, ret, "AFTER_FLUSH_FORMAT_TEST_ARGS",
                           start_processing_format_test_args(f, r))
        \/ f = AT /\ Becomes(f, start_print_cmd_list(r)) /\ UNCHANGED hold
        \/ Becomes(f, end_processing_with_ok(f, r)) /\ UNCHANGED hold
  BY DEF process_test_loop
<1>3. r \in FsmRec /\ r.cmd \in CmdIds
  BY <1>1, AfterHandlerOK
<1>4. /\ Settled(f, start_processing_format_test_args(f, r))
      /\ Settled(f, end_processing_with_ok(f, r))
      /\ Settled(AT, start_print_cmd_list(r))
  BY <1>3, FormatTestOK, EndProcessingOK, StartPrintOK
<1>5. MachinesInv'
  BY <1>1, <1>2, <1>4, HandlerReturnedStep, SettledStep DEF HandlersInv
<1>6. length' \in {length, 0}
  BY DEF process_test_loop
<1> QED
  BY <1>5, <1>6 DEF HandlersInv, process_test_loop, search

LEMMA HoldStateStep ==
  ASSUME HandlersInv, process_hold_state
  PROVE  HandlersInv'
<1>1. at.state = "HOLD" /\ at \in FsmRec /\ at = fsm[AT] /\ AT \in Fsm /\ UN # AT
      /\ Fsm = {AT, UN}
  BY AtFacts, BufSizeFacts DEF process_hold_state, Fsm
<1>2. CASE UNCHANGED <<fsm, hold>>
  BY <1>2, IdleStep DEF HandlersInv, process_hold_state, search
<1>3. CASE hold_exit_status # 0
  <2>1. PICK r : Settled(AT, r) /\ Becomes(AT, r)
    BY <1>1, <1>3, AckOK DEF process_hold_state
  <2>2. hold_state_flag' = FALSE /\ hold_exit_status' = hold_exit_status
    BY <1>3 DEF process_hold_state
  <2>3. r \in FsmRec /\ r.state \notin {"HOLD", "FLUSH_IO_WRITE"} /\ MachineOK(AT, r)
    BY <2>1 DEF Settled, MachineOK
  <2>4. fsm' \in [Fsm -> FsmRec] /\ fsm'[AT] = r /\ fsm'[UN] = fsm[UN]
    BY <1>1, <2>1, <2>3 DEF HandlersInv, MachinesInv, Becomes
  <2>5. MachinesInv'
    BY <1>1, <2>2, <2>3, <2>4 DEF HandlersInv, MachinesInv, HoldFlagMatchesState,
       OutputExclusion
  <2> QED
    BY <2>5 DEF HandlersInv, process_hold_state, search
<1> QED
  BY <1>2, <1>3 DEF process_hold_state

\* The end of the listing is an acknowledge, otherwise the next command.
LEMMA NextListedOK ==
  ASSUME NEW r \in FsmRec, r.state = "PRINT_CMD"
  PROVE  Settled(AT, NextListed(r))
<1>1. r.index \in Nat /\ r.index + 1 \in Nat /\ NumCmds \in Nat
  BY NumCmdsAssumption DEF FsmRec
<1>2. CASE r.index + 1 >= NumCmds
  <2>1. [r EXCEPT !.index = r.index + 1] \in FsmRec
    BY <1>1 DEF FsmRec
  <2> QED
    BY <1>2, <2>1, AckOK DEF NextListed
<1>3. CASE ~(r.index + 1 >= NumCmds)
  <2> DEFINE s == [r EXCEPT !.index = r.index + 1, !.cmd_type = "NONE"]
  <2>1. s \in FsmRec /\ s.state = "PRINT_CMD" /\ s.index = r.index + 1
    BY <1>1 DEF FsmRec, CmdType
  <2> HIDE DEF s
  <2>2. s.index < NumCmds
    BY <1>1, <1>3, <2>1
  <2>3. Settled(AT, s)
    BY <2>1, <2>2, BufSizeFacts DEF Settled, MachineOK, Dereferences, BufferMatches,
       Pending, Flushing, NeedsCommand, NameState
  <2> QED
    BY <1>3, <2>3 DEF NextListed, s
<1> QED
  BY <1>2, <1>3

\* One form of a command, printed or passed over.
LEMMA ListedFormOK ==
  ASSUME NEW r \in FsmRec, r.state = "PRINT_CMD", r.index < NumCmds, NEW t \in CmdType
  PROVE  Settled(AT, [r EXCEPT !.cmd_type = t])
<1> DEFINE s == [r EXCEPT !.cmd_type = t]
<1>1. s \in FsmRec /\ s.state = "PRINT_CMD" /\ s.index = r.index
  BY DEF FsmRec
<1> HIDE DEF s
<1>2. Settled(AT, s)
  BY <1>1, BufSizeFacts DEF Settled, MachineOK, Dereferences, BufferMatches,
     Pending, Flushing, NeedsCommand, NameState
<1> QED
  BY <1>2 DEF s

LEMMA PrintedFormOK ==
  ASSUME NEW r \in FsmRec, r.index < NumCmds, NEW t \in CmdType, NEW n \in Nat,
         PrintFits(AT, r, n)
  PROVE  Settled(AT, start_flush_io_buffer_raw([Printed(r, n) EXCEPT !.cmd_type = t],
                                               "PRINT_CMD"))
<1> DEFINE p == Printed(r, n)
           s == [p EXCEPT !.cmd_type = t]
<1>1. p \in FsmRec /\ Terminated(AT, p) /\ p.index = r.index
  BY BufSizeFacts, PrintOK
<1> HIDE DEF p
<1>2. s \in FsmRec /\ s.buf = p.buf /\ s.index = p.index
  BY <1>1 DEF FsmRec
<1> HIDE DEF s
<1>3. Settled(AT, start_flush_io_buffer_raw(s, "PRINT_CMD"))
  BY <1>1, <1>2, StartFlushRawOK DEF Terminated
<1> QED
  BY <1>3 DEF s, p

LEMMA PrintCmdListStep ==
  ASSUME HandlersInv, print_cmd_list
  PROVE  HandlersInv'
<1> DEFINE r == [at EXCEPT !.cmd = at.index]
           q == [r EXCEPT !.position = 0]
<1>1. at.state = "PRINT_CMD" /\ at \in FsmRec /\ at.index \in CmdIds /\ at = fsm[AT]
  BY AtFacts, NumCmdsAssumption DEF print_cmd_list, MachineOK, Dereferences, Pending,
     Flushing, FsmRec, CmdIds
<1>2. /\ r \in FsmRec /\ r.state = "PRINT_CMD" /\ r.index < NumCmds /\ r.cmd \in CmdIds
      /\ r.cmd_type \in CmdType
  BY <1>1, NumCmdsAssumption DEF FsmRec, CmdIds
<1> HIDE DEF r
<1>3. q \in FsmRec /\ q.index = r.index
  BY <1>2 DEF FsmRec
<1> HIDE DEF q
<1>4. \A t \in DOMAIN NextForm : NextForm[t] \in CmdType
  BY DEF NextForm, CmdType
<1>5. \A t \in DOMAIN NextForm : FullNameLen(Command_of(r), t) \in Nat
  <2>1. Len(Command_of(r).name) \in Nat
    BY <1>2, TableFacts DEF Command_of
  <2>2. \A t \in DOMAIN NextForm : SuffixLen[t] \in Nat
    BY DEF NextForm, SuffixLen
  <2> QED
    BY <2>1, <2>2 DEF FullNameLen
<1>6. Settled(AT, NextListed(r)) /\ Settled(AT, ack_error(q))
  BY <1>2, <1>3, NextListedOK, AckOK
<1>7. \A t \in CmdType : Settled(AT, [r EXCEPT !.cmd_type = t])
  BY <1>2, ListedFormOK
<1>8. \A t \in CmdType : \A n \in Nat : PrintFits(AT, q, n) =>
        Settled(AT, start_flush_io_buffer_raw([Printed(q, n) EXCEPT !.cmd_type = t],
                                              "PRINT_CMD"))
  BY <1>2, <1>3, PrintedFormOK
<1>9. PICK s : Settled(AT, s) /\ Becomes(AT, s)
  <2>1. CASE Becomes(AT, NextListed(r))
    BY <1>6, <2>1
  <2>2. CASE \E t \in {"TEST", "RUN"} : Becomes(AT, [r EXCEPT !.cmd_type = t])
    BY <1>7, <2>2 DEF CmdType
  <2>3. CASE /\ r.cmd_type \in DOMAIN NextForm
             /\ Becomes(AT, [r EXCEPT !.cmd_type = NextForm[r.cmd_type]])
    BY <1>4, <1>7, <2>3
  <2>4. CASE /\ r.cmd_type \in DOMAIN NextForm
             /\ \E n \in {FullNameLen(Command_of(r), r.cmd_type)} :
                  Becomes(AT, IF PrintFits(AT, q, n)
                    THEN start_flush_io_buffer_raw(
                           [Printed(q, n) EXCEPT !.cmd_type = NextForm[r.cmd_type]],
                           "PRINT_CMD")
                    ELSE ack_error(q))
    BY <1>4, <1>5, <1>6, <1>8, <2>4
  <2> QED
    BY <2>1, <2>2, <2>3, <2>4 DEF print_cmd_list, r, q
<1>10. MachinesInv'
  BY <1>1, <1>9, SettledStep, BufSizeFacts DEF HandlersInv, print_cmd_list
<1>11. length' \in {length, 0, 1}
  BY DEF print_cmd_list
<1> QED
  BY <1>10, <1>11 DEF HandlersInv, print_cmd_list, search

-----------------------------------------------------------------------------
(* Writing the output.                                                     *)

\* A machine may write when the other one does not.
LEMMA WritingStep ==
  ASSUME MachinesInv, NEW f \in Fsm, NEW r, MachineOK(f, r), r.state = "FLUSH_IO_WRITE",
         Becomes(f, r), fsm[f].state \in Flushing,
         fsm[Other(f)].state # "FLUSH_IO_WRITE", UNCHANGED hold
  PROVE  MachinesInv'
<1>1. /\ r \in FsmRec /\ fsm' = [fsm EXCEPT ![f] = r] /\ AT # UN
      /\ AT \in Fsm /\ UN \in Fsm /\ f \in {AT, UN}
  BY BufSizeFacts DEF MachineOK, Becomes, Fsm
<1>2. fsm' \in [Fsm -> FsmRec] /\ \A g \in Fsm : MachineOK(g, fsm'[g])
  BY <1>1 DEF MachinesInv
<1>3. /\ fsm'[f] = r /\ fsm'[Other(f)] = fsm[Other(f)]
  BY <1>1 DEF MachinesInv, Other
<1>4. HoldFlagMatchesState'
  BY <1>1, <1>3 DEF MachinesInv, HoldFlagMatchesState, hold, Flushing, Other
<1>5. OutputExclusion'
  BY <1>1, <1>3 DEF OutputExclusion, Other
<1> QED
  BY <1>2, <1>4, <1>5 DEF MachinesInv, hold

LEMMA IoWriteWaitStep ==
  ASSUME HandlersInv, NEW f \in Fsm, process_io_write_wait(f)
  PROVE  HandlersInv'
<1> DEFINE s == [fsm[f] EXCEPT !.state = "FLUSH_IO_WRITE"]
<1>1. fsm[f] \in FsmRec /\ MachineOK(f, fsm[f]) /\ fsm[f].state = "FLUSH_IO_WRITE_WAIT"
  BY MachineFacts DEF process_io_write_wait
<1>2. /\ s \in FsmRec /\ s.state = "FLUSH_IO_WRITE" /\ s.cmd = fsm[f].cmd
      /\ s.index = fsm[f].index /\ s.position = fsm[f].position /\ s.buf = fsm[f].buf
      /\ s.write_buf = fsm[f].write_buf
      /\ s.write_state_after = fsm[f].write_state_after
  BY <1>1 DEF FsmRec, CatState
<1>3. \/ Becomes(f, s) /\ fsm[Other(f)].state # "FLUSH_IO_WRITE"
      \/ Becomes(f, fsm[f])
  BY DEF process_io_write_wait
<1> HIDE DEF s
<1>4. MachineOK(f, s)
  BY <1>1, <1>2 DEF MachineOK, Dereferences, BufferMatches, Pending, Flushing,
     NeedsCommand, NameState, UnsolicitedState, Terminated, WriteEnd
<1>5. CASE Becomes(f, s) /\ fsm[Other(f)].state # "FLUSH_IO_WRITE"
  BY <1>1, <1>2, <1>4, <1>5, WritingStep
     DEF HandlersInv, process_io_write_wait, Flushing, search
<1>6. CASE Becomes(f, fsm[f])
  <2>1. Settled(f, fsm[f])
    BY <1>1 DEF Settled
  <2> QED
    BY <1>1, <1>6, <2>1, SettledStep DEF HandlersInv, process_io_write_wait, search
<1> QED
  BY <1>3, <1>5, <1>6

LEMMA IoWriteStep ==
  ASSUME HandlersInv, NEW f \in Fsm, process_io_write(f)
  PROVE  HandlersInv'
<1> DEFINE r == fsm[f]
           head == [r EXCEPT !.position = 0, !.write_buf = "buf",
                             !.write_state = "MAIN_BUFFER"]
           tail == [r EXCEPT !.position = 0, !.write_buf = "newline",
                             !.write_state = "AFTER"]
           done == [r EXCEPT !.state = r.write_state_after]
           char == [r EXCEPT !.position = r.position + 1]
<1>1. /\ r \in FsmRec /\ MachineOK(f, r) /\ r.state = "FLUSH_IO_WRITE"
      /\ r.position \in Nat /\ r.buf \in TextBuffer /\ r.buf.len \in Nat
      /\ WriteEnd(r) \in Nat
      /\ r.write_state_after \in AfterFlushState(f)
  <2>1. r \in FsmRec /\ MachineOK(f, r) /\ r.state = "FLUSH_IO_WRITE"
    BY MachineFacts DEF process_io_write
  <2>2. r.position \in Nat
    BY <2>1 DEF FsmRec
  <2>3. r.buf \in TextBuffer /\ r.write_state_after \in AfterFlushState(f)
    BY <2>1 DEF MachineOK, BufferMatches, Flushing, Terminated
  <2>4. r.buf.len \in Nat
    BY <2>3 DEF TextBuffer
  <2> QED
    BY <2>1, <2>2, <2>3, <2>4 DEF WriteEnd
<1>2. \A s \in {head, tail, char} :
        /\ s \in FsmRec /\ s.state = r.state /\ s.cmd = r.cmd /\ s.index = r.index
        /\ s.buf = r.buf /\ s.write_state_after = r.write_state_after
  <2> DEFINE P(s) == /\ s \in FsmRec /\ s.state = r.state /\ s.cmd = r.cmd
                     /\ s.index = r.index /\ s.buf = r.buf
                     /\ s.write_state_after = r.write_state_after
  <2> HIDE DEF r
  <2>1. P(head)
    BY <1>1 DEF FsmRec
  <2>2. P(tail)
    BY <1>1 DEF FsmRec
  <2>3. P(char)
    BY <1>1 DEF FsmRec
  <2> QED
    BY <2>1, <2>2, <2>3
<1>3. /\ head.position = 0 /\ tail.position = 0
      /\ char.position = r.position + 1 /\ char.write_buf = r.write_buf
  BY <1>1 DEF FsmRec
<1>4. done \in FsmRec /\ done.state = r.write_state_after /\ done.cmd = r.cmd
      /\ done.index = r.index
  BY <1>1 DEF FsmRec
<1>5. \/ \E s \in {head, tail, done, r} : Becomes(f, s)
      \/ r.position # WriteEnd(r) /\ Becomes(f, char)
  <2>1. r.write_state \in {"BEFORE", "MAIN_BUFFER", "AFTER"}
    BY <1>1 DEF FsmRec
  <2> QED
    BY <2>1 DEF process_io_write
<1>6. Settled(f, done)
  <2>1. Dereferences(r)
    BY <1>1 DEF MachineOK
  <2> HIDE DEF done, r
  <2>2. done.state \in AfterFlushState(f) /\ (f = UN => done.state \in UnsolicitedState)
    BY <1>1, <1>4, BufSizeFacts DEF AfterFlushState, UnsolicitedState
  <2>3. Dereferences(done)
    BY <1>1, <1>4, <2>1, <2>2 DEF Dereferences, Pending, Flushing, NeedsCommand,
       AfterFlushState
  <2>4. BufferMatches(f, done)
    BY <2>2 DEF BufferMatches, Flushing, NameState, AfterFlushState
  <2> QED
    BY <1>4, <2>2, <2>3, <2>4 DEF Settled, MachineOK, Flushing, AfterFlushState
<1>7. fsm[Other(f)].state # "FLUSH_IO_WRITE"
  BY <1>1 DEF HandlersInv, MachinesInv, OutputExclusion, Other, Fsm
<1>8. ASSUME NEW s \in {head, tail, char}, s.position <= WriteEnd(s)
      PROVE  MachineOK(f, s) /\ s.state = "FLUSH_IO_WRITE"
  <2> HIDE DEF head, tail, char
  <2> QED
    BY <1>1, <1>2, <1>8 DEF MachineOK, Dereferences, BufferMatches, Pending, Flushing,
       NeedsCommand, NameState, UnsolicitedState, Terminated
<1>9. \A s \in {head, tail} : s.position <= WriteEnd(s)
  <2>1. \A s \in {head, tail} : s.position = 0 /\ WriteEnd(s) \in Nat
    BY <1>1, <1>2, <1>3 DEF WriteEnd
  <2> HIDE DEF head, tail
  <2> QED
    BY <2>1
<1>10. ASSUME r.position # WriteEnd(r)
       PROVE  char.position <= WriteEnd(char)
  <2>1. WriteEnd(char) = WriteEnd(r)
    BY <1>2, <1>3 DEF WriteEnd
  <2>2. r.position <= WriteEnd(r)
    BY <1>1 DEF MachineOK, BufferMatches, Flushing
  <2> HIDE DEF char, r
  <2> QED
    BY <1>1, <1>3, <1>10, <2>1, <2>2
<1>11. \/ Becomes(f, done)
       \/ \E s : MachineOK(f, s) /\ s.state = "FLUSH_IO_WRITE" /\ Becomes(f, s)
  <2> HIDE DEF head, tail, done, char, r
  <2> QED
    BY <1>1, <1>5, <1>8, <1>9, <1>10
<1> HIDE DEF done
<1>12. MachinesInv'
  BY <1>1, <1>6, <1>7, <1>11, SettledStep, WritingStep
     DEF HandlersInv, process_io_write, Flushing
<1> QED
  BY <1>12 DEF HandlersInv, process_io_write, search

LEMMA AfterFlushStep ==
  ASSUME HandlersInv, NEW f \in Fsm, AfterFlush(f)
  PROVE  HandlersInv'
<1> DEFINE r == fsm[f]
<1>1. /\ r \in FsmRec /\ MachineOK(f, r)
      /\ r.state \in {"AFTER_FLUSH_RESET", "AFTER_FLUSH_OK",
                      "AFTER_FLUSH_FORMAT_READ_ARGS", "AFTER_FLUSH_FORMAT_TEST_ARGS"}
  BY MachineFacts DEF AfterFlush
<1>2. ASSUME f = AT, r.state = "AFTER_FLUSH_RESET"
      PROVE  Settled(AT, reset_state(r))
  <2> DEFINE s == reset_state(r)
  <2>1. hold_state_flag = FALSE
    BY <1>2 DEF HandlersInv, MachinesInv, HoldFlagMatchesState
  <2>2. s = unsolicited_reset_state(r)
    BY <2>1 DEF reset_state, unsolicited_reset_state
  <2> HIDE DEF s, r
  <2>3. s \in FsmRec /\ s.state = "IDLE"
    <3>1. s \in FsmRec
      BY <1>1, <2>2, UnsolicitedResetOK DEF Settled, MachineOK
    <3>2. s.state = "IDLE"
      BY <1>1, <2>2 DEF FsmRec, unsolicited_reset_state
    <3> QED
      BY <3>1, <3>2
  <2>4. Settled(AT, s)
    BY <2>3, BufSizeFacts DEF Settled, MachineOK, Dereferences, BufferMatches, Pending,
       Flushing, NeedsCommand, NameState
  <2> QED
    BY <2>4 DEF s
<1>3. ASSUME f = UN
      PROVE  Settled(f, unsolicited_reset_state(r))
  BY <1>1, <1>3, UnsolicitedResetOK
<1>4. Settled(f, end_processing_with_ok(f, r))
  BY <1>1, EndProcessingOK
<1>5. ASSUME r.state \in {"AFTER_FLUSH_FORMAT_READ_ARGS", "AFTER_FLUSH_FORMAT_TEST_ARGS"}
      PROVE  /\ Settled(f, start_processing_format_read_args(f, r))
             /\ Settled(f, start_processing_format_test_args(f, r))
  <2>1. r.cmd \in CmdIds
    BY <1>1, <1>5 DEF MachineOK, Dereferences, Pending, Flushing, NeedsCommand
  <2> HIDE DEF r
  <2> QED
    BY <1>1, <2>1, FormatReadOK, FormatTestOK
<1>6. PICK s : Settled(f, s) /\ Becomes(f, s)
  BY <1>2, <1>3, <1>4, <1>5 DEF AfterFlush, Fsm
<1>7. MachinesInv'
  BY <1>1, <1>6, SettledStep DEF HandlersInv, AfterFlush
<1> QED
  BY <1>7 DEF HandlersInv, AfterFlush, search

LEMMA SharedStep ==
  ASSUME HandlersInv, NEW f \in Fsm, Shared(f)
  PROVE  HandlersInv'
BY FormatReadArgsStep, FormatTestArgsStep, ReadLoopStep, TestLoopStep,
   IoWriteWaitStep, IoWriteStep, AfterFlushStep DEF Shared

-----------------------------------------------------------------------------
(* The whole system.                                                       *)

LEMMA CheckBuffersStep ==
  ASSUME IInv, check_unsolicited_buffers
  PROVE  /\ HandlersInv'
         /\ queue' \in Seq(CmdIds \X {"READ", "TEST"}) /\ Len(queue') <= QueueSize
<1>1. /\ HandlersInv /\ queue \in Seq(CmdIds \X {"READ", "TEST"})
      /\ Len(queue) <= QueueSize /\ UN \in Fsm /\ UN # AT
  BY BufSizeFacts DEF IInv, RestInv
<1>2. CASE UNCHANGED <<fsm, queue>>
  BY <1>1, <1>2, IdleStep DEF HandlersInv, check_unsolicited_buffers, search
<1>3. CASE queue # <<>>
  <2> DEFINE r == [fsm[UN] EXCEPT !.cmd = Head(queue)[1], !.cmd_type = Head(queue)[2]]
  <2>1. Head(queue) \in CmdIds \X {"READ", "TEST"}
    BY <1>1, <1>3
  <2>2. Head(queue)[1] \in CmdIds /\ Head(queue)[2] \in CmdType
    BY <2>1 DEF CmdType
  <2>3. r \in FsmRec /\ r.cmd \in CmdIds
    BY <1>1, <2>2, MachineFacts DEF FsmRec
  <2>4. \E s \in {start_processing_format_read_args(UN, r),
                  start_processing_format_test_args(UN, r)} : Becomes(UN, s)
    BY <1>3 DEF check_unsolicited_buffers
  <2> HIDE DEF r
  <2>5. MachinesInv'
    BY <1>1, <2>3, <2>4, FormatReadOK, FormatTestOK, SettledStep
       DEF HandlersInv, check_unsolicited_buffers
  <2>6. queue' = Tail(queue)
    BY <1>3 DEF check_unsolicited_buffers
  <2>7. queue' \in Seq(CmdIds \X {"READ", "TEST"}) /\ Len(queue') <= QueueSize
    <3>1. Len(queue') = Len(queue) - 1 /\ Len(queue) \in Nat /\ QueueSize \in Nat
      BY <1>1, <1>3, <2>6, ParserAssumption
    <3> QED
      BY <1>1, <1>3, <2>6, <3>1
  <2> QED
    BY <2>5, <2>7 DEF IInv, HandlersInv, check_unsolicited_buffers, search
<1> QED
  BY <1>2, <1>3 DEF check_unsolicited_buffers

LEMMA AtCommandStep ==
  ASSUME HandlersInv, AtCommand
  PROVE  HandlersInv'
BY NoInputStep, ErrorStateStep, IdleStateStep, ParsePrefixStep, ParseCommandStep,
   UpdateCommandStep, WaitReadStep, SearchCommandStep, CommandFoundStep,
   CommandNotFoundStep, ParseCommandArgsStep, ParseWriteArgsStep, WaitTestStep,
   WriteLoopStep, RunLoopStep, HoldStateStep, PrintCmdListStep, SharedStep,
   BufSizeFacts DEF AtCommand

LEMMA TriggerStep ==
  ASSUME IInv, cat_trigger_unsolicited_event
  PROVE  /\ HandlersInv'
         /\ queue' \in Seq(CmdIds \X {"READ", "TEST"}) /\ Len(queue') <= QueueSize
<1>1. PICK event \in CmdIds \X {"READ", "TEST"} :
        Len(queue) < QueueSize /\ queue' = Append(queue, event)
  BY ParserAssumption DEF cat_trigger_unsolicited_event
<1>2. queue \in Seq(CmdIds \X {"READ", "TEST"}) /\ QueueSize \in Nat
  BY ParserAssumption DEF IInv, RestInv
<1>3. Len(queue') = Len(queue) + 1 /\ queue' \in Seq(CmdIds \X {"READ", "TEST"})
      /\ Len(queue) \in Nat
  BY <1>1, <1>2
<1>4. HandlersInv'
  BY IdleStep DEF IInv, HandlersInv, cat_trigger_unsolicited_event, search
<1> QED
  BY <1>1, <1>2, <1>3, <1>4

LEMMA ApiHoldExitStep ==
  ASSUME HandlersInv, cat_hold_exit
  PROVE  HandlersInv'
<1>1. UNCHANGED <<fsm, length, current_char, search, hold_state_flag>>
      /\ hold_exit_status' \in {1, -1}
  BY DEF cat_hold_exit, hold_exit
<1> QED
  BY <1>1 DEF HandlersInv, MachinesInv, HoldFlagMatchesState, OutputExclusion, search

\* The typed name is made of characters.
LEMMA HistoryStep ==
  ASSUME typed \in Seq(Char), current_char' \in Char, History
  PROVE  typed' \in Seq(Char)
BY DEF History

LEMMA InitIInv == Init => IInv
<1> SUFFICES ASSUME Init
             PROVE  IInv
  OBVIOUS
<1> DEFINE R == {InitialFsm(i, p) : i \in UninitValues, p \in UninitValues}
<1>1. ASSUME NEW f \in Fsm
      PROVE  fsm[f] \in FsmRec /\ fsm[f].state = "IDLE" /\ MachineOK(f, fsm[f])
  <2>1. PICK i \in UninitValues, p \in UninitValues : fsm[f] = InitialFsm(i, p)
    BY <1>1 DEF Init
  <2>2. i \in Nat /\ p \in Nat /\ Text(0) \in Buffer
    BY ParserAssumption DEF Text, Buffer
  <2>3. InitialFsm(i, p) \in FsmRec /\ InitialFsm(i, p).state = "IDLE"
    BY <2>2 DEF InitialFsm, FsmRec, CatState, CmdType
  <2> QED
    BY <2>1, <2>3 DEF MachineOK, Dereferences, BufferMatches, Pending, Flushing,
       NeedsCommand, NameState, UnsolicitedState
<1>2. fsm \in [Fsm -> FsmRec]
  <2>1. fsm \in [Fsm -> R]
    BY DEF Init
  <2> HIDE DEF R
  <2> QED
    BY <1>1, <2>1
<1>3. MachinesInv
  BY <1>1, <1>2, BufSizeFacts DEF Init, MachinesInv, HoldFlagMatchesState, OutputExclusion
<1>4. HandlersInv
  <2>1. length \in Nat /\ partial_cntr \in Nat
    BY ParserAssumption DEF Init
  <2>2. current_char \in Char /\ implicit_write_flag \in BOOLEAN
    BY DEF Init, Char
  <2> QED
    BY <1>3, <2>1, <2>2 DEF HandlersInv
<1>5. RestInv
  BY ParserAssumption DEF Init, RestInv
<1> QED
  BY <1>4, <1>5 DEF IInv

LEMMA NextIInv == IInv /\ [Next]_vars => IInv'
<1> SUFFICES ASSUME IInv, [Next]_vars
             PROVE  IInv'
  OBVIOUS
<1>1. CASE UNCHANGED vars
  BY <1>1, IdleStep DEF vars, IInv, HandlersInv, RestInv, hold
<1>2. ASSUME HandlersInv', queue' \in Seq(CmdIds \X {"READ", "TEST"}),
             Len(queue') <= QueueSize, mutex' \in {"free", "service"}, History
      PROVE  IInv'
  <2>1. typed' \in Seq(Char)
    BY <1>2, HistoryStep DEF IInv, HandlersInv, RestInv
  <2> QED
    BY <1>2, <2>1 DEF IInv, RestInv
<1>3. CASE Unsolicited /\ History
  <2>1. CASE check_unsolicited_buffers
    BY <1>2, <1>3, <2>1, CheckBuffersStep DEF Unsolicited
  <2>2. CASE Shared(UN) /\ UNCHANGED queue
    BY <1>2, <1>3, <2>2, SharedStep, BufSizeFacts DEF Unsolicited, IInv, RestInv
  <2> QED
    BY <1>3, <2>1, <2>2 DEF Unsolicited
<1>4. CASE AtCommand /\ History
  <2>1. mutex' = "free" /\ UNCHANGED queue
    BY <1>4 DEF AtCommand
  <2>2. HandlersInv'
    BY <1>4, AtCommandStep DEF IInv
  <2> QED
    BY <1>2, <1>4, <2>1, <2>2 DEF IInv, RestInv
<1>5. CASE cat_trigger_unsolicited_event /\ History
  <2>1. UNCHANGED mutex
    BY <1>5 DEF cat_trigger_unsolicited_event
  <2> QED
    BY <1>2, <1>5, <2>1, TriggerStep DEF IInv, RestInv
<1>6. CASE cat_hold_exit /\ History
  <2>1. UNCHANGED <<mutex, queue>>
    BY <1>6 DEF cat_hold_exit
  <2>2. HandlersInv'
    BY <1>6, ApiHoldExitStep DEF IInv
  <2> QED
    BY <1>2, <1>6, <2>1, <2>2 DEF IInv, RestInv
<1> QED
  BY <1>1, <1>3, <1>4, <1>5, <1>6 DEF Next

THEOREM IInvHolds == Spec => []IInv
BY InitIInv, NextIInv, PTL DEF Spec

\* For every command table and buffer size, the parser's variables keep their
\* types and the event buffer is never overfilled.
THEOREM TypeCorrect == Spec => []TypeOK
<1>1. IInv => TypeOK
  BY BufSizeFacts DEF IInv, HandlersInv, MachinesInv, MachineOK, RestInv, TypeOK
<1> QED
  BY <1>1, IInvHolds, PTL

\* Response lines and unsolicited lines are never interleaved.
THEOREM OutputExclusionHolds == Spec => []OutputExclusion
<1>1. IInv => OutputExclusion
  BY DEF IInv, HandlersInv, MachinesInv
<1> QED
  BY <1>1, IInvHolds, PTL

\* hold_state_flag is set exactly while the command machine is on hold, also
\* when a handler of the unsolicited machine asked for it.
THEOREM HoldFlagHolds == Spec => []HoldFlagMatchesState
<1>1. IInv => HoldFlagMatchesState
  BY DEF IInv, HandlersInv, MachinesInv
<1> QED
  BY <1>1, IInvHolds, PTL

\* No handler is called through a NULL command or a NULL function pointer, and
\* no variable past the end of its array is processed.
THEOREM DereferencesHold == Spec => []CommandDereference
<1>1. IInv => CommandDereference
  BY DEF IInv, HandlersInv, MachinesInv, MachineOK, CommandDereference
<1> QED
  BY <1>1, IInvHolds, PTL

\* The shared working buffer is read only as what was last written to it.
THEOREM BufferUseHolds == Spec => []BufferUse
<1>1. IInv => BufferUse
  <2> SUFFICES ASSUME IInv
               PROVE  BufferUse
    OBVIOUS
  <2>1. \A f \in Fsm : BufferMatches(f, fsm[f])
    BY DEF IInv, HandlersInv, MachinesInv, MachineOK
  <2>2. \A f \in Fsm : fsm[f].state \in Flushing \cup {"READ_LOOP", "TEST_LOOP"} =>
          fsm[f].buf.kind = "text"
    BY <2>1 DEF BufferMatches, Terminated, TextBuffer
  <2> QED
    BY <2>1, <2>2, BufSizeFacts DEF BufferMatches, BufferUse
<1> QED
  BY <1>1, IInvHolds, PTL

\* What is written out is terminated inside the working buffer, and the write
\* position stays at or before the terminator.
THEOREM OutputTerminatedHolds == Spec => []OutputTerminated
<1>1. IInv => OutputTerminated
  BY DEF IInv, HandlersInv, MachinesInv, MachineOK, BufferMatches, Terminated,
     OutputTerminated
<1> QED
  BY <1>1, IInvHolds, PTL
=============================================================================
