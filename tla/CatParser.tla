----------------------------- MODULE CatParser ------------------------------
(***************************************************************************)
(* The AT command parser of src/cat.c: the command state machine and the   *)
(* unsolicited event state machine that one call of cat_service advances   *)
(* by one step each, the API functions other threads call, and the shared  *)
(* output line.                                                            *)
(*                                                                         *)
(* Both machines keep the same kind of record, because the functions they  *)
(* share (format_read_args, process_read_loop, ...) take the machine as a  *)
(* parameter; fsm[AT] holds fields of struct cat_object, fsm[UN] those of  *)
(* struct cat_unsolicited_fsm.  The one working buffer of a machine holds  *)
(* in turn match states, argument text and output text, so its value is    *)
(* tagged with what was last written there.                                *)
(*                                                                         *)
(* cat_service holds the mutex throughout; it is split here into its two   *)
(* calls, Unsolicited and then AtCommand, and the API actions wait for the *)
(* mutex.  cr_flag is never read and var always points to the variable at  *)
(* index, so neither is kept; unsolicited_cmd_buffer is a sequence here.   *)
(***************************************************************************)
EXTENDS CatTable, FiniteSets

CONSTANTS
  QueueSize,     \* CAT_UNSOLICITED_CMD_BUFFER_SIZE
  MaxName,       \* bound: longest command name typed
  MaxArgs,       \* bound: longest argument text typed
  Triggers,      \* bound: the events <<command, type>> threads may trigger
  WriteResults,  \* whether io->write accepted the character
  UninitValues   \* values of the counters cat_init leaves unassigned

ASSUME ParserAssumption ==
  /\ QueueSize \in Nat \ {0}
  /\ MaxName \in Nat /\ MaxArgs \in Nat
  /\ Triggers \subseteq CmdIds \X {"READ", "TEST"}
  /\ WriteResults \subseteq BOOLEAN
  /\ UninitValues \subseteq Nat

VARIABLES
  fsm,                  \* the two state machines
  length,               \* characters of the name, then of the arguments
  partial_cntr,         \* partial matches met by the search
  current_char,         \* last character read
  implicit_write_flag,  \* an implicit write command was completed
  hold_state_flag,      \* the parser is on hold
  hold_exit_status,     \* -1, 0 or 1: requested way out of hold
  queue,                \* buffered unsolicited events, oldest first
  mutex,                \* "free", or "service" between the two calls
  typed                 \* history: the command name read so far

vars == <<fsm, length, partial_cntr, current_char, implicit_write_flag,
          hold_state_flag, hold_exit_status, queue, mutex, typed>>

search == <<partial_cntr, implicit_write_flag>>
hold == <<hold_state_flag, hold_exit_status>>

CatState ==
  {"ERROR", "IDLE", "PARSE_PREFIX", "PARSE_COMMAND_CHAR",
   "UPDATE_COMMAND_STATE", "WAIT_READ_ACKNOWLEDGE", "SEARCH_COMMAND",
   "COMMAND_FOUND", "COMMAND_NOT_FOUND", "PARSE_COMMAND_ARGS",
   "PARSE_WRITE_ARGS", "FORMAT_READ_ARGS", "WAIT_TEST_ACKNOWLEDGE",
   "FORMAT_TEST_ARGS", "WRITE_LOOP", "READ_LOOP", "TEST_LOOP", "RUN_LOOP",
   "HOLD", "FLUSH_IO_WRITE_WAIT", "FLUSH_IO_WRITE", "AFTER_FLUSH_RESET",
   "AFTER_FLUSH_OK", "AFTER_FLUSH_FORMAT_READ_ARGS",
   "AFTER_FLUSH_FORMAT_TEST_ARGS", "PRINT_CMD"}

UnsolicitedState ==
  {"IDLE", "FORMAT_READ_ARGS", "FORMAT_TEST_ARGS", "READ_LOOP", "TEST_LOOP",
   "FLUSH_IO_WRITE_WAIT", "FLUSH_IO_WRITE", "AFTER_FLUSH_RESET",
   "AFTER_FLUSH_OK", "AFTER_FLUSH_FORMAT_READ_ARGS",
   "AFTER_FLUSH_FORMAT_TEST_ARGS"}

MatchState == {"NOT_MATCH", "PARTIAL_MATCH", "FULL_MATCH"}

\* A text is its length; BufSize stands for a text without terminator.
Text(len) == [kind |-> "text", len |-> len]
Args(s) == [kind |-> "args", s |-> s]
Matches(m) == [kind |-> "match", match |-> m]

Buffer == [kind : {"text"}, len : Nat]
            \cup [kind : {"args"}, s : Seq(Char)]
            \cup [kind : {"match"}, match : [CmdIds -> MatchState]]

FsmRec == [state : CatState, cmd : CmdIds \cup {NoCmd}, cmd_type : CmdType,
           index : Nat, position : Nat, write_buf : {"newline", "buf"},
           write_state : {"BEFORE", "MAIN_BUFFER", "AFTER"},
           write_state_after : CatState, buf : Buffer]

Becomes(f, r) == fsm' = [fsm EXCEPT ![f] = r]

Command_of(r) == Cmds[r.cmd]
Var_of(r) == Cmds[r.cmd].vars[r.index + 1]

-----------------------------------------------------------------------------
(* cat_init, on an object whose counters hold whatever the stack held. The *)
(* write_* fields are assigned by every start_flush_io_buffer before       *)
(* process_io_write reads them, so one value of each is enough.            *)

InitialFsm(index, position) ==
  [state |-> "IDLE", cmd |-> NoCmd, cmd_type |-> "NONE", index |-> index,
   position |-> position, write_buf |-> "newline", write_state |-> "BEFORE",
   write_state_after |-> "AFTER_FLUSH_RESET", buf |-> Text(0)]

Init ==
  /\ fsm \in [Fsm -> {InitialFsm(i, p) : i \in UninitValues, p \in UninitValues}]
  /\ length \in UninitValues
  /\ partial_cntr \in UninitValues
  /\ current_char = "NL"
  /\ implicit_write_flag = FALSE
  /\ hold_state_flag = FALSE
  /\ hold_exit_status = 0
  /\ queue = <<>>
  /\ mutex = "free"
  /\ typed = <<>>

-----------------------------------------------------------------------------
(* Functions of cat.c that only assign fields of one machine.              *)

reset_state(r) ==
  [r EXCEPT !.state = IF hold_state_flag THEN "HOLD" ELSE "IDLE",
            !.cmd = NoCmd, !.cmd_type = "NONE"]

unsolicited_reset_state(r) ==
  [r EXCEPT !.state = "IDLE", !.cmd = NoCmd, !.cmd_type = "NONE"]

start_flush_io_buffer(r, after) ==
  [r EXCEPT !.position = 0, !.write_buf = "newline", !.write_state = "BEFORE",
            !.write_state_after = after, !.state = "FLUSH_IO_WRITE_WAIT"]

start_flush_io_buffer_raw(r, after) ==
  [r EXCEPT !.position = 0, !.write_buf = "buf", !.write_state = "AFTER",
            !.write_state_after = after, !.state = "FLUSH_IO_WRITE_WAIT"]

\* strncpy terminates the text only when it is shorter than the buffer.
Acknowledge(r, len) ==
  start_flush_io_buffer(
    [r EXCEPT !.buf = Text(IF len < BufSize[AT] THEN len ELSE BufSize[AT])],
    "AFTER_FLUSH_RESET")

ack_error(r) == Acknowledge(r, 5)
ack_ok(r) == Acknowledge(r, 2)

end_processing_with_error(f, r) ==
  IF f = AT THEN ack_error(r) ELSE unsolicited_reset_state(r)

end_processing_with_ok(f, r) ==
  IF f = AT THEN ack_ok(r) ELSE unsolicited_reset_state(r)

\* print_nstring_to_buf and print_format_num: text of length n at position.
\* Mutant: the terminator is forgotten in the space check.
PrintFits_NoTerminator(f, r, n) == n <= BufSize[f] - r.position

PrintFits(f, r, n) == n < BufSize[f] - r.position

Printed(r, n) == [r EXCEPT !.position = r.position + n,
                           !.buf = Text(r.position + n)]

\* Mutant: the match states are not reset for a new line.
prepare_parse_command_NoReset(r) == [r EXCEPT !.index = 0, !.cmd_type = "RUN"]

prepare_parse_command(r) ==
  [r EXCEPT !.buf = Matches([i \in CmdIds |-> "PARTIAL_MATCH"]),
            !.index = 0, !.cmd_type = "RUN"]

\* prepare_search_command and the state assignment that follows each call;
\* its third assignment, partial_cntr = 0, is made by the caller.
StartSearch(r) ==
  [r EXCEPT !.index = 0, !.cmd = NoCmd, !.state = "SEARCH_COMMAND"]

start_processing_format_read_args(f, r0) ==
  LET r == [r0 EXCEPT !.position = 0]
      n == Len(Command_of(r).name) + 1
      p == Printed(r, n)
  IN  IF ~PrintFits(f, r, n) THEN end_processing_with_error(f, r)
      ELSE IF is_variables_access_possible(Command_of(r), "READ_ONLY")
             THEN [p EXCEPT !.state = "FORMAT_READ_ARGS", !.index = 0]
      ELSE IF Command_of(r).read = {} THEN end_processing_with_error(f, p)
      ELSE [p EXCEPT !.state = "READ_LOOP"]

\* The description goes out on a line of its own; then the test handler, or
\* the text as it stands.
print_response_test(f, r) ==
  LET c == Command_of(r)
      n == IF c.descr > 0 THEN 2 + c.descr ELSE 0
      p == IF n > 0 THEN Printed(r, n) ELSE r
  IN  IF n > 0 /\ ~PrintFits(f, r, n) THEN end_processing_with_error(f, r)
      ELSE IF c.test # {} THEN [p EXCEPT !.state = "TEST_LOOP"]
      ELSE start_flush_io_buffer(p, "AFTER_FLUSH_OK")

start_processing_format_test_args(f, r0) ==
  LET r == [r0 EXCEPT !.position = 0]
      n == Len(Command_of(r).name) + 1
      p == Printed(r, n)
  IN  IF ~PrintFits(f, r, n) THEN end_processing_with_error(f, r)
      ELSE IF Command_of(r).vars # <<>>
             THEN [p EXCEPT !.state = "FORMAT_TEST_ARGS", !.index = 0]
      ELSE print_response_test(f, p)

start_print_cmd_list(r) ==
  [r EXCEPT !.index = 0, !.cmd_type = "NONE", !.state = "PRINT_CMD"]

\* After ++index: a comma, over the terminator, if another variable follows.
next_format_var_by_fsm(f, r, done) ==
  IF r.index >= Len(Command_of(r).vars) THEN done
  ELSE IF r.position >= BufSize[f] THEN end_processing_with_error(f, r)
  ELSE [r EXCEPT !.position = r.position + 1, !.buf = Text(BufSize[f])]

-----------------------------------------------------------------------------
(* Reading a command line.  io->read returns 0 when there is no input; the *)
(* handler then leaves everything as it was.                               *)

at == fsm[AT]

ReadingState == {"ERROR", "IDLE", "PARSE_PREFIX", "PARSE_COMMAND_CHAR",
                 "WAIT_READ_ACKNOWLEDGE", "PARSE_COMMAND_ARGS",
                 "WAIT_TEST_ACKNOWLEDGE"}

NoInput ==
  /\ at.state \in ReadingState
  /\ UNCHANGED <<fsm, length, current_char, search, hold>>

read_cmd_char(state) ==
  /\ at.state = state
  /\ \E raw \in InputChars :
       LET ch == IF state = "PARSE_COMMAND_ARGS" THEN raw ELSE to_upper(raw)
       IN  current_char' = IF ch \in {"CR", "NUL"} THEN "NL" ELSE ch

error_state ==
  /\ read_cmd_char("ERROR")
  /\ Becomes(AT, IF current_char' = "NL" THEN ack_error(at) ELSE at)
  /\ UNCHANGED <<length, search, hold>>

process_idle_state ==
  /\ read_cmd_char("IDLE")
  /\ Becomes(AT, CASE current_char' = "A" -> [at EXCEPT !.state = "PARSE_PREFIX"]
                   [] current_char' = "NL" -> at
                   [] OTHER -> [at EXCEPT !.state = "ERROR"])
  /\ UNCHANGED <<length, search, hold>>

parse_prefix ==
  /\ read_cmd_char("PARSE_PREFIX")
  /\ \/ /\ current_char' = "T"
        /\ length' = 0
        /\ Becomes(AT, [prepare_parse_command(at) EXCEPT
                          !.state = "PARSE_COMMAND_CHAR"])
     \/ /\ current_char' = "NL"
        /\ Becomes(AT, ack_error(at))
        /\ UNCHANGED length
     \/ /\ current_char' \notin {"T", "NL"}
        /\ Becomes(AT, [at EXCEPT !.state = "ERROR"])
        /\ UNCHANGED length
  /\ UNCHANGED <<search, hold>>

parse_command ==
  /\ read_cmd_char("PARSE_COMMAND_CHAR")
  /\ \/ /\ current_char' = "NL" \/ (current_char' = "=" /\ length # 0)
        /\ IF length = 0
             THEN Becomes(AT, ack_ok(at)) /\ UNCHANGED partial_cntr
             ELSE /\ Becomes(AT, StartSearch(
                       IF current_char' = "=" THEN [at EXCEPT !.cmd_type = "WRITE"]
                       ELSE at))
                  /\ partial_cntr' = 0
        /\ UNCHANGED length
     \/ /\ current_char' = "?" /\ length # 0
        /\ Becomes(AT, [at EXCEPT !.cmd_type = "READ",
                                  !.state = "WAIT_READ_ACKNOWLEDGE"])
        /\ UNCHANGED <<length, partial_cntr>>
     \/ /\ is_valid_cmd_name_char(current_char')
        /\ length < MaxName
        /\ length' = length + 1
        /\ Becomes(AT, [at EXCEPT !.state = "UPDATE_COMMAND_STATE"])
        /\ UNCHANGED partial_cntr
     \/ /\ current_char' # "NL" /\ ~is_valid_cmd_name_char(current_char')
        /\ current_char' \in {"?", "="} => length = 0
        /\ Becomes(AT, [at EXCEPT !.state = "ERROR"])
        /\ UNCHANGED <<length, partial_cntr>>
  /\ UNCHANGED <<implicit_write_flag, hold>>

wait_read_acknowledge ==
  /\ read_cmd_char("WAIT_READ_ACKNOWLEDGE")
  /\ IF current_char' = "NL"
       THEN Becomes(AT, StartSearch(at)) /\ partial_cntr' = 0
       ELSE Becomes(AT, [at EXCEPT !.state = "ERROR"]) /\ UNCHANGED partial_cntr
  /\ UNCHANGED <<length, implicit_write_flag, hold>>

wait_test_acknowledge ==
  /\ read_cmd_char("WAIT_TEST_ACKNOWLEDGE")
  /\ Becomes(AT, IF current_char' = "NL"
                   THEN start_processing_format_test_args(AT, at)
                   ELSE [at EXCEPT !.state = "ERROR"])
  /\ UNCHANGED <<length, search, hold>>

-----------------------------------------------------------------------------
(* Name matching: one command of the table per call, two bits per command. *)

\* Mutant: disabled commands take part in the search.
get_cmd_state_Disabled(i) == at.buf.match[i]

get_cmd_state(i) ==
  IF is_command_disable(i) THEN "NOT_MATCH" ELSE at.buf.match[i]

\* Mutant: the registered name is not upper-cased.
NameMatch_CaseSensitive(i) ==
  LET name == Cmds[i].name
  IN  IF length > Len(name) \/ name[length] # current_char THEN "NOT_MATCH"
      ELSE IF length = Len(name) THEN "FULL_MATCH"
      ELSE at.buf.match[i]

NameMatch(i) ==
  LET name == Cmds[i].name
  IN  IF length > Len(name) \/ to_upper(name[length]) # current_char
        THEN "NOT_MATCH"
      ELSE IF length = Len(name) THEN "FULL_MATCH"
      ELSE at.buf.match[i]

update_command ==
  /\ at.state = "UPDATE_COMMAND_STATE"
  /\ LET i == at.index
         live == get_cmd_state(i) # "NOT_MATCH"
         m == IF live THEN [at.buf.match EXCEPT ![i] = NameMatch(i)]
              ELSE at.buf.match
         flag == \/ implicit_write_flag
                 \/ live /\ m[i] = "FULL_MATCH" /\ Cmds[i].implicit_write
         r == [at EXCEPT !.buf = Matches(m)]
     IN  \/ /\ i + 1 < NumCmds
            /\ Becomes(AT, [r EXCEPT !.index = i + 1])
            /\ implicit_write_flag' = flag
            /\ UNCHANGED partial_cntr
         \/ /\ i + 1 >= NumCmds /\ ~flag
            /\ Becomes(AT, [r EXCEPT !.index = 0, !.state = "PARSE_COMMAND_CHAR"])
            /\ implicit_write_flag' = flag
            /\ UNCHANGED partial_cntr
         \/ /\ i + 1 >= NumCmds /\ flag
            /\ Becomes(AT, StartSearch([r EXCEPT !.cmd_type = "WRITE"]))
            /\ implicit_write_flag' = FALSE
            /\ partial_cntr' = 0
  /\ UNCHANGED <<length, current_char, hold>>

\* Mutant: a failed search is reported at once, wherever the line is.
NotFound_AtOnce == "COMMAND_NOT_FOUND"

\* Where a failed search goes: the line may not have ended yet.
NotFound == IF current_char = "NL" THEN "COMMAND_NOT_FOUND" ELSE "ERROR"

search_command ==
  /\ at.state = "SEARCH_COMMAND"
  /\ LET i == at.index
         last == i + 1 >= NumCmds
         partial == get_cmd_state(i) = "PARTIAL_MATCH"
         cmd == IF partial THEN i ELSE at.cmd
         count == IF partial THEN partial_cntr + 1 ELSE partial_cntr
     IN  \/ /\ get_cmd_state(i) = "FULL_MATCH"
            /\ Becomes(AT, [at EXCEPT !.cmd = i, !.state = "COMMAND_FOUND"])
            /\ UNCHANGED partial_cntr
         \/ /\ partial /\ last /\ at.cmd # NoCmd
            /\ Becomes(AT, [at EXCEPT !.state = NotFound])
            /\ UNCHANGED partial_cntr
         \/ /\ get_cmd_state(i) # "FULL_MATCH"
            /\ ~(partial /\ last /\ at.cmd # NoCmd)
            /\ Becomes(AT, [at EXCEPT
                 !.index = i + 1, !.cmd = cmd,
                 !.state = CASE ~last -> "SEARCH_COMMAND"
                             [] last /\ cmd = NoCmd -> NotFound
                             [] last /\ cmd # NoCmd /\ count = 1 -> "COMMAND_FOUND"
                             [] OTHER -> "COMMAND_NOT_FOUND"])
            /\ partial_cntr' = count
  /\ UNCHANGED <<length, current_char, implicit_write_flag, hold>>

command_found ==
  /\ at.state = "COMMAND_FOUND"
  /\ \/ /\ at.cmd_type = "RUN"
        /\ Becomes(AT, IF Command_of(at).only_test \/ Command_of(at).run = {}
                         THEN ack_error(at)
                         ELSE [at EXCEPT !.state = "RUN_LOOP"])
        /\ UNCHANGED length
     \/ /\ at.cmd_type = "READ"
        /\ Becomes(AT, IF Command_of(at).only_test THEN ack_error(at)
                       ELSE start_processing_format_read_args(AT, at))
        /\ UNCHANGED length
     \/ /\ at.cmd_type = "WRITE"
        /\ Becomes(AT, [at EXCEPT !.buf = Args(<<>>),
                                  !.state = "PARSE_COMMAND_ARGS"])
        /\ length' = 0
  /\ UNCHANGED <<current_char, search, hold>>

command_not_found ==
  /\ at.state = "COMMAND_NOT_FOUND"
  /\ Becomes(AT, ack_error(at))
  /\ UNCHANGED <<length, current_char, search, hold>>

-----------------------------------------------------------------------------
(* Arguments of a write command.                                           *)

StartWrite(r) ==
  LET c == Command_of(r)
  IN  IF c.only_test THEN ack_error(r)
      ELSE IF is_variables_access_possible(c, "WRITE_ONLY")
             THEN [r EXCEPT !.state = "PARSE_WRITE_ARGS", !.position = 0, !.index = 0]
      ELSE IF c.write = {} THEN ack_error(r)
      ELSE [r EXCEPT !.state = "WRITE_LOOP", !.index = 0]

AsksTest(c, ch) ==
  /\ length = 0 /\ ch = "?"
  /\ c.test # {} \/ c.vars # <<>>
  /\ ~c.implicit_write

parse_command_args ==
  /\ read_cmd_char("PARSE_COMMAND_ARGS")
  /\ \/ /\ current_char' = "NL"
        /\ Becomes(AT, StartWrite(at))
        /\ UNCHANGED length
     \/ /\ AsksTest(Command_of(at), current_char')
        /\ Becomes(AT, [at EXCEPT !.cmd_type = "TEST",
                                  !.state = "WAIT_TEST_ACKNOWLEDGE"])
        /\ UNCHANGED length
     \/ /\ current_char' # "NL" /\ ~AsksTest(Command_of(at), current_char')
        /\ length < MaxArgs
        /\ length' = length + 1
        /\ Becomes(AT, [at EXCEPT
             !.buf = Args(Append(at.buf.s, current_char')),
             !.state = IF length' < BufSize[AT] THEN "PARSE_COMMAND_ARGS"
                       ELSE "ERROR"])
  /\ UNCHANGED <<search, hold>>

\* Mutants: the write handler is called unchecked; extra fields are let pass.
ArgsParsed_Unchecked(r, more) ==
  LET c == Command_of(r)
  IN  IF r.index < Len(c.vars) /\ more THEN r
      ELSE IF more \/ (c.need_all_vars /\ r.index # Len(c.vars)) THEN ack_error(r)
      ELSE [r EXCEPT !.state = "WRITE_LOOP"]

ArgsParsed_Extra(r, more) ==
  LET c == Command_of(r)
  IN  IF r.index < Len(c.vars) /\ more THEN r
      ELSE IF c.need_all_vars /\ r.index # Len(c.vars) THEN ack_error(r)
      ELSE IF c.write = {} THEN ack_ok(r)
      ELSE [r EXCEPT !.state = "WRITE_LOOP"]

\* One variable per call: parse and range check, write hook, then the count.
ArgsParsed(r, more) ==
  LET c == Command_of(r)
  IN  IF r.index < Len(c.vars) /\ more THEN r
      ELSE IF more \/ (c.need_all_vars /\ r.index # Len(c.vars)) THEN ack_error(r)
      ELSE IF c.write = {} THEN ack_ok(r)
      ELSE [r EXCEPT !.state = "WRITE_LOOP"]

parse_write_args ==
  /\ at.state = "PARSE_WRITE_ARGS"
  /\ LET ends == ParseEnds(Var_of(at), at.buf.s, at.position)
     IN  \/ /\ ends = {} \/ FALSE \in Var_of(at).write
            /\ Becomes(AT, ack_error(at))
         \/ /\ TRUE \in Var_of(at).write
            /\ \E end \in ends :
                 Becomes(AT, ArgsParsed([at EXCEPT !.index = at.index + 1,
                                                   !.position = end],
                                        end <= Len(at.buf.s)))
  /\ UNCHANGED <<length, current_char, search, hold>>

-----------------------------------------------------------------------------
(* Formatting responses, shared by the two machines.                       *)

ArgsFormatted(f, r) ==
  IF Command_of(r).read # {} THEN [r EXCEPT !.state = "READ_LOOP"]
  ELSE start_flush_io_buffer(r, "AFTER_FLUSH_OK")

format_read_args(f) ==
  /\ fsm[f].state = "FORMAT_READ_ARGS"
  /\ LET r == fsm[f]
         Next_var(q) == next_format_var_by_fsm(f, q, ArgsFormatted(f, q))
     IN  \/ /\ FALSE \in Var_of(r).read \/ Var_of(r).widths = {}
            /\ Becomes(f, end_processing_with_error(f, r))
         \/ /\ TRUE \in Var_of(r).read
            /\ \E n \in Var_of(r).widths :
                 Becomes(f, IF PrintFits(f, r, n)
                              THEN Next_var([Printed(r, n) EXCEPT !.index = r.index + 1])
                              ELSE end_processing_with_error(f, r))
  /\ UNCHANGED <<length, current_char, search, hold>>

format_test_args(f) ==
  /\ fsm[f].state = "FORMAT_TEST_ARGS"
  /\ LET r == fsm[f]
         n == Var_of(r).info
         Next_var(q) == next_format_var_by_fsm(f, q, print_response_test(f, q))
     IN  Becomes(f, IF n = 0 \/ ~PrintFits(f, r, n)
                      THEN end_processing_with_error(f, r)
                      ELSE Next_var([Printed(r, n) EXCEPT !.index = r.index + 1]))
  /\ UNCHANGED <<length, current_char, search, hold>>

-----------------------------------------------------------------------------
(* Calling the application's handlers.                                     *)

\* Mutant: the machine whose handler asked for hold is put on hold.
enable_hold_state_Own(f, r) ==
  /\ Becomes(f, [r EXCEPT !.state = "HOLD"])
  /\ hold_state_flag' = TRUE
  /\ hold_exit_status' = 0

\* The command machine is put on hold, whichever machine the handler ran in.
enable_hold_state(f, r) ==
  /\ fsm' = [fsm EXCEPT ![f] = r, ![AT].state = "HOLD"]
  /\ hold_state_flag' = TRUE
  /\ hold_exit_status' = 0

hold_exit(status) ==
  /\ hold_exit_status' = IF hold_state_flag THEN status ELSE hold_exit_status
  /\ UNCHANGED hold_state_flag

process_run_loop ==
  /\ at.state = "RUN_LOOP"
  /\ \E ret \in Command_of(at).run :
       \/ /\ ret \in {"OK", "DATA_OK"}
          /\ Becomes(AT, ack_ok(at)) /\ UNCHANGED <<length, hold>>
       \/ /\ ret \in {"NEXT", "DATA_NEXT"}
          /\ UNCHANGED <<fsm, length, hold>>
       \/ /\ ret = "HOLD"
          /\ enable_hold_state(AT, at) /\ UNCHANGED length
       \/ /\ ret = "PRINT_CMD_LIST_OK"
          /\ Becomes(AT, start_print_cmd_list(at))
          /\ length' = 0 /\ UNCHANGED hold
       \/ /\ ret \in {"ERROR", "HOLD_EXIT_OK", "HOLD_EXIT_ERROR"}
          /\ Becomes(AT, ack_error(at)) /\ UNCHANGED <<length, hold>>
  /\ UNCHANGED <<current_char, search>>

process_write_loop ==
  /\ at.state = "WRITE_LOOP"
  /\ \E ret \in Command_of(at).write :
       \/ /\ ret \in {"OK", "DATA_OK"}
          /\ Becomes(AT, ack_ok(at)) /\ UNCHANGED hold
       \/ /\ ret \in {"NEXT", "DATA_NEXT"}
          /\ UNCHANGED <<fsm, hold>>
       \/ /\ ret = "HOLD"
          /\ enable_hold_state(AT, at)
       \/ /\ ret \in {"ERROR", "HOLD_EXIT_OK", "HOLD_EXIT_ERROR", "PRINT_CMD_LIST_OK"}
          /\ Becomes(AT, ack_error(at)) /\ UNCHANGED hold
  /\ UNCHANGED <<length, current_char, search>>

\* The outcomes process_read_loop and process_test_loop have in common. The
\* handler may also have replaced the text by one of another length.
HandlerReturned(f, r, ret, after, restarted) ==
  \/ /\ ret = "OK"
     /\ Becomes(f, end_processing_with_ok(f, r)) /\ UNCHANGED hold
  \/ /\ ret = "DATA_OK"
     /\ Becomes(f, start_flush_io_buffer(r, "AFTER_FLUSH_OK")) /\ UNCHANGED hold
  \/ /\ ret = "DATA_NEXT"
     /\ Becomes(f, start_flush_io_buffer(r, after)) /\ UNCHANGED hold
  \/ /\ ret = "NEXT"
     /\ Becomes(f, restarted) /\ UNCHANGED hold
  \/ /\ ret = "HOLD"
     /\ enable_hold_state(f, r)
  \/ /\ ret = "HOLD_EXIT_OK"
     /\ hold_exit(1) /\ Becomes(f, end_processing_with_ok(f, r))
  \/ /\ ret = "HOLD_EXIT_ERROR"
     /\ hold_exit(-1) /\ Becomes(f, end_processing_with_error(f, r))
  \/ /\ ret = "ERROR"
     /\ Becomes(f, end_processing_with_error(f, r)) /\ UNCHANGED hold

AfterHandler(f) ==
  {[fsm[f] EXCEPT !.buf = Text(n)] : n \in Command_of(fsm[f]).reply} \cup {fsm[f]}

process_read_loop(f) ==
  /\ fsm[f].state = "READ_LOOP"
  /\ \E ret \in Command_of(fsm[f]).read, r \in AfterHandler(f) :
       \/ HandlerReturned(f, r, ret, "AFTER_FLUSH_FORMAT_READ_ARGS",
                          start_processing_format_read_args(f, r))
       \/ /\ ret = "PRINT_CMD_LIST_OK"
          /\ Becomes(f, end_processing_with_error(f, r)) /\ UNCHANGED hold
  /\ UNCHANGED <<length, current_char, search>>

process_test_loop(f) ==
  /\ fsm[f].state = "TEST_LOOP"
  /\ \E ret \in Command_of(fsm[f]).test, r \in AfterHandler(f) :
       \/ /\ HandlerReturned(f, r, ret, "AFTER_FLUSH_FORMAT_TEST_ARGS",
                             start_processing_format_test_args(f, r))
          /\ UNCHANGED length
       \/ /\ ret = "PRINT_CMD_LIST_OK" /\ f = AT
          /\ Becomes(f, start_print_cmd_list(r)) /\ length' = 0
          /\ UNCHANGED hold
       \/ /\ ret = "PRINT_CMD_LIST_OK" /\ f = UN
          /\ Becomes(f, end_processing_with_ok(f, r))
          /\ UNCHANGED <<length, hold>>
  /\ UNCHANGED <<current_char, search>>

\* Mutant: only an exit with OK is noticed.
process_hold_state_OkOnly ==
  /\ at.state = "HOLD"
  /\ \/ /\ hold_exit_status <= 0
        /\ UNCHANGED <<fsm, hold>>
     \/ /\ hold_exit_status > 0
        /\ hold_state_flag' = FALSE
        /\ Becomes(AT, ack_ok(at))
        /\ UNCHANGED hold_exit_status
  /\ UNCHANGED <<length, current_char, search>>

process_hold_state ==
  /\ at.state = "HOLD"
  /\ \/ /\ hold_exit_status = 0
        /\ UNCHANGED <<fsm, hold>>
     \/ /\ hold_exit_status # 0
        /\ hold_state_flag' = FALSE
        /\ Becomes(AT, IF hold_exit_status < 0 THEN ack_error(at) ELSE ack_ok(at))
        /\ UNCHANGED hold_exit_status
  /\ UNCHANGED <<length, current_char, search>>

-----------------------------------------------------------------------------
(* Listing the commands: at most one line for each form of a command.      *)

HasForm(c, type) ==
  CASE type = "RUN" -> c.run # {}
    [] type = "READ" -> c.read # {} \/ is_variables_access_possible(c, "READ_ONLY")
    [] type = "WRITE" -> c.write # {} \/ is_variables_access_possible(c, "WRITE_ONLY")
    [] type = "TEST" -> c.test # {} \/ c.vars # <<>>

NextForm == [RUN |-> "READ", READ |-> "WRITE", WRITE |-> "TEST", TEST |-> "TOTAL_NUM"]

SuffixLen == [RUN |-> 0, READ |-> 1, WRITE |-> 1, TEST |-> 2]

\* print_current_cmd_full_name: "AT", the name, the suffix and a line end,
\* after a line end of its own the first time for a command.
FullNameLen(c, type) ==
  2 + Len(c.name) + SuffixLen[type] + 2 + (IF length = 0 THEN 2 ELSE 0)

\* Mutant: the listing starts over when it is done.
NextListed_Again(r) ==
  [r EXCEPT !.index = (r.index + 1) % NumCmds, !.cmd_type = "NONE"]

\* cmd_list_next_cmd, and the acknowledge when there is none.
NextListed(r) ==
  IF r.index + 1 >= NumCmds THEN ack_ok([r EXCEPT !.index = r.index + 1])
  ELSE [r EXCEPT !.index = r.index + 1, !.cmd_type = "NONE"]

print_cmd_list ==
  /\ at.state = "PRINT_CMD"
  /\ LET r == [at EXCEPT !.cmd = at.index]
         c == Command_of(r)
     IN  \/ /\ \/ r.cmd_type = "NONE" /\ c.disable
               \/ r.cmd_type = "TOTAL_NUM"
            /\ Becomes(AT, NextListed(r))
            /\ length' = IF r.index + 1 < NumCmds THEN 0 ELSE length
         \/ /\ r.cmd_type = "NONE" /\ ~c.disable
            /\ Becomes(AT, [r EXCEPT !.cmd_type = IF c.only_test THEN "TEST" ELSE "RUN"])
            /\ UNCHANGED length
         \/ /\ r.cmd_type \in DOMAIN NextForm
            /\ ~HasForm(c, r.cmd_type)
            /\ Becomes(AT, [r EXCEPT !.cmd_type = NextForm[r.cmd_type]])
            /\ UNCHANGED length
         \/ /\ r.cmd_type \in DOMAIN NextForm
            /\ HasForm(c, r.cmd_type)
            /\ LET q == [r EXCEPT !.position = 0]
                   n == FullNameLen(c, r.cmd_type)
               IN  Becomes(AT, IF PrintFits(AT, q, n)
                     THEN start_flush_io_buffer_raw(
                            [Printed(q, n) EXCEPT !.cmd_type = NextForm[r.cmd_type]],
                            "PRINT_CMD")
                     ELSE ack_error(q))
            /\ length' = 1
  /\ UNCHANGED <<current_char, search, hold>>

-----------------------------------------------------------------------------
(* Writing the output, one character per call.                             *)

Other(f) == IF f = AT THEN UN ELSE AT

\* Mutants: the other machine's wait is looked at instead of its write; a
\* machine gives way to one that only waits.
process_io_write_wait_Wrong(f) ==
  /\ fsm[f].state = "FLUSH_IO_WRITE_WAIT"
  /\ Becomes(f, IF fsm[Other(f)].state # "FLUSH_IO_WRITE_WAIT"
                  THEN [fsm[f] EXCEPT !.state = "FLUSH_IO_WRITE"]
                  ELSE fsm[f])
  /\ UNCHANGED <<length, current_char, search, hold>>

process_io_write_wait_Polite(f) ==
  /\ fsm[f].state = "FLUSH_IO_WRITE_WAIT"
  /\ Becomes(f, IF fsm[Other(f)].state \notin {"FLUSH_IO_WRITE_WAIT", "FLUSH_IO_WRITE"}
                  THEN [fsm[f] EXCEPT !.state = "FLUSH_IO_WRITE"]
                  ELSE fsm[f])
  /\ UNCHANGED <<length, current_char, search, hold>>

process_io_write_wait(f) ==
  /\ fsm[f].state = "FLUSH_IO_WRITE_WAIT"
  /\ Becomes(f, IF fsm[Other(f)].state # "FLUSH_IO_WRITE"
                  THEN [fsm[f] EXCEPT !.state = "FLUSH_IO_WRITE"]
                  ELSE fsm[f])
  /\ UNCHANGED <<length, current_char, search, hold>>

WriteEnd(r) == IF r.write_buf = "newline" THEN 2 ELSE r.buf.len

process_io_write(f) ==
  /\ fsm[f].state = "FLUSH_IO_WRITE"
  /\ LET r == fsm[f]
     IN  \/ /\ r.position = WriteEnd(r)
            /\ Becomes(f, CASE r.write_state = "BEFORE" ->
                               [r EXCEPT !.position = 0, !.write_buf = "buf",
                                         !.write_state = "MAIN_BUFFER"]
                            [] r.write_state = "MAIN_BUFFER" ->
                               [r EXCEPT !.position = 0, !.write_buf = "newline",
                                         !.write_state = "AFTER"]
                            [] r.write_state = "AFTER" ->
                               [r EXCEPT !.state = r.write_state_after])
         \/ /\ r.position # WriteEnd(r)
            /\ \E written \in WriteResults :
                 Becomes(f, IF written THEN [r EXCEPT !.position = r.position + 1]
                            ELSE r)
  /\ UNCHANGED <<length, current_char, search, hold>>

AfterFlush(f) ==
  /\ \/ /\ fsm[f].state = "AFTER_FLUSH_RESET"
        /\ Becomes(f, IF f = AT THEN reset_state(fsm[f])
                      ELSE unsolicited_reset_state(fsm[f]))
     \/ /\ fsm[f].state = "AFTER_FLUSH_OK"
        /\ Becomes(f, end_processing_with_ok(f, fsm[f]))
     \/ /\ fsm[f].state = "AFTER_FLUSH_FORMAT_READ_ARGS"
        /\ Becomes(f, start_processing_format_read_args(f, fsm[f]))
     \/ /\ fsm[f].state = "AFTER_FLUSH_FORMAT_TEST_ARGS"
        /\ Becomes(f, start_processing_format_test_args(f, fsm[f]))
  /\ UNCHANGED <<length, current_char, search, hold>>

-----------------------------------------------------------------------------
(* The service call and the API.                                           *)

\* Mutant: the event taken is the last that was triggered.
check_unsolicited_buffers_Newest ==
  /\ fsm[UN].state = "IDLE"
  /\ \/ /\ queue = <<>>
        /\ UNCHANGED <<fsm, queue>>
     \/ /\ queue # <<>>
        /\ LET r == [fsm[UN] EXCEPT !.cmd = queue[Len(queue)][1],
                                    !.cmd_type = queue[Len(queue)][2]]
           IN  Becomes(UN, IF r.cmd_type = "READ"
                             THEN start_processing_format_read_args(UN, r)
                             ELSE start_processing_format_test_args(UN, r))
        /\ queue' = SubSeq(queue, 1, Len(queue) - 1)
  /\ UNCHANGED <<length, current_char, search, hold>>

check_unsolicited_buffers ==
  /\ fsm[UN].state = "IDLE"
  /\ \/ /\ queue = <<>>
        /\ UNCHANGED <<fsm, queue>>
     \/ /\ queue # <<>>
        /\ LET r == [fsm[UN] EXCEPT !.cmd = Head(queue)[1],
                                    !.cmd_type = Head(queue)[2]]
           IN  Becomes(UN, IF r.cmd_type = "READ"
                             THEN start_processing_format_read_args(UN, r)
                             ELSE start_processing_format_test_args(UN, r))
        /\ queue' = Tail(queue)
  /\ UNCHANGED <<length, current_char, search, hold>>

\* The handlers the two machines share.
Shared(f) ==
  \/ format_read_args(f)
  \/ format_test_args(f)
  \/ process_read_loop(f)
  \/ process_test_loop(f)
  \/ process_io_write_wait(f)
  \/ process_io_write(f)
  \/ AfterFlush(f)

\* unsolicited_events_service
Unsolicited ==
  /\ mutex = "free" /\ mutex' = "service"
  /\ \/ check_unsolicited_buffers
     \/ Shared(UN) /\ UNCHANGED queue

\* The switch of cat_service on the command machine's state.
AtCommand ==
  /\ mutex = "service" /\ mutex' = "free"
  /\ \/ NoInput
     \/ error_state
     \/ process_idle_state
     \/ parse_prefix
     \/ parse_command
     \/ update_command
     \/ wait_read_acknowledge
     \/ search_command
     \/ command_found
     \/ command_not_found
     \/ parse_command_args
     \/ parse_write_args
     \/ wait_test_acknowledge
     \/ process_write_loop
     \/ process_run_loop
     \/ process_hold_state
     \/ print_cmd_list
     \/ Shared(AT)
  /\ UNCHANGED queue

\* Mutant: the check for a full buffer is one off.
cat_trigger_unsolicited_event_Over ==
  /\ mutex = "free"
  /\ \E event \in Triggers :
       /\ Len(queue) <= QueueSize
       /\ queue' = Append(queue, event)
  /\ UNCHANGED <<fsm, length, current_char, search, hold, mutex>>

cat_trigger_unsolicited_event ==
  /\ mutex = "free"
  /\ \E event \in Triggers :
       /\ Len(queue) < QueueSize
       /\ queue' = Append(queue, event)
  /\ UNCHANGED <<fsm, length, current_char, search, hold, mutex>>

\* Returns ERROR_NOT_HOLD, and does nothing, when the parser is not on hold.
cat_hold_exit ==
  /\ mutex = "free" /\ hold_state_flag
  /\ \E status \in {1, -1} : hold_exit(status)
  /\ UNCHANGED <<fsm, length, current_char, search, queue, mutex>>

\* The name typed so far, while the parser is collecting or resolving it.
NameState == {"PARSE_COMMAND_CHAR", "UPDATE_COMMAND_STATE",
              "WAIT_READ_ACKNOWLEDGE", "SEARCH_COMMAND", "COMMAND_FOUND",
              "COMMAND_NOT_FOUND"}

History ==
  typed' = IF fsm'[AT].state \notin NameState THEN <<>>
           ELSE IF /\ fsm[AT].state = "PARSE_COMMAND_CHAR"
                   /\ fsm'[AT].state = "UPDATE_COMMAND_STATE"
                  THEN Append(typed, current_char')
           ELSE typed

Next ==
  /\ \/ Unsolicited
     \/ AtCommand
     \/ cat_trigger_unsolicited_event
     \/ cat_hold_exit
  /\ History

Spec == Init /\ [][Next]_vars

\* The parser thread calls cat_service for ever.
FairSpec == Spec /\ WF_vars(Unsolicited /\ History) /\ WF_vars(AtCommand /\ History)
-----------------------------------------------------------------------------
(* Properties.                                                             *)

\* Every variable holds a value of its C type, the queue fits its buffer.
TypeOK ==
  /\ fsm \in [Fsm -> FsmRec]
  /\ fsm[UN].state \in UnsolicitedState
  /\ length \in Nat /\ partial_cntr \in Nat
  /\ current_char \in Char
  /\ implicit_write_flag \in BOOLEAN
  /\ hold_state_flag \in BOOLEAN
  /\ hold_exit_status \in {-1, 0, 1}
  /\ queue \in Seq(CmdIds \X {"READ", "TEST"}) /\ Len(queue) <= QueueSize
  /\ mutex \in {"free", "service"}
  /\ typed \in Seq(Char)

\* The two machines never write at the same time, so a response line and an
\* unsolicited line are never mixed (process_io_write_wait of each machine).
OutputExclusion ==
  ~(fsm[AT].state = "FLUSH_IO_WRITE" /\ fsm[UN].state = "FLUSH_IO_WRITE")

\* hold_state_flag, which the API tests, agrees with the state, which the
\* service switches on, whichever machine's handler asked for hold.
HoldFlagMatchesState == hold_state_flag <=> fsm[AT].state = "HOLD"

\* Where a machine uses its command pointer it is not NULL, the handler it
\* calls exists, and the variable it processes is in the command's array.
NeedsCommand == {"COMMAND_FOUND", "PARSE_COMMAND_ARGS", "PARSE_WRITE_ARGS",
                 "FORMAT_READ_ARGS", "WAIT_TEST_ACKNOWLEDGE", "FORMAT_TEST_ARGS",
                 "WRITE_LOOP", "READ_LOOP", "TEST_LOOP", "RUN_LOOP",
                 "AFTER_FLUSH_FORMAT_READ_ARGS", "AFTER_FLUSH_FORMAT_TEST_ARGS"}

Flushing == {"FLUSH_IO_WRITE_WAIT", "FLUSH_IO_WRITE"}

\* The state a machine is in, or will be in when its output is written.
Pending(r) == IF r.state \in Flushing THEN r.write_state_after ELSE r.state

Dereferences(r) ==
  /\ Pending(r) \in NeedsCommand => r.cmd \in CmdIds
  /\ r.state \in {"PARSE_WRITE_ARGS", "FORMAT_READ_ARGS", "FORMAT_TEST_ARGS"} =>
       r.index < Len(Command_of(r).vars)
  /\ r.state = "WRITE_LOOP" => Command_of(r).write # {}
  /\ r.state = "READ_LOOP" => Command_of(r).read # {}
  /\ r.state = "TEST_LOOP" => Command_of(r).test # {}
  /\ r.state = "RUN_LOOP" => Command_of(r).run # {}
  /\ r.state \in {"UPDATE_COMMAND_STATE", "SEARCH_COMMAND"} => r.index < NumCmds
  /\ Pending(r) = "PRINT_CMD" => r.index < NumCmds

CommandDereference == \A f \in Fsm : Dereferences(fsm[f])

\* The working buffer holds what the state expects of it: match states while
\* a name is matched, arguments while they are parsed, text otherwise.
BufferUse ==
  /\ fsm[AT].state \in NameState \ {"COMMAND_FOUND", "COMMAND_NOT_FOUND"} =>
       fsm[AT].buf.kind = "match"
  /\ fsm[AT].state \in {"PARSE_COMMAND_ARGS", "PARSE_WRITE_ARGS", "WRITE_LOOP"} =>
       fsm[AT].buf.kind = "args"
  /\ \A f \in Fsm : fsm[f].state \in Flushing \cup {"READ_LOOP", "TEST_LOOP"} =>
       fsm[f].buf.kind = "text"

\* Output never runs past the text: what is being written is terminated inside
\* the buffer, and the write position has not passed the terminator.
OutputTerminated ==
  \A f \in Fsm : fsm[f].state \in Flushing =>
    /\ fsm[f].buf.len < BufSize[f]
    /\ fsm[f].position <= WriteEnd(fsm[f])

\* No handler of a disabled command is called for a typed line, and of an
\* only_test command only the test handler.
EnabledOnly ==
  LET r == fsm[AT]
  IN  /\ r.state \in NeedsCommand => ~is_command_disable(r.cmd)
      /\ r.state \in {"RUN_LOOP", "READ_LOOP", "WRITE_LOOP"} =>
           ~Command_of(r).only_test

\* The search over the match states ends with the command the typed name
\* resolves to, and fails only when it resolves to none.
SearchEnds ==
  /\ fsm[AT].state = "SEARCH_COMMAND"
  /\ fsm'[AT].state \in {"COMMAND_FOUND", "COMMAND_NOT_FOUND", "ERROR"}

SearchResolves ==
  [][SearchEnds =>
       Resolve(typed) = IF fsm'[AT].state = "COMMAND_FOUND" THEN fsm'[AT].cmd
                        ELSE NoCmd]_vars

\* A final result is sent when a line has ended, so a line gets one result.
\* An ambiguous name before "=" is the exception: the search then reports
\* COMMAND_NOT_FOUND in the middle of the line.
AckStarts ==
  /\ fsm[AT].state \notin Flushing
  /\ fsm'[AT].state = "FLUSH_IO_WRITE_WAIT"
  /\ fsm'[AT].write_state_after = "AFTER_FLUSH_RESET"

OneResultPerLine ==
  [][AckStarts =>
       \/ current_char' = "NL"
       \/ fsm[AT].state = "HOLD"
       \/ fsm[AT].state = "COMMAND_NOT_FOUND" /\ Cardinality(Candidates(typed)) > 1
    ]_vars

\* When the write handler is called for a command whose variables may be
\* written, the text is exactly the args_num fields parsed, comma separated,
\* each acceptable to its own variable, and none is missing if all are needed.
\* Field k of the text s ends before cut[k], at a comma or at the end.
SplitsAt(c, s, cut) ==
  \A k \in DOMAIN cut \ {0} :
    /\ cut[k - 1] < cut[k]
    /\ SubSeq(s, cut[k - 1] + 1, cut[k] - 1) \in c.vars[k].fields
    /\ cut[k] <= Len(s) => s[cut[k]] = ","

WriteArgsParsed ==
  LET r == fsm[AT]
      c == Command_of(r)
  IN  /\ r.state = "WRITE_LOOP"
      /\ is_variables_access_possible(c, "WRITE_ONLY")
      => /\ r.index \in 1 .. Len(c.vars)
         /\ c.need_all_vars => r.index = Len(c.vars)
         /\ \E cut \in [0 .. r.index -> 0 .. Len(r.buf.s) + 1] :
              /\ cut[0] = 0 /\ cut[r.index] = Len(r.buf.s) + 1
              /\ SplitsAt(c, r.buf.s, cut)

\* A machine waiting for the output line gets it, although the other one may
\* come back for the line again and again.
OutputNotStarved ==
  \A f \in Fsm : fsm[f].state = "FLUSH_IO_WRITE_WAIT"
                   ~> fsm[f].state = "FLUSH_IO_WRITE"

\* A requested exit from hold happens.
HoldReleased ==
  (fsm[AT].state = "HOLD" /\ hold_exit_status # 0) ~> fsm[AT].state # "HOLD"

-----------------------------------------------------------------------------
(* What the parser implements.                                             *)

Phase ==
  CASE at.state = "IDLE" -> "idle"
    [] at.state = "HOLD" -> "hold"
    [] at.state = "AFTER_FLUSH_RESET" -> "done"
    [] at.state \in Flushing /\ at.write_state_after = "AFTER_FLUSH_RESET" ->
         IF current_char = "NL" THEN "result" ELSE "early"
    [] OTHER -> IF current_char = "NL" THEN "busy" ELSE "line"

Writer ==
  CASE fsm[AT].state = "FLUSH_IO_WRITE" -> "response"
    [] fsm[UN].state = "FLUSH_IO_WRITE" -> "event"
    [] OTHER -> "none"

\* Only typed names are followed by "=".
SomeAmbiguous ==
  \E i \in CmdIds : \E k \in DOMAIN Cmds[i].name :
    LET name == Upper(SubSeq(Cmds[i].name, 1, k))
    IN  Exact(name) = {} /\ Cardinality(Candidates(name)) > 1

Protocol == INSTANCE AtProtocol
              WITH Ambiguous <- SomeAmbiguous, phase <- Phase, writer <- Writer

\* Whatever the handlers return and whenever events and hold exits come, the
\* parser keeps the line protocol: it reads until the line ends, answers it
\* once unless it is put on hold, and writes one line at a time.
KeepsProtocol == Protocol!Spec

\* And with a service loop that goes on and handlers that finish, a line that
\* has ended is answered, however many events are triggered meanwhile.
AnswersLines == Protocol!FairSpec

Processed ==
  IF fsm[UN].cmd = NoCmd THEN <<NoCmd, "NONE">> ELSE <<fsm[UN].cmd, fsm[UN].cmd_type>>

Fifo == INSTANCE EventFifo
          WITH Size <- QueueSize, Events <- Triggers, NoEvent <- <<NoCmd, "NONE">>,
               buffered <- queue, processed <- Processed

\* Every event accepted is processed, in order and one at a time, whatever
\* the command machine does meanwhile.
EventsInOrder == Fifo!FairSpec

-----------------------------------------------------------------------------
(* What src/cat.h says and the code does not do.                           *)

cat_is_busy == fsm[AT].state # "IDLE"

\* cat.h on cat_is_busy: when it returns 0, other modules can safely use the
\* output shared with the library.
NotBusyMeansQuiet ==
  mutex = "free" /\ ~cat_is_busy => fsm[UN].state # "FLUSH_IO_WRITE"

\* cat.h on cat_hold_exit: it is used to exit from hold state, so an accepted
\* request is in force until the parser has left hold.
ExitRequestKept ==
  [][hold_state_flag /\ hold_exit_status # 0 /\ hold_state_flag'
       => hold_exit_status' # 0]_vars
=============================================================================
