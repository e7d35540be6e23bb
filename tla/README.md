# Verification of nus_at_cmd

A TLA+ model of the AT command device in this repository: a Zephyr program that
reads AT command lines from a UART and from a Bluetooth NUS connection, runs them
through the `cat` parser, and reports sensor registers periodically. The modules
here are translated from `src/`; TLC checks them on small instances and TLAPS
proves the main invariants for every instance.

## 1. Inventory of the system

| Component | Code | State it keeps | Operations |
|---|---|---|---|
| Command state machine | `src/cat.c`, `struct cat_object` | state, command pointer, command type, index, position, length, partial match counter, last character, implicit write flag, hold flag and exit status, write cursor, working buffer | one step per `cat_service` call: read a character, match a name, search, parse arguments, format, call a handler, write a character; `cat_hold_exit`, `cat_is_busy`, `cat_is_hold` |
| Unsolicited event machine | `src/cat.c`, `struct cat_unsolicited_fsm` | a second set of the same fields, a ring of events, the second half of the working buffer | one step per `cat_service` call, before the command machine's; `cat_trigger_unsolicited_event` |
| Argument parsers, formatters | `src/cat.c` 1069-1750 | the variables of the table | `parse_int_decimal` ... `parse_buffer_string`, range checks, `format_*` |
| Application table | `src/at_command.c` | the global variables of `+SYSREG` and `#XMQTTCFG` | eight commands and their handlers; the parser thread |
| Value reporter | `src/value_reporter.c` | a period and a last tick for each of 3 x 21 registers, the tick | `value_reporter_set_report_period` from the parser thread, the one second timer handler |
| Sensor handler | `src/sensor_handler.c` | a counter | a stub |
| UART glue | `src/hmi_uart.c` | two receive buffers and which one is in use | the driver callback, `hmi_uart_send` |
| Input ring buffer | `uart_at_ringbuf` in `src/at_command.c` | bytes not yet parsed | put by the UART callback and by the Bluetooth callback (`src/main.c`), get by the parser |

How they interact. The parser thread calls `cat_service` for ever, one millisecond
apart. A call locks the mutex, lets the unsolicited machine make one step, then the
command machine, and unlocks. Both machines write through the same `io->write` one
character per call, and only a test of the other machine's state keeps their lines
apart. Other threads call the API, which takes the same mutex. Handlers of the
application run inside the call and may start a hold, end it, or trigger events. The
`+SYSREG` handler sets a period in the value reporter, whose timer handler preempts
the parser thread. Input reaches the parser through a ring buffer with two producers.

What is hard here, and untested in the repository (its only tests call three functions
of the value reporter): the interleaving of the two machines on the output; hold
requested by one machine and suffered by the other; the reuse of one buffer for match
states, arguments and output; name resolution over disabled, abbreviated, ambiguous
and implicit names that may run before the line has ended; responses that outgrow the
buffer; progress, since a busy machine makes one tiny step per call; wrap-around and
overflow of ticks and of decimal arguments; bytes lost between producers and parser.
`PROJECT.json` lists each hazard at its line.

What makes each part correct. *Command machine*: a line gets exactly one result, from
the command its name resolves to, with arguments that were checked; nothing is called
through a NULL pointer; output is terminated text. *Unsolicited machine*: its lines
and the responses exclude each other; every event buffered is processed; neither
machine starves the other. *Hold*: the flag and the state agree; a requested exit
happens. *Value reporter*: an enabled register is reported once per period, and the
line logged is its own. *Ring buffer and UART*: the parser reads a subsequence of what
was sent in order. (A loss of bytes is not always noticed: section 5.)

## 2. Modules

| Module | What it is |
|---|---|
| `CatTable` | The descriptor table as constants with their assumptions, and the operators of `cat.c` that only read it. Also `Resolve`, the reference definition of what a typed name means. |
| `CatParser` | Both state machines, the shared output, the hold API and the event API. |
| `AtProtocol` | The abstract line protocol: idle, reading a line, busy, result, done, hold, and who writes. `CatParser` implements it, `SerialPort` uses it as its parser. |
| `EventFifo` | The abstract event buffer: a bounded FIFO whose events are processed one at a time. `CatParser` and `EventQueue` implement it. |
| `EventQueue` | The ring of events store by store, the command and type being processed, and the reader that does without the mutex. |
| `SerialPort` | The input path: UART driver events, two receive buffers, the ring buffer with its two producers, `read_char`, composed with `AtProtocol`. |
| `VarParser` | The five argument parsers character by character, range checks, stores, write hooks; the five formatters; a reference grammar of fields. |
| `CatParserProofs` | The inductive invariant of `CatParser` and its safety: types, output, hold, buffers. |
| `CatControlProofs` | The control graph of both machines: disabled commands, and the machines implement the FIFO. |
| `CatLineProofs` | What becomes of a line: its name, its result, its arguments, and that the parser implements `AtProtocol`. |
| `EventQueueProofs` | The ring is consistent and implements the FIFO; what the reader without the mutex may answer. |
| `SerialPortProofs` | The receive buffers and the ring buffer with its two producers. |
| `VarParserProofs` | Nothing is stored outside of a variable, the write hook is told what was typed, what is refused is no field, and what is printed reads back. |
| `ValueReporter` | The value reporter: the setter, the timer handler, tick arithmetic modulo a word, the shared line buffer. |
| `SysregCommand` | The `+SYSREG` command over it: arguments stored one by one, lines that stop or fail anywhere, the handler, and the timer interrupt between any two steps. |
| `ValueReporterProofs`, `SysregCommandProofs` | Their inductive invariants and theorems. |
| `MCReporter`, `MCSysreg` | Small instances of the two. |
| `MCEventQueue`, `MCSerialPort`, `MCVarParser` | Small instances of the three. |
| `MCCatNames`, `MCCatArgs`, `MCCatEvents`, `MCCatLive` | Four tables, each built for one group of properties, and their `.cfg` files. |

How `CatParser` corresponds to the code.

* `fsm[AT]` and `fsm[UN]` are records with the fields of `struct cat_object` and
  `struct cat_unsolicited_fsm`, because half of `cat.c` takes the machine as an
  argument (`..._by_fsm`). The functions that only assign fields of one machine
  (`ack_error`, `start_flush_io_buffer`, `start_processing_format_read_args`, ...) are
  operators from record to record; each handler of the two `switch` statements is an
  action with the handler's name.
* One `cat_service` call is two steps, `Unsolicited` and then `AtCommand`, with
  `mutex = "service"` between them. API calls of other threads need the mutex and come
  only outside. A handler that itself calls `cat_hold_exit` or triggers an event does
  so under the recursive mutex in the middle of a step; the effect is that of the API
  action before or after that call.
* A working buffer is tagged with what was written last: match states, arguments, or
  text. Text is only its length, so `PrintFits` and `Terminated` are exact while the
  characters are left out. `Text(BufSize[f])` stands for text whose terminator was
  overwritten by the comma in `next_format_var_by_fsm`.
* A handler of the application is the set of results it may return, a variable is the
  set of argument texts that parse and are in range together with the lengths its
  formatter may print. Handlers may also leave a text of another length (`reply`).
* Counters that `cat_init` does not assign start with any of `UninitValues`.
* The three line ends CR, NUL and LF are one character, as in `read_cmd_char`.
* `typed` is a history variable: the name typed so far.

How `ValueReporter` and `SysregCommand` correspond to the code.

* A register is a pair of sensor and index in `register_map`. `report_periods`,
  `report_last_tick` and `current_tick` are the arrays and the counter of the code;
  `TickMod` stands for 2^32, and `TickDiff`, `TickNext` are the unsigned operations.
* The timer handler is one step: it runs in the timer interrupt, which no thread can
  interrupt. Its loops become `Due`, the set of registers to report, and
  `report_buff(r)`, the line the buffer holds when `r` is logged: that of the last
  register scanned, up to `r`, whose period `make_report` accepted.
* `logged` is what the handler passed to the log; `age` and `waited` are history
  variables counting its calls. Both stop at `TickMod`, beyond any period.
* The setter returns what it stored; the store and the read after it are one step,
  since the interrupt does not write periods.
* `SysregCommand` abstracts `CatParser` to the steps `parse_write_args` makes for five
  variables: an argument is stored, and a comma, the end of the line or an error
  follows. A bad hexadecimal string leaves its first bytes in `g_sysreg_reg`. `line` is
  what was stored from the current line and `kept` what the variables held before it, so
  `Meant(i)` is the argument the line stands for, its own or an older one.
* The command touches the reporter through the setter only, so that it keeps the
  reporter's specification holds by the way the modules are composed
  (`SysregImplementsReporter`, a lemma); what is stated of the two together is what
  an OK promises, `OkInForce` and `AcknowledgedReported`.

How the refinements fit together.

    CatParser  => AtProtocol   (KeepsProtocol; AnswersLines with fairness)
    CatParser  => EventFifo    (EventsInOrder)
    EventQueue => EventFifo    (RingIsFifo)
    SysregCommand = ValueReporter + the variables and the handler of +SYSREG
    SerialPort = driver + Bluetooth + ring buffer + AtProtocol

* `Phase` maps the states of the command machine to those of the protocol. A line is
  "busy" once its end was read. A result that comes before that is "early": for an
  ambiguous name before `=`, allowed by the constant `Ambiguous`, and after a hold that
  an event's handler started in the middle of a line.
  `Writer` is the machine in `FLUSH_IO_WRITE`.
* In `EventQueue` `step` names the last store made under the mutex. An event leaves the
  abstract queue, and starts being processed, when the count is decremented. Loads and
  stores happen in program order: a single core runs the program.
* The reader has two history flags: whether at some moment of its call the event was
  absent, and whether a put happened during the call.

How `SerialPort` corresponds to the code.

* The UART callback runs in the interrupt and its `ring_buf_put` is one step. The put of
  `received` in `src/main.c`, in a thread, is three: claim, copy, finish. `ring_buf_put`
  keeps one claim for all, so an interrupt between these steps finishes, or loses, what
  the thread has claimed; `raced` records that it happened.
* A put stores what fits and returns how much; both callers look only at whether that is
  0. `accepted` are the bytes a put said it stored.
* `driver` is the driver's side: reception on or off, the buffer being filled, the next
  one. Data, requests, releases and the end of reception come in any order that this
  allows, a request once for each buffer. The driver may refuse the buffer it is given
  (the result of `uart_rx_buf_rsp` is ignored, and `rx_buf_idx` has moved); reception then
  ends with the current one. Enabling reception again may fail, and then the port is deaf.
* A byte is a sender and a number; every second one ends a line.

How `VarParser` corresponds to the code.

* An iteration of a parser's loop is a step; `local` has the locals of all of them.
  The loops of one field run without interruption in the code, so the intermediate
  states are those of the loop, and the states "hook" those in which `parse_write_args`
  calls the write hook.
* `data` is the memory of the variables and stays between lines (`NextLine`), as it is
  static in the application: a line starts from whatever refused lines left there.
* `Word` stands for 2^64 and `Limit` for 2^8, 2^16 and 2^32. Signed overflow is
  undefined in C and gives any value of the word; unsigned arithmetic wraps.
* `Store` would enlarge the variable if the index were outside of it, which
  `VarTypeOK` excludes.
* `Fields` is the reference: all texts of a type with their values, built from digits and
  pieces rather than parsed.

## 3. Runs

| Run | Table and bounds | Shows |
|---|---|---|
| `cat_names` | 6 commands: `C+` (disabled), `CG+`, `cg` (lists commands), `G` (implicit write), `+C` (disabled group), `C++` (test only); names up to 3 characters, so every prefix, an ambiguous `C`, a disabled match, and a name longer than any prefix occur | `EnabledOnly`, `SearchResolves`, `OneResultPerLine` |
| `cat_args` | 7 commands with read-write, read-only and write-only variables, failing hooks, missing handlers, an unsupported size and long descriptions; arguments up to 5 characters (two fields and a third one too many), an 8 byte buffer that some responses do not fit | `CommandDereference`, `OutputTerminated`, `WriteArgsParsed` |
| `cat_events` | 2 commands, one of whose handlers return all nine results, also triggered as events at any time; `cat_hold_exit` at any time | `TypeOK`, `OutputExclusion`, `HoldFlagMatchesState`, `BufferUse`, `KeepsProtocol` |
| `cat_live` | 2 commands like the application's (handlers that finish), a command that holds, two events of different types triggered without limit; two slots in the event buffer, so that one can overtake the other; fair service | `AnswersLines`, `OutputNotStarved`, `EventsInOrder`, `HoldReleased` |
| `event_queue` | a ring of 2, so that head and tail wrap at different moments; 2 commands, both types; a reader that asks for any type or for one | `RingOK`, `OkForAnyType`, `RingIsFifo` |
| `serial_port` | a ring buffer of 2 bytes, 3 bytes from each sender, so that it overflows and wraps and puts of all lengths are cut | `PortTypeOK`, `BuffersDistinct`, `AcceptedArrive`, `InputDrains` |
| `var_parser` | 19 commands for every type, size and access, two of them with failing hooks and several variables; words of 5 bits, sizes of 2, 3 and 4 bits; fields up to 4 characters | `VarTypeOK`, `HookSeesValue`, `RejectedRightly`, `ReadsBack` |
| `reporter` | 2 sensors with a register each, a word of 5, periods 0 to 4 with `MAX_PERIOD` 2; ids and registers that do not exist | `ReporterTypeOK`, `ReportsSpaced`, `ReportsPrompt`, `ReportsOwnLine` |
| `sysreg` | 1 register, a word of 4 whose largest value is the sentinel, ids cut to 4 values with 4 typed for 0; a fair timer | `SysregTypeOK`, `OkInForce`, `ErrorKeepsPeriods`, `AcknowledgedReported` |
| `cat_busy`, `cat_hold_exit_lost`, `event_answer` | instances of the above | three disagreements with `src/cat.h`, section 6 |

Bounds. `MaxName` and `MaxArgs` cap the name and argument text; a longer one repeats
the same step of the same handler until the buffer is full, which happens at the
smaller buffer sizes of the tables. `QueueSize = 1` is the default of `src/cat.h`;
in `cat_live` it is 2, the least at which events have an order. One
table cannot hold everything at once, hence four; a property is checked on the table
made for it.

In `var_parser` two decimal digits can exceed the accumulator, two hexadecimal digits exceed
every size, a string of two bytes can be too long by a character and by its terminator,
and every text a formatter prints for the variables fits a field. In `event_queue` and
`serial_port` a second slot is where order first matters; a third adds no new relation of
indices. What is triggered during `cat_live` has no bound but the buffer.

A word of 4 or 5 values makes the tick counter wrap many times within a run, with every
relation of period, distance and wrap; two registers are enough for one line to be
logged in the place of another. The proofs cover every other size. In `sysreg` one field
that the handler does not read, r/w, is typed with a single value.

Fairness. `FairSpec` assumes that the parser thread keeps calling `cat_service`
(`while (!g_quit_flag)` in `at_parser_thread`; nothing sets the flag) and that the
mutex, taken with `K_FOREVER`, is obtained. Nothing is assumed of the input, of events
or of a caller of `cat_hold_exit`. Because `NoInput` is an outcome of a service call,
the peer may stop at any character. In `cat_live` handlers finish: a handler that
returns NEXT for ever keeps its line unanswered, and `io->write` accepts every
character, as `write_char` always reports.

`AnswersLines` and `EventsInOrder` derive the fairness of the abstract modules from that of
the service loop: of `AtProtocol` that a busy line gets its result, a result is written
though events compete for the output (strong fairness of `StartResult`), and lines
of output end; of `EventFifo` that a waiting event is taken and processed. `SerialPort`
assumes the first of these (`Parser!Fairness`) and that the parser reads when it can
(`read_cmd_char` is called in every service call of a reading state). Nothing is
assumed of the peers or of the driver. `InputDrains` makes an exception for hold, from
which a handler or another thread must release the parser. In `EventQueue` weak
fairness of pops is enough: a trigger can delay one only as long as the ring has room.

`FairSysregSpec` assumes that the timer is started and fires again and again:
`k_timer_start` is given a period of one second and nothing stops it. Nothing is assumed of
the lines typed, which may change a period between any two firings.

## 4. Proofs

`CatParserProofs` proves, for every table, buffer size, queue size and set of handler
results allowed by the assumptions: `TypeOK`, `OutputExclusion`,
`HoldFlagMatchesState`, `CommandDereference`, `BufferUse`, `OutputTerminated`.

None of these is inductive alone. A record in `FLUSH_IO_WRITE_WAIT` will later be in
the state kept in `write_state_after`, so what that state needs must hold already
(`Pending`); `PARSE_COMMAND_CHAR` needs an index in range because `update_command`
starts from it; `HOLD` is left by one handler only. `IInv` collects this: `MachineOK`
says of one record what its state needs, and two conjuncts relate the machines
(`HoldFlagMatchesState`, `OutputExclusion`). Most handlers end in a record that is
`Settled` (well formed, neither on hold nor writing), and `SettledStep` says once that
such a step keeps the invariant; only hold, its end and the writing of a character
need arguments of their own. Assumptions used: the table is well typed and not empty
(`NumCmdsAssumption`, `CmdsAssumption`), a handler leaves a terminated text
(`ReplyAssumption`), the buffers are not empty (`BufSizeAssumption`) and the command
machine's holds "ERROR" (`AckFitsAssumption`, which `cat_init` does not check).

`CatControlProofs` proves `EnabledOnly` and `Spec => Fifo!Spec`, the safety part of
`EventsInOrder`. A handler is called several steps after the search has tested the flags,
and nothing tests them again, so the argument is about paths. What each step does to the
state, the state kept in `write_state_after`, the command and its type is collected first
(`StepMoves`, `AtStepMoves`): a graph on which the rest is a matter of cases. The
invariant `CmdInv` says for each state of the command machine, pending ones included,
what the command and the type may be. For the FIFO it is `UnInv`: the unsolicited machine is idle
exactly when it has no command, so a step that takes an event is one where none is being
processed.

`CatLineProofs` proves `SearchResolves`, `OneResultPerLine`, `KeepsProtocol` and
`WriteArgsParsed`.

* The parser keeps two bits for each command, updates them one command per call, and then
  searches them one command per call. `NamesInv` says what they mean in between: before
  the index the state that the whole name gives (`Expected`), behind it that of the name
  without its last character; and of the search, that `partial_cntr` and `cmd` count and
  name the partial matches before the index. It holds of every table because disabled
  commands are left out of both sides. That the search resolves the name is then
  a comparison of `Expected` with `Resolve`.
* `OneResultPerLine` needs that each state belongs to one side of the end of the line
  (`LineInv`), and `NamesInv` for the one exception: a name refused early is ambiguous.
  With that every edge of the control graph is a step of `AtProtocol` or leaves it alone.
* `ArgsInv` says that the fields parsed so far are a division of the text up to the
  position (`SplitsAt`, a function from field numbers to positions, extended by one at
  each variable), so the text is divided when the handler is called.

`ValueReporterProofs` proves `ReporterTypeOK`, `ReportsSpaced`, `ReportsPrompt` and
`ReportsOwnLine` for any number of registers, any word size and any `MAX_PERIOD`. The
invariant (`ReporterInv`) relates the distance the code computes to what really passed:
it is at most `age`, and for an enabled register at least `waited`. It can wrap to 0
only from the largest tick, and there every enabled register is due. That the buffer
holds some register's line needs the last register scanned of a set to exist, which
follows from the well-ordering of the naturals (`LastScanned`). Assumptions: the
constants are naturals, the periods are words (`ReporterAssumption`).

`SysregCommandProofs` proves that an OK means that the period the line stands for is in
force (`OkInForce`). It needs that between the steps of a line the variables of the fields
stored hold this line's arguments and the others what they held before (`LineInv`). It
also proves that an ERROR changes no period, that each variable holds values of its own
field only (`SysregTypeOK`), and that the spacing of reports holds under the command too
(`SysregReportsSpaced`).
`SysregAssumption` says that typed values are within their ranges.

`EventQueueProofs` proves `RingOK` and `Spec => Fifo!Spec`, the safety part of `RingIsFifo`,
for every size of the ring, every set of commands and any reader. `RingOK` says where
the items are but not how many the indices allow, so the invariant `QInv` adds the rest:
`Shape` is the type; `Distance` says that tail is head plus the number of items, modulo
the size, which is what makes the slot a push fills lie outside the items, and that a
push under way has room and a pop an item; `Held` says what each store made so far under
the mutex has left in the slot or in `cmd`. Three stores are steps of the abstract
queue, the two that change the number of items and the one that clears the command;
every other store leaves it alone. Appending and taking the head are compared with
the items in ring order by the library's facts on sequences. Assumption: the size is
positive and `NoCmd` is no command (`QueueAssumption`).

It also proves `OkForAnyType`, the answer to the reader that does without the mutex. The
reader reads the count first, then the index of the head, then the command, and walks;
the service may take events between any two of these. `SoughtAhead` says why it can not
miss one that was there all along while nothing was put: before each of its loads the
slots it is still to visit reach to the last item stored, however many were taken; and if
it passed the command without finding it, a slot still to be visited holds the event, for
taking an event leaves its slot as it is and only a push would write there.

`SerialPortProofs` proves `PortTypeOK`, `BuffersDistinct` and `AcceptedArrive` for every
capacity and any number of bytes. `IndexOK` says that the index names the buffer that the
driver fills until the driver asks for another, and then the other one, taken or not. For the ring buffer `PortInv` is the type, with the
progress of the thread's put; and, until an interrupt's put overlaps a thread's,
`Arrives` says that what is claimed is the thread's (`ClaimOK`), that bytes copied are
in the slots they will be finished in (`CopyOK`), and that the bytes received followed by
those in the ring are the accepted ones, each sender's in order (`Holds`, `InOrder` of
`Arrived`). After an overlap only the bounds of the indices are left, and they are proved.
Assumption: the capacity is positive (`PortAssumption`).

`VarParserProofs` proves the four invariants of `VarParser` for every table, every width
of a number, every size of a buffer and every length of a field.

* `VarTypeOK`: `TypeInv` adds what the locals of each loop must satisfy between two
  characters, and `FieldInv` that while a field is parsed the variable keeps what is
  behind the bytes stored.
* `HookSeesValue` and `RejectedRightly` compare the parsers, which read a character at a
  time, with `Fields`, which builds texts from digits and pieces. Neither is inductive: what
  has been read is mostly no field yet. `ReadInv` says what it is instead (`Reads`, for
  each parser): a numeral's value is in the accumulator, the bytes stored are those of the
  digits read in pairs, the characters stored are those of the pieces read and the state
  says where in a piece the text ends. And of a refused line (`Rejected`), that no field the
  variable can take continues it. `IsField` is membership in `Fields` without `MaxField`,
  so that a text can be continued. Each parser has a lemma for a character that goes on
  (`ReadsOn`), for one that ends the field (`FieldRead`) and for one that is refused
  (`Refuses`).
* `ReadsBack`: what a formatter prints is a field of what the variable holds (`Printed`), a text
  is a field of one value only (`FieldUnique`), so the value stored is the one printed.
  `FieldUnique` needs for strings that pieces can be told apart from their first characters
  on. That a number held is always in its range is an invariant of its own (`ValuesInv`).

`Numeral`, `Digits` and the flattening of a sequence are recursive functions; what they give
for every length is proved by induction (`SetInduction`, from the well-ordering of the naturals
in the library), with a set in the place of the predicate, which the provers can not
instantiate. Assumptions: the ranges are even and at most half of the accumulator's, and
a comma and a NUL are no characters of a field (`VarParserAssumption`).

Every invariant the runs check is thereby proved for every value of the constants, but
the three that are violated. Only model-checked are the liveness properties
(`AnswersLines`, `OutputNotStarved`, `HoldReleased`, `InputDrains`, `AcknowledgedReported`, and the liveness of
`EventsInOrder` and `RingIsFifo`): TLAPS has no rules for fairness and ENABLED here.

## 5. Not modelled

* `cat_search_command_by_name` and its two siblings only read the constant table, and the
  application does not call them; `cat_get_processed_command` is a single load.
* `hmi_uart_send`: `write_char` ignores its result and always reports success, so a
  character is lost when the driver is still busy with the one before. That it is not
  rests on time, 87 microseconds for a character against at least a millisecond from
  one service call to the next, and on one character per call, which follows from
  `OutputExclusion`. The model has no clock to say more.
* A port whose reception could not be enabled again stays deaf. `SerialPort` contains
  this, and no property, because the code promises nothing.
* A put of which only a part fits drops the rest, the end of a line included, and no code
  notices; `SerialPort` contains this, and `AcceptedArrive` speaks of the bytes stored.
* After two puts into the ring buffer have overlapped, bytes may be lost, repeated or
  read before they are written; `SerialPort` contains these outcomes, and
  `AcceptedArrive` stops at the first overlap.
* A variable's type is one of the enumeration `cat_var_type`, as in every table of the
  application. For another value the `default` branches of `parse_write_args` and
  `format_read_args` report an error and stay in their state; they are left out.
* `cr_flag` is written and never read. The wording of output is left out of `CatParser`,
  its length and order are kept; `VarParser` has the text of values.
* The sensor handler is a stub and its value not part of a logged line here; other logging
  is left out. `main` is a straight line of calls into Zephyr.
* The range of the numbers typed for `+SYSREG` is cut to a few values on each side of a
  limit; how digits become a number is the matter of `VarParser`.

## 6. Disagreements found

Shown by a run:

* `cat_is_busy` looks at the command machine alone, so it returns 0 while an event is
  being written; `src/cat.h` says the output can then safely be used (`cat_busy`).
* `enable_hold_state` clears an exit request already accepted, so a `cat_hold_exit`
  is lost when an event's handler returns HOLD first (`cat_hold_exit_lost`).
* `cat_is_unsolicited_event_buffered`, asked for one type, answers that an event is neither
  buffered nor processed while the service moves it, because the command, the count and
  the type are stored in this order (`event_answer`). Asked for any type it does not
  (`OkForAnyType`).

Described only:

* The command list of `#HELP` shows commands of a disabled group, which can not be
  called; `src/cat.h` says the flag completely disables them.
* The timer handler logs the buffer even when `make_report` refused the period, so a
  register with a period over `MAX_PERIOD` logs another one's line; `ReportsOwnLine` has
  this exception.
* `+SYSREG` cuts the sensor id to 8 bits before the check, so 256 is acknowledged and
  means sensor 0. It answers OK to a refused call when the interval is 4294967295, the
  value that means refused; `OkInForce` has this exception. It sets the period
  also when r/w says read.
* A number of more than 64 bits is taken modulo 2^64 before the range check, so some are
  accepted as small ones; `HookSeesValue` says so. `parse_int_decimal` multiplies by the sign
  only at the end, so -2^63 overflows the accumulator on its way and is not defined
  although it is a number of 64 bits; no variable is wider than 32, and what is stored is in range.
* A refused string may leave its variable without terminator. What reading then prints
  is refused when it is sent back; `ReadsBack` excludes it.

## 7. Plan

1. (done) `CatTable`, `CatParser`, their runs and the safety proofs.
2. (done) `ValueReporter` and `SysregCommand`, their runs, proofs and refinement.
3. (done) `EventQueue`, `EventFifo`, `AtProtocol`, `SerialPort`, `VarParser` and their runs,
   and the proof that `EventQueue` implements `EventFifo`.
4. (done) Proofs for every size of `EnabledOnly`, `SearchResolves`, `OneResultPerLine`,
   `WriteArgsParsed`, `OkForAnyType`, `SysregTypeOK`, of the properties of `SerialPort` but
   its liveness, of `VarTypeOK`, and that `CatParser` implements `AtProtocol` and
   `EventFifo`.
5. (done) Proofs of `HookSeesValue`, `RejectedRightly` and `ReadsBack` by induction over the
   characters of a field.

What is left is what section 5 lists: `hmi_uart_send`, whose correctness rests on time, would
need a model with a clock.
