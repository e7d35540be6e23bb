----------------------------- MODULE SerialPort -----------------------------
(***************************************************************************)
(* The way of a byte to the parser: the driver's callback in hmi_uart.c,   *)
(* the receive callback of src/main.c, the ring buffer both put into, and  *)
(* read_char of src/at_command.c.  The parser itself is AtProtocol, which  *)
(* CatParser implements.                                                   *)
(*                                                                         *)
(* The UART callback runs in the interrupt, so it comes between any two    *)
(* steps of the Bluetooth thread and of the parser thread, and its put is  *)
(* one step.  The Bluetooth thread's put is three: space is claimed, the   *)
(* bytes are copied, the put is finished.  ring_buf_put and the driver are *)
(* external, modelled from what their callers here rely on.                *)
(***************************************************************************)
EXTENDS Integers, Sequences

CONSTANTS
  Cap,       \* capacity of uart_at_ringbuf
  MaxBytes   \* bound: bytes that each sender sends

UART == "uart"
BT == "bt"
Senders == {UART, BT}

\* A byte is its sender and number; every second one ends a line.
Byte == [from : Senders, no : 1 .. MaxBytes]
Garbage == [from |-> "none", no |-> 0]
EndsLine(b) == b.no % 2 = 0

ASSUME PortAssumption ==
  Cap \in Nat \ {0} /\ MaxBytes \in Nat

VARIABLES
  phase, writer,  \* the parser, see AtProtocol
  slot,           \* the bytes of the ring buffer
  first,          \* slot of the next byte to get
  used,           \* bytes put and not yet got
  claimed,        \* space claimed behind them
  bt,             \* the put of the Bluetooth thread
  sent,           \* history: bytes each sender handed over
  accepted,       \* history: bytes that a put said it stored
  raced,          \* history: a put came between the steps of another
  got,            \* history: bytes the parser read
  driver,         \* the receiving side of the UART driver
  rx_buf_idx      \* hmi_uart_data.rx_buf_idx

ringVars == <<slot, first, used, claimed, bt, sent, accepted, raced>>
rxVars == <<driver, rx_buf_idx>>
vars == <<phase, writer, ringVars, got, rxVars>>

\* "+" abbreviates most commands of the table in src/at_command.c.
Parser == INSTANCE AtProtocol WITH Ambiguous <- TRUE

Idle == [at |-> "out", from |-> 0, start |-> 0, num |-> 0]

\* hmi_uart_init_instance enables reception into the first buffer.  The index
\* is in a static object and so 0, which the first request changes.
Init ==
  /\ Parser!Init
  /\ slot = [i \in 0 .. Cap - 1 |-> Garbage]
  /\ first = 0 /\ used = 0 /\ claimed = 0
  /\ bt = Idle
  /\ sent = [s \in Senders |-> 0]
  /\ accepted = {} /\ raced = FALSE
  /\ got = <<>>
  /\ driver = [on |-> TRUE, current |-> 0, next |-> -1, asked |-> FALSE]
  /\ rx_buf_idx = 0

-----------------------------------------------------------------------------
(* The ring buffer.                                                        *)

Wrapped(i) == IF i < 0 THEN i + Cap ELSE IF i < Cap THEN i ELSE i - Cap
Place(i) == Wrapped(first + i)
Free == Cap - used - claimed
Smaller(a, b) == IF a < b THEN a ELSE b

Bytes(s, from, n) == {[from |-> s, no |-> from + k] : k \in 1 .. n}

\* The bytes from + 1 .. from + n of a sender, in the slots from start on.
Copied(s, from, n, start) ==
  [i \in DOMAIN slot |->
     LET k == Wrapped(i - start)
     IN  IF k < n THEN [from |-> s, no |-> from + k + 1] ELSE slot[i]]

\* received of src/main.c: claim, copy, finish.  A put of which not all fits
\* stores what does.
BtClaim ==
  /\ bt.at = "out"
  /\ \E len \in 1 .. MaxBytes - sent[BT] :
       LET n == Smaller(len, Free)
       IN  /\ claimed' = claimed + n
           /\ sent' = [sent EXCEPT ![BT] = @ + len]
           /\ bt' = IF n = 0 THEN Idle
                    ELSE [at |-> "copy", from |-> sent[BT], start |-> Place(used + claimed),
                          num |-> n]
  /\ UNCHANGED <<slot, first, used, accepted, raced>>

BtCopy ==
  /\ bt.at = "copy"
  /\ slot' = Copied(BT, bt.from, bt.num, bt.start)
  /\ bt' = [bt EXCEPT !.at = "finish"]
  /\ UNCHANGED <<first, used, claimed, sent, accepted, raced>>

\* More than is claimed cannot be finished; the put returns its size anyway.
BtFinish ==
  /\ bt.at = "finish"
  /\ IF bt.num <= claimed THEN used' = used + bt.num /\ claimed' = 0
     ELSE UNCHANGED <<used, claimed>>
  /\ accepted' = accepted \cup Bytes(BT, bt.from, bt.num)
  /\ bt' = Idle
  /\ UNCHANGED <<slot, first, sent, raced>>

received == BtClaim \/ BtCopy \/ BtFinish

-----------------------------------------------------------------------------
(* hmi_uart_callback_internal, for each event of the driver.               *)

Other(i) == 1 - i

\* Mutant: the buffer in use is handed out again.
RequestedBuffer_Same == rx_buf_idx

\* The buffer that a request is answered with.
RequestedBuffer == Other(rx_buf_idx)

\* Mutant: the event's data are taken from the start of its buffer.
RxOffset_Start == 0

\* The data follow those of the events before it.
RxOffset == sent[UART]

\* The whole put at once; what does not fit is dropped, and logged only when
\* that is everything.
UartRxRdy ==
  /\ driver.on
  /\ \E len \in 1 .. MaxBytes - sent[UART] :
       LET n == Smaller(len, Free)
       IN  /\ slot' = Copied(UART, RxOffset, n, Place(used + claimed))
           /\ used' = used + n
           /\ sent' = [sent EXCEPT ![UART] = @ + len]
           /\ accepted' = accepted \cup Bytes(UART, sent[UART], n)
  /\ claimed' = 0
  /\ raced' = (raced \/ bt.at # "out")
  /\ UNCHANGED <<first, bt, rxVars>>

\* The driver asks once while it fills a buffer.  That uart_rx_buf_rsp may refuse the
\* answer is not looked at, and the index has moved all the same.
UartRxBufRequest ==
  /\ driver.on /\ ~driver.asked
  /\ rx_buf_idx' = RequestedBuffer
  /\ \E next \in {RequestedBuffer, -1} :
       driver' = [driver EXCEPT !.asked = TRUE, !.next = next]
  /\ UNCHANGED ringVars

\* The driver goes on with the next buffer.
UartRxBufReleased ==
  /\ driver.on /\ driver.next # -1
  /\ driver' = [driver EXCEPT !.current = driver.next, !.next = -1, !.asked = FALSE]
  /\ UNCHANGED <<ringVars, rx_buf_idx>>

\* Reception has stopped, because a buffer came too late or after an error;
\* it is started again once, which may fail.
UartRxDisabled ==
  /\ driver.on
  /\ rx_buf_idx' = Other(rx_buf_idx)
  /\ \E ok \in BOOLEAN :
       driver' = [on |-> ok, current |-> IF ok THEN rx_buf_idx' ELSE -1,
                  next |-> -1, asked |-> FALSE]
  /\ UNCHANGED ringVars

UartReceive == UartRxRdy \/ UartRxBufRequest \/ UartRxBufReleased \/ UartRxDisabled

-----------------------------------------------------------------------------
(* The parser thread.                                                      *)

\* Mutants: the result of ring_buf_get is not looked at; a line is only read
\* when it is there as a whole.
HasInput_Any == TRUE

HasInput_Line == \E i \in 0 .. used - 1 : EndsLine(slot[Place(i)])

HasInput == used > 0

read_char ==
  /\ phase \in {"idle", "line"} /\ HasInput
  /\ got' = Append(got, slot[first])
  /\ first' = Place(1)
  /\ used' = used - 1
  /\ IF EndsLine(slot[first]) THEN Parser!ReadEnd \/ Parser!SkipEnd
     ELSE Parser!ReadChar
  /\ UNCHANGED <<slot, claimed, bt, sent, accepted, raced>>

\* Everything else that the parser does; see AtProtocol.
ParserStep ==
  /\ \/ Parser!Decide \/ Parser!RefuseName \/ Parser!StartResponse \/ Parser!StartEvent
     \/ Parser!EndResponse \/ Parser!EndEvent \/ Parser!Close
     \/ Parser!Hold \/ Parser!Release
  /\ UNCHANGED <<got, ringVars>>

Next ==
  \/ received /\ UNCHANGED <<phase, writer, got, rxVars>>
  \/ UartReceive /\ UNCHANGED <<phase, writer, got>>
  \/ (read_char \/ ParserStep) /\ UNCHANGED rxVars

Spec == Init /\ [][Next]_vars

\* The parser thread calls cat_service for ever, and answers lines.
FairSpec == Spec /\ Parser!Fairness /\ WF_vars(read_char /\ UNCHANGED rxVars)

-----------------------------------------------------------------------------
(* Properties.                                                             *)

PortTypeOK ==
  /\ slot \in [0 .. Cap - 1 -> Byte \cup {Garbage}]
  /\ first \in 0 .. Cap - 1
  /\ used \in 0 .. Cap /\ claimed \in 0 .. Cap - used

\* The driver is never handed a buffer that it still fills, although the one
\* index is moved by two kinds of events (UART_RX_BUF_REQUEST, _DISABLED).
BuffersDistinct == driver.on => driver.current # driver.next

\* What the parser read, and then what it can read.
Arrived ==
  [i \in 1 .. Len(got) + used |->
     IF i <= Len(got) THEN got[i] ELSE slot[Place(i - Len(got) - 1)]]

\* Up to the first put that comes between the steps of the other one, every
\* byte that a put said it stored reaches the parser, and nothing else does,
\* once and in the order of its sender, whatever bytes before it found the
\* ring buffer full.
AcceptedArrive ==
  ~raced =>
    /\ {Arrived[i] : i \in DOMAIN Arrived} = accepted
    /\ \A i, j \in DOMAIN Arrived :
         i < j /\ Arrived[i].from = Arrived[j].from => Arrived[i].no < Arrived[j].no

\* A full ring buffer gets room again, unless a handler holds the parser.
InputDrains == used = Cap ~> used < Cap \/ phase = "hold"
=============================================================================
