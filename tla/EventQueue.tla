----------------------------- MODULE EventQueue -----------------------------
(***************************************************************************)
(* The buffer of unsolicited events of src/cat.c, store by store: the ring *)
(* with head, tail and number of items, the command and type being         *)
(* processed, and cat_is_unsolicited_event_buffered, which reads all of    *)
(* them without the mutex.                                                 *)
(*                                                                         *)
(* Triggers and the service take the mutex, so one of them at a time is    *)
(* between its stores; step tells where.  Loads and stores happen in       *)
(* program order.                                                          *)
(***************************************************************************)
EXTENDS Naturals, Sequences

CONSTANTS
  Size,      \* CAT_UNSOLICITED_CMD_BUFFER_SIZE
  Commands,  \* commands that may be triggered
  NoCmd,     \* the NULL pointer
  Questions  \* bound: the <<command, type>> that the reader asks about

Types == {"READ", "TEST"}
Events == Commands \X Types
NoEvent == <<NoCmd, "NONE">>

ASSUME QueueAssumption ==
  /\ Size \in Nat \ {0}
  /\ NoCmd \notin Commands
  /\ Questions \subseteq Commands \X (Types \cup {"NONE"})

VARIABLES
  slot,          \* unsolicited_cmd_buffer
  head, tail,    \* unsolicited_cmd_buffer_head, _tail
  count,         \* unsolicited_cmd_buffer_items_count
  cmd, cmd_type, \* unsolicited_fsm.cmd, .cmd_type
  step,          \* the store that was made last, "free" without the mutex
  item,          \* the event the holder of the mutex is moving
  reader,        \* the unlocked reader
  history        \* what happened since the reader was called

ring == <<slot, head, tail, count>>
machine == <<cmd, cmd_type, step, item>>
vars == <<ring, machine, reader, history>>

Slots == 0 .. Size - 1

\* Mutant: the index runs past the end before it is reset.
NextSlot_Late(i) == IF i + 1 > Size THEN 0 ELSE i + 1

NextSlot(i) == IF i + 1 >= Size THEN 0 ELSE i + 1

PrevSlot(i) == IF i = 0 THEN Size - 1 ELSE i - 1

NotAsking == [at |-> "out", asked |-> NoEvent, num |-> 0, index |-> 0]

Init ==
  /\ slot = [i \in Slots |-> NoEvent]
  /\ head = 0 /\ tail = 0 /\ count = 0
  /\ cmd = NoCmd /\ cmd_type = "NONE"
  /\ step = "free" /\ item = NoEvent
  /\ reader = NotAsking
  /\ history = [absent |-> FALSE, put |-> FALSE]

-----------------------------------------------------------------------------
(* push_unsolicited_cmd, called by cat_trigger_unsolicited_event.          *)

\* Mutant: one item more than there are slots.
is_unsolicited_buffer_full_Late == count > Size

is_unsolicited_buffer_full == count = Size

PushCmd ==
  /\ step = "free" /\ ~is_unsolicited_buffer_full
  /\ \E e \in Events :
       /\ item' = e
       /\ slot' = [slot EXCEPT ![tail][1] = e[1]]
  /\ step' = "push_cmd"
  /\ UNCHANGED <<head, tail, count, cmd, cmd_type>>

PushType ==
  /\ step = "push_cmd" /\ step' = "push_type"
  /\ slot' = [slot EXCEPT ![tail][2] = item[2]]
  /\ UNCHANGED <<head, tail, count, cmd, cmd_type, item>>

PushTail ==
  /\ step = "push_type" /\ step' = "push_tail"
  /\ tail' = NextSlot(tail)
  /\ UNCHANGED <<slot, head, count, cmd, cmd_type, item>>

PushCount ==
  /\ step = "push_tail" /\ step' = "free"
  /\ count' = count + 1
  /\ item' = NoEvent
  /\ UNCHANGED <<slot, head, tail, cmd, cmd_type>>

-----------------------------------------------------------------------------
(* check_unsolicited_buffers: pop_unsolicited_cmd stores the command in    *)
(* the machine and the type in a local, which is stored after the pop.     *)

PopCmd ==
  /\ step = "free" /\ step' = "pop_cmd"
  /\ cmd = NoCmd /\ count # 0
  /\ cmd' = slot[head][1]
  /\ item' = slot[head]
  /\ UNCHANGED <<ring, cmd_type>>

PopHead ==
  /\ step = "pop_cmd" /\ step' = "pop_head"
  /\ head' = NextSlot(head)
  /\ UNCHANGED <<slot, tail, count, cmd, cmd_type, item>>

PopCount ==
  /\ step = "pop_head" /\ step' = "pop_count"
  /\ count' = count - 1
  /\ UNCHANGED <<slot, head, tail, cmd, cmd_type, item>>

SetType ==
  /\ step = "pop_count" /\ step' = "free"
  /\ cmd_type' = item[2]
  /\ item' = NoEvent
  /\ UNCHANGED <<ring, cmd>>

\* unsolicited_reset_state, when the event has been processed.
ResetCmd ==
  /\ step = "free" /\ step' = "reset"
  /\ cmd # NoCmd /\ cmd' = NoCmd
  /\ UNCHANGED <<ring, cmd_type, item>>

ResetType ==
  /\ step = "reset" /\ step' = "free"
  /\ cmd_type' = "NONE"
  /\ UNCHANGED <<ring, cmd, item>>

Push == PushCmd \/ PushType \/ PushTail \/ PushCount
Pop == PopCmd \/ PopHead \/ PopCount \/ SetType
Reset == ResetCmd \/ ResetType

-----------------------------------------------------------------------------
(* cat_is_unsolicited_event_buffered                                       *)

\* Mutant: the machine's command is looked at before the ring is.
AfterLoad_CmdFirst == [call |-> "cmd", cmd |-> "num", num |-> "index", index |-> "walk"]

\* The order of the loads before the walk.
AfterLoad == [call |-> "num", num |-> "index", index |-> "cmd", cmd |-> "walk"]

Goto(at) == [reader EXCEPT !.at = at]
Answer(status) == Goto(status)

\* A match of the command is confirmed by a load of the type, if one is asked.
Matched(confirm) == IF reader.asked[2] = "NONE" THEN Answer("BUSY") ELSE Goto(confirm)

Call ==
  /\ reader.at = "out"
  /\ \E q \in Questions :
       reader' = [NotAsking EXCEPT !.at = AfterLoad["call"], !.asked = q]

LoadNum ==
  /\ reader.at = "num"
  /\ reader' = [Goto(AfterLoad["num"]) EXCEPT !.num = count]

LoadIndex ==
  /\ reader.at = "index"
  /\ reader' = [Goto(AfterLoad["index"]) EXCEPT !.index = head]

LoadCmd ==
  /\ reader.at = "cmd"
  /\ reader' = IF cmd = reader.asked[1] THEN Matched("type")
               ELSE Goto(AfterLoad["cmd"])

LoadType ==
  /\ reader.at = "type"
  /\ reader' = IF cmd_type = reader.asked[2] THEN Answer("BUSY")
               ELSE Goto(AfterLoad["cmd"])

NextItem == [Goto("walk") EXCEPT !.num = reader.num - 1,
                                 !.index = NextSlot(reader.index)]

WalkCmd ==
  /\ reader.at = "walk"
  /\ reader' = IF reader.num = 0 THEN Answer("OK")
               ELSE IF slot[reader.index][1] = reader.asked[1] THEN Matched("item")
               ELSE NextItem

WalkType ==
  /\ reader.at = "item"
  /\ reader' = IF slot[reader.index][2] = reader.asked[2] THEN Answer("BUSY")
               ELSE NextItem

Return ==
  /\ reader.at \in {"OK", "BUSY"}
  /\ reader' = NotAsking

cat_is_unsolicited_event_buffered ==
  \/ Call \/ LoadNum \/ LoadIndex \/ LoadCmd \/ LoadType
  \/ WalkCmd \/ WalkType \/ Return

-----------------------------------------------------------------------------
(* The queue as a sequence.  An event leaves it, and is being processed,   *)
(* when the number of items is decremented.                                *)

Oldest == IF step = "pop_head" THEN PrevSlot(head) ELSE head

Place(i) == IF Oldest + i - 1 < Size THEN Oldest + i - 1 ELSE Oldest + i - 1 - Size

buffered == [i \in 1 .. count |-> slot[Place(i)]]

processed ==
  CASE step \in {"pop_cmd", "pop_head"} -> NoEvent
    [] step = "pop_count" -> item
    [] OTHER -> IF cmd = NoCmd THEN NoEvent ELSE <<cmd, cmd_type>>

Fifo == INSTANCE EventFifo

\* The event asked about is waiting in the buffer or is processed.
Asked(e) ==
  /\ e # NoEvent
  /\ e[1] = reader.asked[1]
  /\ reader.asked[2] \in {"NONE", e[2]}

Present == Asked(processed) \/ \E i \in 1 .. count : Asked(buffered[i])

Remember ==
  IF reader'.at = "out" THEN history' = [absent |-> FALSE, put |-> FALSE]
  ELSE history' = [absent |-> history.absent \/ ~Present',
                   put |-> history.put \/ step' \in {"push_cmd", "push_type", "push_tail"}]

Next ==
  /\ \/ (Push \/ Pop \/ Reset) /\ UNCHANGED reader
     \/ cat_is_unsolicited_event_buffered /\ UNCHANGED <<ring, machine>>
  /\ Remember

Spec == Init /\ [][Next]_vars

\* The service is called for ever, handlers finish, a trigger returns.  Weak
\* fairness is enough: triggers stop taking the mutex when the ring is full.
FairSpec ==
  /\ Spec
  /\ WF_vars(Push /\ step # "free" /\ UNCHANGED reader /\ Remember)
  /\ WF_vars(Pop /\ UNCHANGED reader /\ Remember)
  /\ WF_vars(Reset /\ UNCHANGED reader /\ Remember)

-----------------------------------------------------------------------------
(* Properties.                                                             *)

\* Indices stay in the ring and the number of items is the distance between
\* them, as the two are never compared with each other in cat.c.
Stored == CASE step = "push_tail" -> count + 1
            [] step = "pop_head" -> count - 1
            [] OTHER -> count

RingOK ==
  /\ slot \in [Slots -> (Commands \cup {NoCmd}) \X (Types \cup {"NONE"})]
  /\ head \in Slots /\ tail \in Slots
  /\ count \in 0 .. Size
  /\ tail = head + Stored \/ tail = head + Stored - Size
  /\ cmd \in Commands \cup {NoCmd} /\ cmd_type \in Types \cup {"NONE"}

\* Whatever the interleaving, the ring is the bounded FIFO of the API: nothing
\* is lost, duplicated or overtaken, and everything accepted is processed.
RingIsFifo == Fifo!FairSpec

\* The reader, asked for events of any type while nothing is put, answers OK
\* only if at some moment of the call there was no such event, although the
\* service may move it out of the ring meanwhile.
OkForAnyType ==
  reader.at = "OK" /\ reader.asked[2] = "NONE" /\ ~history.put => history.absent

\* src/cat.h: CAT_STATUS_OK means that the command is not buffered nor
\* processed, so not at every moment of the call.
OkMeansAbsent == reader.at = "OK" => history.absent
=============================================================================
