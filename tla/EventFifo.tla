----------------------------- MODULE EventFifo ------------------------------
(***************************************************************************)
(* What the unsolicited event API of src/cat.h promises: events are kept   *)
(* in a buffer of bounded depth, taken in the order in which they were     *)
(* accepted, and processed one at a time.  CatParser implements it with a  *)
(* sequence and two state machines, EventQueue with the ring of cat.c and  *)
(* its separate stores.                                                    *)
(***************************************************************************)
EXTENDS Naturals, Sequences

CONSTANTS
  Size,      \* CAT_UNSOLICITED_CMD_BUFFER_SIZE
  Events,    \* events that may be triggered
  NoEvent    \* nothing is being processed

VARIABLES
  buffered,  \* accepted events not yet taken, oldest first
  processed  \* the event being processed

fifo == <<buffered, processed>>

Init == buffered = <<>> /\ processed = NoEvent

\* A trigger that returns CAT_STATUS_OK; one that returns BUFFER_FULL is a
\* stuttering step.
Accept ==
  /\ Len(buffered) < Size
  /\ \E e \in Events : buffered' = Append(buffered, e)
  /\ UNCHANGED processed

\* The oldest event is taken; processing may fail at once, as when its
\* response does not even have room for the name.
Take ==
  /\ processed = NoEvent /\ buffered # <<>>
  /\ processed' \in {Head(buffered), NoEvent}
  /\ buffered' = Tail(buffered)

Finish ==
  /\ processed # NoEvent /\ processed' = NoEvent
  /\ UNCHANGED buffered

Next == Accept \/ Take \/ Finish

Spec == Init /\ [][Next]_fifo

\* Accepted events are all processed, and processing ends.
FairSpec == Spec /\ WF_fifo(Take) /\ WF_fifo(Finish)
=============================================================================
