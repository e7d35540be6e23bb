----------------------------- MODULE AtProtocol -----------------------------
(***************************************************************************)
(* What the AT command parser promises to the two ends of its serial line: *)
(* characters are read only before a line has ended, a line that has ended *)
(* is answered by exactly one result, and one line of output is written at *)
(* a time.  A handler may put the parser on hold, which interrupts what it *)
(* is doing; leaving hold gives a result too.                              *)
(***************************************************************************)
CONSTANT
  Ambiguous  \* some name that may precede "=" abbreviates several commands

VARIABLES
  phase,     \* of the command machine
  writer     \* who is writing a line of output

protocol == <<phase, writer>>

\* A result is due; "early" before the end of its line was read.
Results == {"result", "early"}

Init == phase = "idle" /\ writer = "none"

\* A character arrives.  The end of an empty line is skipped; that of any
\* other leads to its handlers, or straight to its result.
ReadChar ==
  /\ phase \in {"idle", "line"}
  /\ phase' = "line"
  /\ UNCHANGED writer

ReadEnd ==
  /\ phase = "line"
  /\ phase' \in {"busy", "result"}
  /\ UNCHANGED writer

SkipEnd ==
  /\ phase = "idle"
  /\ UNCHANGED protocol

\* The handlers are done.
Decide ==
  /\ phase = "busy" /\ phase' = "result"
  /\ UNCHANGED writer

\* An ambiguous name is refused where it ends; the rest is the next line.
RefuseName ==
  /\ Ambiguous
  /\ phase = "line" /\ phase' = "early"
  /\ UNCHANGED writer

StartResponse ==
  /\ writer = "none" /\ phase \in {"busy"} \cup Results
  /\ writer' = "response"
  /\ UNCHANGED phase

StartEvent ==
  /\ writer = "none"
  /\ writer' = "event"
  /\ UNCHANGED phase

EndResponse ==
  /\ writer = "response" /\ writer' = "none"
  /\ phase' = IF phase \in Results THEN "done" ELSE phase

EndEvent ==
  /\ writer = "event" /\ writer' = "none"
  /\ UNCHANGED phase

\* The line is over, and the next one may come.
Close ==
  /\ phase = "done" /\ phase' = "idle"
  /\ UNCHANGED writer

\* A line of output of the command machine is cut short.
Hold ==
  /\ phase # "hold" /\ phase' = "hold"
  /\ writer' = IF writer = "response" THEN "none" ELSE writer

Release ==
  /\ phase = "hold" /\ phase' \in Results
  /\ UNCHANGED writer

Next ==
  \/ ReadChar \/ ReadEnd \/ SkipEnd \/ Decide \/ RefuseName
  \/ StartResponse \/ StartEvent \/ EndResponse \/ EndEvent
  \/ Close \/ Hold \/ Release

Spec == Init /\ [][Next]_protocol

\* A line that has ended gets its result, and the result the output.
StartResult == phase \in Results /\ StartResponse

Fairness ==
  /\ WF_protocol(Decide)
  /\ SF_protocol(StartResult)
  /\ WF_protocol(EndResponse) /\ WF_protocol(EndEvent)
  /\ WF_protocol(Close)

FairSpec == Spec /\ Fairness
=============================================================================
