---------------------------- MODULE MCEventQueue ----------------------------
(***************************************************************************)
(* Two slots, so that head and tail wrap at different moments, two         *)
(* commands, and a reader that asks about one of them, any type or one.    *)
(***************************************************************************)
EXTENDS EventQueue

CONSTANTS c1, c2

MCCommands == {c1, c2}
MCQuestions == {<<c1, "NONE">>, <<c1, "READ">>}
=============================================================================
