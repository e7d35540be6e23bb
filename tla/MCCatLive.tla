----------------------------- MODULE MCCatLive ------------------------------
(***************************************************************************)
(* A table like the application's: handlers that finish (no NEXT), a list  *)
(* of commands, and a command that holds the parser when it is typed; two  *)
(* events, of one command and different types, that any thread may trigger *)
(* again and again, and room for both.                                     *)
(***************************************************************************)
EXTENDS CatParser

Number == [access |-> "READ_WRITE", fields |-> {<<"T">>}, write |-> {TRUE},
           read |-> {TRUE}, widths |-> {1, 9}, info |-> 2]

Plain ==
  [name |-> <<"X">>, descr |-> 0, write |-> {}, read |-> {}, run |-> {},
   test |-> {}, vars |-> <<>>, need_all_vars |-> FALSE, only_test |-> FALSE,
   disable |-> FALSE, implicit_write |-> FALSE, group_disable |-> FALSE,
   reply |-> {}]

MCNumCmds == 2

MCCmds ==
  [i \in 0 .. MCNumCmds - 1 |->
     <<[Plain EXCEPT !.name = <<"+">>, !.run = {"PRINT_CMD_LIST_OK", "HOLD"},
                     !.read = {"OK"}, !.test = {"DATA_OK"}, !.write = {"ERROR"}],
       [Plain EXCEPT !.name = <<"T">>, !.vars = <<Number, Number>>,
                     !.test = {"DATA_OK"}, !.descr = 1]>>[i + 1]]

MCInputChars == {"A", "T", "+", "=", "?", "NL"}
MCTriggers == {<<0, "READ">>, <<0, "TEST">>}
MCBufSize == [f \in Fsm |-> 9]
=============================================================================
