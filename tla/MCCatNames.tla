----------------------------- MODULE MCCatNames -----------------------------
(***************************************************************************)
(* A table built for name resolution: a name that is a prefix of others,   *)
(* a disabled command, a command of a disabled group, lower case, and an   *)
(* implicit write command.                                                 *)
(***************************************************************************)
EXTENDS CatParser

Plain ==
  [name |-> <<"X">>, descr |-> 0, write |-> {}, read |-> {"OK"},
   run |-> {"OK"}, test |-> {}, vars |-> <<>>, need_all_vars |-> FALSE,
   only_test |-> FALSE, disable |-> FALSE, implicit_write |-> FALSE,
   group_disable |-> FALSE, reply |-> {}]

MCNumCmds == 6

MCCmds ==
  [i \in 0 .. MCNumCmds - 1 |->
     <<[Plain EXCEPT !.name = <<"C", "+">>, !.disable = TRUE],
       [Plain EXCEPT !.name = <<"C", "G", "+">>],
       [Plain EXCEPT !.name = <<"c", "g">>, !.run = {"PRINT_CMD_LIST_OK"}],
       [Plain EXCEPT !.name = <<"G">>, !.read = {}, !.run = {},
                     !.write = {"OK"}, !.implicit_write = TRUE],
       [Plain EXCEPT !.name = <<"+", "C">>, !.group_disable = TRUE],
       [Plain EXCEPT !.name = <<"C", "+", "+">>, !.only_test = TRUE,
                     !.test = {"OK"}]>>[i + 1]]

MCInputChars == {"A", "t", "T", "C", "g", "+", "=", "?", "CR"}
MCBufSize == [f \in Fsm |-> 12]
=============================================================================
