----------------------------- MODULE MCCatArgs ------------------------------
(***************************************************************************)
(* A table built for arguments and responses: read-write, read-only and    *)
(* write-only variables, hooks that fail, missing handlers, an unsupported *)
(* data_size, need_all_vars, and texts that do not fit the buffer.         *)
(***************************************************************************)
EXTENDS CatParser

Number == [access |-> "READ_WRITE", fields |-> {<<"1">>, <<"1", "1">>},
           write |-> {TRUE}, read |-> {TRUE}, widths |-> {1, 2}, info |-> 2]

Plain ==
  [name |-> <<"X">>, descr |-> 0, write |-> {}, read |-> {}, run |-> {},
   test |-> {}, vars |-> <<>>, need_all_vars |-> FALSE, only_test |-> FALSE,
   disable |-> FALSE, implicit_write |-> FALSE, group_disable |-> FALSE,
   reply |-> {}]

MCNumCmds == 7

MCCmds ==
  [i \in 0 .. MCNumCmds - 1 |->
     <<[Plain EXCEPT !.name = <<"W">>, !.vars = <<Number, Number>>,
                     !.write = {"OK", "NEXT"}, !.test = {"OK"}],
       [Plain EXCEPT !.name = <<"N">>, !.need_all_vars = TRUE,
          !.read = {"DATA_OK", "PRINT_CMD_LIST_OK"}, !.reply = {0, 7},
          !.vars = <<[Number EXCEPT !.write = BOOLEAN, !.read = BOOLEAN],
                     [Number EXCEPT !.access = "READ_ONLY", !.widths = {1, 5}]>>],
       [Plain EXCEPT !.name = <<"A">>, !.test = {"DATA_OK"}, !.descr = 2,
          !.vars = <<[Number EXCEPT !.access = "READ_ONLY"]>>],
       [Plain EXCEPT !.name = <<"T">>, !.write = {"DATA_OK", "ERROR"},
          !.vars = <<[Number EXCEPT !.access = "WRITE_ONLY", !.info = 6]>>],
       [Plain EXCEPT !.name = <<"1">>,
          !.vars = <<[Number EXCEPT !.widths = {}, !.info = 0]>>],
       [Plain EXCEPT !.name = <<"W", "N">>, !.write = {"OK"}],
       [Plain EXCEPT !.name = <<"A", "T">>, !.descr = 6, !.vars = <<Number>>,
                     !.only_test = TRUE]>>[i + 1]]

MCInputChars == {"A", "T", "W", "N", "1", ",", "=", "?", "NL"}
MCBufSize == [f \in Fsm |-> 8]
=============================================================================
