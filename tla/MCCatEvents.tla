---------------------------- MODULE MCCatEvents -----------------------------
(***************************************************************************)
(* A table built for the two machines together: a command whose handlers   *)
(* return everything the library allows, hold included, and one answered   *)
(* by its variables alone; any of them typed, the first also triggered.   *)
(***************************************************************************)
EXTENDS CatParser

Plain ==
  [name |-> <<"X">>, descr |-> 0, write |-> {}, read |-> {}, run |-> {},
   test |-> {}, vars |-> <<>>, need_all_vars |-> FALSE, only_test |-> FALSE,
   disable |-> FALSE, implicit_write |-> FALSE, group_disable |-> FALSE,
   reply |-> {}]

Number == [access |-> "READ_WRITE", fields |-> {<<"+">>}, write |-> {TRUE},
           read |-> {TRUE}, widths |-> {1}, info |-> 2]

MCNumCmds == 2

MCCmds ==
  [i \in 0 .. MCNumCmds - 1 |->
     <<[Plain EXCEPT !.name = <<"+">>, !.read = ReturnState, !.test = ReturnState,
                     !.run = ReturnState, !.write = ReturnState],
       [Plain EXCEPT !.name = <<"T">>, !.vars = <<Number>>]>>[i + 1]]

MCInputChars == {"A", "T", "+", "=", "?", "NL"}
MCTriggers == {<<0, "READ">>, <<0, "TEST">>}
MCBufSize == [f \in Fsm |-> IF f = AT THEN 6 ELSE 7]
=============================================================================
