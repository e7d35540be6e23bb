---------------------------- MODULE MCVarParser ----------------------------
(***************************************************************************)
(* Commands for each type, size and access, one of which needs both of its *)
(* variables, and numbers of 2, 3, 4 and 5 bits for those of 8, 16, 32 and *)
(* 64.                                                                     *)
(***************************************************************************)
EXTENDS VarParser

V(type, size, access) ==
  [type |-> type, data_size |-> size, access |-> access, write |-> {TRUE}]

Fussy(v) == [v EXCEPT !.write = BOOLEAN]

One(v) == [vars |-> <<v>>, need_all_vars |-> FALSE]

\* With a variable that may be written, or the command would have no arguments.
Behind(v) ==
  [vars |-> <<V("BUF_HEX", 1, "WRITE_ONLY"), v>>, need_all_vars |-> FALSE]

MCCommands ==
  {One(V(t, s, "READ_WRITE")) : t \in {"INT_DEC", "UINT_DEC"}, s \in {1, 2, 3, 4}}
  \cup {One(V("NUM_HEX", 1, "READ_WRITE")), One(V("NUM_HEX", 4, "WRITE_ONLY")),
        Behind(V("INT_DEC", 1, "READ_ONLY")), Behind(V("UINT_DEC", 3, "READ_ONLY")),
        One(V("BUF_HEX", 1, "READ_WRITE")), One(V("BUF_HEX", 2, "READ_WRITE")),
        Behind(V("BUF_HEX", 1, "READ_ONLY")),
        One(V("BUF_STRING", 1, "READ_WRITE")), One(V("BUF_STRING", 2, "READ_WRITE")),
        Behind(V("BUF_STRING", 2, "READ_ONLY")),
        [vars |-> <<Fussy(V("UINT_DEC", 1, "READ_WRITE")), Fussy(V("BUF_STRING", 2, "READ_WRITE"))>>,
         need_all_vars |-> TRUE],
        [vars |-> <<Fussy(V("NUM_HEX", 1, "READ_WRITE")), V("INT_DEC", 1, "READ_WRITE")>>,
         need_all_vars |-> FALSE]}

MCChars ==
  [type \in Number \cup {"BUF_HEX", "BUF_STRING"} |->
     CASE type = "NUM_HEX" -> {"0", "1", "A", "x", "X"}
       [] type = "BUF_HEX" -> {"0", "a", "A", "x"}
       [] type = "BUF_STRING" -> {"QUOTE", "BACKSLASH", "n", "A"}
       [] OTHER -> {"1", "6", "A", "-", "+"}]

MCLimit == [n \in {1, 2, 4} |-> CASE n = 1 -> 4 [] n = 2 -> 8 [] n = 4 -> 16]
=============================================================================
