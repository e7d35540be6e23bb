------------------------------ MODULE CatTable ------------------------------
(***************************************************************************)
(* The static part of the AT command parser (src/cat.h, src/cat.c): the    *)
(* descriptor table an application registers with cat_init, and the        *)
(* operators of cat.c that only read that table.                           *)
(*                                                                         *)
(* A handler is represented by the set of results it may return, {} for a  *)
(* NULL handler; a variable by the argument texts its parser accepts and   *)
(* the lengths its formatter may print; a description by its length, 0     *)
(* for NULL.  Groups are flattened: group_disable is the flag of the       *)
(* group that holds the command.                                           *)
(***************************************************************************)
EXTENDS Integers, Sequences

CONSTANTS
  NumCmds,     \* commands_num
  Cmds,        \* the table: Cmds[i] is the command at index i
  InputChars,  \* the characters the peer may send
  BufSize      \* working buffer size of each state machine

AT == "atcmd"            \* CAT_FSM_TYPE_ATCMD
UN == "unsolicited"      \* CAT_FSM_TYPE_UNSOLICITED
Fsm == {AT, UN}

CmdIds == 0 .. NumCmds - 1
NoCmd == -1              \* the NULL command pointer

ReturnState == {"ERROR", "DATA_OK", "DATA_NEXT", "NEXT", "OK", "HOLD",
                "HOLD_EXIT_OK", "HOLD_EXIT_ERROR", "PRINT_CMD_LIST_OK"}

CmdType == {"NONE", "RUN", "READ", "WRITE", "TEST", "TOTAL_NUM"}

Access == {"READ_WRITE", "READ_ONLY", "WRITE_ONLY"}

(***************************************************************************)
(* Characters.  "NL" is the one code the parser keeps for the three line   *)
(* terminators, CR, NUL and NL.                                            *)
(***************************************************************************)
UpperOf == [a |-> "A", b |-> "B", c |-> "C", d |-> "D", e |-> "E", f |-> "F",
            g |-> "G", h |-> "H", i |-> "I", j |-> "J", k |-> "K", l |-> "L",
            m |-> "M", n |-> "N", o |-> "O", p |-> "P", q |-> "Q", r |-> "R",
            s |-> "S", t |-> "T", u |-> "U", v |-> "V", w |-> "W", x |-> "X",
            y |-> "Y", z |-> "Z"]

to_upper(ch) == IF ch \in DOMAIN UpperOf THEN UpperOf[ch] ELSE ch

Upper(name) == [k \in DOMAIN name |-> to_upper(name[k])]

is_valid_cmd_name_char(ch) ==
  \/ \E low \in DOMAIN UpperOf : ch = UpperOf[low]
  \/ ch \in {"0", "1", "2", "3", "4", "5", "6", "7", "8", "9"}
  \/ ch \in {"+", "#", "$", "@", "_", "%", "&"}

Char == {"NL"} \cup InputChars \cup {to_upper(ch) : ch \in InputChars}

(***************************************************************************)
(* struct cat_variable and struct cat_command                              *)
(***************************************************************************)
Variable ==
  [access : Access,
   fields : SUBSET Seq(Char),       \* texts that parse and are in range
   write  : SUBSET BOOLEAN,         \* outcomes of the write hook, TRUE = 0
   read   : SUBSET BOOLEAN,         \* outcomes of the read hook, TRUE = 0
   widths : SUBSET (Nat \ {0}),     \* printed lengths, {} = bad data_size
   info   : Nat]                    \* length of "<name:TYPE[RW]>", 0 = none

Command ==
  [name : Seq(STRING), descr : Nat,
   write : SUBSET ReturnState, read : SUBSET ReturnState,
   run : SUBSET ReturnState, test : SUBSET ReturnState,
   vars : Seq(Variable), need_all_vars : BOOLEAN, only_test : BOOLEAN,
   disable : BOOLEAN, implicit_write : BOOLEAN, group_disable : BOOLEAN,
   reply : SUBSET Nat]              \* lengths of text a handler may leave

ASSUME NumCmdsAssumption == NumCmds \in Nat \ {0}

\* Every hook of a variable returns; a NULL hook counts as one that succeeds.
ASSUME CmdsAssumption ==
  /\ Cmds \in [CmdIds -> Command]
  /\ \A i \in CmdIds : Cmds[i].name # <<>>
  /\ \A i \in CmdIds : \A k \in DOMAIN Cmds[i].vars :
       Cmds[i].vars[k].write # {} /\ Cmds[i].vars[k].read # {}

\* cat_init asserts that an implicit write command has no other handler.
ASSUME ImplicitWriteAssumption ==
  \A i \in CmdIds : Cmds[i].implicit_write =>
    Cmds[i].read = {} /\ Cmds[i].run = {} /\ Cmds[i].test = {}

\* The match states, four to a byte, fit the parser's buffer.
ASSUME BufSizeAssumption ==
  /\ BufSize \in [Fsm -> Nat \ {0}]
  /\ 4 * BufSize[AT] >= NumCmds

\* "ERROR" and its terminator fit the parser's buffer; cat_init does not check.
ASSUME AckFitsAssumption == BufSize[AT] > 5

\* A handler given max_data_size leaves a terminated text in the buffer.
ASSUME ReplyAssumption ==
  \A i \in CmdIds : \A n \in Cmds[i].reply : \A f \in Fsm : n < BufSize[f]

(***************************************************************************)
(* Operators of cat.c on the table                                         *)
(***************************************************************************)
is_command_disable(i) == Cmds[i].group_disable \/ Cmds[i].disable

is_variables_access_possible(c, access) ==
  \E k \in DOMAIN c.vars : c.vars[k].access \in {"READ_WRITE", access}

\* The argument at 0-based position pos of args ends before 1-based index k.
ParseEnds(v, args, pos) ==
  {k \in pos + 1 .. Len(args) + 1 :
     /\ SubSeq(args, pos + 1, k - 1) \in v.fields
     /\ k = Len(args) + 1 \/ args[k] = ","}

(***************************************************************************)
(* What a typed name should resolve to, stated without the parser's bits:  *)
(* the first enabled command of that name, otherwise the only enabled      *)
(* command the name abbreviates, otherwise none.                           *)
(***************************************************************************)
Enabled == {i \in CmdIds : ~is_command_disable(i)}

Exact(name) == {i \in Enabled : Upper(Cmds[i].name) = name}

Abbreviates(name, i) ==
  /\ Len(name) <= Len(Cmds[i].name)
  /\ \A k \in DOMAIN name : to_upper(Cmds[i].name[k]) = name[k]

Candidates(name) == {i \in Enabled : Abbreviates(name, i)}

First(S) == CHOOSE i \in S : \A j \in S : i <= j

Resolve(name) ==
  IF Exact(name) # {} THEN First(Exact(name))
  ELSE IF \E i \in CmdIds : Candidates(name) = {i} THEN First(Candidates(name))
  ELSE NoCmd
=============================================================================
