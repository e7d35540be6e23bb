--------------------------- MODULE CatLineProofs ----------------------------
(***************************************************************************)
(* What becomes of a line: its name, its result and its arguments.         *)
(*                                                                         *)
(* The parser keeps two bits for each command and updates them character   *)
(* by character, one command per call; NamesInv says what those bits mean  *)
(* in terms of the table and the name, wherever the update or the search   *)
(* has got to.  From it follow that the search resolves the name, and the  *)
(* line protocol, which refuses a name before the end of its line only if  *)
(* it is ambiguous.  ArgsInv says what of an argument text is parsed.      *)
(***************************************************************************)
EXTENDS CatControlProofs, FiniteSetTheorems

\* The match state of a command for the characters of a name.
Expected(name, i) ==
  IF ~Abbreviates(name, i) THEN "NOT_MATCH"
  ELSE IF Len(name) = Len(Cmds[i].name) THEN "FULL_MATCH"
  ELSE "PARTIAL_MATCH"

\* The enabled commands before the search's index that match partially.
Passed(r) == {i \in Enabled : i < r.index /\ r.buf.match[i] = "PARTIAL_MATCH"}

Updating(r, t, c) ==
  \E before \in Seq(Char) :
    /\ t = Append(before, c)
    /\ \A i \in Enabled :
         r.buf.match[i] = Expected(IF i < r.index THEN t ELSE before, i)

Searching(r, p) ==
  /\ \A i \in Enabled : i < r.index => r.buf.match[i] # "FULL_MATCH"
  /\ \/ Passed(r) = {} /\ r.cmd = NoCmd /\ p = 0
     \/ Passed(r) = {r.cmd} /\ p = 1
     \/ r.cmd \in Passed(r) /\ p >= 2 /\ \E i \in Passed(r) : i # r.cmd

\* The name has no command, and abbreviates more than one.
AmbiguousName(t) == Exact(t) = {} /\ \E i, j \in Candidates(t) : i # j

NamesOK(r, t, n, c, p) ==
  /\ r.state \in {"PARSE_COMMAND_CHAR", "UPDATE_COMMAND_STATE"} => n = Len(t)
  /\ r.state = "PARSE_COMMAND_CHAR" => r.index = 0
  /\ r.state \in {"WAIT_READ_ACKNOWLEDGE", "SEARCH_COMMAND"} => t # <<>>
  /\ r.state \in {"PARSE_COMMAND_CHAR", "WAIT_READ_ACKNOWLEDGE", "SEARCH_COMMAND"} =>
       \A i \in Enabled : r.buf.match[i] = Expected(t, i)
  /\ r.state = "UPDATE_COMMAND_STATE" => Updating(r, t, c)
  /\ r.state = "SEARCH_COMMAND" => Searching(r, p)
  /\ r.state = "COMMAND_NOT_FOUND" /\ c # "NL" => t # <<>> /\ AmbiguousName(t)
  /\ r.state \notin NameState => t = <<>>

NamesInv == NamesOK(fsm[AT], typed, length, current_char, partial_cntr)

-----------------------------------------------------------------------------
(* Names.                                                                  *)

\* Every command abbreviates to nothing, and no command is called that.
LEMMA EmptyName ==
  ASSUME NEW i \in CmdIds
  PROVE  Expected(<<>>, i) = "PARTIAL_MATCH"
<1>1. Len(Cmds[i].name) \in Nat /\ Cmds[i].name # <<>> /\ Cmds[i].name \in Seq(STRING)
  BY TableFacts, CmdsAssumption DEF Command
<1>2. Len(Cmds[i].name) # 0
  BY <1>1
<1> QED
  BY <1>1, <1>2 DEF Expected, Abbreviates

\* How one more character changes what is expected.
LEMMA NameExtended ==
  ASSUME NEW i \in CmdIds, NEW t \in Seq(Char), NEW c \in Char
  PROVE  LET name == Cmds[i].name
             n == Len(t) + 1
         IN  Expected(Append(t, c), i) =
               IF Expected(t, i) = "NOT_MATCH" \/ n > Len(name) THEN "NOT_MATCH"
               ELSE IF to_upper(name[n]) # c THEN "NOT_MATCH"
               ELSE IF n = Len(name) THEN "FULL_MATCH"
               ELSE Expected(t, i)
<1> DEFINE name == Cmds[i].name
           n == Len(t) + 1
           u == Append(t, c)
<1>1. Len(name) \in Nat /\ Len(t) \in Nat /\ n \in Nat
  BY TableFacts
<1>2. /\ Len(u) = n /\ u[n] = c
      /\ DOMAIN u = 1 .. n /\ DOMAIN t = 1 .. Len(t)
      /\ \A k \in 1 .. Len(t) : u[k] = t[k]
  OBVIOUS
<1> HIDE DEF u, n
<1>3. Len(t) = n - 1
  BY <1>1 DEF n
<1>4. Abbreviates(u, i) <=>
        Abbreviates(t, i) /\ n <= Len(name) /\ to_upper(name[n]) = c
  <2>1. Abbreviates(u, i) => Abbreviates(t, i) /\ n <= Len(name) /\ to_upper(name[n]) = c
    BY <1>1, <1>2, <1>3 DEF Abbreviates
  <2>2. ASSUME Abbreviates(t, i), n <= Len(name), to_upper(name[n]) = c
        PROVE  Abbreviates(u, i)
    <3>1. ASSUME NEW k \in DOMAIN u
          PROVE  to_upper(name[k]) = u[k]
      <4>1. k = n \/ k \in 1 .. Len(t)
        BY <1>1, <1>2, <1>3
      <4> QED
        BY <1>2, <2>2, <4>1 DEF Abbreviates
    <3> QED
      BY <1>2, <2>2, <3>1 DEF Abbreviates
  <2> QED
    BY <2>1, <2>2
<1>5. Abbreviates(t, i) /\ n <= Len(name) => Len(t) # Len(name)
  BY <1>1, <1>3
<1> QED
  BY <1>1, <1>2, <1>4, <1>5 DEF Expected, u, n

\* What the match states say of the sets the name resolves through.
LEMMA ExpectedMeans ==
  ASSUME NEW i \in Enabled, NEW t \in Seq(Char)
  PROVE  /\ Expected(t, i) = "FULL_MATCH" <=> i \in Exact(t)
         /\ Expected(t, i) # "NOT_MATCH" <=> i \in Candidates(t)
         /\ Expected(t, i) \in MatchState
<1> DEFINE name == Cmds[i].name
<1>1. i \in CmdIds /\ Len(name) \in Nat /\ Len(t) \in Nat
  BY TableFacts DEF Enabled
<1>2. name \in Seq(STRING) /\ DOMAIN name = 1 .. Len(name)
  BY <1>1, CmdsAssumption DEF Command
<1>3. t = [k \in 1 .. Len(t) |-> t[k]] /\ DOMAIN t = 1 .. Len(t)
  OBVIOUS
<1>4. Upper(name) = [k \in 1 .. Len(name) |-> to_upper(name[k])]
  BY <1>2 DEF Upper
<1>5. ASSUME Upper(name) = t
      PROVE  Abbreviates(t, i) /\ Len(t) = Len(name)
  <2>1. DOMAIN Upper(name) = 1 .. Len(name)
    BY <1>4
  <2>2. Len(t) = Len(name)
    BY <1>1, <1>3, <1>5, <2>1
  <2> QED
    BY <1>1, <1>3, <1>4, <1>5, <2>2 DEF Abbreviates
<1>6. ASSUME Abbreviates(t, i), Len(t) = Len(name)
      PROVE  Upper(name) = t
  BY <1>3, <1>4, <1>6 DEF Abbreviates
<1> QED
  BY <1>5, <1>6 DEF Expected, Exact, Candidates, MatchState

\* The first of a set of commands.
LEMMA FirstIs ==
  ASSUME NEW S \in SUBSET CmdIds, NEW i \in S, \A j \in S : i <= j
  PROVE  First(S) = i
<1>1. \A j, k \in CmdIds : j <= k /\ k <= j => j = k
  BY NumCmdsAssumption DEF CmdIds
<1>2. \A j \in S : (\A k \in S : j <= k) => j = i
  BY <1>1
<1> QED
  BY <1>2 DEF First

\* A name without command resolves to the one it abbreviates, if only one.
LEMMA ResolveAbbreviation ==
  ASSUME NEW t \in Seq(Char), Exact(t) = {}
  PROVE  /\ \A i \in CmdIds : Candidates(t) = {i} => Resolve(t) = i
         /\ Candidates(t) = {} => Resolve(t) = NoCmd
         /\ (\E i, j \in Candidates(t) : i # j) => Resolve(t) = NoCmd
<1>1. ASSUME NEW i \in CmdIds, Candidates(t) = {i}
      PROVE  Resolve(t) = i
  <2>1. First({i}) = i
    BY NumCmdsAssumption, FirstIs DEF CmdIds
  <2> QED
    BY <1>1, <2>1 DEF Resolve
<1> QED
  BY <1>1 DEF Resolve

\* What makes a name ambiguous makes some prefix of a registered name so.
LEMMA AmbiguousMeans ==
  ASSUME NEW t \in Seq(Char), t # <<>>, AmbiguousName(t)
  PROVE  SomeAmbiguous /\ Cardinality(Candidates(t)) > 1
<1>1. PICK i, j \in Candidates(t) : i # j
  BY DEF AmbiguousName
<1>2. Cardinality(Candidates(t)) > 1
  <2>1. Candidates(t) \in SUBSET CmdIds /\ IsFiniteSet(CmdIds)
    BY NumCmdsAssumption, FS_Interval DEF Candidates, Enabled, CmdIds
  <2>2. IsFiniteSet(Candidates(t)) /\ Cardinality(Candidates(t)) \in Nat
    BY <2>1, FS_Subset, FS_CardinalityType
  <2>3. IsFiniteSet({i}) /\ Cardinality({i}) = 1
    BY FS_Singleton
  <2>4. {i} \in SUBSET Candidates(t) /\ {i} # Candidates(t)
    BY <1>1
  <2>5. /\ Cardinality({i}) <= Cardinality(Candidates(t))
        /\ Cardinality(Candidates(t)) = Cardinality({i}) => Candidates(t) = {i}
    BY <2>2, <2>4, FS_Subset
  <2> QED
    BY <2>2, <2>3, <2>4, <2>5
<1> DEFINE name == Cmds[i].name
           k == Len(t)
           u == SubSeq(name, 1, k)
<1>3. /\ i \in CmdIds /\ name \in Seq(STRING) /\ Len(name) \in Nat
      /\ DOMAIN name = 1 .. Len(name)
  BY TableFacts, CmdsAssumption DEF Candidates, Enabled, Command
<1>4. /\ k \in Nat /\ k # 0 /\ k <= Len(name) /\ DOMAIN t = 1 .. k
      /\ \A l \in 1 .. k : to_upper(name[l]) = t[l]
  BY DEF Candidates, Abbreviates
<1>5. u = [l \in 1 .. k |-> name[l]]
  BY <1>3, <1>4
<1>6. Upper(u) = [l \in 1 .. k |-> t[l]]
  <2>1. DOMAIN u = 1 .. k /\ \A l \in 1 .. k : u[l] = name[l]
    BY <1>5
  <2> HIDE DEF u
  <2>2. Upper(u) = [l \in 1 .. k |-> to_upper(u[l])]
    BY <2>1 DEF Upper
  <2> QED
    BY <1>4, <2>1, <2>2
<1>7. Upper(SubSeq(Cmds[i].name, 1, k)) = t
  BY <1>4, <1>6
<1>8. k \in DOMAIN Cmds[i].name
  BY <1>3, <1>4
<1> QED
  BY <1>2, <1>3, <1>7, <1>8 DEF SomeAmbiguous, AmbiguousName

-----------------------------------------------------------------------------
(* The steps that read a name.                                             *)

\* Outside the states of a name there is nothing to keep.
LEMMA NameLeft ==
  ASSUME NEW s, fsm'[AT] = s, s.state \notin NameState, History
  PROVE  NamesInv'
<1>1. typed' = <<>>
  BY DEF History
<1>2. s.state \notin {"PARSE_COMMAND_CHAR", "UPDATE_COMMAND_STATE", "SEARCH_COMMAND",
                      "WAIT_READ_ACKNOWLEDGE", "COMMAND_NOT_FOUND"}
  BY DEF NameState
<1> QED
  BY <1>1, <1>2 DEF NamesInv, NamesOK

\* The name stays as it is, but for a character appended.
LEMMA NameKept ==
  ASSUME NEW s, fsm'[AT] = s, s.state \in NameState, History,
         ~(fsm[AT].state = "PARSE_COMMAND_CHAR" /\ s.state = "UPDATE_COMMAND_STATE")
  PROVE  typed' = typed
BY DEF History

\* The facts about the current state that the steps below use.
LEMMA NameFacts ==
  ASSUME IInv
  PROVE  /\ at \in FsmRec /\ at = fsm[AT] /\ typed \in Seq(Char)
         /\ current_char \in Char /\ length \in Nat /\ partial_cntr \in Nat
         /\ at.state \in NameState \ {"COMMAND_FOUND", "COMMAND_NOT_FOUND"} =>
              /\ at.buf \in [kind : {"match"}, match : [CmdIds -> MatchState]]
              /\ at.buf.match \in [CmdIds -> MatchState]
         /\ at.state \in {"UPDATE_COMMAND_STATE", "SEARCH_COMMAND"} => at.index \in CmdIds
         /\ at.index \in Nat
<1>1. HandlersInv /\ typed \in Seq(Char)
  BY DEF IInv, RestInv
<1>2. at \in FsmRec /\ MachineOK(AT, at) /\ at = fsm[AT]
  BY <1>1, AtFacts
<1>3. at.index \in Nat
  BY <1>2 DEF FsmRec
<1>4. at.state \in {"UPDATE_COMMAND_STATE", "SEARCH_COMMAND"} => at.index \in CmdIds
  BY <1>2, <1>3, NumCmdsAssumption DEF MachineOK, Dereferences, CmdIds
<1>5. at.state \in NameState \ {"COMMAND_FOUND", "COMMAND_NOT_FOUND"} =>
        at.buf \in [kind : {"match"}, match : [CmdIds -> MatchState]]
  BY <1>2 DEF MachineOK, BufferMatches
<1>6. at.buf \in [kind : {"match"}, match : [CmdIds -> MatchState]] =>
        at.buf.match \in [CmdIds -> MatchState]
  OBVIOUS
<1> QED
  BY <1>1, <1>2, <1>3, <1>4, <1>5, <1>6 DEF HandlersInv

LEMMA ErrorNames ==
  ASSUME IInv, History, NEW st \in {"ERROR", "PARSE_PREFIX"},
         Becomes(AT, [at EXCEPT !.state = st])
  PROVE  NamesInv'
<1>1. [at EXCEPT !.state = st].state = st /\ st \notin NameState
  BY NameFacts DEF FsmRec, NameState
<1> QED
  BY <1>1, OtherUnchanged, NameLeft

LEMMA AckNames ==
  ASSUME IInv, History, Becomes(AT, ack_error(at)) \/ Becomes(AT, ack_ok(at))
  PROVE  NamesInv'
<1>1. /\ Acked(at, ack_error(at)) /\ Acked(at, ack_ok(at))
  BY NameFacts, AckMoves
<1>2. \A s : Acked(at, s) => s.state \notin NameState
  BY DEF Acked, NameState
<1> QED
  BY <1>1, <1>2, OtherUnchanged, NameLeft

LEMMA PrefixNames ==
  ASSUME IInv, NamesInv, History, parse_prefix
  PROVE  NamesInv'
<1>1. at.state = "PARSE_PREFIX" /\ at \in FsmRec /\ at = fsm[AT]
  BY NameFacts DEF parse_prefix, read_cmd_char
<1>2. CASE Becomes(AT, [prepare_parse_command(at) EXCEPT !.state = "PARSE_COMMAND_CHAR"])
           /\ length' = 0
  <2> DEFINE s == [prepare_parse_command(at) EXCEPT !.state = "PARSE_COMMAND_CHAR"]
             m == [i \in CmdIds |-> "PARTIAL_MATCH"]
  <2>1. /\ s.state = "PARSE_COMMAND_CHAR" /\ s.index = 0 /\ s.buf = Matches(m)
    BY <1>1 DEF prepare_parse_command, FsmRec
  <2>2. fsm'[AT] = s
    BY <1>2, OtherUnchanged
  <2> HIDE DEF s
  <2>3. typed = <<>>
    BY <1>1 DEF NamesInv, NamesOK, NameState
  <2>4. typed' = <<>>
    BY <1>1, <2>1, <2>2, <2>3, NameKept DEF NameState
  <2>5. \A i \in Enabled : s.buf.match[i] = Expected(<<>>, i)
    BY <2>1, EmptyName DEF Enabled, Matches
  <2> QED
    BY <1>2, <2>1, <2>2, <2>4, <2>5 DEF NamesInv, NamesOK, NameState
<1>3. CASE Becomes(AT, ack_error(at))
  BY <1>3, AckNames
<1>4. CASE Becomes(AT, [at EXCEPT !.state = "ERROR"])
  BY <1>4, ErrorNames
<1> QED
  BY <1>2, <1>3, <1>4 DEF parse_prefix

\* The search starts, with no command passed.
LEMMA SearchStarts ==
  ASSUME IInv, History, NEW q \in FsmRec, NEW t \in Seq(Char), t # <<>>, typed = t,
         Becomes(AT, StartSearch(q)), partial_cntr' = 0,
         \A i \in Enabled : q.buf.match[i] = Expected(t, i)
  PROVE  NamesInv'
<1> DEFINE s == StartSearch(q)
<1>1. s.state = "SEARCH_COMMAND" /\ s.index = 0 /\ s.cmd = NoCmd /\ s.buf = q.buf
  BY DEF StartSearch, FsmRec
<1>2. fsm'[AT] = s
  BY OtherUnchanged
<1> HIDE DEF s
<1>3. typed' = t
  BY <1>1, <1>2, NameKept DEF NameState
<1>4. Passed(s) = {} /\ Searching(s, 0)
  <2>1. \A i \in Enabled : ~(i < 0)
    BY NumCmdsAssumption DEF Enabled, CmdIds
  <2> QED
    BY <1>1, <2>1 DEF Passed, Searching
<1> QED
  BY <1>1, <1>2, <1>3, <1>4 DEF NamesInv, NamesOK, NameState

LEMMA CommandNames ==
  ASSUME IInv, NamesInv, History, parse_command
  PROVE  NamesInv'
<1>1. /\ at.state = "PARSE_COMMAND_CHAR" /\ at \in FsmRec /\ at = fsm[AT]
      /\ current_char' \in Char /\ typed \in Seq(Char)
  BY NameFacts, CharRead DEF parse_command
<1>2. /\ length = Len(typed) /\ at.index = 0
      /\ \A i \in Enabled : at.buf.match[i] = Expected(typed, i)
  BY <1>1 DEF NamesInv, NamesOK
<1>3. length # 0 => typed # <<>>
  BY <1>2
<1>4. CASE Becomes(AT, ack_ok(at))
  BY <1>4, AckNames
<1>5. CASE length # 0 /\ partial_cntr' = 0 /\ Becomes(AT, StartSearch(at))
  BY <1>1, <1>2, <1>3, <1>5, SearchStarts
<1>6. CASE length # 0 /\ partial_cntr' = 0
           /\ Becomes(AT, StartSearch([at EXCEPT !.cmd_type = "WRITE"]))
  <2> DEFINE q == [at EXCEPT !.cmd_type = "WRITE"]
  <2>1. q \in FsmRec /\ q.buf = at.buf
    BY <1>1 DEF FsmRec, CmdType
  <2> HIDE DEF q
  <2>2. Becomes(AT, StartSearch(q))
    BY <1>6 DEF q
  <2> QED
    BY <1>1, <1>2, <1>3, <1>6, <2>1, <2>2, SearchStarts
<1>7. CASE length # 0 /\ Becomes(AT, [at EXCEPT !.cmd_type = "READ",
                                                !.state = "WAIT_READ_ACKNOWLEDGE"])
  <2> DEFINE s == [at EXCEPT !.cmd_type = "READ", !.state = "WAIT_READ_ACKNOWLEDGE"]
  <2>1. s.state = "WAIT_READ_ACKNOWLEDGE" /\ s.buf = at.buf
    BY <1>1 DEF FsmRec
  <2>2. fsm'[AT] = s
    BY <1>7, OtherUnchanged
  <2> HIDE DEF s
  <2>3. typed' = typed
    BY <2>1, <2>2, NameKept DEF NameState
  <2> QED
    BY <1>2, <1>3, <1>7, <2>1, <2>2, <2>3 DEF NamesInv, NamesOK, NameState
<1>8. CASE length' = length + 1 /\ Becomes(AT, [at EXCEPT !.state = "UPDATE_COMMAND_STATE"])
  <2> DEFINE s == [at EXCEPT !.state = "UPDATE_COMMAND_STATE"]
             c == current_char'
  <2>1. s.state = "UPDATE_COMMAND_STATE" /\ s.buf = at.buf /\ s.index = 0
    BY <1>1, <1>2 DEF FsmRec
  <2>2. fsm'[AT] = s
    BY <1>8, OtherUnchanged
  <2> HIDE DEF s
  <2>3. typed' = Append(typed, c)
    BY <1>1, <2>1, <2>2 DEF History, NameState
  <2>4. length' = Len(typed')
    BY <1>1, <1>2, <1>8, <2>3
  <2>5. Updating(s, typed', c)
    <3>1. \A i \in Enabled : ~(i < s.index)
      BY <2>1, NumCmdsAssumption DEF Enabled, CmdIds
    <3> QED
      BY <1>1, <1>2, <2>1, <2>3, <3>1 DEF Updating
  <2> QED
    BY <2>1, <2>2, <2>4, <2>5 DEF NamesInv, NamesOK, NameState
<1>9. CASE Becomes(AT, [at EXCEPT !.state = "ERROR"])
  BY <1>9, ErrorNames
<1> QED
  BY <1>4, <1>5, <1>6, <1>7, <1>8, <1>9 DEF parse_command

LEMMA WaitReadNames ==
  ASSUME IInv, NamesInv, History, wait_read_acknowledge
  PROVE  NamesInv'
<1>1. /\ at.state = "WAIT_READ_ACKNOWLEDGE" /\ at \in FsmRec /\ at = fsm[AT]
      /\ typed \in Seq(Char)
  BY NameFacts, CharRead DEF wait_read_acknowledge
<1>2. typed # <<>> /\ \A i \in Enabled : at.buf.match[i] = Expected(typed, i)
  BY <1>1 DEF NamesInv, NamesOK
<1>3. CASE partial_cntr' = 0 /\ Becomes(AT, StartSearch(at))
  BY <1>1, <1>2, <1>3, SearchStarts
<1>4. CASE Becomes(AT, [at EXCEPT !.state = "ERROR"])
  BY <1>4, ErrorNames
<1> QED
  BY <1>3, <1>4 DEF wait_read_acknowledge

-----------------------------------------------------------------------------
(* Updating the match states, one command per call.                        *)

LEMMA UpdateNames ==
  ASSUME IInv, NamesInv, History, update_command
  PROVE  NamesInv'
<1> DEFINE i == at.index
           live == get_cmd_state(i) # "NOT_MATCH"
           m == IF live THEN [at.buf.match EXCEPT ![i] = NameMatch(i)]
                ELSE at.buf.match
           r == [at EXCEPT !.buf = Matches(m)]
<1>1. /\ at.state = "UPDATE_COMMAND_STATE" /\ at \in FsmRec /\ at = fsm[AT]
      /\ i \in CmdIds /\ at.buf.match \in [CmdIds -> MatchState]
      /\ typed \in Seq(Char) /\ current_char \in Char
  BY NameFacts DEF update_command, NameState
<1>2. PICK before \in Seq(Char) :
        /\ typed = Append(before, current_char)
        /\ \A k \in Enabled :
             at.buf.match[k] = Expected(IF k < i THEN typed ELSE before, k)
  BY <1>1 DEF NamesInv, NamesOK, Updating
<1>3. length = Len(typed) /\ Len(typed) = Len(before) + 1 /\ typed # <<>>
  BY <1>1, <1>2 DEF NamesInv, NamesOK
<1>4. NameMatch(i) \in MatchState
  BY <1>1 DEF NameMatch, MatchState
<1>5. m \in [CmdIds -> MatchState] /\ \A k \in CmdIds \ {i} : m[k] = at.buf.match[k]
  BY <1>1, <1>4
<1>6. i \in Enabled => m[i] = Expected(typed, i)
  <2> SUFFICES ASSUME i \in Enabled
               PROVE  m[i] = Expected(typed, i)
    OBVIOUS
  <2>1. get_cmd_state(i) = Expected(before, i) /\ at.buf.match[i] = Expected(before, i)
    BY <1>1, <1>2, NumCmdsAssumption DEF get_cmd_state, Enabled, CmdIds
  <2>2. m[i] = IF Expected(before, i) # "NOT_MATCH" THEN NameMatch(i)
               ELSE Expected(before, i)
    BY <1>1, <2>1
  <2>3. Len(Cmds[i].name) \in Nat /\ Len(before) \in Nat
    BY <1>1, TableFacts
  <2> QED
    BY <1>1, <1>2, <1>3, <2>1, <2>2, <2>3, NameExtended DEF NameMatch
<1>7. \A k \in Enabled : m[k] = Expected(IF k < i + 1 THEN typed ELSE before, k)
  <2>1. \A k \in Enabled : k # i => (k < i + 1 <=> k < i)
    BY <1>1, NumCmdsAssumption DEF Enabled, CmdIds
  <2>2. i < i + 1
    BY <1>1, NumCmdsAssumption DEF CmdIds
  <2> QED
    BY <1>2, <1>5, <1>6, <2>1, <2>2 DEF Enabled
<1>8. Matches(m) \in Buffer /\ Matches(m).match = m
  <2> HIDE DEF m
  <2> QED
    BY <1>5 DEF Matches, Buffer
<1>9. \/ Becomes(AT, [r EXCEPT !.index = i + 1])
      \/ i + 1 >= NumCmds /\ Becomes(AT, [r EXCEPT !.index = 0, !.state = "PARSE_COMMAND_CHAR"])
      \/ /\ i + 1 >= NumCmds /\ partial_cntr' = 0
         /\ Becomes(AT, StartSearch([r EXCEPT !.cmd_type = "WRITE"]))
  BY DEF update_command
<1>10. UNCHANGED <<length, current_char>>
  BY DEF update_command
<1> HIDE DEF m
<1>11. r \in FsmRec /\ r.buf.match = m /\ r.state = "UPDATE_COMMAND_STATE"
  BY <1>1, <1>8 DEF FsmRec
<1> HIDE DEF r
<1>12. i + 1 >= NumCmds => \A k \in Enabled : m[k] = Expected(typed, k)
  <2>1. i + 1 >= NumCmds => \A k \in Enabled : k < i + 1
    BY <1>1, NumCmdsAssumption DEF Enabled, CmdIds
  <2> QED
    BY <1>7, <2>1
<1>13. CASE Becomes(AT, [r EXCEPT !.index = i + 1])
  <2> DEFINE s == [r EXCEPT !.index = i + 1]
  <2>1. s.state = "UPDATE_COMMAND_STATE" /\ s.index = i + 1 /\ s.buf.match = m
    BY <1>11 DEF FsmRec
  <2>2. fsm'[AT] = s
    BY <1>13, OtherUnchanged
  <2> HIDE DEF s
  <2>3. typed' = typed
    BY <1>1, <2>1, <2>2, NameKept DEF NameState
  <2>4. Updating(s, typed, current_char)
    BY <1>2, <1>7, <2>1 DEF Updating
  <2> QED
    BY <1>3, <1>10, <2>1, <2>2, <2>3, <2>4 DEF NamesInv, NamesOK, NameState
<1>14. CASE /\ i + 1 >= NumCmds
            /\ Becomes(AT, [r EXCEPT !.index = 0, !.state = "PARSE_COMMAND_CHAR"])
  <2> DEFINE s == [r EXCEPT !.index = 0, !.state = "PARSE_COMMAND_CHAR"]
  <2>1. s.state = "PARSE_COMMAND_CHAR" /\ s.index = 0 /\ s.buf.match = m
    BY <1>11 DEF FsmRec
  <2>2. fsm'[AT] = s
    BY <1>14, OtherUnchanged
  <2> HIDE DEF s
  <2>3. typed' = typed
    BY <1>1, <2>1, <2>2, NameKept DEF NameState
  <2> QED
    BY <1>3, <1>10, <1>12, <1>14, <2>1, <2>2, <2>3 DEF NamesInv, NamesOK, NameState
<1>15. CASE /\ i + 1 >= NumCmds /\ partial_cntr' = 0
            /\ Becomes(AT, StartSearch([r EXCEPT !.cmd_type = "WRITE"]))
  <2> DEFINE q == [r EXCEPT !.cmd_type = "WRITE"]
  <2>1. q \in FsmRec /\ q.buf.match = m
    BY <1>11 DEF FsmRec, CmdType
  <2> HIDE DEF q
  <2>2. Becomes(AT, StartSearch(q))
    BY <1>15 DEF q
  <2> QED
    BY <1>1, <1>3, <1>12, <1>15, <2>1, <2>2, SearchStarts
<1> QED
  BY <1>9, <1>13, <1>14, <1>15

-----------------------------------------------------------------------------
(* The search.                                                             *)

\* What a search that has got to the command at index knows of the name.
LEMMA SearchKnows ==
  ASSUME IInv, NamesInv, at.state = "SEARCH_COMMAND"
  PROVE  /\ get_cmd_state(at.index) = "FULL_MATCH" <=> at.index \in Exact(typed)
         /\ get_cmd_state(at.index) = "PARTIAL_MATCH" <=>
              at.index \in Candidates(typed) \ Exact(typed)
         /\ \A k \in Exact(typed) : at.index <= k
         /\ Passed(at) = {k \in Candidates(typed) : k < at.index}
         /\ \A k \in Enabled : at.buf.match[k] = "PARTIAL_MATCH" <=>
                                 k \in Candidates(typed) \ Exact(typed)
         /\ Searching(at, partial_cntr) /\ typed # <<>>
<1>1. /\ at \in FsmRec /\ at = fsm[AT] /\ at.index \in CmdIds /\ typed \in Seq(Char)
      /\ typed # <<>> /\ Searching(at, partial_cntr)
      /\ \A k \in Enabled : at.buf.match[k] = Expected(typed, k)
  BY NameFacts DEF NamesInv, NamesOK
<1>2. /\ \A k \in Enabled : at.buf.match[k] = "FULL_MATCH" <=> k \in Exact(typed)
      /\ \A k \in Enabled : at.buf.match[k] = "PARTIAL_MATCH" <=>
                              k \in Candidates(typed) \ Exact(typed)
  BY <1>1, ExpectedMeans DEF MatchState
<1>3. Exact(typed) \subseteq Enabled /\ Candidates(typed) \subseteq Enabled
  BY DEF Exact, Candidates
<1>4. at.index \notin Enabled => get_cmd_state(at.index) = "NOT_MATCH"
  BY <1>1 DEF Enabled, get_cmd_state
<1>5. at.index \in Enabled => get_cmd_state(at.index) = at.buf.match[at.index]
  BY DEF Enabled, get_cmd_state
<1>6. \A k \in Enabled : k < at.index => k \notin Exact(typed)
  BY <1>1, <1>2 DEF Searching
<1>7. \A k \in Exact(typed) : at.index <= k
  BY <1>1, <1>3, <1>6, NumCmdsAssumption DEF Enabled, CmdIds
<1>8. Passed(at) = {k \in Candidates(typed) : k < at.index}
  BY <1>2, <1>3, <1>6 DEF Passed
<1> QED
  BY <1>1, <1>2, <1>3, <1>4, <1>5, <1>7, <1>8

\* How the search's account of the commands passed goes on.
LEMMA SearchGoesOn ==
  ASSUME IInv, NamesInv, at.state = "SEARCH_COMMAND",
         get_cmd_state(at.index) # "FULL_MATCH",
         NEW s, s.index = at.index + 1, s.buf = at.buf,
         NEW count,
         IF get_cmd_state(at.index) = "PARTIAL_MATCH"
           THEN s.cmd = at.index /\ count = partial_cntr + 1
           ELSE s.cmd = at.cmd /\ count = partial_cntr
  PROVE  /\ Searching(s, count)
         /\ Passed(s) = {k \in Candidates(typed) : k <= at.index}
<1> DEFINE i == at.index
<1>1. /\ i \in CmdIds /\ i \in Int /\ partial_cntr \in Nat
      /\ \A k \in Enabled : k \in Int
  BY NameFacts, NumCmdsAssumption DEF CmdIds, Enabled
<1>2. \A k \in Enabled : k < i + 1 <=> k < i \/ k = i
  BY <1>1
<1>3. \A k \in Enabled : k < i + 1 => k \notin Exact(typed)
  BY <1>1, <1>2, SearchKnows
<1>4. \A k \in Enabled : at.buf.match[k] = "PARTIAL_MATCH" <=>
                           k \in Candidates(typed) \ Exact(typed)
  BY SearchKnows
<1>5. Passed(s) = {k \in Candidates(typed) : k < i + 1}
  BY <1>3, <1>4 DEF Passed, Candidates
<1>6. \A k \in Enabled : k < s.index => s.buf.match[k] # "FULL_MATCH"
  <2>1. \A k \in Enabled : at.buf.match[k] = "FULL_MATCH" => k \in Exact(typed)
    BY NameFacts, ExpectedMeans DEF NamesInv, NamesOK
  <2> QED
    BY <1>3, <2>1
<1>7. Passed(s) = IF get_cmd_state(i) = "PARTIAL_MATCH" THEN Passed(at) \cup {i}
                  ELSE Passed(at)
  BY <1>2, <1>5, SearchKnows DEF Candidates
<1>8. Searching(at, partial_cntr) /\ i \notin Passed(at)
  BY <1>1, SearchKnows
<1>9. CASE get_cmd_state(i) = "PARTIAL_MATCH"
  <2>1. Passed(s) = Passed(at) \cup {i} /\ s.cmd = i /\ count = partial_cntr + 1
    BY <1>7, <1>9
  <2>2. \/ Passed(at) = {} /\ partial_cntr = 0
        \/ at.cmd \in Passed(at) /\ partial_cntr >= 1
    BY <1>1, <1>8 DEF Searching
  <2> QED
    BY <1>1, <1>2, <1>5, <1>6, <1>8, <2>1, <2>2 DEF Searching, Candidates
<1>10. CASE get_cmd_state(i) # "PARTIAL_MATCH"
  <2>1. Passed(s) = Passed(at) /\ s.cmd = at.cmd /\ count = partial_cntr
    BY <1>7, <1>10
  <2> QED
    BY <1>1, <1>2, <1>5, <1>6, <1>8, <2>1 DEF Searching, Candidates
<1> QED
  BY <1>9, <1>10

\* A command found, or a search that failed.
Resolved(s) ==
  s.state \in {"COMMAND_FOUND", "COMMAND_NOT_FOUND", "ERROR"} =>
    Resolve(typed) = IF s.state = "COMMAND_FOUND" THEN s.cmd ELSE NoCmd

\* After the search only a refusal says something of the name.
LEMMA SearchOver ==
  ASSUME IInv, History, at.state = "SEARCH_COMMAND",
         NEW s, fsm'[AT] = s, UNCHANGED current_char,
         s.state \in {"COMMAND_FOUND", "COMMAND_NOT_FOUND", "ERROR"},
         s.state = "COMMAND_NOT_FOUND" /\ current_char # "NL" =>
           typed # <<>> /\ AmbiguousName(typed)
  PROVE  NamesInv'
<1>1. CASE s.state = "ERROR"
  BY <1>1, NameLeft DEF NameState
<1>2. CASE s.state # "ERROR"
  <2>1. typed' = typed
    BY <1>2, NameFacts, NameKept DEF NameState
  <2> QED
    BY <1>2, <2>1 DEF NamesInv, NamesOK, NameState
<1> QED
  BY <1>1, <1>2

LEMMA SearchNames ==
  ASSUME IInv, NamesInv, History, search_command
  PROVE  NamesInv' /\ Resolved(fsm'[AT])
<1> DEFINE i == at.index
           last == i + 1 >= NumCmds
           partial == get_cmd_state(i) = "PARTIAL_MATCH"
           cmd == IF partial THEN i ELSE at.cmd
           count == IF partial THEN partial_cntr + 1 ELSE partial_cntr
<1>1. /\ at.state = "SEARCH_COMMAND" /\ at \in FsmRec /\ at = fsm[AT]
      /\ i \in CmdIds /\ i \in Int /\ typed \in Seq(Char) /\ partial_cntr \in Nat
      /\ UNCHANGED <<length, current_char>>
  BY NameFacts, NumCmdsAssumption DEF search_command, CmdIds
<1>2. /\ get_cmd_state(i) = "FULL_MATCH" <=> i \in Exact(typed)
      /\ partial => i \in Candidates(typed)
      /\ \A k \in Exact(typed) : i <= k
      /\ Passed(at) \subseteq Candidates(typed) /\ i \notin Passed(at)
      /\ Searching(at, partial_cntr) /\ typed # <<>>
  BY <1>1, SearchKnows
<1>3. /\ Exact(typed) \subseteq CmdIds /\ Candidates(typed) \subseteq CmdIds
      /\ NoCmd \notin CmdIds
  BY NumCmdsAssumption DEF Exact, Candidates, Enabled, CmdIds, NoCmd
<1>4. last => \A k \in CmdIds : k <= i
  BY <1>1, NumCmdsAssumption DEF CmdIds
<1>5. last /\ i \notin Exact(typed) => Exact(typed) = {}
  BY <1>1, <1>2, <1>3, <1>4, NumCmdsAssumption DEF CmdIds
<1>6. CASE /\ get_cmd_state(i) = "FULL_MATCH"
           /\ Becomes(AT, [at EXCEPT !.cmd = i, !.state = "COMMAND_FOUND"])
  <2> DEFINE s == [at EXCEPT !.cmd = i, !.state = "COMMAND_FOUND"]
  <2>1. s.state = "COMMAND_FOUND" /\ s.cmd = i
    BY <1>1 DEF FsmRec
  <2>2. fsm'[AT] = s
    BY <1>6, OtherUnchanged
  <2> HIDE DEF s
  <2>3. NamesInv'
    BY <1>1, <2>1, <2>2, SearchOver
  <2>4. First(Exact(typed)) = i
    BY <1>2, <1>3, <1>6, FirstIs
  <2>5. Resolve(typed) = i
    BY <1>2, <1>6, <2>4 DEF Resolve
  <2> QED
    BY <2>1, <2>2, <2>3, <2>5 DEF Resolved
<1>7. CASE /\ partial /\ last /\ at.cmd # NoCmd
           /\ Becomes(AT, [at EXCEPT !.state = NotFound])
  <2> DEFINE s == [at EXCEPT !.state = NotFound]
  <2>1. /\ s.state \in {"COMMAND_NOT_FOUND", "ERROR"}
        /\ s.state = "COMMAND_NOT_FOUND" => current_char = "NL"
    BY <1>1 DEF FsmRec, NotFound
  <2>2. fsm'[AT] = s
    BY <1>7, OtherUnchanged
  <2> HIDE DEF s
  <2>3. NamesInv'
    BY <1>1, <2>1, <2>2, SearchOver
  <2>4. at.cmd \in Passed(at)
    BY <1>2, <1>7 DEF Searching
  <2>5. Exact(typed) = {} /\ \E j, k \in Candidates(typed) : j # k
    BY <1>2, <1>5, <1>7, <2>4
  <2>6. Resolve(typed) = NoCmd
    BY <1>1, <2>5, ResolveAbbreviation
  <2> QED
    BY <2>1, <2>2, <2>3, <2>6 DEF Resolved
<1>8. CASE /\ get_cmd_state(i) # "FULL_MATCH"
           /\ ~(partial /\ last /\ at.cmd # NoCmd)
           /\ Becomes(AT, [at EXCEPT
                !.index = i + 1, !.cmd = cmd,
                !.state = CASE ~last -> "SEARCH_COMMAND"
                            [] last /\ cmd = NoCmd -> NotFound
                            [] last /\ cmd # NoCmd /\ count = 1 -> "COMMAND_FOUND"
                            [] OTHER -> "COMMAND_NOT_FOUND"])
           /\ partial_cntr' = count
  <2> DEFINE st == CASE ~last -> "SEARCH_COMMAND"
                     [] last /\ cmd = NoCmd -> NotFound
                     [] last /\ cmd # NoCmd /\ count = 1 -> "COMMAND_FOUND"
                     [] OTHER -> "COMMAND_NOT_FOUND"
             s == [at EXCEPT !.index = i + 1, !.cmd = cmd, !.state = st]
  <2>1. s.state = st /\ s.index = i + 1 /\ s.cmd = cmd /\ s.buf = at.buf
    BY <1>1 DEF FsmRec
  <2>2. fsm'[AT] = s
    BY <1>8, OtherUnchanged
  <2>3. /\ ~last => st = "SEARCH_COMMAND"
        /\ last /\ cmd = NoCmd => st = NotFound
        /\ last /\ cmd # NoCmd /\ count = 1 => st = "COMMAND_FOUND"
        /\ last /\ cmd # NoCmd /\ count # 1 => st = "COMMAND_NOT_FOUND"
    OBVIOUS
  <2> HIDE DEF s, st
  <2>4. Searching(s, count) /\ Passed(s) = {k \in Candidates(typed) : k <= i}
    BY <1>1, <1>8, <2>1, SearchGoesOn
  <2>5. CASE ~last
    <3>1. typed' = typed
      BY <1>1, <2>1, <2>2, <2>3, <2>5, NameKept DEF NameState
    <3>2. \A k \in Enabled : s.buf.match[k] = Expected(typed, k)
      BY <1>1, <2>1 DEF NamesInv, NamesOK
    <3> QED
      BY <1>2, <1>8, <2>1, <2>2, <2>3, <2>4, <2>5, <3>1, <3>2
         DEF NamesInv, NamesOK, NameState, Resolved
  <2>6. CASE last
    <3>1. Passed(s) = Candidates(typed) /\ Exact(typed) = {}
      BY <1>2, <1>3, <1>4, <1>5, <1>8, <2>4, <2>6
    <3>2. CASE cmd = NoCmd
      <4>1. Candidates(typed) = {}
        BY <1>3, <2>1, <2>4, <3>1, <3>2 DEF Searching
      <4>2. Resolve(typed) = NoCmd
        BY <1>1, <3>1, <4>1, ResolveAbbreviation
      <4>3. /\ s.state \in {"COMMAND_NOT_FOUND", "ERROR"}
            /\ s.state = "COMMAND_NOT_FOUND" => current_char = "NL"
        BY <2>1, <2>3, <2>6, <3>2 DEF NotFound
      <4> QED
        BY <1>1, <2>2, <4>2, <4>3, SearchOver DEF Resolved
    <3>3. CASE cmd # NoCmd /\ count = 1
      <4>1. Candidates(typed) = {cmd}
        BY <2>1, <2>4, <3>1, <3>3 DEF Searching
      <4>2. Resolve(typed) = cmd
        BY <1>1, <1>3, <3>1, <4>1, ResolveAbbreviation
      <4>3. s.state = "COMMAND_FOUND" /\ s.cmd = cmd
        BY <2>1, <2>3, <2>6, <3>3
      <4> QED
        BY <1>1, <2>2, <4>2, <4>3, SearchOver DEF Resolved
    <3>4. CASE cmd # NoCmd /\ count # 1
      <4>1. \E j, k \in Candidates(typed) : j # k
        BY <2>1, <2>4, <3>1, <3>4 DEF Searching
      <4>2. Resolve(typed) = NoCmd /\ AmbiguousName(typed)
        BY <1>1, <3>1, <4>1, ResolveAbbreviation DEF AmbiguousName
      <4>3. s.state = "COMMAND_NOT_FOUND"
        BY <2>1, <2>3, <2>6, <3>4
      <4> QED
        BY <1>1, <1>2, <2>2, <4>2, <4>3, SearchOver DEF Resolved
    <3> QED
      BY <3>2, <3>3, <3>4
  <2> QED
    BY <2>5, <2>6
<1> QED
  BY <1>6, <1>7, <1>8 DEF search_command

-----------------------------------------------------------------------------
(* The steps of the system.                                                *)

NameReading == {"PARSE_PREFIX", "PARSE_COMMAND_CHAR", "UPDATE_COMMAND_STATE",
                "WAIT_READ_ACKNOWLEDGE", "SEARCH_COMMAND"}

\* Nothing that the invariant looks at changes.
LEMMA NamesSame ==
  ASSUME NamesInv, History, UNCHANGED <<current_char, length, partial_cntr>>,
         fsm'[AT] = fsm[AT]
  PROVE  NamesInv'
<1>1. typed' = typed
  BY DEF History, NamesInv, NamesOK
<1> QED
  BY <1>1 DEF NamesInv, NamesOK, Updating, Searching, Passed

\* Which steps the command machine can take while it reads a name.
LEMMA ReadingAction ==
  ASSUME AtCommand, at.state \in NameReading
  PROVE  \/ NoInput \/ parse_prefix \/ parse_command \/ update_command
         \/ wait_read_acknowledge \/ search_command
<1> USE DEF NameReading, at
<1>1. ~(error_state \/ process_idle_state \/ parse_command_args \/ wait_test_acknowledge)
  BY DEF error_state, process_idle_state, parse_command_args, wait_test_acknowledge,
     read_cmd_char
<1>2. ~(command_found \/ command_not_found \/ parse_write_args \/ process_write_loop
        \/ process_run_loop \/ process_hold_state \/ print_cmd_list)
  BY DEF command_found, command_not_found, parse_write_args, process_write_loop,
     process_run_loop, process_hold_state, print_cmd_list
<1>3. ~Shared(AT)
  BY DEF Shared, format_read_args, format_test_args, process_read_loop,
     process_test_loop, process_io_write_wait, process_io_write, AfterFlush
<1> QED
  BY <1>1, <1>2, <1>3 DEF AtCommand

\* Its other steps leave the name, or keep what is known of it.
LEMMA OtherNames ==
  ASSUME IInv, NamesInv, History, AtStepMoves, at.state \notin NameReading
  PROVE  NamesInv'
<1>1. at = fsm[AT] /\ at \in FsmRec
  BY NameFacts
<1>2. ASSUME NEW s, Becomes(AT, s), s.state \notin NameState
      PROVE  NamesInv'
  BY <1>2, OtherUnchanged, NameLeft
<1>3. CASE UNCHANGED current_char /\ UNCHANGED fsm
  <2>1. typed' = typed
    BY <1>3 DEF History, NamesInv, NamesOK
  <2> QED
    BY <1>1, <1>3, <2>1 DEF NamesInv, NamesOK, NameReading
<1>4. CASE \E s : Becomes(AT, s) /\ ReadingMove(at, s, current_char')
  <2>1. PICK s : Becomes(AT, s) /\ ReadingMove(at, s, current_char')
    BY <1>4
  <2>2. \A S : Responds(at, s, S) /\ S \cap NameState = {} => s.state \notin NameState
    BY DEF Responds, Pending, Flushing, NameState
  <2>3. TestMove(AT, at, s) => s.state \notin NameState
    BY <2>2 DEF TestMove, Ended, Acked, TestStates, NameState
  <2>4. s.state \notin NameState
    BY <2>1, <2>3 DEF ReadingMove, NameReading, Acked, Goes, NameState
  <2> QED
    BY <1>2, <2>1, <2>4
<1>5. CASE \E s : Becomes(AT, s) /\ NameMove(at, s, current_char)
  <2>1. PICK s : Becomes(AT, s) /\ NameMove(at, s, current_char)
    BY <1>5
  <2>2. \A S : Responds(at, s, S) /\ S \cap NameState = {} => s.state \notin NameState
    BY DEF Responds, Pending, Flushing, NameState
  <2>3. ReadMove(AT, at, s) => s.state \notin NameState
    BY <2>2 DEF ReadMove, Ended, Acked, ReadStates, NameState
  <2>4. s.state \notin NameState
    BY <2>1, <2>3 DEF NameMove, NameReading, Acked, Goes, NameState
  <2> QED
    BY <1>2, <2>1, <2>4
<1>6. CASE \E s : Becomes(AT, s) /\ HandlerMove(at, s)
  <2>1. PICK s : Becomes(AT, s) /\ HandlerMove(at, s)
    BY <1>6
  <2>2. s.state \notin NameState
    BY <2>1 DEF HandlerMove, Acked, Goes, Lists, NameState
  <2> QED
    BY <1>2, <2>1, <2>2
<1>7. CASE \E s : Becomes(AT, s) /\ SharedMove(AT, at, s)
  <2>1. PICK s : Becomes(AT, s) /\ SharedMove(AT, at, s)
    BY <1>7
  <2>2. \A S : Responds(at, s, S) /\ S \cap NameState = {} => s.state \notin NameState
    BY DEF Responds, Pending, Flushing, NameState
  <2>3. ReadMove(AT, at, s) \/ TestMove(AT, at, s) => s.state \notin NameState
    BY <2>2 DEF ReadMove, TestMove, Ended, Acked, ReadStates, TestStates, NameState
  <2>4. at.state \in Flushing => at.write_state_after \in AfterFlushState(AT)
    BY AtFacts DEF IInv, MachineOK
  <2>5. at.write_state_after \in AfterFlushState(AT) => at.write_state_after \notin NameState
    BY DEF AfterFlushState, NameState
  <2>6. at.state \in Flushing => s.state \notin NameState
    BY <2>1, <2>4, <2>5 DEF SharedMove, TakesLine, Writes, Goes, Flushing, NameState,
       ReadStates, TestStates
  <2>7. at.state \notin Flushing => s.state \notin NameState
    BY <2>1, <2>3 DEF SharedMove, Flushing, Ended, Acked, Lists, Reset, NameState
  <2> QED
    BY <1>2, <2>1, <2>6, <2>7
<1>8. CASE HoldMove(AT)
  BY <1>8, NameLeft DEF HoldMove, NameState
<1> QED
  BY <1>3, <1>4, <1>5, <1>6, <1>7, <1>8 DEF AtStepMoves

\* The other machine moves this one only to put it on hold.
LEMMA UnsolicitedInterrupts ==
  ASSUME IInv, Unsolicited
  PROVE  fsm'[AT] = fsm[AT] \/ fsm'[AT].state = "HOLD"
<1>1. CASE Shared(UN)
  <2>1. SharedStepMoves(UN)
    BY <1>1, SharedMoves, BufSizeFacts DEF IInv
  <2> QED
    BY <2>1, OtherUnchanged DEF SharedStepMoves, HoldMove
<1>2. CASE check_unsolicited_buffers
  BY <1>2, OtherUnchanged DEF check_unsolicited_buffers
<1> QED
  BY <1>1, <1>2 DEF Unsolicited

LEMMA UnsolicitedNames ==
  ASSUME IInv, NamesInv, History, Unsolicited
  PROVE  NamesInv'
<1>1. UNCHANGED <<current_char, length, partial_cntr>>
  BY BufSizeFacts DEF Unsolicited, check_unsolicited_buffers, Shared, format_read_args,
     format_test_args, process_read_loop, process_test_loop, process_io_write_wait,
     process_io_write, AfterFlush, search
<1> QED
  BY <1>1, UnsolicitedInterrupts, NamesSame, NameLeft DEF NameState

LEMMA NamesStep ==
  ASSUME IInv, NamesInv, [Next]_vars
  PROVE  /\ NamesInv'
         /\ fsm[AT].state = "SEARCH_COMMAND" => Resolved(fsm'[AT])
<1>1. CASE UNCHANGED vars
  BY <1>1 DEF vars, NamesInv, NamesOK, Updating, Searching, Passed, Resolved
<1>2. ASSUME fsm'[AT] = fsm[AT] \/ fsm'[AT].state = "HOLD"
      PROVE  fsm[AT].state = "SEARCH_COMMAND" => Resolved(fsm'[AT])
  BY <1>2 DEF Resolved
<1>3. CASE Unsolicited /\ History
  BY <1>2, <1>3, UnsolicitedInterrupts, UnsolicitedNames
<1>4. CASE (cat_trigger_unsolicited_event \/ cat_hold_exit) /\ History
  BY <1>2, <1>4, NamesSame DEF cat_trigger_unsolicited_event, cat_hold_exit, search
<1>5. CASE AtCommand /\ History
  <2>1. CASE at.state \notin NameReading
    BY <1>5, <2>1, AtMoves, OtherNames, NameFacts DEF IInv, NameReading
  <2>2. CASE NoInput
    BY <1>2, <1>5, <2>2, NamesSame DEF NoInput, search
  <2>3. CASE at.state \in NameReading /\ ~NoInput
    <3>1. search_command => at.state = "SEARCH_COMMAND"
      BY DEF search_command
    <3>2. parse_prefix \/ parse_command \/ update_command \/ wait_read_acknowledge
            => at.state # "SEARCH_COMMAND"
      BY DEF parse_prefix, parse_command, update_command, wait_read_acknowledge,
         read_cmd_char
    <3> QED
      BY <1>5, <2>3, <3>1, <3>2, ReadingAction, PrefixNames, CommandNames, UpdateNames,
         WaitReadNames, SearchNames, NameFacts
  <2> QED
    BY <2>1, <2>2, <2>3
<1> QED
  BY <1>1, <1>3, <1>4, <1>5 DEF Next

LEMMA InitNames == Init => NamesInv
<1> SUFFICES ASSUME Init
             PROVE  NamesInv
  OBVIOUS
<1>1. fsm[AT].state = "IDLE" /\ typed = <<>>
  BY BufSizeFacts DEF Init, InitialFsm
<1> QED
  BY <1>1 DEF NamesInv, NamesOK, NameState

\* In every state the match states fit the name typed and the table.
LEMMA NamesInvHolds == Spec => []NamesInv
<1>1. IInv /\ NamesInv /\ [Next]_vars => NamesInv'
  BY NamesStep
<1> QED
  BY <1>1, InitNames, IInvHolds, PTL DEF Spec

\* For every command table, name and division of the work over calls: the
\* search over the match states (search_command) ends with the command that
\* the name typed resolves to, and fails only if it resolves to none.
THEOREM SearchResolvesHolds == Spec => SearchResolves
<1>1. IInv /\ NamesInv /\ [Next]_vars =>
        [SearchEnds => Resolve(typed) = IF fsm'[AT].state = "COMMAND_FOUND"
                                          THEN fsm'[AT].cmd ELSE NoCmd]_vars
  BY NamesStep DEF SearchEnds, Resolved
<1> QED
  BY <1>1, NamesInvHolds, IInvHolds, PTL DEF Spec, SearchResolves

-----------------------------------------------------------------------------
(* The line protocol.                                                      *)

LineOK == LineInv(fsm[AT], current_char)

LEMMA RefusalFromNames ==
  ASSUME IInv, NamesInv
  PROVE  RefusalInv
<1>1. fsm[AT].state = "COMMAND_NOT_FOUND" /\ current_char # "NL" =>
        typed # <<>> /\ AmbiguousName(typed)
  BY DEF NamesInv, NamesOK
<1> QED
  BY <1>1, NameFacts, AmbiguousMeans DEF RefusalInv

LEMMA InitLine == Init => LineOK
<1> SUFFICES ASSUME Init
             PROVE  LineOK
  OBVIOUS
<1>1. fsm[AT].state = "IDLE"
  BY BufSizeFacts DEF Init, InitialFsm
<1> QED
  BY <1>1 DEF LineOK, LineInv, LineStates, Pending, Flushing, BusyStates, ReadStates,
     TestStates

LEMMA LineHolds == Spec => []LineOK
<1>1. IInv /\ NamesInv /\ LineOK /\ [Next]_vars => LineOK'
  BY RefusalFromNames, ProtocolStep DEF LineOK
<1> QED
  BY <1>1, InitLine, NamesInvHolds, IInvHolds, PTL DEF Spec

\* The parser implements AtProtocol, for every table, buffer size and set of
\* handler results: characters are read only before a line has ended, a line
\* that has ended gets one result unless a handler puts the parser on hold,
\* and one line of output is written at a time.
THEOREM KeepsProtocolHolds == Spec => KeepsProtocol
<1>1. Init => Protocol!Init
  <2> SUFFICES ASSUME Init
               PROVE  Protocol!Init
    OBVIOUS
  <2>1. fsm[AT].state = "IDLE" /\ fsm[UN].state = "IDLE"
    BY BufSizeFacts DEF Init, InitialFsm
  <2> QED
    BY <2>1 DEF Protocol!Init, Phase, Writer, at, Flushing
<1>2. IInv /\ NamesInv /\ LineOK /\ [Next]_vars => [Protocol!Next]_(Protocol!protocol)
  BY RefusalFromNames, ProtocolStep DEF LineOK
<1> QED
  BY <1>1, <1>2, LineHolds, NamesInvHolds, IInvHolds, PTL DEF Spec, KeepsProtocol,
     Protocol!Spec

\* A result is started by a quiet step of the command machine.
LEMMA AckStartsQuietly ==
  ASSUME IInv, LineOK, [Next]_vars, AckStarts
  PROVE  QuietMove(fsm[AT], fsm'[AT], current_char, current_char',
                   fsm[AT].state = "COMMAND_NOT_FOUND" /\ current_char # "NL")
<1> DEFINE r == fsm[AT]
           Refused == fsm[AT].state = "COMMAND_NOT_FOUND" /\ current_char # "NL"
<1>1. /\ r.state \notin Flushing /\ fsm'[AT].state = "FLUSH_IO_WRITE_WAIT"
      /\ fsm'[AT] # fsm[AT] /\ at = r
  BY DEF AckStarts, Flushing, at
<1>2. Next
  BY <1>1 DEF vars
<1>3. ~HoldMove(AT) /\ ~HoldMove(UN)
  BY <1>1 DEF HoldMove
<1>4. AtStepMoves
  BY <1>1, <1>2, <1>3, StepMoves, OtherUnchanged DEF SharedStepMoves, TakesEvent, AcceptsEvent
<1>5. ASSUME NEW s, Becomes(AT, s), QuietMove(r, s, current_char, current_char', FALSE)
      PROVE  QuietMove(r, fsm'[AT], current_char, current_char', Refused)
  BY <1>5, OtherUnchanged DEF QuietMove, Turns
<1>6. CASE \E s : Becomes(AT, s) /\ ReadingMove(at, s, current_char')
  BY <1>1, <1>5, <1>6, ReadingLine DEF LineOK
<1>7. CASE UNCHANGED current_char /\ \E s : Becomes(AT, s) /\ NameMove(at, s, current_char)
  BY <1>1, <1>7, OtherUnchanged, NameLine DEF LineOK
<1>8. CASE UNCHANGED current_char /\ \E s : Becomes(AT, s) /\ HandlerMove(at, s)
  BY <1>1, <1>5, <1>8, HandlerLine DEF LineOK
<1>9. CASE UNCHANGED current_char /\ \E s : Becomes(AT, s) /\ SharedMove(AT, at, s)
  BY <1>1, <1>5, <1>9, SharedLine DEF LineOK
<1> QED
  BY <1>1, <1>3, <1>4, <1>6, <1>7, <1>8, <1>9 DEF AtStepMoves

\* A final result is started only when the line has ended, on leaving hold, or
\* for a name that abbreviates several commands (start_flush_io_buffer, called
\* by ack_ok and ack_error), for every table and every result of a handler.
THEOREM OneResultPerLineHolds == Spec => OneResultPerLine
<1>1. ASSUME IInv, NamesInv, LineOK, [Next]_vars, AckStarts
      PROVE  \/ current_char' = "NL"
             \/ fsm[AT].state = "HOLD"
             \/ /\ fsm[AT].state = "COMMAND_NOT_FOUND"
                /\ Cardinality(Candidates(typed)) > 1
  <2> DEFINE r == fsm[AT]
             Refused == fsm[AT].state = "COMMAND_NOT_FOUND" /\ current_char # "NL"
  <2>1. Turns(PhaseOf(r, current_char), PhaseOf(fsm'[AT], current_char'), Refused)
    BY <1>1, AckStartsQuietly DEF QuietMove
  <2>2. /\ r.state \notin Flushing
        /\ current_char' # "NL" => PhaseOf(fsm'[AT], current_char') = "early"
    BY <1>1 DEF AckStarts, PhaseOf, Flushing
  <2>3. PhaseOf(r, current_char) # "early"
    BY <2>2 DEF PhaseOf
  <2>4. PhaseOf(r, current_char) = "hold" => r.state = "HOLD"
    BY <2>2 DEF PhaseOf, Flushing
  <2>5. current_char' = "NL" \/ r.state = "HOLD" \/ Refused
    BY <2>1, <2>2, <2>3, <2>4 DEF Turns
  <2>6. Refused => typed # <<>> /\ AmbiguousName(typed) /\ typed \in Seq(Char)
    BY <1>1, NameFacts DEF NamesInv, NamesOK
  <2> QED
    BY <2>5, <2>6, AmbiguousMeans
<1>2. IInv /\ NamesInv /\ LineOK /\ [Next]_vars =>
        [AckStarts =>
           \/ current_char' = "NL"
           \/ fsm[AT].state = "HOLD"
           \/ fsm[AT].state = "COMMAND_NOT_FOUND" /\ Cardinality(Candidates(typed)) > 1
        ]_vars
  BY <1>1
<1> QED
  BY <1>2, LineHolds, NamesInvHolds, IInvHolds, PTL DEF Spec, OneResultPerLine

-----------------------------------------------------------------------------
(* The arguments of a write command.                                       *)

\* The text before the position is split into a field for each variable done.
Parsed(r) ==
  /\ r.position <= Len(r.buf.s)
  /\ \E cut \in [0 .. r.index -> 0 .. Len(r.buf.s) + 1] :
       /\ cut[0] = 0 /\ cut[r.index] = r.position
       /\ SplitsAt(Command_of(r), r.buf.s, cut)

Complete(r) ==
  LET c == Command_of(r)
  IN  is_variables_access_possible(c, "WRITE_ONLY") =>
        /\ r.index \in 1 .. Len(c.vars)
        /\ c.need_all_vars => r.index = Len(c.vars)
        /\ \E cut \in [0 .. r.index -> 0 .. Len(r.buf.s) + 1] :
             /\ cut[0] = 0 /\ cut[r.index] = Len(r.buf.s) + 1
             /\ SplitsAt(c, r.buf.s, cut)

ArgsOK(r) ==
  /\ r.state = "PARSE_WRITE_ARGS" => Parsed(r)
  /\ r.state = "WRITE_LOOP" => Complete(r)

ArgsInv == ArgsOK(fsm[AT])

\* One more field.
LEMMA SplitExtended ==
  ASSUME NEW c, NEW s, Len(s) \in Nat, NEW i \in Nat,
         NEW cut \in [0 .. i -> 0 .. Len(s) + 1], cut[0] = 0, SplitsAt(c, s, cut),
         NEW pos \in Nat, cut[i] = pos,
         NEW end \in ParseEnds(c.vars[i + 1], s, pos)
  PROVE  \E new \in [0 .. i + 1 -> 0 .. Len(s) + 1] :
           new[0] = 0 /\ new[i + 1] = end /\ SplitsAt(c, s, new)
<1> DEFINE new == [k \in 0 .. i + 1 |-> IF k = i + 1 THEN end ELSE cut[k]]
           n == Len(s)
<1>1. /\ end \in pos + 1 .. n + 1
      /\ SubSeq(s, pos + 1, end - 1) \in c.vars[i + 1].fields
      /\ end = n + 1 \/ s[end] = ","
  BY DEF ParseEnds
<1>2. n \in Nat /\ end \in 0 .. n + 1 /\ pos < end /\ (end <= n => end # n + 1)
  <2>1. n \in Nat
    OBVIOUS
  <2> HIDE DEF n
  <2>2. end \in pos + 1 .. n + 1
    BY <1>1
  <2> QED
    BY <2>1, <2>2
<1>3. new \in [0 .. i + 1 -> 0 .. Len(s) + 1]
  <2> HIDE DEF n
  <2>1. \A k \in 0 .. i : cut[k] \in 0 .. n + 1
    BY DEF n
  <2>2. \A k \in 0 .. i + 1 : k # i + 1 => k \in 0 .. i
    OBVIOUS
  <2> QED
    BY <1>2, <2>1, <2>2 DEF n
<1>4. new[0] = 0 /\ new[i + 1] = end /\ DOMAIN new = 0 .. i + 1
  OBVIOUS
<1>5. \A k \in 0 .. i : new[k] = cut[k]
  OBVIOUS
<1> HIDE DEF new
<1>6. ASSUME NEW k \in DOMAIN new \ {0}
      PROVE  /\ new[k - 1] < new[k]
             /\ SubSeq(s, new[k - 1] + 1, new[k] - 1) \in c.vars[k].fields
             /\ new[k] <= Len(s) => s[new[k]] = ","
  <2>1. CASE k = i + 1
    <3>1. k - 1 = i /\ i \in 0 .. i
      BY <2>1
    <3>2. new[k - 1] = pos /\ new[k] = end
      BY <1>4, <1>5, <2>1, <3>1
    <3> QED
      BY <1>1, <1>2, <2>1, <3>2
  <2>2. CASE k # i + 1
    <3>1. k \in 1 .. i /\ k - 1 \in 0 .. i /\ k \in 0 .. i
      BY <1>4, <2>2
    <3>2. new[k] = cut[k] /\ new[k - 1] = cut[k - 1] /\ k \in DOMAIN cut \ {0}
      BY <1>5, <3>1
    <3> QED
      BY <3>2 DEF SplitsAt
  <2> QED
    BY <2>1, <2>2
<1> QED
  BY <1>3, <1>4, <1>6 DEF SplitsAt

\* Where no arguments are held there is nothing to keep.
LEMMA ArgsLeft ==
  ASSUME NEW s, s.state \notin {"PARSE_WRITE_ARGS", "WRITE_LOOP"}
  PROVE  ArgsOK(s)
BY DEF ArgsOK

LEMMA ArgsFacts ==
  ASSUME IInv
  PROVE  /\ at \in FsmRec /\ at = fsm[AT]
         /\ at.state \in {"PARSE_COMMAND_ARGS", "PARSE_WRITE_ARGS"} =>
              at.cmd \in CmdIds /\ at.buf.s \in Seq(Char)
         /\ at.state = "PARSE_WRITE_ARGS" => at.index < Len(Command_of(at).vars)
<1>1. at \in FsmRec /\ at = fsm[AT] /\ MachineOK(AT, at)
  BY AtFacts DEF IInv
<1> QED
  BY <1>1 DEF MachineOK, BufferMatches, Dereferences, Pending, Flushing, NeedsCommand

\* The end of the line starts the parsing, or the handler if nothing is parsed.
LEMMA StartWriteArgs ==
  ASSUME NEW r \in FsmRec, r.cmd \in CmdIds, r.buf.s \in Seq(Char)
  PROVE  ArgsOK(StartWrite(r))
<1> DEFINE c == Command_of(r)
<1>1. CASE StartWrite(r) = ack_error(r)
  <2>1. Acked(r, ack_error(r))
    BY AckMoves
  <2> QED
    BY <1>1, <2>1 DEF Acked, ArgsOK
<1>2. CASE StartWrite(r) = [r EXCEPT !.state = "PARSE_WRITE_ARGS", !.position = 0, !.index = 0]
  <2> DEFINE s == [r EXCEPT !.state = "PARSE_WRITE_ARGS", !.position = 0, !.index = 0]
  <2>1. /\ s.state = "PARSE_WRITE_ARGS" /\ s.position = 0 /\ s.index = 0
        /\ s.cmd = r.cmd /\ s.buf = r.buf
    BY DEF FsmRec
  <2> HIDE DEF s
  <2> DEFINE cut == [k \in 0 .. 0 |-> 0]
  <2>2. cut \in [0 .. 0 -> 0 .. Len(r.buf.s) + 1] /\ cut[0] = 0
    OBVIOUS
  <2>3. SplitsAt(Command_of(s), s.buf.s, cut)
    <3>1. DOMAIN cut = {0}
      OBVIOUS
    <3> HIDE DEF cut
    <3> QED
      BY <3>1 DEF SplitsAt
  <2> HIDE DEF cut
  <2> QED
    BY <1>2, <2>1, <2>2, <2>3 DEF ArgsOK, Parsed, s
<1>3. CASE /\ ~is_variables_access_possible(c, "WRITE_ONLY")
           /\ StartWrite(r) = [r EXCEPT !.state = "WRITE_LOOP", !.index = 0]
  <2> DEFINE s == [r EXCEPT !.state = "WRITE_LOOP", !.index = 0]
  <2>1. s.state = "WRITE_LOOP" /\ s.cmd = r.cmd
    BY DEF FsmRec
  <2> HIDE DEF s
  <2> QED
    BY <1>3, <2>1 DEF ArgsOK, Complete, Command_of, s
<1> QED
  BY <1>1, <1>2, <1>3 DEF StartWrite

LEMMA ParsedArgs ==
  ASSUME IInv, ArgsInv, parse_write_args
  PROVE  ArgsInv'
<1> DEFINE i == at.index
           c == Command_of(at)
           s == at.buf.s
<1>1. /\ at \in FsmRec /\ at = fsm[AT] /\ at.state = "PARSE_WRITE_ARGS"
      /\ at.cmd \in CmdIds /\ i \in Nat /\ at.position \in Nat /\ i < Len(c.vars)
      /\ s \in Seq(Char) /\ Len(s) \in Nat /\ Len(c.vars) \in Nat
  <2>1. /\ at \in FsmRec /\ at = fsm[AT] /\ at.state = "PARSE_WRITE_ARGS"
    BY ArgsFacts DEF parse_write_args
  <2>2. at.cmd \in CmdIds /\ s \in Seq(Char) /\ i < Len(c.vars)
    BY <2>1, ArgsFacts
  <2>3. i \in Nat /\ at.position \in Nat
    BY <2>1 DEF FsmRec
  <2>4. Len(s) \in Nat
    BY <2>2
  <2>5. Len(c.vars) \in Nat
    BY <2>2, TableFacts DEF Command_of
  <2> HIDE DEF i, c, s
  <2> QED
    BY <2>1, <2>2, <2>3, <2>4, <2>5
<1>2. CASE Becomes(AT, ack_error(at))
  <2>1. Acked(at, ack_error(at))
    BY <1>1, AckMoves
  <2> QED
    BY <1>2, <2>1, OtherUnchanged, ArgsLeft DEF Acked, ArgsInv
<1>3. ASSUME NEW end \in ParseEnds(Var_of(at), s, at.position),
             Becomes(AT, ArgsParsed([at EXCEPT !.index = i + 1, !.position = end],
                                    end <= Len(s)))
      PROVE  ArgsInv'
  <2> DEFINE q == [at EXCEPT !.index = i + 1, !.position = end]
             more == end <= Len(s)
             p == ArgsParsed(q, more)
  <2>1. end \in Nat /\ end <= Len(s) + 1
    <3>1. end \in at.position + 1 .. Len(s) + 1
      BY <1>3 DEF ParseEnds
    <3> HIDE DEF s
    <3> QED
      BY <1>1, <3>1
  <2>2. /\ q \in FsmRec /\ q.index = i + 1 /\ q.position = end /\ q.cmd = at.cmd
        /\ q.buf = at.buf /\ q.state = "PARSE_WRITE_ARGS"
    <3>1. i + 1 \in Nat /\ end \in Nat
      BY <1>1, <2>1
    <3> HIDE DEF i, s, c
    <3> QED
      BY <1>1, <3>1 DEF FsmRec
  <2>3. PICK new \in [0 .. i + 1 -> 0 .. Len(s) + 1] :
          new[0] = 0 /\ new[i + 1] = end /\ SplitsAt(c, s, new)
    <3>1. PICK cut \in [0 .. i -> 0 .. Len(s) + 1] :
            cut[0] = 0 /\ cut[i] = at.position /\ SplitsAt(c, s, cut)
      BY <1>1 DEF ArgsInv, ArgsOK, Parsed
    <3>2. Var_of(at) = c.vars[i + 1]
      BY DEF Var_of, Command_of
    <3> HIDE DEF c, s, i
    <3> QED
      BY <1>1, <1>3, <3>1, <3>2, SplitExtended
  <2>4. Command_of(q) = c /\ q.buf.s = s /\ at.buf.s = s
    BY <2>2 DEF Command_of
  <2> HIDE DEF q, p, i, c, s
  <2>5. ASSUME p = q, q.index < Len(c.vars), more
        PROVE  ArgsOK(p)
    BY <2>2, <2>3, <2>4, <2>5 DEF ArgsOK, Parsed
  <2>6. ASSUME p = ack_error(q) \/ p = ack_ok(q)
        PROVE  ArgsOK(p)
    <3>1. Acked(q, ack_error(q)) /\ Acked(q, ack_ok(q))
      BY <2>2, AckMoves
    <3> QED
      BY <2>6, <3>1 DEF Acked, ArgsOK
  <2>7. ASSUME p = [q EXCEPT !.state = "WRITE_LOOP"],
               ~more, c.need_all_vars => q.index = Len(c.vars)
        PROVE  ArgsOK(p)
    <3>1. p.state = "WRITE_LOOP" /\ p.index = i + 1 /\ p.cmd = at.cmd /\ p.buf = at.buf
      BY <2>2, <2>7 DEF FsmRec
    <3>2. Command_of(p) = c /\ p.buf.s = s /\ end = Len(s) + 1
      BY <1>1, <2>1, <2>2, <2>4, <2>7, <3>1 DEF Command_of
    <3>3. i + 1 \in 1 .. Len(c.vars)
      BY <1>1
    <3>4. c.need_all_vars => p.index = Len(c.vars)
      BY <2>2, <2>7, <3>1
    <3>5. Complete(p)
      BY <2>3, <3>1, <3>2, <3>3, <3>4 DEF Complete
    <3> QED
      BY <3>1, <3>5 DEF ArgsOK
  <2>8. \/ p = q /\ q.index < Len(c.vars) /\ more
        \/ p = ack_error(q) \/ p = ack_ok(q)
        \/ /\ p = [q EXCEPT !.state = "WRITE_LOOP"]
           /\ ~more /\ (c.need_all_vars => q.index = Len(c.vars))
    BY <2>4 DEF ArgsParsed, p
  <2>9. ArgsOK(p)
    BY <2>5, <2>6, <2>7, <2>8
  <2>10. Becomes(AT, p)
    BY <1>3 DEF p, q, i, s
  <2> QED
    BY <2>9, <2>10, OtherUnchanged DEF ArgsInv
<1> QED
  BY <1>2, <1>3 DEF parse_write_args

LEMMA CommandArgs ==
  ASSUME IInv, parse_command_args
  PROVE  ArgsInv'
<1>1. /\ at \in FsmRec /\ at = fsm[AT] /\ at.state = "PARSE_COMMAND_ARGS"
      /\ at.cmd \in CmdIds /\ at.buf.s \in Seq(Char)
  BY ArgsFacts, CharRead DEF parse_command_args
<1>2. CASE Becomes(AT, StartWrite(at))
  BY <1>1, <1>2, OtherUnchanged, StartWriteArgs DEF ArgsInv
<1>3. CASE current_char' # "NL"
  <2>1. AtStepMoves
    BY ArgsMoves DEF IInv
  <2>2. ASSUME NEW s, Becomes(AT, s), s.state \notin {"PARSE_WRITE_ARGS", "WRITE_LOOP"}
        PROVE  ArgsInv'
    BY <2>2, OtherUnchanged, ArgsLeft DEF ArgsInv
  <2>3. \A s : ReadingMove(at, s, current_char') =>
                 s.state \notin {"PARSE_WRITE_ARGS", "WRITE_LOOP"}
    BY <1>1, <1>3 DEF ReadingMove
  <2>4. \A s : ~NameMove(at, s, current_char) /\ ~HandlerMove(at, s) /\ ~SharedMove(AT, at, s)
    BY <1>1 DEF NameMove, HandlerMove, SharedMove, ReadStates, TestStates
  <2>5. ~HoldMove(AT)
    BY <1>1 DEF HoldMove
  <2>6. UNCHANGED fsm => ArgsInv'
    BY <1>1 DEF ArgsInv, ArgsOK
  <2>7. UNCHANGED fsm \/ \E s : Becomes(AT, s) /\ ReadingMove(at, s, current_char')
    BY <2>1, <2>4, <2>5 DEF AtStepMoves
  <2> QED
    BY <2>2, <2>3, <2>6, <2>7
<1> QED
  BY <1>2, <1>3 DEF parse_command_args, AsksTest

LEMMA ArgsStep ==
  ASSUME IInv, ArgsInv, [Next]_vars
  PROVE  ArgsInv'
<1>1. ASSUME fsm'[AT] = fsm[AT]
      PROVE  ArgsInv'
  BY <1>1 DEF ArgsInv, ArgsOK, Parsed, Complete, Command_of
<1>2. ASSUME fsm'[AT].state \notin {"PARSE_WRITE_ARGS", "WRITE_LOOP"}
      PROVE  ArgsInv'
  BY <1>2, ArgsLeft DEF ArgsInv
<1>3. at = fsm[AT]
  BY ArgsFacts
<1>4. CASE AtCommand
  <2>1. CASE parse_command_args \/ parse_write_args
    BY <2>1, CommandArgs, ParsedArgs
  <2>2. CASE NoInput
    BY <1>1, <2>2 DEF NoInput
  <2>3. CASE /\ ~NoInput
             /\ at.state \in {"PARSE_COMMAND_ARGS", "PARSE_WRITE_ARGS"}
    <3>1. ~(error_state \/ process_idle_state \/ parse_prefix \/ parse_command
            \/ wait_read_acknowledge \/ wait_test_acknowledge)
      BY <2>3 DEF error_state, process_idle_state, parse_prefix, parse_command,
         wait_read_acknowledge, wait_test_acknowledge, read_cmd_char
    <3>2. ~(update_command \/ search_command \/ command_found \/ command_not_found
            \/ process_write_loop \/ process_run_loop \/ process_hold_state
            \/ print_cmd_list)
      BY <2>3 DEF update_command, search_command, command_found, command_not_found,
         process_write_loop, process_run_loop, process_hold_state, print_cmd_list
    <3>3. ~Shared(AT)
      BY <2>3 DEF Shared, format_read_args, format_test_args, process_read_loop,
         process_test_loop, process_io_write_wait, process_io_write, AfterFlush, at
    <3> QED
      BY <1>4, <2>1, <2>3, <3>1, <3>2, <3>3 DEF AtCommand
  <2>4. CASE at.state \notin {"PARSE_COMMAND_ARGS", "PARSE_WRITE_ARGS"}
    <3> DEFINE Leaves(s) == s.state \notin {"PARSE_WRITE_ARGS", "WRITE_LOOP"}
    <3>1. AtStepMoves
      BY <1>4, AtMoves DEF IInv
    <3>2. ASSUME NEW s, Becomes(AT, s), s = at \/ Leaves(s)
          PROVE  ArgsInv'
      BY <1>1, <1>2, <1>3, <3>2, OtherUnchanged
    <3>3. \A s, S : Responds(at, s, S) /\ S \cap {"PARSE_WRITE_ARGS", "WRITE_LOOP"} = {}
                      => Leaves(s)
      BY DEF Responds, Pending, Flushing
    <3>4. \A s : Acked(at, s) \/ Reset(s) \/ Lists(at, s) \/ Searches(s) => Leaves(s)
      BY DEF Acked, Reset, Lists, Searches
    <3>5. \A s : ReadMove(AT, at, s) \/ TestMove(AT, at, s) => Leaves(s)
      BY <3>3, <3>4 DEF ReadMove, TestMove, Ended, ReadStates, TestStates
    <3>6. \A s : ReadingMove(at, s, current_char') => s = at \/ Leaves(s)
      BY <2>4, <3>4, <3>5 DEF ReadingMove, Goes
    <3>7. \A s : NameMove(at, s, current_char) => s = at \/ Leaves(s)
      BY <3>4, <3>5 DEF NameMove, Goes
    <3>8. \A s : HandlerMove(at, s) => s = at \/ Leaves(s)
      BY <2>4, <3>4 DEF HandlerMove
    <3>9. \A s : SharedMove(AT, at, s) => s = at \/ Leaves(s)
      <4>1. at.state \in Flushing => at.write_state_after \in AfterFlushState(AT)
        BY AtFacts DEF IInv, MachineOK
      <4>2. at.write_state_after \in AfterFlushState(AT) =>
              at.write_state_after \notin {"PARSE_WRITE_ARGS", "WRITE_LOOP"}
        BY DEF AfterFlushState
      <4> QED
        BY <3>4, <3>5, <4>1, <4>2
           DEF SharedMove, TakesLine, Writes, Goes, Flushing, Ended
    <3>10. HoldMove(AT) => ArgsInv'
      BY <1>2 DEF HoldMove
    <3> HIDE DEF Leaves
    <3> QED
      BY <1>1, <3>1, <3>2, <3>6, <3>7, <3>8, <3>9, <3>10 DEF AtStepMoves
  <2> QED
    BY <2>1, <2>2, <2>3, <2>4
<1>5. CASE Unsolicited
  <2>1. fsm'[AT] = fsm[AT] \/ fsm'[AT].state = "HOLD"
    BY <1>5, UnsolicitedInterrupts
  <2> QED
    BY <1>1, <1>2, <2>1
<1> QED
  BY <1>1, <1>4, <1>5
     DEF Next, vars, cat_trigger_unsolicited_event, cat_hold_exit

\* For every command table: a write handler whose command has writable
\* variables is called only when the text is exactly the fields parsed, each
\* acceptable to its variable, as many as needed (parse_write_args).
THEOREM WriteArgsParsedHolds == Spec => []WriteArgsParsed
<1>1. Init => ArgsInv
  BY BufSizeFacts DEF Init, InitialFsm, ArgsInv, ArgsOK
<1>2. IInv /\ ArgsInv /\ [Next]_vars => ArgsInv'
  BY ArgsStep
<1>3. ArgsInv => WriteArgsParsed
  BY DEF ArgsInv, ArgsOK, Complete, WriteArgsParsed
<1> QED
  BY <1>1, <1>2, <1>3, IInvHolds, PTL DEF Spec
=============================================================================
