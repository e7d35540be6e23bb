----------------------------- MODULE VarParser ------------------------------
(***************************************************************************)
(* How src/cat.c turns the arguments of a write command into values: the   *)
(* five parsers, one character per iteration of their loops, the range     *)
(* checks, the stores into the variables, and the write hook after each;   *)
(* and the formatters, as functions from a value to its text.              *)
(*                                                                         *)
(* CatParser takes a variable as the set of texts it accepts; this module  *)
(* says what these are.  parse_write_args is called once per variable and  *)
(* nothing runs between its iterations; the characters of a field come     *)
(* from any line, so each iteration may read any character.                *)
(***************************************************************************)
EXTENDS Integers, FiniteSets, SequencesExt

CONSTANTS
  Commands,  \* records [vars, need_all_vars]
  Chars,     \* bound: the characters of a field of each type, without NUL and ","
  Word,      \* number of values of the 64 bit accumulator
  Limit,     \* number of values of 1, 2 and 4 bytes
  MaxField   \* bound: characters of one field

HexDigit == <<"0", "1", "2", "3", "4", "5", "6", "7", "8", "9",
              "A", "B", "C", "D", "E", "F">>

Number == {"INT_DEC", "UINT_DEC", "NUM_HEX"}

Variable ==
  [type : Number \cup {"BUF_HEX", "BUF_STRING"},
   data_size : Nat \ {0},
   access : {"READ_WRITE", "READ_ONLY", "WRITE_ONLY"},
   write : SUBSET BOOLEAN]          \* outcomes of the hook, TRUE = 0

ASSUME VarParserAssumption ==
  /\ \A c \in Commands :
       /\ c.vars \in Seq(Variable)
       /\ \E k \in DOMAIN c.vars : c.vars[k].access # "READ_ONLY"
       /\ c.need_all_vars \in BOOLEAN
       /\ \A k \in DOMAIN c.vars : c.vars[k].write # {}
  /\ DOMAIN Chars = Number \cup {"BUF_HEX", "BUF_STRING"}
  /\ \A t \in DOMAIN Chars : Chars[t] \cap {"COMMA", "NUL"} = {}
  /\ Limit \in [{1, 2, 4} -> Nat \ {0}] /\ Word \in Nat /\ MaxField \in Nat
  /\ \A n \in DOMAIN Limit : Limit[n] % 2 = 0 /\ 2 * Limit[n] <= Word

VARIABLES
  cmd,         \* the command, which stays
  data,        \* the memory of its variables
  index,       \* the variable being parsed, from 1
  local,       \* locals of the parser that runs
  write_size,  \* self->write_size
  result,      \* "parse", "hook", or how the line ended
  text,        \* history: the field read so far, with what ended it
  before       \* history: the variable before its field

vars == <<cmd, data, index, local, write_size, result, text, before>>

var == cmd.vars[index]

\* A number is one cell, a buffer has a cell for each byte; all are static.
Cells(v) == 0 .. IF v.type \in Number THEN 0 ELSE v.data_size - 1

Zero(v) == [i \in Cells(v) |-> IF v.type = "BUF_STRING" THEN "NUL" ELSE 0]

Fresh == [val |-> 0, sign |-> 0, ok |-> FALSE, state |-> 0, size |-> 0, byte |-> 0]

Init ==
  /\ cmd \in Commands
  /\ data = [k \in DOMAIN cmd.vars |-> Zero(cmd.vars[k])]
  /\ index = 1 /\ local = Fresh /\ write_size = 0
  /\ result = "parse"
  /\ text = <<>> /\ before = data[1]

-----------------------------------------------------------------------------
(* What an iteration does: it goes on with other locals, fails, or ends    *)
(* the field.                                                              *)

\* Of the letters that are looked at.
Upper == [a |-> "A", b |-> "B", c |-> "C", d |-> "D", e |-> "E", f |-> "F", x |-> "X"]

to_upper(ch) == IF ch \in DOMAIN Upper THEN Upper[ch] ELSE ch

Ends(ch) == ch \in {"COMMA", "NUL"}
is_valid_dec_char(ch) == \E d \in 1 .. 10 : HexDigit[d] = ch
is_valid_hex_char(ch) == \E d \in 1 .. 16 : HexDigit[d] = ch
Digit(ch) == (CHOOSE d \in 1 .. 16 : HexDigit[d] = ch) - 1

GoOn(l) == local' = l /\ UNCHANGED <<data, write_size, result>>

Fail == result' = "bad" /\ UNCHANGED <<data, write_size, local>>

FieldEnds(size) ==
  /\ write_size' = IF var.access = "READ_ONLY" THEN 0 ELSE size
  /\ result' = "hook"
  /\ UNCHANGED local

Store(cell, value) ==
  data' = IF var.access = "READ_ONLY" THEN data
          ELSE [data EXCEPT ![index] = [i \in DOMAIN @ \cup {cell} |->
                                          IF i = cell THEN value ELSE @[i]]]

-----------------------------------------------------------------------------
(* Numbers.                                                                *)

SignedWord == -(Word \div 2) .. Word \div 2 - 1

\* A result that a signed 64 bit integer cannot hold is undefined.
Signed(x) == IF x \in SignedWord THEN {x} ELSE SignedWord

\* Mutant: a signed number is allowed the values of an unsigned one.
InRange_Unsigned(n) == n < Limit[var.data_size]

InRange(n) ==
  IF var.type = "INT_DEC"
    THEN n \in -(Limit[var.data_size] \div 2) .. Limit[var.data_size] \div 2 - 1
    ELSE n < Limit[var.data_size]

\* validate_int_range and validate_uint_range.
Validate(n) ==
  IF var.access = "READ_ONLY" \/ (var.data_size \in DOMAIN Limit /\ InRange(n))
    THEN Store(0, n) /\ FieldEnds(var.data_size)
    ELSE Fail

parse_int_decimal(ch) ==
  \/ /\ local.ok /\ Ends(ch)
     /\ \E n \in Signed(local.val * local.sign) : Validate(n)
  \/ /\ local.sign = 0 /\ ch \in {"-", "+"}
     /\ GoOn([local EXCEPT !.sign = IF ch = "-" THEN -1 ELSE 1])
  \/ /\ is_valid_dec_char(ch)
     /\ \E val \in Signed(10 * local.val + Digit(ch)) :
          GoOn([local EXCEPT !.sign = IF @ = 0 THEN 1 ELSE @, !.val = val, !.ok = TRUE])
  \/ /\ ~(local.ok /\ Ends(ch)) /\ ~is_valid_dec_char(ch)
     /\ ~(local.sign = 0 /\ ch \in {"-", "+"})
     /\ Fail

parse_uint_decimal(ch) ==
  \/ /\ local.ok /\ Ends(ch)
     /\ Validate(local.val)
  \/ /\ is_valid_dec_char(ch)
     /\ GoOn([local EXCEPT !.val = (10 * @ + Digit(ch)) % Word, !.ok = TRUE])
  \/ /\ ~(local.ok /\ Ends(ch)) /\ ~is_valid_dec_char(ch)
     /\ Fail

parse_num_hexadecimal(ch0) ==
  LET ch == to_upper(ch0)
      Expected == <<"0", "X">>
  IN  \/ /\ local.state = 3 /\ Ends(ch)
         /\ Validate(local.val)
      \/ /\ local.state < 2 /\ ch = Expected[local.state + 1]
         /\ GoOn([local EXCEPT !.state = @ + 1])
      \/ /\ local.state >= 2 /\ is_valid_hex_char(ch)
         /\ GoOn([local EXCEPT !.val = (16 * @ + Digit(ch)) % Word, !.state = 3])
      \/ /\ \/ local.state < 2 /\ ch # Expected[local.state + 1]
            \/ local.state = 2 /\ ~is_valid_hex_char(ch)
            \/ local.state = 3 /\ ~is_valid_hex_char(ch) /\ ~Ends(ch)
         /\ Fail

-----------------------------------------------------------------------------
(* Buffers, stored while they are parsed.                                  *)

\* Mutants: one byte too many; one byte too few.
HasRoom_Over == local.size <= var.data_size

HasRoom_Under == local.size + 1 < var.data_size

HasRoom == local.size < var.data_size

parse_buffer_hexadecimal(ch0) ==
  LET ch == to_upper(ch0)
      byte == (16 * local.byte + Digit(ch)) % 256
  IN  \/ /\ local.size > 0 /\ local.state = 0 /\ Ends(ch)
         /\ FieldEnds(local.size) /\ UNCHANGED data
      \/ /\ is_valid_hex_char(ch) /\ local.state = 0
         /\ GoOn([local EXCEPT !.byte = byte, !.state = 1])
      \/ /\ is_valid_hex_char(ch) /\ local.state = 1 /\ HasRoom
         /\ Store(local.size, byte)
         /\ local' = [local EXCEPT !.size = @ + 1, !.byte = 0, !.state = 0]
         /\ UNCHANGED <<write_size, result>>
      \/ /\ IF is_valid_hex_char(ch) THEN local.state = 1 /\ ~HasRoom
            ELSE ~(local.size > 0 /\ local.state = 0 /\ Ends(ch))
         /\ Fail

\* The character that stands for ch after a backslash.
Unescaped == [BACKSLASH |-> "BACKSLASH", QUOTE |-> "QUOTE", n |-> "LF"]

StringChar(ch) ==
  IF HasRoom
    THEN /\ Store(local.size, ch)
         /\ local' = [local EXCEPT !.size = @ + 1, !.state = 1]
         /\ UNCHANGED <<write_size, result>>
    ELSE Fail

\* The terminator of the string.
Terminate == Store(local.size, "NUL")

parse_buffer_string(ch) ==
  CASE local.state = 0 ->
         IF ch = "QUOTE" THEN GoOn([local EXCEPT !.state = 1]) ELSE Fail
    [] local.state = 1 ->
         CASE ch = "NUL" -> Fail
           [] ch = "BACKSLASH" -> GoOn([local EXCEPT !.state = 2])
           [] ch = "QUOTE" -> GoOn([local EXCEPT !.state = 3])
           [] OTHER -> StringChar(ch)
    [] local.state = 2 ->
         IF ch \in DOMAIN Unescaped THEN StringChar(Unescaped[ch]) ELSE Fail
    [] local.state = 3 ->
         IF Ends(ch) /\ HasRoom THEN Terminate /\ FieldEnds(local.size)
         ELSE Fail

-----------------------------------------------------------------------------
(* parse_write_args                                                        *)

\* The next character of the line.  A field longer than the bound repeats
\* what a shorter one does.
ParseChar ==
  /\ result = "parse"
  /\ \E ch \in {"COMMA", "NUL"} \cup IF Len(text) < MaxField THEN Chars[var.type] ELSE {} :
       /\ CASE var.type = "INT_DEC" -> parse_int_decimal(ch)
            [] var.type = "UINT_DEC" -> parse_uint_decimal(ch)
            [] var.type = "NUM_HEX" -> parse_num_hexadecimal(ch)
            [] var.type = "BUF_HEX" -> parse_buffer_hexadecimal(ch)
            [] var.type = "BUF_STRING" -> parse_buffer_string(ch)
       /\ text' = Append(text, ch)
  /\ UNCHANGED <<cmd, index, before>>

StartField(k) ==
  /\ index' = k /\ local' = Fresh
  /\ result' = "parse"
  /\ text' = <<>> /\ before' = data[k]

CallHook ==
  /\ result = "hook"
  /\ LET more == text[Len(text)] = "COMMA"
         last == index = Len(cmd.vars)
     IN  \/ /\ FALSE \in var.write
            /\ result' = "error" /\ UNCHANGED <<index, local, text, before>>
         \/ /\ TRUE \in var.write /\ more /\ ~last
            /\ StartField(index + 1)
         \/ /\ TRUE \in var.write /\ ~(more /\ ~last)
            /\ result' = IF more \/ (cmd.need_all_vars /\ ~last) THEN "error" ELSE "done"
            /\ UNCHANGED <<index, local, text, before>>
  /\ UNCHANGED <<cmd, data, write_size>>

\* parse_command_args of a later line; the variables keep what they hold.
NextLine ==
  /\ result \in {"bad", "error", "done"}
  /\ StartField(1)
  /\ UNCHANGED <<cmd, data, write_size>>

Next == ParseChar \/ CallHook \/ NextLine

Spec == Init /\ [][Next]_vars

-----------------------------------------------------------------------------
(* The formatters, as the text they print for the value of a variable.     *)

\* n in the given base, with at least width digits.
Digits(base, n, width) ==
  LET print[m \in 0 .. n] ==
        IF m < base THEN <<HexDigit[m + 1]>>
        ELSE Append(print[m \div base], HexDigit[(m % base) + 1])
  IN  [i \in 1 .. width - Len(print[n]) |-> "0"] \o print[n]

\* Mutant: a backslash is printed as it is.
Escape_NoBackslash(ch) ==
  CASE ch = "QUOTE" -> <<"BACKSLASH", "QUOTE">>
    [] ch = "LF" -> <<"BACKSLASH", "n">>
    [] OTHER -> <<ch>>

Escape(ch) ==
  CASE ch = "BACKSLASH" -> <<"BACKSLASH", "BACKSLASH">>
    [] ch = "QUOTE" -> <<"BACKSLASH", "QUOTE">>
    [] ch = "LF" -> <<"BACKSLASH", "n">>
    [] OTHER -> <<ch>>

\* The characters before the terminator.
Content(v, d) ==
  LET used == {i \in Cells(v) : \A j \in 0 .. i : d[j] # "NUL"}
  IN  [i \in 1 .. Cardinality(used) |-> d[i - 1]]

\* A variable that may not be read is printed as 0 or as the empty string.
Formatted(v, d) ==
  LET shown == IF v.access = "WRITE_ONLY" THEN Zero(v) ELSE d
  IN  CASE v.type = "INT_DEC" /\ shown[0] < 0 -> <<"-">> \o Digits(10, -shown[0], 1)
        [] v.type = "INT_DEC" /\ shown[0] >= 0 -> Digits(10, shown[0], 1)
        [] v.type = "UINT_DEC" -> Digits(10, shown[0], 1)
        [] v.type = "NUM_HEX" -> <<"0", "x">> \o Digits(16, shown[0], 2 * v.data_size)
        [] v.type = "BUF_HEX" ->
             FlattenSeq([i \in 1 .. v.data_size |-> Digits(16, shown[i - 1], 2)])
        [] v.type = "BUF_STRING" ->
             <<"QUOTE">>
             \o FlattenSeq([i \in DOMAIN Content(v, shown) |-> Escape(Content(v, shown)[i])])
             \o <<"QUOTE">>

-----------------------------------------------------------------------------
(* What the fields of each type are and mean, said without a parser: the   *)
(* set of all fields a line can carry, each with its value.                *)

Numeral(base, digits) ==
  LET value[k \in 0 .. Len(digits)] ==
        IF k = 0 THEN 0 ELSE base * value[k - 1] + Digit(to_upper(digits[k]))
  IN  value[Len(digits)]

Numerals(v, Valid(_)) ==
  BoundedSeq({ch \in Chars[v.type] : Valid(to_upper(ch))}, MaxField) \ {<<>>}

\* A piece of a string, and the character it stands for.
Pieces(v) ==
  {[text |-> <<ch>>, value |-> ch] : ch \in (Chars[v.type] \cup {"COMMA"}) \ {"QUOTE", "BACKSLASH"}}
  \cup {[text |-> <<"BACKSLASH", "BACKSLASH">>, value |-> "BACKSLASH"],
        [text |-> <<"BACKSLASH", "QUOTE">>, value |-> "QUOTE"],
        [text |-> <<"BACKSLASH", "n">>, value |-> "LF"]}

FieldsOf(v) ==
  CASE v.type = "INT_DEC" ->
         {[text |-> sign \o ds, value |-> IF sign = <<"-">> THEN -Numeral(10, ds) ELSE Numeral(10, ds)] :
            sign \in {<<>>, <<"+">>, <<"-">>}, ds \in Numerals(v, is_valid_dec_char)}
    [] v.type = "UINT_DEC" ->
         {[text |-> ds, value |-> Numeral(10, ds)] : ds \in Numerals(v, is_valid_dec_char)}
    [] v.type = "NUM_HEX" ->
         {[text |-> <<"0", x>> \o ds, value |-> Numeral(16, ds)] :
            x \in {"x", "X"}, ds \in Numerals(v, is_valid_hex_char)}
    [] v.type = "BUF_HEX" ->
         {[text |-> ds, value |-> [i \in 1 .. Len(ds) \div 2 |-> Numeral(16, SubSeq(ds, 2 * i - 1, 2 * i))]] :
            ds \in {d \in Numerals(v, is_valid_hex_char) : Len(d) % 2 = 0}}
    [] v.type = "BUF_STRING" ->
         {[text |-> <<"QUOTE">> \o FlattenSeq([i \in DOMAIN ps |-> ps[i].text]) \o <<"QUOTE">>,
           value |-> [i \in DOMAIN ps |-> ps[i].value]] :
            ps \in BoundedSeq(Pieces(v), v.data_size)}

Fields == [v \in UNION {ToSet(c.vars) : c \in Commands} |-> FieldsOf(v)]

\* The variable can take the value.  Nothing is stored in one that is only
\* read, and the size of a number is then not looked at.
Fits(v, value) ==
  CASE v.type = "BUF_HEX" -> Len(value) <= v.data_size
    [] v.type = "BUF_STRING" -> Len(value) < v.data_size
    [] v.type = "INT_DEC" ->
         \/ v.access = "READ_ONLY"
         \/ /\ v.data_size \in DOMAIN Limit
            /\ value >= -(Limit[v.data_size] \div 2) /\ 2 * value < Limit[v.data_size]
    [] OTHER ->
         \/ v.access = "READ_ONLY"
         \/ v.data_size \in DOMAIN Limit /\ value < Limit[v.data_size]

\* The line so far is a part of this field, or this field and its end.
Carries(field) ==
  \/ IsPrefix(text, field)
  \/ text # <<>> /\ Ends(Last(text)) /\ Front(text) = field

-----------------------------------------------------------------------------
(* Properties.                                                             *)

\* The parsers store only inside the variable, however long the field is,
\* and what they leave there is of its type: the stores of the two buffer
\* parsers go by their own count, which nothing else bounds.
VarTypeOK ==
  /\ cmd \in Commands /\ index \in DOMAIN cmd.vars
  /\ local \in [val : -Word .. Word, sign : {-1, 0, 1}, ok : BOOLEAN,
                state : 0 .. 3, size : Nat, byte : 0 .. 255]
  /\ result \in {"parse", "hook", "bad", "error", "done"}
  /\ \A k \in DOMAIN cmd.vars :
       LET v == cmd.vars[k] IN
         /\ DOMAIN data[k] = Cells(v)
         /\ \A i \in Cells(v) :
              CASE v.type = "INT_DEC" -> data[k][i] \in SignedWord
                [] v.type = "BUF_HEX" -> data[k][i] \in 0 .. 255
                [] v.type = "BUF_STRING" ->
                     data[k][i] \in Chars[v.type] \cup {"COMMA", "NUL", "LF"}
                [] OTHER -> data[k][i] \in 0 .. Word - 1

\* When the write hook of a variable runs, the line did carry a field of its
\* type; the variable holds the value of that field, with what lay behind it
\* in a buffer kept, and write_size is its length.  A number is compared as
\* the 64 bit accumulator can hold it: a longer one is taken modulo 2^64, and
\* a signed one whose digits exceed the largest positive value is not defined
\* (-2^63 among them), but what is stored is in range.  A variable that is
\* only read is as it was and write_size is 0.
HookSeesValue ==
  result = "hook" =>
    \E f \in Fields[var] :
      /\ f.text = Front(text)
      /\ IF var.access = "READ_ONLY" THEN data[index] = before /\ write_size = 0
         ELSE CASE var.type \in Number ->
                     /\ write_size = var.data_size
                     /\ Fits(var, data[index][0])
                     /\ var.type = "INT_DEC" /\ {f.value, -f.value} \subseteq SignedWord =>
                          f.value = data[index][0]
                     /\ var.type # "INT_DEC" => f.value % Word = data[index][0]
                [] OTHER ->
                     /\ Fits(var, f.value)
                     /\ write_size = Len(f.value)
                     /\ \A i \in Cells(var) :
                          data[index][i] = CASE i < write_size -> f.value[i + 1]
                                             [] i = write_size /\ var.type = "BUF_STRING" -> "NUL"
                                             [] OTHER -> before[i]

\* A field is refused only when no field of the type that the variable can
\* take begins with what was read, however it would have gone on, and a number
\* that is refused leaves its variable alone.  (A buffer may be left with the
\* first part of the field, and a string then without its terminator.)
RejectedRightly ==
  result = "bad" =>
    /\ \A f \in Fields[var] : Fits(var, f.value) => ~Carries(f.text)
    /\ var.type \in Number => data[index] = before

\* What reading a variable prints can be sent back: the parser does not
\* refuse it anywhere and the variable then holds what it held.  Of a string
\* this needs the terminator that a refused field may have overwritten.
ReadsBack ==
  LET printed == Formatted(var, before)
      readable == CASE var.type = "BUF_STRING" -> \E i \in Cells(var) : before[i] = "NUL"
                    [] var.type = "BUF_HEX" -> TRUE
                    [] OTHER -> var.data_size \in DOMAIN Limit
  IN  var.access = "READ_WRITE" /\ readable =>
        /\ result = "bad" => ~Carries(printed)
        /\ result = "hook" /\ Front(text) = printed => Formatted(var, data[index]) = printed
=============================================================================
