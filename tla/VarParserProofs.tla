--------------------------- MODULE VarParserProofs --------------------------
(***************************************************************************)
(* Proofs about VarParser, for every command, every width of a number and  *)
(* every length of a field: no field makes a parser store outside of its   *)
(* variable (VarTypeOK), the write hook is told what the text says         *)
(* (HookSeesValue), only what is no field that fits is refused             *)
(* (RejectedRightly), and what is printed reads back (ReadsBack).          *)
(*                                                                         *)
(* The module follows this way.  First the storage: what the locals of a   *)
(* loop and the variable have in common, whatever is read.  Then the       *)
(* fields: the reference Fields is bounded by MaxField, and IsField says   *)
(* without a bound which texts are fields of which value.  Then the        *)
(* parsers: ReadInv says of what has been read so far which field it may   *)
(* become and that the locals are its value, and one lemma for each parser *)
(* that its steps keep this.  Last the formatters: a text is a field of    *)
(* one value only, and what is printed is a field of the value held.       *)
(***************************************************************************)
EXTENDS VarParser, SequenceTheorems, FiniteSetTheorems, WellFoundedInduction, TLAPS

\* What a cell of a variable may hold.
CellValues(v) ==
  CASE v.type = "INT_DEC" -> SignedWord
    [] v.type = "BUF_HEX" -> 0 .. 255
    [] v.type = "BUF_STRING" -> Chars[v.type] \cup {"COMMA", "NUL", "LF"}
    [] OTHER -> 0 .. Word - 1

Locals ==
  [val : -Word .. Word, sign : {-1, 0, 1}, ok : BOOLEAN,
   state : 0 .. 3, size : Nat, byte : 0 .. 255]

-----------------------------------------------------------------------------
(* The inductive invariant.                                                *)

\* The accumulator of a number is a value of its type.
ValOK(l) ==
  /\ var.type = "INT_DEC" => l.val \in SignedWord
  /\ var.type \in {"UINT_DEC", "NUM_HEX"} => l.val \in 0 .. Word - 1

TypeInv ==
  /\ cmd \in Commands /\ index \in DOMAIN cmd.vars
  /\ local \in Locals /\ ValOK(local)
  /\ result \in {"parse", "hook", "bad", "error", "done"}
  /\ DOMAIN data = DOMAIN cmd.vars
  /\ \A k \in DOMAIN cmd.vars :
       /\ DOMAIN data[k] = Cells(cmd.vars[k])
       /\ \A i \in Cells(cmd.vars[k]) : data[k][i] \in CellValues(cmd.vars[k])

-----------------------------------------------------------------------------
(* Lemmas about the values.                                                *)

LEMMA VarIs ==
  ASSUME cmd \in Commands, NEW k \in DOMAIN cmd.vars
  PROVE  cmd.vars \in Seq(Variable) /\ cmd.vars[k] \in Variable
BY VarParserAssumption

LEMMA VarTypes ==
  ASSUME NEW v \in Variable
  PROVE  /\ v.type \in {"INT_DEC", "UINT_DEC", "NUM_HEX", "BUF_HEX", "BUF_STRING"}
         /\ v.data_size \in Nat \ {0}
BY DEF Variable, Number

LEMMA WordIs ==
  /\ Word \in Nat /\ Word > 1
  /\ \A n \in {1, 2, 4} : Limit[n] \in Nat \ {0} /\ Limit[n] < Word
BY VarParserAssumption

\* The accumulators start with zero and all of them are between the bounds
\* that VarTypeOK gives.
LEMMA SignedIs ==
  /\ 0 \in SignedWord /\ SignedWord \subseteq -Word .. Word
  /\ \A x \in Int : Signed(x) \subseteq SignedWord
BY WordIs DEF SignedWord, Signed

LEMMA ModIs ==
  ASSUME NEW a \in Int, NEW b \in Nat \ {0}
  PROVE  a % b \in 0 .. b - 1
OBVIOUS

LEMMA DigitIs ==
  ASSUME NEW ch, is_valid_hex_char(ch) \/ is_valid_dec_char(ch)
  PROVE  Digit(ch) \in 0 .. 15
<1>1. \E d \in 1 .. 16 : HexDigit[d] = ch
  BY DEF is_valid_hex_char, is_valid_dec_char
<1>2. (CHOOSE d \in 1 .. 16 : HexDigit[d] = ch) \in 1 .. 16
  BY <1>1
<1> QED
  BY <1>2 DEF Digit

LEMMA CellValuesAre ==
  ASSUME NEW v \in Variable
  PROVE  /\ v.type = "INT_DEC" => CellValues(v) = SignedWord
         /\ v.type \in {"UINT_DEC", "NUM_HEX"} => CellValues(v) = 0 .. Word - 1
         /\ v.type = "BUF_HEX" => CellValues(v) = 0 .. 255
         /\ v.type = "BUF_STRING" =>
              CellValues(v) = Chars["BUF_STRING"] \cup {"COMMA", "NUL", "LF"}
BY VarTypes DEF CellValues

\* Locals m that differ from l neither in val nor in size.
Like(m, l) == m \in Locals /\ m.val = l.val /\ m.size = l.size

LEMMA SetOk ==
  ASSUME NEW l \in Locals, NEW x \in BOOLEAN
  PROVE  Like([l EXCEPT !.ok = x], l)
BY DEF Locals, Like

LEMMA SetState ==
  ASSUME NEW l \in Locals, NEW x \in 0 .. 3
  PROVE  Like([l EXCEPT !.state = x], l)
BY DEF Locals, Like

LEMMA SetByte ==
  ASSUME NEW l \in Locals, NEW x \in 0 .. 255
  PROVE  Like([l EXCEPT !.byte = x], l)
BY DEF Locals, Like

LEMMA SetVal ==
  ASSUME NEW l \in Locals, NEW x \in -Word .. Word
  PROVE  /\ [l EXCEPT !.val = x] \in Locals
         /\ [l EXCEPT !.val = x].val = x /\ [l EXCEPT !.val = x].size = l.size
BY DEF Locals

LEMMA SetSize ==
  ASSUME NEW l \in Locals
  PROVE  /\ [l EXCEPT !.size = l.size + 1] \in Locals
         /\ [l EXCEPT !.size = l.size + 1].size = l.size + 1
BY DEF Locals

-----------------------------------------------------------------------------
(* What one iteration of any of the five parsers does.                     *)

\* The parser goes on without a store.
GoesOn == \E l \in Locals : ValOK(l) /\ l.size = local.size /\ GoOn(l)

\* A number is validated and stored.
NumberEnds ==
  /\ var.type \in Number
  /\ \E n \in CellValues(var) :
       /\ var.access = "READ_ONLY" \/ Fits(var, n)
       /\ Store(0, n) /\ FieldEnds(var.data_size)

\* A byte of a buffer is stored.
ByteStored ==
  /\ var.type \notin Number /\ HasRoom
  /\ \E b \in CellValues(var) : Store(local.size, b)
  /\ local' \in Locals /\ local'.size = local.size + 1
  /\ UNCHANGED <<write_size, result>>

BufferEnds ==
  var.type = "BUF_HEX" /\ local.size > 0 /\ FieldEnds(local.size) /\ UNCHANGED data

StringEnds == var.type = "BUF_STRING" /\ HasRoom /\ Terminate /\ FieldEnds(local.size)

\* These are all the outcomes of an iteration.
Iterated == GoesOn \/ Fail \/ NumberEnds \/ ByteStored \/ BufferEnds \/ StringEnds

LEMMA ValidateIs ==
  ASSUME TypeInv, var.type \in Number, NEW n \in CellValues(var), Validate(n)
  PROVE  Fail \/ NumberEnds
<1>1. var \in Variable
  BY VarIs DEF TypeInv, var
<1>2. n \in Int
  BY <1>1, CellValuesAre, WordIs DEF Number, SignedWord
<1>3. ASSUME var.data_size \in DOMAIN Limit, InRange(n) PROVE Fits(var, n)
  <2>1. var.data_size \in {1, 2, 4}
    BY <1>3, VarParserAssumption
  <2>2. CASE var.type = "INT_DEC"
    <3>1. n >= -(Limit[var.data_size] \div 2) /\ 2 * n < Limit[var.data_size]
      BY <1>2, <1>3, <2>1, <2>2, WordIs DEF InRange
    <3> QED BY <1>3, <2>2, <3>1 DEF Fits
  <2>3. CASE var.type \in {"UINT_DEC", "NUM_HEX"}
    BY <1>3, <2>3 DEF Fits, InRange
  <2> QED BY <2>2, <2>3 DEF Number
<1> QED
  BY <1>3 DEF Validate, NumberEnds

LEMMA IntIteration ==
  ASSUME TypeInv, var.type = "INT_DEC", NEW ch, parse_int_decimal(ch)
  PROVE  Iterated
<1>1. var \in Variable
  BY VarIs DEF TypeInv, var
<1>2. local \in Locals /\ local.val \in Int /\ local.val \in SignedWord
  BY WordIs DEF TypeInv, ValOK, Locals, SignedWord
<1>3. ASSUME NEW n \in Signed(local.val * local.sign), Validate(n)
      PROVE  Iterated
  <2>1. local.val * local.sign \in Int
    BY <1>2 DEF Locals
  <2>2. n \in CellValues(var)
    BY <1>1, <1>3, <2>1, SignedIs, CellValuesAre
  <2> QED
    BY <1>3, <2>2, ValidateIs DEF Iterated, Number
<1>4. CASE GoOn([local EXCEPT !.sign = IF ch = "-" THEN -1 ELSE 1])
  <2>1. [local EXCEPT !.sign = IF ch = "-" THEN -1 ELSE 1] \in Locals
    BY <1>2 DEF Locals
  <2> DEFINE l == [local EXCEPT !.sign = IF ch = "-" THEN -1 ELSE 1]
  <2>2. l \in Locals /\ l.val = local.val /\ l.size = local.size /\ GoOn(l)
    BY <1>2, <1>4, <2>1 DEF Locals
  <2> HIDE DEF l
  <2> QED
    BY <1>2, <2>2 DEF Iterated, GoesOn, ValOK
<1>5. ASSUME is_valid_dec_char(ch), NEW val \in Signed(10 * local.val + Digit(ch)),
             GoOn([local EXCEPT !.sign = IF @ = 0 THEN 1 ELSE @, !.val = val, !.ok = TRUE])
      PROVE  Iterated
  <2>1. 10 * local.val + Digit(ch) \in Int
    BY <1>2, <1>5, DigitIs
  <2>3. val \in SignedWord /\ val \in -Word .. Word
    BY <1>5, <2>1, SignedIs
  <2> DEFINE l == [local EXCEPT !.sign = IF @ = 0 THEN 1 ELSE @, !.val = val, !.ok = TRUE]
  <2>4. l \in Locals /\ l.val = val /\ l.size = local.size
    BY <1>2, <2>3 DEF Locals
  <2>5. GoOn(l)
    BY <1>5
  <2> HIDE DEF l
  <2> QED
    BY <2>3, <2>4, <2>5 DEF Iterated, GoesOn, ValOK
<1>6. CASE Fail
  BY <1>6 DEF Iterated
<1> QED
  BY <1>3, <1>4, <1>5, <1>6 DEF parse_int_decimal

LEMMA UintIteration ==
  ASSUME TypeInv, var.type = "UINT_DEC", NEW ch, parse_uint_decimal(ch)
  PROVE  Iterated
<1>1. var \in Variable
  BY VarIs DEF TypeInv, var
<1>2. local \in Locals /\ local.val \in 0 .. Word - 1
  BY DEF TypeInv, ValOK
<1>3. CASE Validate(local.val)
  <2>1. local.val \in CellValues(var) /\ var.type \in Number
    BY <1>1, <1>2, CellValuesAre DEF Number
  <2> QED
    BY <1>3, <2>1, ValidateIs, Zenon DEF Iterated
<1>4. CASE /\ is_valid_dec_char(ch)
           /\ GoOn([local EXCEPT !.val = (10 * @ + Digit(ch)) % Word, !.ok = TRUE])
  <2> DEFINE val == (10 * local.val + Digit(ch)) % Word
             m == [local EXCEPT !.val = val]
             l == [m EXCEPT !.ok = TRUE]
  <2>1. val \in 0 .. Word - 1
    <3>1. 10 * local.val + Digit(ch) \in Int
      BY <1>2, <1>4, DigitIs, WordIs
    <3>2. Word \in Nat \ {0}
      BY WordIs
    <3> QED BY <3>1, <3>2, ModIs, Zenon
  <2>2. GoOn(l)
    BY <1>4
  <2> HIDE DEF val
  <2>3. m \in Locals /\ m.val = val /\ m.size = local.size
    <3>1. val \in -Word .. Word
      BY <2>1, WordIs
    <3> QED BY <1>2, <3>1, SetVal, Zenon
  <2> HIDE DEF m
  <2>4. l \in Locals /\ l.val = val /\ l.size = local.size
    <3>1. Like(l, m)
      BY <2>3, SetOk, Zenon
    <3> QED BY <2>3, <3>1 DEF Like
  <2> HIDE DEF l
  <2> QED
    BY <2>1, <2>2, <2>4 DEF Iterated, GoesOn, ValOK
<1> QED
  BY <1>3, <1>4 DEF parse_uint_decimal, Iterated

LEMMA HexIteration ==
  ASSUME TypeInv, var.type = "NUM_HEX", NEW ch, parse_num_hexadecimal(ch)
  PROVE  Iterated
<1> DEFINE c == to_upper(ch)
<1>1. var \in Variable
  BY VarIs DEF TypeInv, var
<1>2. local \in Locals /\ local.val \in 0 .. Word - 1
  BY DEF TypeInv, ValOK
<1>3. CASE Validate(local.val)
  <2>1. local.val \in CellValues(var) /\ var.type \in Number
    BY <1>1, <1>2, CellValuesAre DEF Number
  <2> QED
    BY <1>3, <2>1, ValidateIs, Zenon DEF Iterated
<1>4. CASE local.state < 2 /\ GoOn([local EXCEPT !.state = @ + 1])
  <2>1. [local EXCEPT !.state = @ + 1] \in Locals
    BY <1>2, <1>4 DEF Locals
  <2> QED
    BY <1>2, <1>4, <2>1 DEF Iterated, GoesOn, ValOK, Locals
<1>5. CASE /\ is_valid_hex_char(c)
           /\ GoOn([local EXCEPT !.val = (16 * @ + Digit(c)) % Word, !.state = 3])
  <2> DEFINE val == (16 * local.val + Digit(c)) % Word
             m == [local EXCEPT !.val = val]
             l == [m EXCEPT !.state = 3]
  <2>1. val \in 0 .. Word - 1
    <3>1. 16 * local.val + Digit(c) \in Int
      BY <1>2, <1>5, DigitIs, WordIs
    <3>2. Word \in Nat \ {0}
      BY WordIs
    <3> QED BY <3>1, <3>2, ModIs, Zenon
  <2>2. GoOn(l)
    BY <1>5
  <2> HIDE DEF val
  <2>3. m \in Locals /\ m.val = val /\ m.size = local.size
    <3>1. val \in -Word .. Word
      BY <2>1, WordIs
    <3> QED BY <1>2, <3>1, SetVal, Zenon
  <2> HIDE DEF m
  <2>4. l \in Locals /\ l.val = val /\ l.size = local.size
    <3>1. 3 \in 0 .. 3
      OBVIOUS
    <3>2. Like(l, m)
      BY <2>3, <3>1, SetState, Zenon
    <3> QED BY <2>3, <3>2 DEF Like
  <2> HIDE DEF l
  <2> QED
    BY <2>1, <2>2, <2>4 DEF Iterated, GoesOn, ValOK
<1> QED
  BY <1>3, <1>4, <1>5 DEF parse_num_hexadecimal, Iterated

LEMMA BufHexIteration ==
  ASSUME TypeInv, var.type = "BUF_HEX", NEW ch, parse_buffer_hexadecimal(ch)
  PROVE  Iterated
<1> DEFINE c == to_upper(ch)
           byte == (16 * local.byte + Digit(c)) % 256
<1>1. var \in Variable
  BY VarIs DEF TypeInv, var
<1>2. local \in Locals
  BY DEF TypeInv
<1>3. is_valid_hex_char(c) => byte \in 0 .. 255
  <2> SUFFICES ASSUME is_valid_hex_char(c) PROVE byte \in 0 .. 255
    OBVIOUS
  <2>1. 16 * local.byte + Digit(c) \in Int
    BY <1>2, DigitIs DEF Locals
  <2>2. \A a \in Int : a % 256 \in 0 .. 255
    OBVIOUS
  <2> QED BY <2>1, <2>2, Zenon
<1> HIDE DEF byte
<1>4. CASE is_valid_hex_char(c) /\ GoOn([local EXCEPT !.byte = byte, !.state = 1])
  <2> DEFINE m == [local EXCEPT !.byte = byte]
             l == [m EXCEPT !.state = 1]
  <2>0. Like(m, local)
    BY <1>2, <1>3, <1>4, SetByte, Zenon
  <2> HIDE DEF m
  <2>1. Like(l, m)
    <3>1. m \in Locals /\ 1 \in 0 .. 3
      BY <2>0 DEF Like
    <3> QED BY <3>1, SetState, Zenon
  <2>2. GoOn(l)
    BY <1>4 DEF m
  <2> HIDE DEF l
  <2> QED BY <2>0, <2>1, <2>2 DEF Iterated, GoesOn, ValOK, Like
<1>5. CASE /\ is_valid_hex_char(c) /\ HasRoom
           /\ Store(local.size, byte)
           /\ local' = [local EXCEPT !.size = @ + 1, !.byte = 0, !.state = 0]
           /\ UNCHANGED <<write_size, result>>
  <2> DEFINE m == [local EXCEPT !.size = local.size + 1]
             k == [m EXCEPT !.byte = 0]
             l == [k EXCEPT !.state = 0]
  <2>3. local' = l
    BY <1>5
  <2>4. m \in Locals /\ m.size = local.size + 1
    BY <1>2, SetSize, Zenon
  <2> HIDE DEF m
  <2>5. Like(k, m)
    <3>1. 0 \in 0 .. 255
      OBVIOUS
    <3> QED BY <2>4, <3>1, SetByte, Zenon
  <2> HIDE DEF k
  <2>6. Like(l, k)
    <3>1. k \in Locals /\ 0 \in 0 .. 3
      BY <2>5 DEF Like
    <3> QED BY <3>1, SetState, Zenon
  <2> HIDE DEF l
  <2>1. local' \in Locals /\ local'.size = local.size + 1
    BY <2>3, <2>4, <2>5, <2>6 DEF Like
  <2>2. byte \in CellValues(var)
    BY <1>1, <1>3, <1>5, CellValuesAre
  <2> QED BY <1>5, <2>1, <2>2 DEF Iterated, ByteStored, Number
<1>6. CASE local.size > 0 /\ FieldEnds(local.size) /\ UNCHANGED data
  BY <1>6 DEF Iterated, BufferEnds
<1> QED
  BY <1>4, <1>5, <1>6 DEF parse_buffer_hexadecimal, Iterated, byte

LEMMA StringIteration ==
  ASSUME TypeInv, var.type = "BUF_STRING", NEW ch \in {"COMMA", "NUL"} \cup Chars[var.type],
         parse_buffer_string(ch)
  PROVE  Iterated
<1>1. var \in Variable
  BY VarIs DEF TypeInv, var
<1>2. local \in Locals /\ local.state \in 0 .. 3
  BY DEF TypeInv, Locals
<1>3. ASSUME NEW s \in 0 .. 3, GoOn([local EXCEPT !.state = s])
      PROVE  Iterated
  <2> DEFINE l == [local EXCEPT !.state = s]
  <2>1. l \in Locals /\ l.val = local.val /\ l.size = local.size
    BY <1>2 DEF Locals
  <2>2. GoOn(l)
    BY <1>3
  <2> HIDE DEF l
  <2> QED BY <2>1, <2>2 DEF Iterated, GoesOn, ValOK
<1>4. ASSUME NEW b \in CellValues(var), StringChar(b)
      PROVE  Iterated
  <2>1. CASE HasRoom
    <3>1. /\ Store(local.size, b) /\ UNCHANGED <<write_size, result>>
          /\ local' = [local EXCEPT !.size = @ + 1, !.state = 1]
      BY <1>4, <2>1 DEF StringChar
    <3> DEFINE m == [local EXCEPT !.size = local.size + 1]
               l == [m EXCEPT !.state = 1]
    <3>3. local' = l
      BY <3>1
    <3>4. m \in Locals /\ m.size = local.size + 1
      BY <1>2, SetSize, Zenon
    <3> HIDE DEF m
    <3>5. Like(l, m)
      <4>1. 1 \in 0 .. 3
        OBVIOUS
      <4> QED BY <3>4, <4>1, SetState, Zenon
    <3> HIDE DEF l
    <3>2. local' \in Locals /\ local'.size = local.size + 1
      BY <3>3, <3>4, <3>5 DEF Like
    <3> QED BY <2>1, <3>1, <3>2 DEF Iterated, ByteStored, Number
  <2>2. CASE ~HasRoom
    BY <1>4, <2>2 DEF StringChar, Iterated
  <2> QED BY <2>1, <2>2
<1>5. CellValues(var) = Chars["BUF_STRING"] \cup {"COMMA", "NUL", "LF"}
  BY <1>1, CellValuesAre
<1>6. CASE local.state = 0
  <2>1. CASE ch = "QUOTE"
    <3>1. GoOn([local EXCEPT !.state = 1])
      BY <1>6, <2>1 DEF parse_buffer_string
    <3> QED BY <1>3, <3>1
  <2>2. CASE ch # "QUOTE"
    <3>1. Fail
      BY <1>6, <2>2 DEF parse_buffer_string
    <3> QED BY <3>1 DEF Iterated
  <2> QED BY <2>1, <2>2
<1>7. CASE local.state = 1
  <2>1. ch \in CellValues(var)
    BY <1>5
  <2>2. (CASE ch = "NUL" -> Fail
           [] ch = "BACKSLASH" -> GoOn([local EXCEPT !.state = 2])
           [] ch = "QUOTE" -> GoOn([local EXCEPT !.state = 3])
           [] OTHER -> StringChar(ch))
    BY <1>7 DEF parse_buffer_string
  <2>3. CASE ch = "NUL"
    BY <2>2, <2>3 DEF Iterated
  <2>4. CASE ch = "BACKSLASH"
    BY <1>3, <2>2, <2>4
  <2>5. CASE ch = "QUOTE"
    BY <1>3, <2>2, <2>5
  <2>6. CASE ch \notin {"NUL", "BACKSLASH", "QUOTE"}
    BY <1>4, <2>1, <2>2, <2>6
  <2> QED BY <2>3, <2>4, <2>5, <2>6
<1>8. CASE local.state = 2
  <2>1. ch \in DOMAIN Unescaped => Unescaped[ch] \in CellValues(var)
    <3>1. DOMAIN Unescaped = {"BACKSLASH", "QUOTE", "n"}
      BY DEF Unescaped
    <3>2. Unescaped["BACKSLASH"] = "BACKSLASH" /\ Unescaped["QUOTE"] = "QUOTE" /\ Unescaped["n"] = "LF"
      BY DEF Unescaped
    <3> QED BY <1>5, <3>1, <3>2
  <2>2. IF ch \in DOMAIN Unescaped THEN StringChar(Unescaped[ch]) ELSE Fail
    BY <1>8 DEF parse_buffer_string
  <2> QED BY <1>4, <2>1, <2>2 DEF Iterated
<1>9. CASE local.state = 3
  BY <1>9 DEF parse_buffer_string, Iterated, StringEnds
<1> QED
  BY <1>2, <1>6, <1>7, <1>8, <1>9

\* An iteration of parse_write_args, whichever the type of its variable.
LEMMA ParseCharIterates ==
  ASSUME TypeInv, ParseChar
  PROVE  Iterated
<1>1. var \in Variable
  BY VarIs DEF TypeInv, var
<1>2. PICK ch \in {"COMMA", "NUL"} \cup Chars[var.type] :
        CASE var.type = "INT_DEC" -> parse_int_decimal(ch)
          [] var.type = "UINT_DEC" -> parse_uint_decimal(ch)
          [] var.type = "NUM_HEX" -> parse_num_hexadecimal(ch)
          [] var.type = "BUF_HEX" -> parse_buffer_hexadecimal(ch)
          [] var.type = "BUF_STRING" -> parse_buffer_string(ch)
  BY DEF ParseChar
<1>3. CASE var.type = "INT_DEC"
  BY <1>2, <1>3, IntIteration
<1>4. CASE var.type = "UINT_DEC"
  BY <1>2, <1>4, UintIteration
<1>5. CASE var.type = "NUM_HEX"
  BY <1>2, <1>5, HexIteration
<1>6. CASE var.type = "BUF_HEX"
  BY <1>2, <1>6, BufHexIteration
<1>7. CASE var.type = "BUF_STRING"
  BY <1>2, <1>7, StringIteration
<1> QED
  BY <1>1, <1>3, <1>4, <1>5, <1>6, <1>7, VarTypes

-----------------------------------------------------------------------------
(* Type correctness.                                                       *)

LEMMA TypeInit == Init => TypeInv
<1> SUFFICES ASSUME Init PROVE TypeInv
  OBVIOUS
<1>1. cmd \in Commands /\ cmd.vars \in Seq(Variable) /\ 1 \in DOMAIN cmd.vars
  <2>1. cmd \in Commands /\ cmd.vars \in Seq(Variable) /\ \E k \in DOMAIN cmd.vars : TRUE
    BY VarParserAssumption DEF Init
  <2>2. DOMAIN cmd.vars = 1 .. Len(cmd.vars) /\ Len(cmd.vars) \in Nat
    BY <2>1
  <2> QED BY <2>1, <2>2
<1>2. Fresh \in Locals
  BY WordIs DEF Fresh, Locals
<1>3. ValOK(Fresh)
  BY SignedIs, WordIs DEF ValOK, Fresh
<1>4. ASSUME NEW k \in DOMAIN cmd.vars
      PROVE  /\ DOMAIN Zero(cmd.vars[k]) = Cells(cmd.vars[k])
             /\ \A i \in Cells(cmd.vars[k]) : Zero(cmd.vars[k])[i] \in CellValues(cmd.vars[k])
  <2>1. cmd.vars[k] \in Variable
    BY <1>1, VarIs
  <2>2. IF cmd.vars[k].type = "BUF_STRING" THEN "NUL" \in CellValues(cmd.vars[k])
        ELSE 0 \in CellValues(cmd.vars[k])
    BY <2>1, VarTypes, CellValuesAre, SignedIs, WordIs
  <2> QED BY <2>2 DEF Zero
<1>5. /\ index = 1 /\ local = Fresh /\ result = "parse"
      /\ data = [k \in DOMAIN cmd.vars |-> Zero(cmd.vars[k])]
  BY DEF Init
<1> QED
  BY <1>1, <1>2, <1>3, <1>4, <1>5 DEF TypeInv

\* What a store leaves in the memory.
LEMMA StoreIs ==
  ASSUME TypeInv, NEW cell \in Cells(var), NEW b, Store(cell, b)
  PROVE  /\ DOMAIN data' = DOMAIN data
         /\ \A k \in DOMAIN cmd.vars : k # index => data'[k] = data[k]
         /\ DOMAIN data'[index] = Cells(var)
         /\ \A i \in Cells(var) :
              data'[index][i] =
                IF i = cell /\ var.access # "READ_ONLY" THEN b ELSE data[index][i]
<1>1. index \in DOMAIN data /\ index \in DOMAIN cmd.vars /\ DOMAIN data = DOMAIN cmd.vars
      /\ DOMAIN data[index] = Cells(var)
  BY DEF TypeInv, var
<1>2. CASE var.access = "READ_ONLY"
  BY <1>1, <1>2 DEF Store
<1>3. CASE var.access # "READ_ONLY"
  <2>1. data' = [data EXCEPT ![index] = [i \in DOMAIN @ \cup {cell} |-> IF i = cell THEN b ELSE @[i]]]
    BY <1>3 DEF Store
  <2>2. data'[index] = [i \in Cells(var) |-> IF i = cell THEN b ELSE data[index][i]]
    BY <1>1, <2>1
  <2> QED BY <1>1, <1>3, <2>1, <2>2
<1> QED
  BY <1>2, <1>3

LEMMA StoreType ==
  ASSUME TypeInv, NEW cell \in Cells(var), NEW b \in CellValues(var), Store(cell, b)
  PROVE  /\ DOMAIN data' = DOMAIN cmd.vars
         /\ \A k \in DOMAIN cmd.vars :
              /\ DOMAIN data'[k] = Cells(cmd.vars[k])
              /\ \A i \in Cells(cmd.vars[k]) : data'[k][i] \in CellValues(cmd.vars[k])
BY StoreIs DEF TypeInv, var

\* The cells that the parsers store to.
LEMMA CellsAre ==
  ASSUME NEW v \in Variable
  PROVE  /\ v.type \in Number => Cells(v) = {0}
         /\ v.type \notin Number => Cells(v) = 0 .. v.data_size - 1
         /\ Cells(v) \subseteq Int
BY VarTypes DEF Cells

LEMMA RoomIs ==
  ASSUME TypeInv, HasRoom, var.type \notin Number
  PROVE  local.size \in Cells(var)
<1>1. var \in Variable /\ local.size \in Nat
  BY VarIs DEF TypeInv, var, Locals
<1> QED
  BY <1>1, CellsAre, VarTypes DEF HasRoom

LEMMA IteratedType ==
  ASSUME TypeInv, Iterated, UNCHANGED <<cmd, index>>
  PROVE  TypeInv'
<1>1. var' = var /\ var \in Variable
  BY VarIs DEF TypeInv, var
<1> DEFINE Memory == /\ DOMAIN data' = DOMAIN cmd.vars
                     /\ \A k \in DOMAIN cmd.vars :
                          /\ DOMAIN data'[k] = Cells(cmd.vars[k])
                          /\ \A i \in Cells(cmd.vars[k]) : data'[k][i] \in CellValues(cmd.vars[k])
           Others == /\ local' \in Locals /\ ValOK(local')
                     /\ result' \in {"parse", "hook", "bad", "error", "done"}
<1>2. UNCHANGED data => Memory
  BY DEF TypeInv
<1>3. Memory /\ Others => TypeInv'
  BY <1>1 DEF TypeInv, ValOK
<1>4. UNCHANGED local /\ result' \in {"hook", "bad"} => Others
  BY DEF TypeInv
<1>5. CASE GoesOn
  <2>1. Others
    BY <1>5 DEF GoesOn, GoOn, TypeInv
  <2> QED BY <1>2, <1>3, <1>5, <2>1 DEF GoesOn, GoOn
<1>6. CASE Fail
  BY <1>2, <1>3, <1>4, <1>6 DEF Fail
<1>7. CASE NumberEnds
  <2>1. PICK n \in CellValues(var) : Store(0, n) /\ FieldEnds(var.data_size)
    BY <1>7 DEF NumberEnds
  <2>2. 0 \in Cells(var)
    BY <1>1, <1>7, CellsAre DEF NumberEnds
  <2>3. Memory
    BY <2>1, <2>2, StoreType
  <2> QED BY <1>3, <1>4, <2>1, <2>3 DEF FieldEnds
<1>8. CASE ByteStored
  <2>1. Memory
    BY <1>8, RoomIs, StoreType DEF ByteStored
  <2>2. Others
    BY <1>8 DEF ByteStored, ValOK, TypeInv, Number
  <2> QED BY <1>3, <2>1, <2>2
<1>9. CASE BufferEnds
  BY <1>2, <1>3, <1>4, <1>9 DEF BufferEnds, FieldEnds
<1>10. CASE StringEnds
  <2>1. "NUL" \in CellValues(var) /\ local.size \in Cells(var)
    BY <1>1, <1>10, CellValuesAre, RoomIs DEF StringEnds, Number
  <2>2. Memory
    BY <1>10, <2>1, StoreType DEF StringEnds, Terminate
  <2> QED BY <1>3, <1>4, <1>10, <2>2 DEF StringEnds, FieldEnds
<1> QED
  BY <1>5, <1>6, <1>7, <1>8, <1>9, <1>10 DEF Iterated

\* A variable before whose field nothing of it has been read.
LEMMA StartFieldType ==
  ASSUME TypeInv, NEW k \in DOMAIN cmd.vars, StartField(k), UNCHANGED <<cmd, data>>
  PROVE  TypeInv'
<1>1. Fresh \in Locals
  BY WordIs DEF Fresh, Locals
<1>2. ValOK(Fresh)'
  BY SignedIs, WordIs DEF ValOK, Fresh
<1> QED
  BY <1>1, <1>2 DEF TypeInv, StartField, ValOK

LEMMA NextVariable ==
  ASSUME TypeInv
  PROVE  /\ 1 \in DOMAIN cmd.vars
         /\ index # Len(cmd.vars) => index + 1 \in DOMAIN cmd.vars
<1>1. cmd.vars \in Seq(Variable) /\ index \in DOMAIN cmd.vars
  BY VarParserAssumption DEF TypeInv
<1> QED
  BY <1>1

LEMMA TypeStep == TypeInv /\ [Next]_vars => TypeInv'
<1> SUFFICES ASSUME TypeInv, [Next]_vars PROVE TypeInv'
  OBVIOUS
<1>1. CASE ParseChar
  BY <1>1, ParseCharIterates, IteratedType DEF ParseChar
<1>2. CASE CallHook
  <2>1. CASE StartField(index + 1) /\ index # Len(cmd.vars)
    BY <1>2, <2>1, NextVariable, StartFieldType DEF CallHook
  <2>2. CASE /\ result' \in {"error", "done"}
             /\ UNCHANGED <<index, local, cmd, data>>
    BY <2>2 DEF TypeInv, ValOK, var
  <2> QED BY <1>2, <2>1, <2>2 DEF CallHook
<1>3. CASE NextLine
  BY <1>3, NextVariable, StartFieldType DEF NextLine
<1>4. CASE UNCHANGED vars
  BY <1>4 DEF vars, TypeInv, ValOK, var
<1> QED
  BY <1>1, <1>2, <1>3, <1>4 DEF Next

\* No field, however long, makes a parser store outside its variable, and what
\* is left there is of its type: for every size of a buffer and every width of
\* a number.
THEOREM VarTypeOKHolds == Spec => []VarTypeOK
<1>1. TypeInv => VarTypeOK
  <2> SUFFICES ASSUME TypeInv PROVE VarTypeOK
    OBVIOUS
  <2>1. ASSUME NEW k \in DOMAIN cmd.vars
        PROVE  LET v == cmd.vars[k] IN
                 /\ DOMAIN data[k] = Cells(v)
                 /\ \A i \in Cells(v) :
                      CASE v.type = "INT_DEC" -> data[k][i] \in SignedWord
                        [] v.type = "BUF_HEX" -> data[k][i] \in 0 .. 255
                        [] v.type = "BUF_STRING" ->
                             data[k][i] \in Chars[v.type] \cup {"COMMA", "NUL", "LF"}
                        [] OTHER -> data[k][i] \in 0 .. Word - 1
    BY DEF TypeInv, CellValues
  <2> QED BY <2>1 DEF TypeInv, VarTypeOK, Locals
<1> QED
  BY <1>1, TypeInit, TypeStep, PTL DEF Spec

-----------------------------------------------------------------------------
(* What the variable keeps while a field is read.                          *)

\* The part of HookSeesValue that is about the variable alone.
HookTold ==
  result = "hook" =>
    /\ var.access = "READ_ONLY" => data[index] = before /\ write_size = 0
    /\ var.access # "READ_ONLY" /\ var.type \in Number =>
         write_size = var.data_size /\ Fits(var, data[index][0])
    /\ var.access # "READ_ONLY" /\ var.type = "BUF_HEX" =>
         /\ write_size \in 1 .. var.data_size
         /\ \A i \in Cells(var) : i >= write_size => data[index][i] = before[i]
    /\ var.access # "READ_ONLY" /\ var.type = "BUF_STRING" =>
         /\ write_size \in 0 .. var.data_size - 1 /\ data[index][write_size] = "NUL"
         /\ \A i \in Cells(var) : i > write_size => data[index][i] = before[i]

\* While a field is parsed, the variable keeps what lies behind the bytes stored.
ParsedSoFar ==
  /\ result \in {"parse", "bad"} /\ (var.type \in Number \/ var.access = "READ_ONLY") =>
       data[index] = before
  /\ result = "parse" /\ var.type \notin Number =>
       /\ local.size <= var.data_size
       /\ \A i \in Cells(var) : i >= local.size => data[index][i] = before[i]

\* The inductive invariant of the storage, with TypeInv.
FieldInv == HookTold /\ ParsedSoFar

\* The beginning of a field.
LEMMA FieldStarts ==
  ASSUME TypeInv, result = "parse", local = Fresh, before = data[index]
  PROVE  FieldInv
<1>1. var \in Variable
  BY VarIs DEF TypeInv, var
<1> QED
  BY <1>1, VarTypes DEF FieldInv, HookTold, ParsedSoFar, Fresh

LEMMA IteratedField ==
  ASSUME TypeInv, FieldInv, result = "parse", Iterated, UNCHANGED <<cmd, index, before>>
  PROVE  FieldInv'
<1>1. var' = var /\ var \in Variable /\ Cells(var)' = Cells(var)
  BY VarIs DEF TypeInv, var, Cells
<1>2. local.size \in Nat /\ var.data_size \in Nat \ {0}
  BY <1>1, VarTypes DEF TypeInv, Locals
<1>3. var.type \in Number \/ var.access = "READ_ONLY" => data[index] = before
  BY DEF FieldInv, ParsedSoFar
<1>4. var.type \notin Number =>
        /\ local.size <= var.data_size
        /\ \A i \in Cells(var) : i >= local.size => data[index][i] = before[i]
  BY DEF FieldInv, ParsedSoFar
<1>5. CASE GoesOn
  <2>1. local'.size = local.size /\ UNCHANGED <<data, write_size, result>>
    BY <1>5 DEF GoesOn, GoOn
  <2> QED
    BY <1>1, <1>3, <1>4, <2>1 DEF FieldInv, HookTold, ParsedSoFar
<1>6. CASE Fail
  BY <1>1, <1>3, <1>6 DEF Fail, FieldInv, HookTold, ParsedSoFar
<1>7. CASE NumberEnds
  <2>1. PICK n \in CellValues(var) :
          /\ var.access = "READ_ONLY" \/ Fits(var, n)
          /\ Store(0, n) /\ FieldEnds(var.data_size)
    BY <1>7 DEF NumberEnds
  <2>2. 0 \in Cells(var) /\ var.type \notin {"BUF_HEX", "BUF_STRING"} /\ var.type \in Number
    BY <1>1, <1>7, CellsAre DEF NumberEnds, Number
  <2>3. result' = "hook" /\ write_size' = IF var.access = "READ_ONLY" THEN 0 ELSE var.data_size
    BY <2>1 DEF FieldEnds
  <2>4. CASE var.access = "READ_ONLY"
    <3>1. data' = data
      BY <2>1, <2>4 DEF Store
    <3> QED
      BY <1>1, <1>3, <2>2, <2>3, <2>4, <3>1 DEF FieldInv, HookTold, ParsedSoFar
  <2>5. CASE var.access # "READ_ONLY"
    <3>1. data'[index][0] = n
      BY <2>1, <2>2, <2>5, StoreIs
    <3>2. Fits(var, n) /\ (Fits(var, data[index][0]))' = Fits(var, n)
      BY <1>1, <2>1, <2>5, <3>1 DEF Fits
    <3> QED
      BY <1>1, <2>2, <2>3, <2>5, <3>2 DEF FieldInv, HookTold, ParsedSoFar
  <2> QED BY <2>4, <2>5
<1>8. CASE ByteStored
  <2>1. PICK b \in CellValues(var) : Store(local.size, b)
    BY <1>8 DEF ByteStored
  <2>2. /\ local'.size = local.size + 1 /\ result' = "parse" /\ var.type \notin Number
        /\ local.size < var.data_size /\ local.size \in Cells(var)
    BY <1>8, RoomIs DEF ByteStored, HasRoom
  <2>3. \A i \in Cells(var) : i >= local.size + 1 => data'[index][i] = before[i]
    <3>1. Cells(var) \subseteq Int
      BY <1>1, <2>2, CellsAre
    <3>2. ASSUME NEW i \in Cells(var), i >= local.size + 1 PROVE data'[index][i] = before[i]
      <4>1. i # local.size /\ i >= local.size
        BY <1>2, <3>1, <3>2
      <4>2. data'[index][i] = data[index][i]
        BY <2>1, <2>2, <4>1, StoreIs
      <4> QED BY <1>4, <2>2, <4>1, <4>2
    <3> QED BY <3>2
  <2>4. var.access = "READ_ONLY" => data' = data
    BY <2>1 DEF Store
  <2>5. local'.size <= var.data_size
    BY <1>2, <2>2
  <2> QED
    BY <1>1, <1>3, <2>2, <2>3, <2>4, <2>5 DEF FieldInv, HookTold, ParsedSoFar
<1>9. CASE BufferEnds
  <2>1. /\ data' = data /\ result' = "hook" /\ var.type = "BUF_HEX" /\ local.size > 0
        /\ write_size' = IF var.access = "READ_ONLY" THEN 0 ELSE local.size
    BY <1>9 DEF BufferEnds, FieldEnds
  <2>2. var.type \notin Number
    BY <2>1 DEF Number
  <2> QED
    BY <1>1, <1>2, <1>3, <1>4, <2>1, <2>2 DEF FieldInv, HookTold, ParsedSoFar
<1>10. CASE StringEnds
  <2>1. /\ result' = "hook" /\ var.type = "BUF_STRING" /\ Store(local.size, "NUL")
        /\ local.size < var.data_size
        /\ write_size' = IF var.access = "READ_ONLY" THEN 0 ELSE local.size
    BY <1>10 DEF StringEnds, FieldEnds, Terminate, HasRoom
  <2>2. var.type \notin Number /\ local.size \in Cells(var) /\ Cells(var) \subseteq Int
    BY <1>1, <1>10, <2>1, CellsAre, RoomIs DEF Number, StringEnds
  <2>3. CASE var.access = "READ_ONLY"
    <3>1. data' = data
      BY <2>1, <2>3 DEF Store
    <3> QED
      BY <1>1, <1>3, <2>1, <2>2, <2>3, <3>1 DEF FieldInv, HookTold, ParsedSoFar
  <2>4. CASE var.access # "READ_ONLY"
    <3>1. data'[index][local.size] = "NUL"
      BY <2>1, <2>2, <2>4, StoreIs
    <3>2. ASSUME NEW i \in Cells(var), i > local.size PROVE data'[index][i] = before[i]
      <4>1. i # local.size /\ i >= local.size
        BY <1>2, <2>2, <3>2
      <4>2. data'[index][i] = data[index][i]
        BY <2>1, <2>2, <4>1, StoreIs
      <4> QED BY <1>4, <2>2, <4>1, <4>2
    <3>3. write_size' \in 0 .. var.data_size - 1
      BY <1>2, <2>1, <2>4
    <3> QED
      BY <1>1, <2>1, <2>2, <2>4, <3>1, <3>2, <3>3 DEF FieldInv, HookTold, ParsedSoFar
  <2> QED BY <2>3, <2>4
<1> QED
  BY <1>5, <1>6, <1>7, <1>8, <1>9, <1>10 DEF Iterated

LEMMA FieldStep == TypeInv /\ FieldInv /\ [Next]_vars => FieldInv'
<1> SUFFICES ASSUME TypeInv, FieldInv, [Next]_vars PROVE FieldInv'
  OBVIOUS
<1>1. TypeInv'
  BY TypeStep
<1>2. ASSUME NEW k \in DOMAIN cmd.vars, StartField(k), UNCHANGED data PROVE FieldInv'
  <2>1. result' = "parse" /\ local'.size = 0 /\ before' = data'[index']
    BY <1>2 DEF StartField, Fresh
  <2>2. var' \in Variable
    BY <1>1, VarParserAssumption DEF TypeInv, var
  <2>3. 0 <= var'.data_size
    BY <2>2, VarTypes
  <2> QED
    BY <2>1, <2>3 DEF FieldInv, HookTold, ParsedSoFar
<1>3. CASE ParseChar
  BY <1>3, ParseCharIterates, IteratedField DEF ParseChar
<1>4. CASE CallHook
  <2>1. CASE StartField(index + 1) /\ index # Len(cmd.vars)
    BY <1>2, <1>4, <2>1, NextVariable DEF CallHook
  <2>2. CASE result' \in {"error", "done"}
    BY <2>2 DEF FieldInv, HookTold, ParsedSoFar
  <2> QED BY <1>4, <2>1, <2>2 DEF CallHook
<1>5. CASE NextLine
  BY <1>2, <1>5, NextVariable DEF NextLine
<1>6. CASE UNCHANGED vars
  BY <1>6 DEF vars, FieldInv, HookTold, ParsedSoFar, var, Cells, Fits
<1> QED
  BY <1>3, <1>4, <1>5, <1>6 DEF Next

-----------------------------------------------------------------------------
(* Induction.  The library's theorems take a predicate; a set does as well. *)

LEMMA SetInduction ==
  ASSUME NEW S, 0 \in S, \A n \in Nat : n \in S => n + 1 \in S
  PROVE  \A n \in Nat : n \in S
<1> DEFINE T == Nat \ S
           R == OpToRel(<, Nat)
<1> SUFFICES ASSUME T # {} PROVE FALSE
  OBVIOUS
<1>1. \A x, y \in Nat : x < y => <<x, y>> \in R
  BY DEF OpToRel
<1>2. IsWellFoundedOn(R, Nat)
  BY NatLessThanWellFounded
<1> HIDE DEF R
<1>3. PICK x \in T : \A y \in T : ~(<<y, x>> \in R)
  BY <1>2, WFMin
<1>4. x \in Nat \ {0} /\ x - 1 \in Nat /\ x - 1 < x
  OBVIOUS
<1>5. x - 1 \in S
  BY <1>1, <1>3, <1>4
<1> QED
  BY <1>4, <1>5

\* A function defined by its first value and a step exists and is unique.
Recursion(n, x0, step, f) ==
  f[0] = x0 /\ \A k \in 1 .. n : f[k] = step[<<k, f[k - 1]>>]

LEMMA RecursionExists ==
  ASSUME NEW n \in Nat, NEW S, NEW x0 \in S, NEW step \in [(1 .. n) \X S -> S]
  PROVE  \E f \in [0 .. n -> S] : Recursion(n, x0, step, f)
<1> DEFINE I == {m \in Nat : m <= n => \E f \in [0 .. m -> S] : Recursion(m, x0, step, f)}
<1>1. 0 \in I
  <2>1. [k \in 0 .. 0 |-> x0] \in [0 .. 0 -> S] /\ Recursion(0, x0, step, [k \in 0 .. 0 |-> x0])
    BY DEF Recursion
  <2> QED BY <2>1
<1>2. ASSUME NEW m \in Nat, m \in I, m + 1 <= n
      PROVE  \E f \in [0 .. m + 1 -> S] : Recursion(m + 1, x0, step, f)
  <2>1. PICK f \in [0 .. m -> S] : Recursion(m, x0, step, f)
    BY <1>2
  <2> DEFINE g == [k \in 0 .. m + 1 |-> IF k = m + 1 THEN step[<<m + 1, f[m]>>] ELSE f[k]]
  <2>2. f[m] \in S /\ <<m + 1, f[m]>> \in (1 .. n) \X S
    BY <1>2
  <2>3. step[<<m + 1, f[m]>>] \in S
    BY <2>2
  <2>4. g \in [0 .. m + 1 -> S]
    BY <2>3
  <2>5. \A k \in 0 .. m : g[k] = f[k]
    OBVIOUS
  <2>6. m + 1 \in 0 .. m + 1 /\ m \in 0 .. m
    OBVIOUS
  <2>10. g[m + 1] = step[<<m + 1, f[m]>>]
    BY <2>6
  <2> HIDE DEF g
  <2>11. g[m + 1] = step[<<m + 1, g[m]>>]
    BY <2>5, <2>6, <2>10
  <2>7. \A k \in 1 .. m : g[k] = step[<<k, g[k - 1]>>]
    BY <2>1, <2>5 DEF Recursion
  <2>8. ASSUME NEW k \in 1 .. m + 1 PROVE g[k] = step[<<k, g[k - 1]>>]
    <3>1. CASE k = m + 1
      <4>1. k - 1 = m
        BY <3>1
      <4> QED BY <2>11, <3>1, <4>1
    <3>2. CASE k \in 1 .. m
      BY <2>7, <3>2
    <3> QED BY <3>1, <3>2
  <2>9. Recursion(m + 1, x0, step, g)
    <3>1. g[0] = x0
      BY <2>1, <2>5 DEF Recursion
    <3> QED BY <2>8, <3>1 DEF Recursion
  <2> QED BY <2>4, <2>9
<1>3. \A m \in Nat : m \in I => m + 1 \in I
  BY <1>2
<1> HIDE DEF I
<1>4. n \in I
  BY <1>1, <1>3, SetInduction
<1> QED
  BY <1>4 DEF I

-----------------------------------------------------------------------------
(* Numerals.                                                               *)

Hex == {HexDigit[d] : d \in 1 .. 16} \cup (DOMAIN Upper \ {"x"})
Dec == {HexDigit[d] : d \in 1 .. 10}

\* Values of the prefixes of a numeral.
ValuesOf(b, ds, f) ==
  f[0] = 0 /\ \A k \in 1 .. Len(ds) : f[k] = b * f[k - 1] + Digit(to_upper(ds[k]))

LEMMA NumeralIs ==
  ASSUME NEW b \in Nat, NEW n \in Nat, NEW ds, Len(ds) = n,
         NEW f \in [0 .. n -> Nat], ValuesOf(b, ds, f)
  PROVE  Numeral(b, ds) = f[n]
<1> DEFINE Eq(h) == h = [k \in 0 .. n |->
                           IF k = 0 THEN 0 ELSE b * h[k - 1] + Digit(to_upper(ds[k]))]
           value == CHOOSE h : Eq(h)
<1>1. Numeral(b, ds) = value[n]
  BY DEF Numeral
<1>2. Eq(f)
  BY DEF ValuesOf
<1>3. Eq(value)
  BY <1>2
<1> HIDE DEF value
<1> DEFINE I == {m \in Nat : m <= n => value[m] = f[m]}
<1>4. 0 \in I
  BY <1>3 DEF ValuesOf
<1>5. ASSUME NEW m \in Nat, m \in I PROVE m + 1 \in I
  <2> SUFFICES ASSUME m + 1 <= n PROVE value[m + 1] = f[m + 1]
    OBVIOUS
  <2>1. value[m] = f[m] /\ m + 1 \in 1 .. n /\ (m + 1) - 1 = m /\ m + 1 # 0
    BY <1>5
  <2>2. value[m + 1] = b * value[m] + Digit(to_upper(ds[m + 1]))
    BY <1>3, <2>1
  <2>3. f[m + 1] = b * f[m] + Digit(to_upper(ds[m + 1]))
    BY <2>1 DEF ValuesOf
  <2> QED BY <2>1, <2>2, <2>3
<1> HIDE DEF I
<1>6. n \in I
  BY <1>4, <1>5, SetInduction
<1> QED
  BY <1>1, <1>6 DEF I

Letter ==
  (UNION {Chars[t] : t \in DOMAIN Chars}) \cup Hex
  \cup {"COMMA", "NUL", "-", "+", "x", "X", "QUOTE", "BACKSLASH", "n"}

LEMMA DecIs ==
  /\ Dec \subseteq Hex /\ Hex \cap {"COMMA", "NUL", "-", "+", "x", "X"} = {}
  /\ \A ch : is_valid_dec_char(ch) <=> ch \in Dec
  /\ \A ch : is_valid_dec_char(to_upper(ch)) <=> ch \in Dec
  /\ \A ch \in Dec : to_upper(ch) = ch
<1>1. DOMAIN Upper = {"a", "b", "c", "d", "e", "f", "x"}
  BY DEF Upper
<1>2. \A ch \in DOMAIN Upper : Upper[ch] \in {"A", "B", "C", "D", "E", "F", "X"}
  BY <1>1 DEF Upper
<1>3. Dec = {"0", "1", "2", "3", "4", "5", "6", "7", "8", "9"}
  BY DEF Dec, HexDigit
<1>4. \A ch : is_valid_dec_char(ch) <=> ch \in Dec
  BY DEF is_valid_dec_char, Dec
<1>5. \A ch : is_valid_dec_char(to_upper(ch)) <=> ch \in Dec
  BY <1>1, <1>2, <1>3, <1>4 DEF to_upper
<1>6. \A ch \in Dec : to_upper(ch) = ch
  BY <1>1, <1>3 DEF to_upper
<1>7. Hex = {"0", "1", "2", "3", "4", "5", "6", "7", "8", "9",
             "A", "B", "C", "D", "E", "F", "a", "b", "c", "d", "e", "f"}
  BY <1>1 DEF Hex, HexDigit
<1>8. Dec \subseteq Hex
  BY <1>3, <1>7
<1>9. Hex \cap {"COMMA", "NUL", "-", "+", "x", "X"} = {}
  BY <1>7
<1> QED
  BY <1>4, <1>5, <1>6, <1>8, <1>9

LEMMA HexIs ==
  \A ch : is_valid_hex_char(to_upper(ch)) <=> ch \in Hex
<1>1. DOMAIN Upper = {"a", "b", "c", "d", "e", "f", "x"}
  BY DEF Upper
<1>2. \A ch : is_valid_hex_char(ch) <=> \E d \in 1 .. 16 : HexDigit[d] = ch
  BY DEF is_valid_hex_char
<1>3. {HexDigit[d] : d \in 1 .. 16} = {"0", "1", "2", "3", "4", "5", "6", "7", "8", "9",
                                       "A", "B", "C", "D", "E", "F"}
  BY DEF HexDigit
<1>4. \A ch : is_valid_hex_char(ch) <=> ch \in {"0", "1", "2", "3", "4", "5", "6", "7", "8", "9",
                                                "A", "B", "C", "D", "E", "F"}
  BY <1>2, <1>3
<1>5. /\ Upper["a"] = "A" /\ Upper["b"] = "B" /\ Upper["c"] = "C" /\ Upper["d"] = "D"
      /\ Upper["e"] = "E" /\ Upper["f"] = "F" /\ Upper["x"] = "X"
  BY DEF Upper
<1> QED
  BY <1>1, <1>3, <1>4, <1>5 DEF to_upper, Hex

LEMMA HexDigitIs ==
  ASSUME NEW ch \in Hex
  PROVE  Digit(to_upper(ch)) \in 0 .. 15
BY HexIs, DigitIs

\* The digit printed for a number.
LEMMA DigitOf ==
  ASSUME NEW d \in 0 .. 15
  PROVE  /\ HexDigit[d + 1] \in Hex /\ to_upper(HexDigit[d + 1]) = HexDigit[d + 1]
         /\ Digit(HexDigit[d + 1]) = d
         /\ d < 10 => HexDigit[d + 1] \in Dec
<1>1. d + 1 \in 1 .. 16 /\ (d < 10 => d + 1 \in 1 .. 10)
  OBVIOUS
<1>2. \A i, j \in 1 .. 16 : HexDigit[i] = HexDigit[j] => i = j
  BY DEF HexDigit
<1> DEFINE c == CHOOSE i \in 1 .. 16 : HexDigit[i] = HexDigit[d + 1]
<1>3. c = d + 1
  BY <1>1, <1>2
<1>10. Digit(HexDigit[d + 1]) = c - 1
  BY DEF Digit
<1> HIDE DEF c
<1>4. HexDigit[d + 1] \in {"0", "1", "2", "3", "4", "5", "6", "7", "8", "9",
                           "A", "B", "C", "D", "E", "F"}
  BY <1>1 DEF HexDigit
<1>5. HexDigit[d + 1] \notin DOMAIN Upper
  BY <1>4 DEF Upper
<1>6. HexDigit[d + 1] \in Hex
  BY <1>1 DEF Hex
<1>7. d < 10 => HexDigit[d + 1] \in Dec
  BY <1>1 DEF Dec
<1>8. Digit(HexDigit[d + 1]) = d
  BY <1>3, <1>10
<1>9. to_upper(HexDigit[d + 1]) = HexDigit[d + 1]
  BY <1>5 DEF to_upper
<1> QED
  BY <1>6, <1>7, <1>8, <1>9

LEMMA NumeralValues ==
  ASSUME NEW b \in Nat, NEW ds \in Seq(Hex)
  PROVE  \E f \in [0 .. Len(ds) -> Nat] :
           ValuesOf(b, ds, f) /\ Numeral(b, ds) = f[Len(ds)]
<1> DEFINE n == Len(ds)
           step == [p \in (1 .. n) \X Nat |-> b * p[2] + Digit(to_upper(ds[p[1]]))]
<1>1. n \in Nat
  OBVIOUS
<1>2. \A k \in 1 .. n : Digit(to_upper(ds[k])) \in Nat
  BY HexDigitIs
<1>3. step \in [(1 .. n) \X Nat -> Nat]
  BY <1>2
<1>4. \A k \in 1 .. n, x \in Nat : step[<<k, x>>] = b * x + Digit(to_upper(ds[k]))
  OBVIOUS
<1> HIDE DEF step
<1>5. PICK f \in [0 .. n -> Nat] : Recursion(n, 0, step, f)
  BY <1>1, <1>3, RecursionExists
<1>6. ASSUME NEW k \in 1 .. n
      PROVE  f[k] = b * f[k - 1] + Digit(to_upper(ds[k]))
  <2>1. f[k] = step[<<k, f[k - 1]>>] /\ f[k - 1] \in Nat
    BY <1>1, <1>5 DEF Recursion
  <2> QED BY <1>4, <2>1
<1>7. ValuesOf(b, ds, f)
  BY <1>5, <1>6 DEF Recursion, ValuesOf
<1> QED
  BY <1>1, <1>7, NumeralIs

LEMMA NumeralEmpty ==
  ASSUME NEW b \in Nat
  PROVE  Numeral(b, <<>>) = 0
<1>1. [k \in 0 .. 0 |-> 0] \in [0 .. 0 -> Nat] /\ ValuesOf(b, <<>>, [k \in 0 .. 0 |-> 0])
  BY DEF ValuesOf
<1> QED
  BY <1>1, NumeralIs

LEMMA NumeralAppend ==
  ASSUME NEW b \in Nat, NEW ds \in Seq(Hex), NEW ch \in Hex
  PROVE  /\ Numeral(b, ds) \in Nat
         /\ Numeral(b, Append(ds, ch)) = b * Numeral(b, ds) + Digit(to_upper(ch))
<1> DEFINE n == Len(ds)
           es == Append(ds, ch)
<1>1. es \in Seq(Hex) /\ Len(es) = n + 1 /\ n \in Nat /\ es[n + 1] = ch
      /\ \A k \in 1 .. n : es[k] = ds[k]
  OBVIOUS
<1> HIDE DEF es
<1>2. PICK f \in [0 .. n + 1 -> Nat] : ValuesOf(b, es, f) /\ Numeral(b, es) = f[n + 1]
  BY <1>1, NumeralValues
<1> DEFINE g == [k \in 0 .. n |-> f[k]]
<1>3. g \in [0 .. n -> Nat] /\ g[n] = f[n]
  OBVIOUS
<1>4. ValuesOf(b, ds, g)
  BY <1>1, <1>2 DEF ValuesOf
<1>5. Numeral(b, ds) = f[n]
  BY <1>1, <1>3, <1>4, NumeralIs
<1>6. n + 1 \in 1 .. Len(es) /\ (n + 1) - 1 = n
  BY <1>1
<1>7. f[n + 1] = b * f[n] + Digit(to_upper(ch))
  BY <1>1, <1>2, <1>6 DEF ValuesOf
<1> QED
  BY <1>2, <1>5, <1>7 DEF es

\* Zeros in front of a numeral.
LEMMA NumeralZeros ==
  ASSUME NEW b \in Nat, NEW ds \in Seq(Hex), NEW zs \in Seq({"0"})
  PROVE  zs \o ds \in Seq(Hex) /\ Numeral(b, zs \o ds) = Numeral(b, ds)
<1> DEFINE n == Len(ds)
           z == Len(zs)
           es == zs \o ds
<1>1. "0" \in Hex /\ Digit(to_upper("0")) = 0
  BY DigitOf, HexDigit[1] = "0" DEF HexDigit
<1>2. /\ es \in Seq(Hex) /\ Len(es) = z + n /\ n \in Nat /\ z \in Nat
      /\ \A k \in 1 .. z : es[k] = "0"
      /\ \A k \in z + 1 .. z + n : es[k] = ds[k - z]
  BY <1>1
<1> HIDE DEF es
<1>3. PICK f \in [0 .. n -> Nat] : ValuesOf(b, ds, f) /\ Numeral(b, ds) = f[n]
  BY NumeralValues
<1> DEFINE g == [k \in 0 .. z + n |-> IF k <= z THEN 0 ELSE f[k - z]]
<1>4. g \in [0 .. z + n -> Nat] /\ g[z + n] = f[n] /\ g[0] = 0
  BY <1>2, <1>3 DEF ValuesOf
<1>5. ASSUME NEW k \in 1 .. z + n
      PROVE  g[k] = b * g[k - 1] + Digit(to_upper(es[k]))
  <2>1. CASE k <= z
    <3>1. g[k] = 0 /\ g[k - 1] = 0 /\ es[k] = "0"
      BY <1>2, <2>1
    <3> HIDE DEF g
    <3> QED BY <1>1, <3>1
  <2>2. CASE k > z
    <3>1. k - z \in 1 .. n /\ g[k] = f[k - z] /\ es[k] = ds[k - z]
      BY <1>2, <2>2
    <3>2. g[k - 1] = f[(k - z) - 1]
      BY <1>2, <1>3, <2>2 DEF ValuesOf
    <3> HIDE DEF g
    <3> QED BY <1>3, <3>1, <3>2 DEF ValuesOf
  <2> QED BY <1>2, <2>1, <2>2
<1> HIDE DEF g
<1>6. ValuesOf(b, es, g)
  BY <1>2, <1>4, <1>5 DEF ValuesOf
<1>7. Numeral(b, es) = g[z + n]
  <2>1. z + n \in Nat /\ Len(es) = z + n
    BY <1>2
  <2> HIDE DEF n, z
  <2> QED BY <1>4, <1>6, <2>1, NumeralIs
<1> QED
  BY <1>2, <1>3, <1>4, <1>7 DEF es

-----------------------------------------------------------------------------
(* What the formatters print for a number is a numeral of that number.     *)

DigitsOf(base) == IF base = 10 THEN Dec ELSE Hex

LEMMA DivIs ==
  ASSUME NEW base \in {10, 16}, NEW j \in Nat
  PROVE  /\ j \div base \in 0 .. j /\ j % base \in 0 .. base - 1
         /\ j >= base => j \div base < j
         /\ base * (j \div base) + (j % base) = j
<1>1. CASE base = 10
  BY <1>1
<1>2. CASE base = 16
  BY <1>2
<1> QED BY <1>1, <1>2

\* What is printed for j when p says what is printed for smaller numbers.
PrintedFrom(base, p, j) ==
  IF j < base THEN <<HexDigit[j + 1]>>
  ELSE Append(p[j \div base], HexDigit[(j % base) + 1])

LEMMA PrintExists ==
  ASSUME NEW base \in {10, 16}, NEW n \in Nat
  PROVE  \E p : p = [j \in 0 .. n |-> PrintedFrom(base, p, j)]
<1> DEFINE I == {m \in Nat : \E p : p = [j \in 0 .. m |-> PrintedFrom(base, p, j)]}
<1>1. 0 \in I
  <2> DEFINE p == [j \in 0 .. 0 |-> <<HexDigit[1]>>]
  <2>1. \A j \in 0 .. 0 : PrintedFrom(base, p, j) = <<HexDigit[1]>>
    BY DEF PrintedFrom
  <2>2. p = [j \in 0 .. 0 |-> PrintedFrom(base, p, j)]
    BY <2>1
  <2> QED BY <2>2
<1>2. ASSUME NEW m \in Nat, m \in I PROVE m + 1 \in I
  <2>1. PICK p : p = [j \in 0 .. m |-> PrintedFrom(base, p, j)]
    BY <1>2
  <2> DEFINE q == [j \in 0 .. m + 1 |-> IF j = m + 1 THEN PrintedFrom(base, p, m + 1) ELSE p[j]]
  <2>2. \A j \in 0 .. m : q[j] = p[j]
    OBVIOUS
  <2>3. q[m + 1] = PrintedFrom(base, p, m + 1)
    OBVIOUS
  <2>4. DOMAIN q = 0 .. m + 1 /\ q = [j \in 0 .. m + 1 |-> q[j]]
    OBVIOUS
  <2> HIDE DEF q
  <2>5. ASSUME NEW j \in 0 .. m + 1 PROVE PrintedFrom(base, q, j) = PrintedFrom(base, p, j)
    <3>1. j >= base => j \div base \in 0 .. m
      BY DivIs
    <3>2. j >= base => q[j \div base] = p[j \div base]
      BY <2>2, <3>1
    <3> QED BY <3>2 DEF PrintedFrom
  <2>6. ASSUME NEW j \in 0 .. m + 1 PROVE q[j] = PrintedFrom(base, q, j)
    <3>1. CASE j = m + 1
      BY <2>3, <2>5, <3>1
    <3>2. CASE j \in 0 .. m
      <4>1. p[j] = PrintedFrom(base, p, j)
        BY <2>1, <3>2
      <4> QED BY <2>2, <2>5, <3>2, <4>1
    <3> QED BY <3>1, <3>2
  <2>7. q = [j \in 0 .. m + 1 |-> PrintedFrom(base, q, j)]
    BY <2>4, <2>6
  <2> QED BY <2>7
<1> HIDE DEF I
<1>3. n \in I
  BY <1>1, <1>2, SetInduction
<1> QED
  BY <1>3 DEF I

LEMMA PrintedIs ==
  ASSUME NEW base \in {10, 16}, NEW n \in Nat, NEW p, p = [j \in 0 .. n |-> PrintedFrom(base, p, j)]
  PROVE  p[n] \in Seq(DigitsOf(base)) /\ p[n] # <<>> /\ Numeral(base, p[n]) = n
<1> DEFINE Good(j) == p[j] \in Seq(DigitsOf(base)) /\ p[j] # <<>> /\ Numeral(base, p[j]) = j
           I == {m \in Nat : \A j \in 0 .. m : j <= n => Good(j)}
<1>0. DigitsOf(base) \subseteq Hex
  BY DecIs DEF DigitsOf
<1>1. ASSUME NEW d \in 0 .. base - 1
      PROVE  HexDigit[d + 1] \in DigitsOf(base) /\ Digit(to_upper(HexDigit[d + 1])) = d
  <2>1. d \in 0 .. 15 /\ (base = 10 => d < 10)
    OBVIOUS
  <2> QED BY <2>1, DigitOf DEF DigitsOf
<1>2. ASSUME NEW j \in 0 .. n, j >= base => Good(j \div base)
      PROVE  Good(j)
  <2>1. p[j] = PrintedFrom(base, p, j)
    OBVIOUS
  <2>2. CASE j < base
    <3> DEFINE c == HexDigit[j + 1]
    <3>1. p[j] = <<c>> /\ c \in DigitsOf(base) /\ Digit(to_upper(c)) = j
      BY <1>1, <2>1, <2>2 DEF PrintedFrom
    <3> HIDE DEF c
    <3>2. <<c>> = Append(<<>>, c) /\ <<>> \in Seq(Hex) /\ c \in Hex /\ base \in Nat
      BY <1>0, <3>1
    <3>3. Numeral(base, <<c>>) = base * 0 + j
      BY <3>1, <3>2, NumeralAppend, NumeralEmpty
    <3>4. base * 0 + j = j
      BY <3>2
    <3>5. <<c>> \in Seq(DigitsOf(base)) /\ <<c>> # <<>>
      BY <3>1
    <3> QED BY <3>1, <3>3, <3>4, <3>5
  <2>3. CASE j >= base
    <3> DEFINE c == HexDigit[(j % base) + 1]
               s == p[j \div base]
    <3>1. p[j] = Append(s, c)
      <4>1. ~(j < base)
        BY <2>3
      <4> QED BY <2>1, <4>1 DEF PrintedFrom
    <3>2. c \in DigitsOf(base) /\ Digit(to_upper(c)) = j % base
      BY <1>1, DivIs
    <3>3. s \in Seq(DigitsOf(base)) /\ Numeral(base, s) = j \div base
      BY <1>2, <2>3
    <3> HIDE DEF c, s
    <3>4. s \in Seq(Hex) /\ c \in Hex /\ base \in Nat
      BY <1>0, <3>2, <3>3
    <3>5. Numeral(base, Append(s, c)) = base * (j \div base) + (j % base)
      BY <3>2, <3>3, <3>4, NumeralAppend
    <3>6. Numeral(base, p[j]) = j
      <4>1. j \in Nat
        OBVIOUS
      <4>2. base * (j \div base) + (j % base) = j
        BY <4>1, DivIs
      <4> QED BY <3>1, <3>5, <4>2, Zenon
    <3>7. Append(s, c) \in Seq(DigitsOf(base)) /\ Append(s, c) # <<>>
      BY <3>2, <3>3
    <3> QED BY <3>1, <3>6, <3>7
  <2> QED BY <2>2, <2>3
<1> HIDE DEF Good
<1>3. 0 \in I
  BY <1>2
<1>4. ASSUME NEW m \in Nat, m \in I PROVE m + 1 \in I
  <2> SUFFICES ASSUME m + 1 <= n PROVE Good(m + 1)
    <3>1. \A j \in 0 .. m + 1 : j \in 0 .. m \/ j = m + 1
      OBVIOUS
    <3> QED BY <1>4, <3>1
  <2>1. m + 1 >= base => (m + 1) \div base \in 0 .. m
    BY DivIs
  <2>2. m + 1 >= base => Good((m + 1) \div base)
    BY <1>4, <2>1
  <2> QED BY <1>2, <2>2
<1> HIDE DEF I
<1>5. n \in I
  BY <1>3, <1>4, SetInduction
<1>6. Good(n)
  BY <1>5 DEF I
<1> QED
  BY <1>6 DEF Good

\* The zeros in front.
Zeros(k) == [i \in 1 .. k |-> "0"]

LEMMA ZerosAre ==
  ASSUME NEW k \in Int
  PROVE  Zeros(k) \in Seq({"0"}) /\ Len(Zeros(k)) = IF k > 0 THEN k ELSE 0
<1>1. CASE k > 0
  BY <1>1 DEF Zeros
<1>2. CASE k <= 0
  <2>1. 1 .. k = 1 .. 0
    BY <1>2
  <2>2. Zeros(k) = [i \in 1 .. 0 |-> "0"]
    BY <2>1 DEF Zeros
  <2>3. [i \in 1 .. 0 |-> "0"] \in Seq({"0"}) /\ Len([i \in 1 .. 0 |-> "0"]) = 0
    OBVIOUS
  <2> QED BY <1>2, <2>2, <2>3
<1> QED BY <1>1, <1>2

LEMMA DigitsAre ==
  ASSUME NEW base \in {10, 16}, NEW n \in Nat
  PROVE  \A width \in Nat :
           LET ds == Digits(base, n, width)
           IN  /\ ds \in Seq(DigitsOf(base)) /\ ds # <<>> /\ Numeral(base, ds) = n
               /\ base = 16 /\ n < 256 /\ width = 2 => Len(ds) = 2
<1> DEFINE p == CHOOSE f : f = [j \in 0 .. n |-> PrintedFrom(base, f, j)]
<1>1. \A w : Digits(base, n, w) = Zeros(w - Len(p[n])) \o p[n]
  BY DEF Digits, PrintedFrom, Zeros
<1>2. p = [j \in 0 .. n |-> PrintedFrom(base, p, j)]
  BY PrintExists
<1> HIDE DEF p
<1>3. p[n] \in Seq(DigitsOf(base)) /\ p[n] # <<>> /\ Numeral(base, p[n]) = n
  BY <1>2, PrintedIs
<1>4. DigitsOf(base) \subseteq Hex /\ "0" \in DigitsOf(base)
  BY DecIs, DigitOf, HexDigit[1] = "0" DEF DigitsOf, HexDigit
<1>5. p[n] \in Seq(Hex) /\ base \in Nat /\ Len(p[n]) \in Nat
  BY <1>3, <1>4
<1>6. ASSUME base = 16, n < 256
      PROVE  Len(p[n]) \in {1, 2}
  <2>0. \A j \in 0 .. n : p[j] = PrintedFrom(16, p, j)
    BY <1>2, <1>6
  <2>1. p[n] = PrintedFrom(16, p, n)
    BY <2>0
  <2>2. CASE n < 16
    BY <2>1, <2>2 DEF PrintedFrom
  <2>3. CASE n >= 16
    <3>1. n \div 16 \in 0 .. 15 /\ n \div 16 \in 0 .. n
      BY <1>6, <2>3
    <3>2. p[n \div 16] = <<HexDigit[(n \div 16) + 1]>>
      <4>1. ASSUME NEW j \in 0 .. n, j < 16 PROVE p[j] = <<HexDigit[j + 1]>>
        BY <2>0, <4>1 DEF PrintedFrom
      <4>2. n \div 16 < 16
        BY <3>1
      <4> QED BY <3>1, <4>1, <4>2
    <3>4. p[n] = Append(p[n \div 16], HexDigit[(n % 16) + 1])
      BY <2>1, <2>3 DEF PrintedFrom
    <3> QED BY <3>2, <3>4
  <2> QED BY <2>2, <2>3
<1> SUFFICES ASSUME NEW width \in Nat, NEW ds, ds = Digits(base, n, width)
             PROVE  /\ ds \in Seq(DigitsOf(base)) /\ ds # <<>> /\ Numeral(base, ds) = n
                    /\ base = 16 /\ n < 256 /\ width = 2 => Len(ds) = 2
  OBVIOUS
<1> DEFINE k == width - Len(p[n])
           zs == Zeros(k)
<1>7. k \in Int
  BY <1>5
<1>8. zs \in Seq({"0"}) /\ Len(zs) = IF k > 0 THEN k ELSE 0
  BY <1>7, ZerosAre
<1>9. ds = zs \o p[n]
  BY <1>1
<1> HIDE DEF zs
<1>10. zs \in Seq(DigitsOf(base))
  BY <1>4, <1>8
<1>11. ds \in Seq(DigitsOf(base)) /\ ds # <<>>
  BY <1>3, <1>9, <1>10
<1>12. Numeral(base, ds) = n
  BY <1>3, <1>5, <1>8, <1>9, NumeralZeros
<1>13. ASSUME base = 16, n < 256, width = 2 PROVE Len(ds) = 2
  <2>1. Len(ds) = Len(zs) + Len(p[n])
    BY <1>3, <1>9, <1>10
  <2>2. Len(p[n]) \in {1, 2}
    BY <1>6, <1>13
  <2>3. Len(zs) = 2 - Len(p[n])
    <3>1. Len(p[n]) = 1 => k > 0 /\ k = 1
      BY <1>13
    <3>2. Len(p[n]) = 2 => ~(k > 0)
      BY <1>13
    <3> HIDE DEF k
    <3>3. CASE Len(p[n]) = 1
      <4>1. Len(zs) = 1
        BY <1>8, <3>1, <3>3
      <4> QED BY <3>3, <4>1
    <3>4. CASE Len(p[n]) = 2
      <4>1. Len(zs) = 0
        BY <1>8, <3>2, <3>4
      <4> QED BY <3>4, <4>1
    <3> QED BY <2>2, <3>3, <3>4
  <2> QED BY <2>1, <2>2, <2>3
<1> QED
  BY <1>11, <1>12, <1>13

-----------------------------------------------------------------------------
(* Sequences of sequences put together.                                    *)

\* The concatenations of the first sequences.
Concats(ss, f) ==
  /\ f[0] = <<>>
  /\ \A k \in 1 .. Len(ss) : f[k] = f[k - 1] \o ss[k]

LEMMA ConcatsExist ==
  ASSUME NEW A, NEW ss \in Seq(Seq(A))
  PROVE  \E f \in [0 .. Len(ss) -> Seq(A)] : Concats(ss, f)
<1> DEFINE n == Len(ss)
           step == [p \in (1 .. n) \X Seq(A) |-> p[2] \o ss[p[1]]]
<1>1. n \in Nat
  OBVIOUS
<1>2. \A k \in 1 .. n, s \in Seq(A) : s \o ss[k] \in Seq(A)
  OBVIOUS
<1>3. step \in [(1 .. n) \X Seq(A) -> Seq(A)]
  BY <1>2
<1>4. \A k \in 1 .. n, s \in Seq(A) : step[<<k, s>>] = s \o ss[k]
  OBVIOUS
<1>5. <<>> \in Seq(A)
  OBVIOUS
<1> HIDE DEF step
<1>6. PICK f \in [0 .. n -> Seq(A)] : Recursion(n, <<>>, step, f)
  BY <1>1, <1>3, <1>5, RecursionExists
<1>7. ASSUME NEW k \in 1 .. n
      PROVE  f[k] = f[k - 1] \o ss[k]
  <2>1. f[k] = step[<<k, f[k - 1]>>]
    BY <1>6 DEF Recursion
  <2>2. k - 1 \in 0 .. n
    BY <1>1
  <2>3. f[k - 1] \in Seq(A)
    BY <1>6, <2>2
  <2> QED BY <1>4, <2>1, <2>3
<1> QED
  BY <1>6, <1>7 DEF Concats, Recursion

LEMMA FlattenIs ==
  ASSUME NEW A, NEW ss \in Seq(Seq(A)), NEW f \in [0 .. Len(ss) -> Seq(A)], Concats(ss, f)
  PROVE  FlattenSeq(ss) = f[Len(ss)]
<1> DEFINE n == Len(ss)
           Eq(h) == h = [i \in 1 .. n |-> IF i = 1 THEN ss[i] ELSE h[i - 1] \o ss[i]]
           flatten == CHOOSE h : Eq(h)
           g == [i \in 1 .. n |-> f[i]]
<1>1. n \in Nat
  OBVIOUS
<1>2. CASE n = 0
  <2>1. ss = <<>> /\ f[0] = <<>>
    BY <1>2 DEF Concats
  <2> QED BY <1>2, <2>1 DEF FlattenSeq
<1>3. CASE n > 0
  <2>1. FlattenSeq(ss) = flatten[n]
    BY <1>3 DEF FlattenSeq
  <2>2. ASSUME NEW i \in 1 .. n
        PROVE  g[i] = IF i = 1 THEN ss[i] ELSE g[i - 1] \o ss[i]
    <3>1. f[i] = f[i - 1] \o ss[i]
      BY DEF Concats
    <3>2. CASE i = 1
      <4>1. f[i - 1] = <<>> /\ ss[i] \in Seq(A)
        BY <3>2 DEF Concats
      <4>2. <<>> \o ss[i] = ss[i]
        BY <4>1
      <4> QED BY <3>1, <3>2, <4>1, <4>2
    <3>3. CASE i # 1
      <4>1. i - 1 \in 1 .. n
        BY <3>3
      <4> QED BY <3>1, <3>3, <4>1
    <3> QED BY <3>2, <3>3
  <2>3. Eq(g)
    BY <2>2
  <2>4. Eq(flatten)
    BY <2>3
  <2> HIDE DEF flatten
  <2> DEFINE I == {m \in Nat : m + 1 <= n => flatten[m + 1] = f[m + 1]}
  <2>5. ASSUME NEW i \in 1 .. n
        PROVE  flatten[i] = IF i = 1 THEN ss[i] ELSE flatten[i - 1] \o ss[i]
    BY <2>4
  <2>6. 1 \in 1 .. n /\ g[1] = f[1]
    BY <1>3
  <2>7. 0 \in I
    <3>1. flatten[1] = ss[1] /\ g[1] = ss[1]
      BY <2>2, <2>5, <2>6
    <3>2. flatten[0 + 1] = f[0 + 1]
      BY <2>6, <3>1
    <3> QED BY <3>2
  <2>8. ASSUME NEW m \in Nat, m \in I PROVE m + 1 \in I
    <3> SUFFICES ASSUME (m + 1) + 1 <= n PROVE flatten[(m + 1) + 1] = f[(m + 1) + 1]
      OBVIOUS
    <3>1. /\ (m + 1) + 1 \in 1 .. n /\ (m + 1) + 1 # 1 /\ ((m + 1) + 1) - 1 = m + 1
          /\ flatten[m + 1] = f[m + 1]
      BY <2>8
    <3>2. f[(m + 1) + 1] = f[m + 1] \o ss[(m + 1) + 1]
      BY <3>1 DEF Concats
    <3> QED BY <2>5, <3>1, <3>2
  <2> HIDE DEF I
  <2>9. \A m \in Nat : m \in I => m + 1 \in I
    BY <2>8
  <2>10. n - 1 \in Nat
    BY <1>1, <1>3
  <2>11. n - 1 \in I
    BY <2>7, <2>9, <2>10, SetInduction
  <2>12. (n - 1) + 1 = n
    BY <1>1
  <2>13. flatten[n] = f[n]
    BY <2>11, <2>12 DEF I
  <2> QED BY <2>1, <2>13
<1> QED
  BY <1>1, <1>2, <1>3

LEMMA FlattenAppend ==
  ASSUME NEW A, NEW ss \in Seq(Seq(A)), NEW s \in Seq(A)
  PROVE  /\ FlattenSeq(ss) \in Seq(A)
         /\ FlattenSeq(Append(ss, s)) = FlattenSeq(ss) \o s
<1> DEFINE n == Len(ss)
           ts == Append(ss, s)
<1>1. /\ ts \in Seq(Seq(A)) /\ Len(ts) = n + 1 /\ n \in Nat /\ ts[n + 1] = s
      /\ \A k \in 1 .. n : ts[k] = ss[k]
  OBVIOUS
<1> HIDE DEF ts
<1>2. PICK f \in [0 .. n + 1 -> Seq(A)] : Concats(ts, f)
  BY <1>1, ConcatsExist
<1> DEFINE g == [k \in 0 .. n |-> f[k]]
<1>3. g \in [0 .. n -> Seq(A)] /\ g[n] = f[n]
  OBVIOUS
<1>4. Concats(ss, g)
  <2>1. g[0] = <<>>
    BY <1>1, <1>2 DEF Concats
  <2>2. ASSUME NEW k \in 1 .. n PROVE g[k] = g[k - 1] \o ss[k]
    <3>3. k \in 1 .. Len(ts) /\ ts[k] = ss[k]
      BY <1>1
    <3>1. f[k] = f[k - 1] \o ts[k] /\ ts[k] = ss[k]
      BY <1>2, <3>3 DEF Concats
    <3>2. k \in 0 .. n /\ k - 1 \in 0 .. n
      BY <1>1
    <3> QED BY <3>1, <3>2
  <2> QED BY <2>1, <2>2 DEF Concats
<1>5. FlattenSeq(ss) = f[n]
  BY <1>3, <1>4, FlattenIs
<1>6. FlattenSeq(ts) = f[n + 1]
  BY <1>1, <1>2, FlattenIs
<1>7. n + 1 \in 1 .. Len(ts) /\ (n + 1) - 1 = n
  BY <1>1
<1>8. f[n + 1] = f[n] \o s
  BY <1>1, <1>2, <1>7 DEF Concats
<1> QED
  BY <1>3, <1>5, <1>6, <1>8 DEF ts

\* Where each sequence begins in the whole.
Offsets(ss, o) ==
  /\ o[0] = 0
  /\ \A k \in 1 .. Len(ss) : o[k] = o[k - 1] + Len(ss[k])

LEMMA FlattenOffsets ==
  ASSUME NEW A, NEW ss \in Seq(Seq(A))
  PROVE  \E o \in [0 .. Len(ss) -> Nat] :
           /\ Offsets(ss, o) /\ Len(FlattenSeq(ss)) = o[Len(ss)]
           /\ \A k \in 1 .. Len(ss) :
                /\ o[k] <= o[Len(ss)]
                /\ \A j \in 1 .. Len(ss[k]) : FlattenSeq(ss)[o[k - 1] + j] = ss[k][j]
<1> DEFINE n == Len(ss)
<1>1. PICK f \in [0 .. n -> Seq(A)] : Concats(ss, f)
  BY ConcatsExist
<1> DEFINE o == [k \in 0 .. n |-> Len(f[k])]
           Good(m) == \A k \in 1 .. m :
                        /\ o[k] <= o[m]
                        /\ \A j \in 1 .. Len(ss[k]) : f[m][o[k - 1] + j] = ss[k][j]
           I == {m \in Nat : m <= n => Good(m)}
<1>2. n \in Nat /\ o \in [0 .. n -> Nat] /\ o[0] = 0
  BY <1>1 DEF Concats
<1>3. ASSUME NEW k \in 1 .. n
      PROVE  /\ ss[k] \in Seq(A) /\ f[k - 1] \in Seq(A) /\ f[k] = f[k - 1] \o ss[k]
             /\ o[k] = o[k - 1] + Len(ss[k]) /\ o[k - 1] = Len(f[k - 1])
  <2>0. k - 1 \in 0 .. n /\ k \in 0 .. n
    BY <1>2
  <2>1. ss[k] \in Seq(A) /\ f[k - 1] \in Seq(A) /\ f[k] = f[k - 1] \o ss[k]
    <3>1. f[k] = f[k - 1] \o ss[k]
      BY <1>1 DEF Concats
    <3>2. f[k - 1] \in Seq(A)
      BY <2>0
    <3> QED BY <3>1, <3>2
  <2>2. o[k] = Len(f[k]) /\ o[k - 1] = Len(f[k - 1])
    BY <1>2
  <2>3. Len(f[k - 1] \o ss[k]) = Len(f[k - 1]) + Len(ss[k])
    BY <2>1
  <2> QED BY <2>1, <2>2, <2>3
<1>4. f[n] = FlattenSeq(ss) /\ o[n] = Len(f[n])
  BY <1>1, <1>2, FlattenIs
<1> HIDE DEF o
<1>5. 0 \in I
  OBVIOUS
<1>6. ASSUME NEW m \in Nat, m \in I PROVE m + 1 \in I
  <2> HIDE DEF Good
  <2> SUFFICES ASSUME m + 1 <= n PROVE Good(m + 1)
    OBVIOUS
  <2>0. m <= n /\ Good(m)
    BY <1>2, <1>6
  <2>1. m + 1 \in 1 .. n /\ (m + 1) - 1 = m
    BY <1>2
  <2>2. /\ ss[m + 1] \in Seq(A) /\ f[m] \in Seq(A) /\ f[m + 1] = f[m] \o ss[m + 1]
        /\ o[m + 1] = o[m] + Len(ss[m + 1]) /\ o[m] = Len(f[m])
    BY <1>3, <2>1
  <2>3. ASSUME NEW k \in 1 .. m
        PROVE  /\ o[k] <= o[m + 1]
               /\ \A j \in 1 .. Len(ss[k]) : f[m + 1][o[k - 1] + j] = ss[k][j]
    <3>1. /\ o[k] <= o[m] /\ o[k] \in Nat /\ o[k - 1] \in Nat /\ k \in 1 .. n
          /\ \A j \in 1 .. Len(ss[k]) : f[m][o[k - 1] + j] = ss[k][j]
      <4>1. k \in 0 .. n /\ k - 1 \in 0 .. n /\ k \in 1 .. n
        BY <1>2, <2>0
      <4> QED BY <1>2, <2>0, <4>1 DEF Good
    <3>2. o[k] = o[k - 1] + Len(ss[k]) /\ ss[k] \in Seq(A)
      BY <1>3, <3>1
    <3>3. ASSUME NEW j \in 1 .. Len(ss[k]) PROVE f[m + 1][o[k - 1] + j] = ss[k][j]
      <4>1. o[k - 1] + j \in 1 .. Len(f[m])
        <5>0. Len(ss[k]) \in Nat /\ j \in Nat /\ 1 <= j /\ j <= Len(ss[k])
          BY <3>2
        <5>1. o[k - 1] + j \in Nat /\ o[k - 1] + j >= 1
          BY <3>1, <5>0
        <5>2. o[k - 1] + j <= o[k]
          BY <3>1, <3>2, <5>0
        <5>3. o[m] = Len(f[m]) /\ o[m] \in Nat
          BY <2>2
        <5> QED BY <3>1, <5>1, <5>2, <5>3
      <4>2. f[m + 1][o[k - 1] + j] = f[m][o[k - 1] + j]
        <5>1. \A x \in Seq(A), y \in Seq(A) : \A i \in 1 .. Len(x) : (x \o y)[i] = x[i]
          OBVIOUS
        <5> QED BY <2>2, <4>1, <5>1
      <4> QED BY <3>1, <4>2
    <3>4. o[k] <= o[m + 1]
      <4>1. o[m + 1] = o[m] + Len(ss[m + 1]) /\ o[m] \in Nat /\ Len(ss[m + 1]) \in Nat
        BY <2>2
      <4> QED BY <3>1, <4>1
    <3> QED BY <3>3, <3>4
  <2>4. /\ o[m + 1] <= o[m + 1]
        /\ \A j \in 1 .. Len(ss[m + 1]) : f[m + 1][o[(m + 1) - 1] + j] = ss[m + 1][j]
    <3>1. \A x \in Seq(A), y \in Seq(A) : \A i \in 1 .. Len(y) : (x \o y)[Len(x) + i] = y[i]
      OBVIOUS
    <3>2. ASSUME NEW j \in 1 .. Len(ss[m + 1])
          PROVE  f[m + 1][o[(m + 1) - 1] + j] = ss[m + 1][j]
      <4>1. (f[m] \o ss[m + 1])[Len(f[m]) + j] = ss[m + 1][j]
        BY <2>2, <3>1
      <4> QED BY <2>1, <2>2, <4>1
    <3>3. m + 1 \in 0 .. n
      BY <2>1
    <3>4. o[m + 1] \in Nat
      BY <1>2, <3>3
    <3> QED BY <3>2, <3>4
  <2>5. \A k \in 1 .. m + 1 : k \in 1 .. m \/ k = m + 1
    OBVIOUS
  <2> QED BY <2>3, <2>4, <2>5 DEF Good
<1> HIDE DEF Good
<1>7. \A m \in Nat : m \in I => m + 1 \in I
  BY <1>6
<1> HIDE DEF I
<1>8. n \in I
  BY <1>2, <1>5, <1>7, SetInduction
<1>9. Good(n)
  BY <1>2, <1>8 DEF I
<1>10. Offsets(ss, o)
  BY <1>2, <1>3 DEF Offsets
<1> QED
  BY <1>2, <1>4, <1>9, <1>10 DEF Good

-----------------------------------------------------------------------------
(* The pieces of a string.                                                 *)

LEMMA LetterIs ==
  ASSUME NEW v \in Variable
  PROVE  /\ Chars[v.type] \subseteq Letter /\ Chars[v.type] \cap {"COMMA", "NUL"} = {}
         /\ Dec \subseteq Letter /\ Hex \subseteq Letter
         /\ {"COMMA", "NUL", "-", "+", "x", "X", "QUOTE", "BACKSLASH", "n"} \subseteq Letter
<1>1. v.type \in DOMAIN Chars
  BY VarTypes, VarParserAssumption DEF Number
<1>2. Chars[v.type] \subseteq UNION {Chars[t] : t \in DOMAIN Chars}
  BY <1>1
<1>3. Chars[v.type] \cap {"COMMA", "NUL"} = {}
  BY <1>1, VarParserAssumption
<1>4. Dec \subseteq Hex
  BY DecIs
<1>5. Hex \subseteq Letter /\ Chars[v.type] \subseteq Letter
      /\ {"COMMA", "NUL", "-", "+", "x", "X", "QUOTE", "BACKSLASH", "n"} \subseteq Letter
  <2> DEFINE U == UNION {Chars[t] : t \in DOMAIN Chars}
  <2>1. Letter = U \cup Hex \cup {"COMMA", "NUL", "-", "+", "x", "X", "QUOTE", "BACKSLASH", "n"}
    BY DEF Letter
  <2> HIDE DEF U
  <2>2. Chars[v.type] \subseteq U
    BY <1>2 DEF U
  <2> QED BY <2>1, <2>2
<1> QED
  BY <1>3, <1>4, <1>5

LEMMA UnescapedIs ==
  /\ DOMAIN Unescaped = {"BACKSLASH", "QUOTE", "n"}
  /\ Unescaped["BACKSLASH"] = "BACKSLASH" /\ Unescaped["QUOTE"] = "QUOTE" /\ Unescaped["n"] = "LF"
BY DEF Unescaped

\* The characters of a string that stand for themselves.
Plain(v) == (Chars[v.type] \cup {"COMMA"}) \ {"QUOTE", "BACKSLASH"}

LEMMA PiecesAre ==
  ASSUME NEW v \in Variable
  PROVE  Pieces(v) = {[text |-> <<ch>>, value |-> ch] : ch \in Plain(v)}
                     \cup {[text |-> <<"BACKSLASH", e>>, value |-> Unescaped[e]] : e \in DOMAIN Unescaped}
BY UnescapedIs DEF Pieces, Plain

LEMMA PieceIs ==
  ASSUME NEW v \in Variable, NEW p \in Pieces(v)
  PROVE  /\ p.text \in Seq(Letter) /\ Len(p.text) \in {1, 2}
         /\ p.text[1] \notin {"QUOTE", "NUL"}
         /\ Len(p.text) = 1 => /\ p.text[1] \in Plain(v)
                               /\ p = [text |-> <<p.text[1]>>, value |-> p.text[1]]
         /\ Len(p.text) = 2 => /\ p.text[1] = "BACKSLASH" /\ p.text[2] \in DOMAIN Unescaped
                               /\ p = [text |-> <<"BACKSLASH", p.text[2]>>, value |-> Unescaped[p.text[2]]]
<1>1. CASE \E ch \in Plain(v) : p = [text |-> <<ch>>, value |-> ch]
  <2>1. PICK ch \in Plain(v) : p = [text |-> <<ch>>, value |-> ch]
    BY <1>1
  <2>2. p.text = <<ch>> /\ p.text[1] = ch /\ Len(p.text) = 1
    BY <2>1
  <2>3. ch \in Letter /\ ch \notin {"QUOTE", "NUL"}
    BY LetterIs DEF Plain
  <2>4. p.text \in Seq(Letter)
    BY <2>2, <2>3
  <2> QED BY <2>1, <2>2, <2>3, <2>4
<1>2. CASE \E e \in DOMAIN Unescaped : p = [text |-> <<"BACKSLASH", e>>, value |-> Unescaped[e]]
  <2>1. PICK e \in DOMAIN Unescaped : p = [text |-> <<"BACKSLASH", e>>, value |-> Unescaped[e]]
    BY <1>2
  <2>2. p.text = <<"BACKSLASH", e>> /\ p.text[1] = "BACKSLASH" /\ p.text[2] = e /\ Len(p.text) = 2
    BY <2>1
  <2>3. e \in Letter /\ "BACKSLASH" \in Letter
    BY UnescapedIs, LetterIs
  <2>4. p.text \in Seq(Letter)
    BY <2>2, <2>3
  <2> QED BY <2>1, <2>2, <2>4
<1> QED
  BY <1>1, <1>2, PiecesAre

Flat(ps) == FlattenSeq([i \in DOMAIN ps |-> ps[i].text])

LEMMA TextsAre ==
  ASSUME NEW v \in Variable, NEW ps \in Seq(Pieces(v))
  PROVE  /\ [i \in DOMAIN ps |-> ps[i].text] \in Seq(Seq(Letter))
         /\ Len([i \in DOMAIN ps |-> ps[i].text]) = Len(ps)
<1>1. DOMAIN ps = 1 .. Len(ps) /\ Len(ps) \in Nat
  OBVIOUS
<1>2. \A i \in DOMAIN ps : ps[i].text \in Seq(Letter)
  BY PieceIs
<1>3. [i \in 1 .. Len(ps) |-> ps[i].text] \in Seq(Seq(Letter))
  BY <1>1, <1>2
<1> QED BY <1>1, <1>3

LEMMA FlatIs ==
  ASSUME NEW v \in Variable, NEW ps \in Seq(Pieces(v))
  PROVE  /\ Flat(ps) \in Seq(Letter)
         /\ \A p \in Pieces(v) : Flat(Append(ps, p)) = Flat(ps) \o p.text
<1> DEFINE ss == [i \in DOMAIN ps |-> ps[i].text]
<1>1. ss \in Seq(Seq(Letter)) /\ Len(ss) = Len(ps)
  BY TextsAre
<1>2. Flat(ps) \in Seq(Letter)
  BY <1>1, PieceIs, FlattenAppend, <<>> \in Seq(Letter) DEF Flat
<1>3. ASSUME NEW p \in Pieces(v)
      PROVE  Flat(Append(ps, p)) = Flat(ps) \o p.text
  <2> DEFINE qs == Append(ps, p)
             ts == [i \in DOMAIN qs |-> qs[i].text]
  <2>1. qs \in Seq(Pieces(v)) /\ Len(qs) = Len(ps) + 1 /\ qs[Len(ps) + 1] = p
        /\ \A i \in 1 .. Len(ps) : qs[i] = ps[i]
    OBVIOUS
  <2> HIDE DEF qs
  <2>2. ts \in Seq(Seq(Letter)) /\ Len(ts) = Len(ps) + 1
    BY <2>1, TextsAre
  <2>3. p.text \in Seq(Letter)
    BY PieceIs
  <2>4. DOMAIN qs = 1 .. Len(ps) + 1 /\ DOMAIN ps = 1 .. Len(ps) /\ Len(ps) \in Nat
    BY <2>1
  <2>5. ts = Append(ss, p.text)
    <3>1. Append(ss, p.text) \in Seq(Seq(Letter)) /\ Len(Append(ss, p.text)) = Len(ps) + 1
      BY <1>1, <2>3
    <3>2. ASSUME NEW i \in 1 .. Len(ps) + 1
          PROVE  ts[i] = Append(ss, p.text)[i]
      <4>1. CASE i = Len(ps) + 1
        <5>1. ts[i] = p.text
          BY <2>1, <2>4, <4>1
        <5> QED BY <1>1, <2>3, <4>1, <5>1
      <4>2. CASE i \in 1 .. Len(ps)
        <5>1. ts[i] = ps[i].text
          BY <2>1, <2>4, <4>2
        <5>2. ss[i] = ps[i].text
          BY <2>4, <4>2
        <5> HIDE DEF ss
        <5> QED BY <1>1, <2>3, <4>2, <5>1, <5>2
      <4> QED BY <2>4, <4>1, <4>2
    <3> HIDE DEF ts, ss
    <3> QED BY <2>2, <3>1, <3>2
  <2> HIDE DEF ss
  <2> QED BY <1>1, <2>3, <2>5, FlattenAppend DEF Flat, ss, qs
<1> QED
  BY <1>2, <1>3

LEMMA FlatEmpty == Flat(<<>>) = <<>>
<1>1. [i \in DOMAIN <<>> |-> <<>>[i].text] = <<>>
  OBVIOUS
<1> QED BY <1>1 DEF Flat, FlattenSeq

\* Where the pieces are in the text.
PiecesAt(ps, o) ==
  /\ o[0] = 0 /\ Len(Flat(ps)) = o[Len(ps)]
  /\ \A k \in 1 .. Len(ps) :
       /\ o[k] = o[k - 1] + Len(ps[k].text) /\ o[k] <= o[Len(ps)]
       /\ \A j \in 1 .. Len(ps[k].text) : Flat(ps)[o[k - 1] + j] = ps[k].text[j]

LEMMA FlatOffsets ==
  ASSUME NEW v \in Variable, NEW ps \in Seq(Pieces(v))
  PROVE  \E o \in [0 .. Len(ps) -> Nat] : PiecesAt(ps, o)
<1> DEFINE ss == [i \in DOMAIN ps |-> ps[i].text]
<1>1. ss \in Seq(Seq(Letter)) /\ Len(ss) = Len(ps) /\ Flat(ps) = FlattenSeq(ss)
  BY TextsAre DEF Flat
<1>2. \A k \in 1 .. Len(ps) : ss[k] = ps[k].text
  OBVIOUS
<1> HIDE DEF ss
<1>3. PICK o \in [0 .. Len(ss) -> Nat] :
         /\ Offsets(ss, o) /\ Len(FlattenSeq(ss)) = o[Len(ss)]
         /\ \A k \in 1 .. Len(ss) :
              /\ o[k] <= o[Len(ss)]
              /\ \A j \in 1 .. Len(ss[k]) : FlattenSeq(ss)[o[k - 1] + j] = ss[k][j]
  BY <1>1, FlattenOffsets
<1>4. PiecesAt(ps, o)
  BY <1>1, <1>2, <1>3 DEF Offsets, PiecesAt
<1> QED
  BY <1>1, <1>3, <1>4

\* If the text of ps is where the text of qs and a closing quote begin, then qs
\* begins with ps.
LEMMA Decode ==
  ASSUME NEW v \in Variable, NEW ps \in Seq(Pieces(v)), NEW qs \in Seq(Pieces(v)),
         NEW s \in Seq(Letter), s = Flat(qs) \o <<"QUOTE">>,
         Len(Flat(ps)) <= Len(s),
         \A i \in 1 .. Len(Flat(ps)) : Flat(ps)[i] = s[i]
  PROVE  /\ Len(ps) <= Len(qs) /\ \A i \in 1 .. Len(ps) : ps[i] = qs[i]
         /\ Len(ps) = Len(qs) => Len(s) = Len(Flat(ps)) + 1 /\ s[Len(Flat(ps)) + 1] = "QUOTE"
         /\ Len(ps) < Len(qs) =>
              LET q == qs[Len(ps) + 1]
              IN  /\ Len(Flat(ps)) + Len(q.text) < Len(s)
                  /\ \A j \in 1 .. Len(q.text) : s[Len(Flat(ps)) + j] = q.text[j]
<1>1. PICK o \in [0 .. Len(ps) -> Nat] : PiecesAt(ps, o)
  BY FlatOffsets
<1>2. PICK r \in [0 .. Len(qs) -> Nat] : PiecesAt(qs, r)
  BY FlatOffsets
<1> DEFINE P == Flat(ps)
           Q == Flat(qs)
           m == Len(ps)
           n == Len(qs)
<1>3. P \in Seq(Letter) /\ Q \in Seq(Letter) /\ m \in Nat /\ n \in Nat
  BY FlatIs
<1>4. /\ Len(s) = Len(Q) + 1 /\ s[Len(Q) + 1] = "QUOTE"
      /\ \A i \in 1 .. Len(Q) : s[i] = Q[i]
  BY <1>3
<1>5. /\ o[0] = 0 /\ Len(P) = o[m]
      /\ \A k \in 1 .. m : /\ o[k] = o[k - 1] + Len(ps[k].text) /\ o[k] <= o[m]
                           /\ \A j \in 1 .. Len(ps[k].text) : P[o[k - 1] + j] = ps[k].text[j]
  BY <1>1 DEF PiecesAt
<1>6. /\ r[0] = 0 /\ Len(Q) = r[n]
      /\ \A k \in 1 .. n : /\ r[k] = r[k - 1] + Len(qs[k].text) /\ r[k] <= r[n]
                           /\ \A j \in 1 .. Len(qs[k].text) : Q[r[k - 1] + j] = qs[k].text[j]
  BY <1>2 DEF PiecesAt
<1>7. Len(P) <= Len(s) /\ \A i \in 1 .. Len(P) : P[i] = s[i]
  OBVIOUS
<1>8. ASSUME NEW k \in 1 .. m
      PROVE  /\ ps[k] \in Pieces(v) /\ o[k] \in Nat /\ o[k - 1] \in Nat
             /\ Len(ps[k].text) \in {1, 2}
             /\ \A j \in 1 .. Len(ps[k].text) : o[k - 1] + j \in 1 .. Len(P) /\ s[o[k - 1] + j] = ps[k].text[j]
  <2>1. ps[k] \in Pieces(v) /\ Len(ps[k].text) \in {1, 2}
    BY <1>3, PieceIs
  <2>2. k \in 0 .. m /\ k - 1 \in 0 .. m
    BY <1>3
  <2>3. o[k] \in Nat /\ o[k - 1] \in Nat
    BY <2>2
  <2>4. ASSUME NEW j \in 1 .. Len(ps[k].text)
        PROVE  o[k - 1] + j \in 1 .. Len(P) /\ s[o[k - 1] + j] = ps[k].text[j]
    <3>1. o[k - 1] + j \in 1 .. Len(P)
      <4>1. o[k] = o[k - 1] + Len(ps[k].text) /\ o[k] <= Len(P)
        BY <1>5
      <4>2. j <= Len(ps[k].text) /\ j \in Nat /\ j >= 1
        BY <2>1
      <4> QED BY <1>3, <2>1, <2>3, <4>1, <4>2
    <3> QED BY <1>5, <1>7, <3>1
  <2> QED BY <2>1, <2>3, <2>4
<1>9. ASSUME NEW k \in 1 .. n
      PROVE  /\ qs[k] \in Pieces(v) /\ r[k] \in Nat /\ r[k - 1] \in Nat
             /\ Len(qs[k].text) \in {1, 2} /\ r[k - 1] + Len(qs[k].text) <= Len(Q)
             /\ \A j \in 1 .. Len(qs[k].text) : s[r[k - 1] + j] = qs[k].text[j]
  <2>1. qs[k] \in Pieces(v) /\ Len(qs[k].text) \in {1, 2}
    BY <1>3, PieceIs
  <2>2. k \in 0 .. n /\ k - 1 \in 0 .. n
    BY <1>3
  <2>3. r[k] \in Nat /\ r[k - 1] \in Nat
    BY <2>2
  <2>5. r[k] = r[k - 1] + Len(qs[k].text) /\ r[k] <= Len(Q)
    BY <1>6
  <2>4. ASSUME NEW j \in 1 .. Len(qs[k].text)
        PROVE  s[r[k - 1] + j] = qs[k].text[j]
    <3>1. r[k - 1] + j \in 1 .. Len(Q)
      <4>2. j <= Len(qs[k].text) /\ j \in Nat /\ j >= 1
        BY <2>1
      <4> QED BY <1>3, <2>1, <2>3, <2>5, <4>2
    <3> QED BY <1>4, <1>6, <3>1
  <2> QED BY <2>1, <2>3, <2>4, <2>5
<1> DEFINE Same(k) == k <= n /\ o[k] = r[k] /\ \A i \in 1 .. k : ps[i] = qs[i]
           I == {k \in Nat : k <= m => Same(k)}
<1> HIDE DEF P, Q, m, n
<1>10. 0 \in I
  BY <1>3, <1>5, <1>6
<1>11. ASSUME NEW k \in Nat, k \in I PROVE k + 1 \in I
  <2> SUFFICES ASSUME k + 1 <= m PROVE Same(k + 1)
    OBVIOUS
  <2>1. k <= n /\ o[k] = r[k] /\ (\A i \in 1 .. k : ps[i] = qs[i])
        /\ k + 1 \in 1 .. m /\ (k + 1) - 1 = k
    BY <1>3, <1>11
  <2>0. \A l \in {1, 2} : 1 \in 1 .. l
    OBVIOUS
  <2> DEFINE p == ps[k + 1]
             q == qs[k + 1]
  <2>2. /\ p \in Pieces(v) /\ o[k + 1] \in Nat /\ o[k] \in Nat /\ Len(p.text) \in {1, 2}
        /\ o[k + 1] = o[k] + Len(p.text)
        /\ \A j \in 1 .. Len(p.text) : o[k] + j \in 1 .. Len(P) /\ s[o[k] + j] = p.text[j]
    <3>1. /\ p \in Pieces(v) /\ o[k + 1] \in Nat /\ o[(k + 1) - 1] \in Nat /\ Len(p.text) \in {1, 2}
          /\ \A j \in 1 .. Len(p.text) : o[(k + 1) - 1] + j \in 1 .. Len(P) /\ s[o[(k + 1) - 1] + j] = p.text[j]
      BY <1>8, <2>1, Zenon
    <3>2. o[k + 1] = o[(k + 1) - 1] + Len(p.text)
      BY <1>5, <2>1, Zenon
    <3> HIDE DEF p
    <3> QED BY <2>1, <3>1, <3>2, Zenon
  <2>3. k + 1 \in 1 .. n =>
          /\ q \in Pieces(v) /\ r[k + 1] \in Nat /\ Len(q.text) \in {1, 2}
          /\ r[k + 1] = r[k] + Len(q.text)
          /\ \A j \in 1 .. Len(q.text) : s[r[k] + j] = q.text[j]
    <3> SUFFICES ASSUME k + 1 \in 1 .. n
                 PROVE  /\ q \in Pieces(v) /\ r[k + 1] \in Nat /\ Len(q.text) \in {1, 2}
                        /\ r[k + 1] = r[k] + Len(q.text)
                        /\ \A j \in 1 .. Len(q.text) : s[r[k] + j] = q.text[j]
      OBVIOUS
    <3>1. /\ q \in Pieces(v) /\ r[k + 1] \in Nat /\ Len(q.text) \in {1, 2}
          /\ \A j \in 1 .. Len(q.text) : s[r[(k + 1) - 1] + j] = q.text[j]
      BY <1>9, Zenon
    <3>2. r[k + 1] = r[(k + 1) - 1] + Len(q.text)
      BY <1>6, Zenon
    <3> HIDE DEF q
    <3> QED BY <2>1, <3>1, <3>2, Zenon
  <2> HIDE DEF p, q
  <2>4. s[o[k] + 1] = p.text[1]
    <3>1. 1 \in 1 .. Len(p.text)
      BY <2>2, <2>0, Zenon
    <3> QED BY <2>2, <3>1
  <2>5. k # n
    <3>1. p.text[1] # "QUOTE"
      BY <2>2, PieceIs
    <3>2. k = n => o[k] = Len(Q)
      BY <1>6, <2>1
    <3> QED BY <1>4, <2>4, <3>1, <3>2
  <2>6. k + 1 \in 1 .. n
    BY <1>3, <2>1, <2>5
  <2>7. q \in Pieces(v) /\ Len(q.text) \in {1, 2} /\ \A j \in 1 .. Len(q.text) : s[o[k] + j] = q.text[j]
    BY <2>1, <2>3, <2>6
  <2>8. p.text[1] = q.text[1]
    <3>1. 1 \in 1 .. Len(q.text)
      BY <2>7, <2>0, Zenon
    <3> QED BY <2>4, <2>7, <3>1
  <2>9. Len(p.text) = Len(q.text)
    BY <2>2, <2>7, <2>8, PieceIs DEF Plain
  <2>10. p = q
    <3>1. CASE Len(p.text) = 1
      <4>1. p = [text |-> <<p.text[1]>>, value |-> p.text[1]]
        BY <2>2, <3>1, PieceIs
      <4>2. q = [text |-> <<q.text[1]>>, value |-> q.text[1]]
        BY <2>7, <2>9, <3>1, PieceIs
      <4> QED BY <2>8, <4>1, <4>2
    <3>2. CASE Len(p.text) = 2
      <4>1. 2 \in 1 .. Len(p.text) /\ 2 \in 1 .. Len(q.text)
        BY <2>9, <3>2
      <4>2. p.text[2] = q.text[2]
        <5>1. s[o[k] + 2] = p.text[2]
          BY <2>2, <4>1
        <5>2. s[o[k] + 2] = q.text[2]
          BY <2>7, <4>1
        <5> QED BY <5>1, <5>2
      <4>3. p = [text |-> <<"BACKSLASH", p.text[2]>>, value |-> Unescaped[p.text[2]]]
        BY <2>2, <3>2, PieceIs
      <4>4. q = [text |-> <<"BACKSLASH", q.text[2]>>, value |-> Unescaped[q.text[2]]]
        BY <2>7, <2>9, <3>2, PieceIs
      <4> QED BY <4>2, <4>3, <4>4
    <3> QED BY <2>2, <3>1, <3>2
  <2>11. o[k + 1] = r[k + 1]
    BY <2>1, <2>2, <2>3, <2>6, <2>10
  <2>12. \A i \in 1 .. k + 1 : ps[i] = qs[i]
    <3>1. \A i \in 1 .. k + 1 : i \in 1 .. k \/ i = k + 1
      OBVIOUS
    <3> QED BY <2>1, <2>10, <3>1 DEF p, q
  <2> QED BY <2>6, <2>11, <2>12
<1> HIDE DEF I
<1>12. m \in I
  BY <1>3, <1>10, <1>11, SetInduction
<1>13. m <= n /\ o[m] = r[m] /\ \A i \in 1 .. m : ps[i] = qs[i]
  BY <1>3, <1>12 DEF I
<1>14. m = n => Len(s) = Len(P) + 1 /\ s[Len(P) + 1] = "QUOTE"
  BY <1>4, <1>5, <1>6, <1>13
<1>15. ASSUME m < n
       PROVE  LET q == qs[m + 1]
              IN  /\ Len(P) + Len(q.text) < Len(s)
                  /\ \A j \in 1 .. Len(q.text) : s[Len(P) + j] = q.text[j]
  <2> DEFINE q == qs[m + 1]
  <2>1. m + 1 \in 1 .. n /\ (m + 1) - 1 = m /\ Len(P) = r[m]
    BY <1>3, <1>5, <1>13, <1>15
  <2>2. /\ Len(q.text) \in {1, 2} /\ r[m] + Len(q.text) <= Len(Q) /\ r[m] \in Nat
        /\ \A j \in 1 .. Len(q.text) : s[r[m] + j] = q.text[j]
    BY <1>9, <2>1
  <2>3. Len(Q) \in Nat
    BY <1>3
  <2> HIDE DEF q
  <2>4. Len(P) + Len(q.text) < Len(s)
    BY <1>4, <2>1, <2>2, <2>3
  <2>5. \A j \in 1 .. Len(q.text) : s[Len(P) + j] = q.text[j]
    BY <2>1, <2>2
  <2> QED BY <2>4, <2>5 DEF q
<1> QED
  BY <1>13, <1>14, <1>15 DEF P, Q, m, n

-----------------------------------------------------------------------------
(* The fields of each type, of any length.                                 *)

Signs == {<<>>, <<"+">>, <<"-">>}

SignedValue(sign, ds) == IF sign = <<"-">> THEN -Numeral(10, ds) ELSE Numeral(10, ds)

HexMarks == {<<"0", "x">>, <<"0", "X">>}

\* The i-th byte of a text of digits.
Byte(t, i) == Numeral(16, SubSeq(t, 2 * i - 1, 2 * i))

Values(ps) == [i \in DOMAIN ps |-> ps[i].value]

\* t is a field of v with the value x.
IsField(v, t, x) ==
  CASE v.type = "INT_DEC" ->
         \E sign \in Signs, ds \in Seq(Dec) \ {<<>>} : t = sign \o ds /\ x = SignedValue(sign, ds)
    [] v.type = "UINT_DEC" ->
         t \in Seq(Dec) \ {<<>>} /\ x = Numeral(10, t)
    [] v.type = "NUM_HEX" ->
         \E p \in HexMarks, ds \in Seq(Hex) \ {<<>>} : t = p \o ds /\ x = Numeral(16, ds)
    [] v.type = "BUF_HEX" ->
         t \in Seq(Hex) \ {<<>>} /\ Len(t) % 2 = 0 /\ x = [i \in 1 .. Len(t) \div 2 |-> Byte(t, i)]
    [] v.type = "BUF_STRING" ->
         \E ps \in Seq(Pieces(v)) : t = <<"QUOTE">> \o Flat(ps) \o <<"QUOTE">> /\ x = Values(ps)

LEMMA BoundedIs ==
  ASSUME NEW S, NEW n \in Nat
  PROVE  /\ \A s \in BoundedSeq(S, n) : s \in Seq(S) /\ Len(s) <= n
         /\ \A s \in Seq(S) : Len(s) <= n => s \in BoundedSeq(S, n)
<1>1. ASSUME NEW s \in BoundedSeq(S, n)
      PROVE  s \in Seq(S) /\ Len(s) <= n
  <2>1. PICK m \in 0 .. n : s \in [1 .. m -> S]
    BY DEF BoundedSeq, SeqOf
  <2> QED BY <2>1
<1>2. ASSUME NEW s \in Seq(S), Len(s) <= n
      PROVE  s \in BoundedSeq(S, n)
  <2>1. s \in [1 .. Len(s) -> S] /\ Len(s) \in 0 .. n
    BY <1>2
  <2> QED BY <2>1 DEF BoundedSeq, SeqOf
<1> QED
  BY <1>1, <1>2

LEMMA NumeralsAre ==
  ASSUME NEW v \in Variable
  PROVE  /\ \A ds \in Numerals(v, is_valid_dec_char) : ds \in Seq(Dec) \ {<<>>}
         /\ \A ds \in Numerals(v, is_valid_hex_char) : ds \in Seq(Hex) \ {<<>>}
         /\ \A ds \in (Seq(Dec) \cap Seq(Chars[v.type])) \ {<<>>} :
              Len(ds) <= MaxField => ds \in Numerals(v, is_valid_dec_char)
         /\ \A ds \in (Seq(Hex) \cap Seq(Chars[v.type])) \ {<<>>} :
              Len(ds) <= MaxField => ds \in Numerals(v, is_valid_hex_char)
<1> DEFINE D == {ch \in Chars[v.type] : is_valid_dec_char(to_upper(ch))}
           H == {ch \in Chars[v.type] : is_valid_hex_char(to_upper(ch))}
<1>1. D = Chars[v.type] \cap Dec /\ H = Chars[v.type] \cap Hex
  BY DecIs, HexIs
<1>2. /\ Numerals(v, is_valid_dec_char) = BoundedSeq(D, MaxField) \ {<<>>}
      /\ Numerals(v, is_valid_hex_char) = BoundedSeq(H, MaxField) \ {<<>>}
  BY DEF Numerals
<1> HIDE DEF D, H
<1>3. MaxField \in Nat
  BY VarParserAssumption
<1>4. \A S, T : Seq(S) \cap Seq(T) = Seq(S \cap T)
  OBVIOUS
<1>5. D \subseteq Dec /\ H \subseteq Hex
  BY <1>1
<1>6. Seq(D) \subseteq Seq(Dec) /\ Seq(H) \subseteq Seq(Hex)
  BY <1>5
<1> QED
  BY <1>1, <1>2, <1>3, <1>4, <1>6, BoundedIs

\* The fields that the runs look at are fields.
LEMMA FieldsAre ==
  ASSUME NEW v \in Variable, NEW f \in FieldsOf(v)
  PROVE  IsField(v, f.text, f.value)
<1>1. CASE v.type = "INT_DEC"
  <2>1. PICK sign \in {<<>>, <<"+">>, <<"-">>}, ds \in Numerals(v, is_valid_dec_char) :
          f = [text |-> sign \o ds, value |-> IF sign = <<"-">> THEN -Numeral(10, ds) ELSE Numeral(10, ds)]
    BY <1>1 DEF FieldsOf
  <2>2. ds \in Seq(Dec) \ {<<>>} /\ sign \in Signs
    BY NumeralsAre DEF Signs
  <2>3. f.text = sign \o ds /\ f.value = SignedValue(sign, ds)
    BY <2>1 DEF SignedValue
  <2> QED BY <1>1, <2>2, <2>3 DEF IsField
<1>2. CASE v.type = "UINT_DEC"
  <2>1. PICK ds \in Numerals(v, is_valid_dec_char) : f = [text |-> ds, value |-> Numeral(10, ds)]
    BY <1>2 DEF FieldsOf
  <2>2. ds \in Seq(Dec) \ {<<>>}
    BY NumeralsAre
  <2> QED BY <1>2, <2>1, <2>2 DEF IsField
<1>3. CASE v.type = "NUM_HEX"
  <2>1. PICK x \in {"x", "X"}, ds \in Numerals(v, is_valid_hex_char) :
          f = [text |-> <<"0", x>> \o ds, value |-> Numeral(16, ds)]
    BY <1>3 DEF FieldsOf
  <2>2. ds \in Seq(Hex) \ {<<>>} /\ <<"0", x>> \in HexMarks
    BY NumeralsAre DEF HexMarks
  <2>3. f.text = <<"0", x>> \o ds /\ f.value = Numeral(16, ds)
    BY <2>1
  <2> QED BY <1>3, <2>2, <2>3 DEF IsField
<1>4. CASE v.type = "BUF_HEX"
  <2>1. PICK ds \in Numerals(v, is_valid_hex_char) :
          /\ Len(ds) % 2 = 0
          /\ f = [text |-> ds, value |-> [i \in 1 .. Len(ds) \div 2 |-> Numeral(16, SubSeq(ds, 2 * i - 1, 2 * i))]]
    BY <1>4 DEF FieldsOf
  <2>2. ds \in Seq(Hex) \ {<<>>}
    BY NumeralsAre
  <2>3. f.text = ds /\ f.value = [i \in 1 .. Len(ds) \div 2 |-> Byte(ds, i)]
    BY <2>1 DEF Byte
  <2> QED BY <1>4, <2>1, <2>2, <2>3 DEF IsField
<1>5. CASE v.type = "BUF_STRING"
  <2>1. PICK ps \in BoundedSeq(Pieces(v), v.data_size) :
          f = [text |-> <<"QUOTE">> \o FlattenSeq([i \in DOMAIN ps |-> ps[i].text]) \o <<"QUOTE">>,
               value |-> [i \in DOMAIN ps |-> ps[i].value]]
    <3> DEFINE String(ps) ==
                 [text |-> <<"QUOTE">> \o FlattenSeq([i \in DOMAIN ps |-> ps[i].text]) \o <<"QUOTE">>,
                  value |-> [i \in DOMAIN ps |-> ps[i].value]]
               S == BoundedSeq(Pieces(v), v.data_size)
    <3>1. FieldsOf(v) = {String(ps) : ps \in S}
      BY <1>5 DEF FieldsOf
    <3> HIDE DEF String, S
    <3>2. \E ps \in S : f = String(ps)
      BY <3>1
    <3> QED BY <3>2 DEF String, S
  <2>2. ps \in Seq(Pieces(v))
    BY VarTypes, BoundedIs
  <2>3. f.text = <<"QUOTE">> \o Flat(ps) \o <<"QUOTE">> /\ f.value = Values(ps)
    BY <2>1 DEF Flat, Values
  <2> QED BY <1>5, <2>2, <2>3 DEF IsField
<1> QED
  BY <1>1, <1>2, <1>3, <1>4, <1>5, VarTypes

\* What carrying a field one character further means.
CarriesNext(t, ch, u) ==
  \/ Ends(ch) /\ u = t
  \/ Len(t) < Len(u) /\ u[Len(t) + 1] = ch /\ \A i \in 1 .. Len(t) : u[i] = t[i]

LEMMA CarriesIs ==
  ASSUME NEW t \in Seq(Letter), NEW ch \in Letter, NEW u \in Seq(Letter),
         text' = Append(t, ch), Carries(u)'
  PROVE  CarriesNext(t, ch, u)
<1> DEFINE w == Append(t, ch)
<1>1. /\ w \in Seq(Letter) /\ Len(w) = Len(t) + 1 /\ Len(t) \in Nat /\ w[Len(w)] = ch
      /\ \A i \in 1 .. Len(t) : w[i] = t[i]
  OBVIOUS
<1>2. CASE IsPrefix(w, u)
  <2>1. Len(w) <= Len(u) /\ SubSeq(w, 1, Len(w)) = SubSeq(u, 1, Len(w))
    BY <1>2 DEF IsPrefix
  <2>2. ASSUME NEW i \in 1 .. Len(w) PROVE u[i] = w[i]
    <3>1. SubSeq(w, 1, Len(w))[i] = w[i] /\ SubSeq(u, 1, Len(w))[i] = u[i]
      BY <1>1, <2>1
    <3> QED BY <2>1, <3>1
  <2>3. Len(w) \in 1 .. Len(w) /\ \A i \in 1 .. Len(t) : i \in 1 .. Len(w)
    BY <1>1
  <2> HIDE DEF w
  <2> QED BY <1>1, <2>1, <2>2, <2>3 DEF CarriesNext
<1>3. CASE Ends(Last(w)) /\ Front(w) = u
  <2>1. Last(w) = ch
    BY <1>1 DEF Last
  <2>2. Front(w) = t
    <3>1. Front(w) = SubSeq(w, 1, Len(t))
      BY <1>1 DEF Front
    <3> QED BY <1>1, <3>1
  <2> QED BY <1>3, <2>1, <2>2 DEF CarriesNext
<1> QED
  BY <1>2, <1>3 DEF Carries

-----------------------------------------------------------------------------
(* What the locals say of the text of a number.                            *)

\* A sign, if any, and digits, whose value is in the accumulator unless it
\* overflowed on the way.
ReadsInt(t, l) ==
  \E sign \in Signs, ds \in Seq(Dec) :
    /\ t = sign \o ds
    /\ l.ok <=> ds # <<>>
    /\ l.sign = IF sign = <<"-">> THEN -1 ELSE IF sign = <<"+">> \/ ds # <<>> THEN 1 ELSE 0
    /\ Numeral(10, ds) \in SignedWord => l.val = Numeral(10, ds)

LEMMA SignsAre ==
  ASSUME NEW sign \in Signs, NEW ds \in Seq(Dec)
  PROVE  LET t == sign \o ds
         IN  /\ t \in Seq(Letter) /\ Len(t) = Len(sign) + Len(ds) /\ Len(sign) \in {0, 1}
             /\ \A k \in 1 .. Len(t) : t[k] \in Dec \cup {"+", "-"}
             /\ \A k \in 1 .. Len(t) : t[k] \in {"+", "-"} => k = 1
             /\ sign = IF t # <<>> /\ t[1] \in {"+", "-"} THEN <<t[1]>> ELSE <<>>
             /\ \A k \in 1 .. Len(ds) : t[Len(sign) + k] = ds[k]
<1>1. Dec \subseteq Letter /\ Dec \cap {"+", "-"} = {} /\ {"+", "-"} \subseteq Letter
  BY DecIs DEF Letter
<1>2. \A k \in 1 .. Len(ds) : ds[k] \in Dec
  OBVIOUS
<1>3. CASE sign = <<>>
  <2>1. sign \o ds = ds
    BY <1>3
  <2> QED BY <1>1, <1>2, <1>3, <2>1
<1>4. ASSUME NEW c \in {"+", "-"}, sign = <<c>>
      PROVE  LET t == sign \o ds
             IN  /\ t \in Seq(Letter) /\ Len(t) = Len(sign) + Len(ds) /\ Len(sign) \in {0, 1}
                 /\ \A k \in 1 .. Len(t) : t[k] \in Dec \cup {"+", "-"}
                 /\ \A k \in 1 .. Len(t) : t[k] \in {"+", "-"} => k = 1
                 /\ sign = IF t # <<>> /\ t[1] \in {"+", "-"} THEN <<t[1]>> ELSE <<>>
                 /\ \A k \in 1 .. Len(ds) : t[Len(sign) + k] = ds[k]
  <2> DEFINE t == sign \o ds
  <2>1. /\ t \in Seq(Letter) /\ Len(t) = 1 + Len(ds) /\ Len(sign) = 1 /\ t[1] = c /\ Len(ds) \in Nat
        /\ \A k \in 2 .. Len(t) : t[k] = ds[k - 1]
        /\ \A k \in 1 .. Len(ds) : t[1 + k] = ds[k]
    BY <1>1, <1>4
  <2> HIDE DEF t
  <2>2. t # <<>>
    BY <2>1
  <2>3. \A k \in 2 .. Len(t) : t[k] \in Dec
    BY <1>2, <2>1
  <2>4. \A k \in 1 .. Len(t) : k = 1 \/ k \in 2 .. Len(t)
    OBVIOUS
  <2> QED BY <1>1, <1>4, <2>1, <2>2, <2>3, <2>4 DEF t
<1> QED
  BY <1>3, <1>4 DEF Signs

\* The sign that a text of a number begins with.
SignOf(t) == IF t # <<>> /\ t[1] \in {"+", "-"} THEN <<t[1]>> ELSE <<>>

LEMMA SignIs ==
  ASSUME NEW sign \in Signs, NEW ds \in Seq(Dec)
  PROVE  /\ sign = SignOf(sign \o ds) /\ Len(sign \o ds) = Len(sign) + Len(ds)
         /\ \A k \in 1 .. Len(ds) : (sign \o ds)[Len(sign) + k] = ds[k]
BY SignsAre DEF SignOf

LEMMA SignSplit ==
  ASSUME NEW sign \in Signs, NEW ds \in Seq(Dec), NEW other \in Signs, NEW es \in Seq(Dec),
         sign \o ds = other \o es
  PROVE  sign = other /\ ds = es
<1>3. /\ sign = SignOf(sign \o ds) /\ Len(sign \o ds) = Len(sign) + Len(ds)
      /\ \A k \in 1 .. Len(ds) : (sign \o ds)[Len(sign) + k] = ds[k]
  BY SignIs, Zenon
<1>5. /\ other = SignOf(other \o es) /\ Len(other \o es) = Len(other) + Len(es)
      /\ \A k \in 1 .. Len(es) : (other \o es)[Len(other) + k] = es[k]
  BY SignIs, Zenon
<1>1. sign = other
  BY <1>3, <1>5
<1>2. Len(ds) = Len(es) /\ \A k \in 1 .. Len(ds) : ds[k] = es[k]
  <2> DEFINE t == sign \o ds
             n == Len(sign)
  <2>1. n \in Nat /\ Len(ds) \in Nat /\ Len(es) \in Nat
    BY DEF Signs
  <2>2. Len(t) = n + Len(ds) /\ \A k \in 1 .. Len(ds) : t[n + k] = ds[k]
    BY <1>3
  <2>3. Len(t) = n + Len(es) /\ \A k \in 1 .. Len(es) : t[n + k] = es[k]
    BY <1>1, <1>5
  <2> HIDE DEF t, n
  <2>4. Len(ds) = Len(es)
    BY <2>1, <2>2, <2>3
  <2> QED BY <2>2, <2>3, <2>4
<1> QED
  BY <1>1, <1>2

LEMMA LettersAre ==
  /\ Dec \subseteq Letter /\ Hex \subseteq Letter
  /\ {"COMMA", "NUL", "-", "+", "x", "X", "QUOTE", "BACKSLASH", "n"} \subseteq Letter
  /\ Signs \subseteq Seq(Letter) /\ HexMarks \subseteq Seq(Letter)
<1>1. /\ Dec \subseteq Letter /\ Hex \subseteq Letter
      /\ {"COMMA", "NUL", "-", "+", "x", "X", "QUOTE", "BACKSLASH", "n"} \subseteq Letter
  BY DecIs DEF Letter
<1>2. "0" \in Letter
  BY <1>1, DigitOf, HexDigit[1] = "0" DEF HexDigit
<1>3. <<>> \in Seq(Letter) /\ <<"+">> \in Seq(Letter) /\ <<"-">> \in Seq(Letter)
  BY <1>1
<1>4. <<"0", "x">> \in Seq(Letter) /\ <<"0", "X">> \in Seq(Letter)
  BY <1>1, <1>2
<1> QED
  BY <1>1, <1>3, <1>4 DEF Signs, HexMarks

LEMMA AppendConcat ==
  ASSUME NEW A, NEW s \in Seq(A), NEW t \in Seq(A), NEW c \in A
  PROVE  Append(s \o t, c) = s \o Append(t, c)
OBVIOUS

LEMMA IntSign ==
  ASSUME NEW t, NEW l \in Locals, ReadsInt(t, l), l.sign = 0, NEW ch \in {"-", "+"}
  PROVE  ReadsInt(Append(t, ch), [l EXCEPT !.sign = IF ch = "-" THEN -1 ELSE 1])
<1>1. PICK sign \in Signs, ds \in Seq(Dec) :
        /\ t = sign \o ds
        /\ l.ok <=> ds # <<>>
        /\ l.sign = IF sign = <<"-">> THEN -1 ELSE IF sign = <<"+">> \/ ds # <<>> THEN 1 ELSE 0
        /\ Numeral(10, ds) \in SignedWord => l.val = Numeral(10, ds)
  BY DEF ReadsInt
<1> DEFINE m == [l EXCEPT !.sign = IF ch = "-" THEN -1 ELSE 1]
<1>2. sign = <<>> /\ ds = <<>> /\ t = <<>> /\ Append(t, ch) = <<ch>> \o <<>> /\ <<ch>> \in Signs
  <2>1. sign # <<"-">> /\ sign # <<"+">> /\ ds = <<>>
    BY <1>1
  <2>2. sign = <<>>
    BY <2>1 DEF Signs
  <2>3. t = <<>>
    BY <1>1, <2>1, <2>2
  <2> QED BY <2>1, <2>2, <2>3 DEF Signs
<1>3. m.ok = l.ok /\ m.val = l.val /\ m.sign = IF ch = "-" THEN -1 ELSE 1
  BY DEF Locals
<1> HIDE DEF m
<1>4. m.sign = IF <<ch>> = <<"-">> THEN -1 ELSE IF <<ch>> = <<"+">> \/ ds # <<>> THEN 1 ELSE 0
  BY <1>3
<1>5. ReadsInt(Append(t, ch), m)
  BY <1>1, <1>2, <1>3, <1>4 DEF ReadsInt
<1> QED BY <1>5 DEF m

LEMMA IntDigit ==
  ASSUME NEW t, NEW l \in Locals, ReadsInt(t, l), NEW ch \in Dec,
         NEW val \in Signed(10 * l.val + Digit(ch))
  PROVE  ReadsInt(Append(t, ch), [l EXCEPT !.sign = IF @ = 0 THEN 1 ELSE @, !.val = val, !.ok = TRUE])
<1>1. PICK sign \in Signs, ds \in Seq(Dec) :
        /\ t = sign \o ds
        /\ l.ok <=> ds # <<>>
        /\ l.sign = IF sign = <<"-">> THEN -1 ELSE IF sign = <<"+">> \/ ds # <<>> THEN 1 ELSE 0
        /\ Numeral(10, ds) \in SignedWord => l.val = Numeral(10, ds)
  BY DEF ReadsInt
<1> DEFINE m == [l EXCEPT !.sign = IF @ = 0 THEN 1 ELSE @, !.val = val, !.ok = TRUE]
           es == Append(ds, ch)
           N == Numeral(10, ds)
           d == Digit(ch)
<1>2. m.ok = TRUE /\ m.val = val /\ m.sign = IF l.sign = 0 THEN 1 ELSE l.sign
  BY DEF Locals
<1>3. es \in Seq(Dec) /\ es # <<>> /\ Append(t, ch) = sign \o es
  <2>1. sign \in Seq(Letter) /\ ds \in Seq(Letter) /\ ch \in Letter
    <3>1. sign \in Seq(Letter)
      BY LettersAre
    <3>2. ds \in Seq(Letter) /\ ch \in Letter
      BY LettersAre
    <3> QED BY <3>1, <3>2
  <2>2. Append(sign \o ds, ch) = sign \o es
    <3> HIDE DEF m, N, d
    <3> QED BY <2>1
  <2> QED BY <1>1, <2>2
<1>4. ch \in Hex /\ ds \in Seq(Hex) /\ to_upper(ch) = ch
  BY DecIs
<1>5. N \in Nat /\ Numeral(10, es) = 10 * N + d /\ d \in 0 .. 15
  BY <1>4, NumeralAppend, HexDigitIs
<1> HIDE DEF m, N, d
<1>6. ASSUME Numeral(10, es) \in SignedWord PROVE val = Numeral(10, es)
  <2>1. N \in SignedWord
    BY <1>5, <1>6, WordIs DEF SignedWord
  <2>2. 10 * l.val + d = 10 * N + d
    BY <1>1, <2>1 DEF N
  <2> QED BY <1>5, <1>6, <2>2 DEF Signed, d
<1>7. m.sign = IF sign = <<"-">> THEN -1 ELSE IF sign = <<"+">> \/ es # <<>> THEN 1 ELSE 0
  BY <1>1, <1>2, <1>3
<1>8. ReadsInt(Append(t, ch), m)
  BY <1>2, <1>3, <1>6, <1>7 DEF ReadsInt
<1> QED BY <1>8 DEF m

\* The end of a number is where its digits are read.
LEMMA IntEnd ==
  ASSUME NEW v \in Variable, v.type = "INT_DEC",
         NEW t, NEW l \in Locals, ReadsInt(t, l)
  PROVE  /\ l.ok => \E x : IsField(v, t, x)
         /\ \A x : IsField(v, t, x) =>
              /\ l.ok
              /\ {x, -x} \subseteq SignedWord => \A n \in Signed(l.val * l.sign) : n = x
<1>1. PICK sign \in Signs, ds \in Seq(Dec) :
        /\ t = sign \o ds
        /\ l.ok <=> ds # <<>>
        /\ l.sign = IF sign = <<"-">> THEN -1 ELSE IF sign = <<"+">> \/ ds # <<>> THEN 1 ELSE 0
        /\ Numeral(10, ds) \in SignedWord => l.val = Numeral(10, ds)
  BY DEF ReadsInt
<1>2. l.ok => \E x : IsField(v, t, x)
  BY <1>1 DEF IsField
<1>3. ASSUME NEW x, IsField(v, t, x)
      PROVE  l.ok /\ x = SignedValue(sign, ds)
  <2>1. PICK other \in Signs, es \in Seq(Dec) \ {<<>>} : t = other \o es /\ x = SignedValue(other, es)
    BY <1>3 DEF IsField
  <2>2. sign = other /\ ds = es
    BY <1>1, <2>1, SignSplit
  <2> QED BY <1>1, <2>1, <2>2
<1>4. ASSUME NEW x, IsField(v, t, x), {x, -x} \subseteq SignedWord,
             NEW n \in Signed(l.val * l.sign)
      PROVE  n = x
  <2> DEFINE N == Numeral(10, ds)
  <2>1. N \in Nat
    <3>1. ds \in Seq(Hex)
      BY DecIs
    <3>2. "0" \in Hex
      BY DigitOf, HexDigit[1] = "0" DEF HexDigit
    <3> QED BY <3>1, <3>2, NumeralAppend
  <2>2. x = (IF sign = <<"-">> THEN -N ELSE N) /\ l.ok
    BY <1>3, <1>4 DEF SignedValue
  <2> HIDE DEF N
  <2>3. N \in SignedWord
    <3>1. -(-N) = N
      BY <2>1
    <3> QED BY <1>4, <2>2, <3>1
  <2>4. l.val = N
    BY <1>1, <2>3 DEF N
  <2>5. l.sign = IF sign = <<"-">> THEN -1 ELSE 1
    BY <1>1, <2>2
  <2>6. l.val * l.sign = x
    BY <2>1, <2>2, <2>4, <2>5
  <2> QED BY <1>4, <2>6 DEF Signed
<1> QED
  BY <1>2, <1>3, <1>4

\* What comes next in a field, or behind it.
LEMMA IntCarries ==
  ASSUME NEW v \in Variable, v.type = "INT_DEC",
         NEW t, NEW l \in Locals, ReadsInt(t, l),
         NEW u, NEW x, IsField(v, u, x), NEW ch, CarriesNext(t, ch, u)
  PROVE  \/ ch \in Dec
         \/ l.sign = 0 /\ ch \in {"-", "+"}
         \/ /\ l.ok /\ Ends(ch)
            /\ {x, -x} \subseteq SignedWord => \A n \in Signed(l.val * l.sign) : n = x
<1>1. CASE Ends(ch) /\ u = t
  BY <1>1, IntEnd
<1>2. CASE Len(t) < Len(u) /\ u[Len(t) + 1] = ch
  <2>1. PICK sign \in Signs, ds \in Seq(Dec) :
          /\ t = sign \o ds
          /\ l.sign = IF sign = <<"-">> THEN -1 ELSE IF sign = <<"+">> \/ ds # <<>> THEN 1 ELSE 0
    BY DEF ReadsInt
  <2>2. PICK other \in Signs, es \in Seq(Dec) : u = other \o es
    BY DEF IsField
  <2>3. Len(t) \in Nat /\ Len(u) \in Nat /\ Len(t) = Len(sign) + Len(ds) /\ Len(sign) \in {0, 1}
    BY <2>1, <2>2, SignsAre
  <2>4. Len(t) + 1 \in 1 .. Len(u)
    BY <1>2, <2>3
  <2>5. u[Len(t) + 1] \in Dec \cup {"+", "-"} /\ (u[Len(t) + 1] \in {"+", "-"} => Len(t) + 1 = 1)
    BY <2>2, <2>4, SignsAre
  <2>6. Len(t) = 0 => sign = <<>> /\ ds = <<>>
    BY <2>3 DEF Signs
  <2>7. sign = <<>> /\ ds = <<>> => l.sign = 0
    BY <2>1
  <2> QED BY <1>2, <2>3, <2>5, <2>6, <2>7
<1> QED
  BY <1>1, <1>2 DEF CarriesNext

-----------------------------------------------------------------------------
(* Remainders.                                                             *)

LEMMA DivMod ==
  ASSUME NEW y \in Nat, NEW w \in Nat \ {0}
  PROVE  y = w * (y \div w) + (y % w)
OBVIOUS

LEMMA RemainderUnique ==
  ASSUME NEW w \in Nat \ {0}, NEW q \in Int, NEW r \in Int, NEW s \in Int, NEW p \in Int,
         0 <= r, r < w, 0 <= s, s < w, w * q + r = w * p + s
  PROVE  r = s
<1>1. w * (q - p) = s - r
  OBVIOUS
<1>2. q - p >= 1 => w * (q - p) >= w
  OBVIOUS
<1>3. q - p <= -1 => w * (q - p) <= -w
  OBVIOUS
<1>4. CASE q - p = 0
  BY <1>1, <1>4
<1> QED BY <1>1, <1>2, <1>3, <1>4

\* Digits may be added to the remainder as well.
LEMMA ModStep ==
  ASSUME NEW N \in Nat, NEW d \in Nat, NEW w \in Nat \ {0}, NEW b \in Nat
  PROVE  (b * (N % w) + d) % w = (b * N + d) % w
<1> DEFINE q == N \div w
           r == N % w
           y == b * r + d
           z == b * N + d
<1>1. N = w * q + r /\ q \in Int /\ r \in Nat
  BY DivMod
<1> HIDE DEF q, r
<1>2. y \in Nat /\ z \in Nat
  BY <1>1
<1>3. z = w * (b * q) + y
  <2>1. b * N = b * (w * q) + b * r
    BY <1>1
  <2>2. b * (w * q) = w * (b * q)
    BY <1>1
  <2>3. b * N \in Int /\ b * r \in Int /\ w * (b * q) \in Int
    BY <1>1
  <2> DEFINE bn == b * N
             br == b * r
             wbq == w * (b * q)
  <2>4. bn = wbq + br
    BY <2>1, <2>2
  <2>5. bn \in Int /\ br \in Int /\ wbq \in Int
    BY <2>3
  <2>6. z = bn + d /\ y = br + d
    OBVIOUS
  <2> HIDE DEF bn, br, wbq, y, z
  <2>7. z = wbq + y
    BY <2>4, <2>5, <2>6
  <2> QED BY <2>7 DEF wbq
<1>8. b * q \in Int
  BY <1>1
<1> HIDE DEF y, z
<1>4. y = w * (y \div w) + (y % w) /\ z = w * (z \div w) + (z % w)
  BY <1>2, DivMod
<1>5. /\ y % w \in Int /\ 0 <= y % w /\ y % w < w /\ z % w \in Int /\ 0 <= z % w /\ z % w < w
      /\ y \div w \in Int /\ z \div w \in Int
  BY <1>2
<1> DEFINE k == b * q
           yd == y \div w
           ym == y % w
           zd == z \div w
           zm == z % w
<1> HIDE DEF k, yd, ym, zd, zm
<1>6. w * (k + yd) = w * k + w * yd /\ k + yd \in Int
  BY <1>5, <1>8 DEF k, yd
<1>7. w * (k + yd) + ym = w * zd + zm
  BY <1>3, <1>4, <1>5, <1>6, <1>8 DEF k, yd, ym, zd, zm
<1>9. ym = zm
  BY <1>5, <1>6, <1>7, RemainderUnique DEF yd, ym, zd, zm
<1> QED BY <1>9 DEF ym, zm, y, z, r

-----------------------------------------------------------------------------
(* Unsigned numbers.                                                       *)

\* Digits, whose value is in the accumulator modulo its word.
ReadsUint(t, l) ==
  t \in Seq(Dec) /\ (l.ok <=> t # <<>>) /\ l.val = Numeral(10, t) % Word

LEMMA NumeralNat ==
  ASSUME NEW b \in Nat, NEW ds \in Seq(Hex)
  PROVE  Numeral(b, ds) \in Nat
<1>1. "0" \in Hex
  BY DigitOf, HexDigit[1] = "0" DEF HexDigit
<1> QED BY <1>1, NumeralAppend

LEMMA NumeralMod ==
  ASSUME NEW b \in Nat, NEW ds \in Seq(Hex), NEW ch \in Hex
  PROVE  (b * (Numeral(b, ds) % Word) + Digit(to_upper(ch))) % Word = Numeral(b, Append(ds, ch)) % Word
<1> DEFINE N == Numeral(b, ds)
           d == Digit(to_upper(ch))
<1>1. N \in Nat /\ d \in Nat /\ Word \in Nat \ {0}
  <2>1. N \in Nat
    BY NumeralNat
  <2>2. d \in Nat
    BY HexDigitIs
  <2> QED BY <2>1, <2>2, WordIs
<1>2. Numeral(b, Append(ds, ch)) = b * N + d
  BY NumeralAppend
<1> HIDE DEF N, d
<1>3. (b * (N % Word) + d) % Word = (b * N + d) % Word
  <2>1. N \in Nat /\ d \in Nat /\ Word \in Nat \ {0}
    BY <1>1
  <2>2. \A w \in Nat \ {0}, j \in Nat, k \in Nat, a \in Nat : (a * (j % w) + k) % w = (a * j + k) % w
    BY ModStep, Zenon
  <2> QED BY <2>1, <2>2, Zenon
<1> QED BY <1>2, <1>3 DEF N, d

LEMMA UintDigit ==
  ASSUME NEW t, NEW l \in Locals, ReadsUint(t, l), NEW ch \in Dec
  PROVE  ReadsUint(Append(t, ch), [l EXCEPT !.val = (10 * @ + Digit(ch)) % Word, !.ok = TRUE])
<1> DEFINE m == [l EXCEPT !.val = (10 * @ + Digit(ch)) % Word, !.ok = TRUE]
           es == Append(t, ch)
<1>1. m.ok = TRUE /\ m.val = (10 * l.val + Digit(ch)) % Word
  BY DEF Locals
<1>2. t \in Seq(Hex) /\ ch \in Hex /\ to_upper(ch) = ch
  BY DecIs DEF ReadsUint
<1>3. (10 * l.val + Digit(ch)) % Word = Numeral(10, es) % Word
  BY <1>2, NumeralMod DEF ReadsUint
<1>4. es \in Seq(Dec) /\ es # <<>>
  <2>1. t \in Seq(Dec)
    BY DEF ReadsUint
  <2> QED BY <2>1, AppendProperties, Zenon
<1> HIDE DEF m, es
<1> QED BY <1>1, <1>3, <1>4 DEF ReadsUint, m, es

LEMMA UintEnd ==
  ASSUME NEW v \in Variable, v.type = "UINT_DEC", NEW t, NEW l \in Locals, ReadsUint(t, l)
  PROVE  /\ l.ok => \E x : IsField(v, t, x)
         /\ \A x : IsField(v, t, x) => l.ok /\ x % Word = l.val
BY DEF ReadsUint, IsField

LEMMA UintCarries ==
  ASSUME NEW v \in Variable, v.type = "UINT_DEC", NEW t, NEW l \in Locals, ReadsUint(t, l),
         NEW u, NEW x, IsField(v, u, x), NEW ch, CarriesNext(t, ch, u)
  PROVE  ch \in Dec \/ (l.ok /\ Ends(ch) /\ x % Word = l.val)
<1>1. CASE Ends(ch) /\ u = t
  BY <1>1, UintEnd
<1>2. CASE Len(t) < Len(u) /\ u[Len(t) + 1] = ch
  <2>1. u \in Seq(Dec) /\ t \in Seq(Dec)
    BY DEF IsField, ReadsUint
  <2>2. Len(t) + 1 \in 1 .. Len(u)
    BY <1>2, <2>1
  <2> QED BY <1>2, <2>1, <2>2
<1> QED
  BY <1>1, <1>2 DEF CarriesNext

-----------------------------------------------------------------------------
(* Hexadecimal numbers.                                                    *)

\* The state counts the characters of the mark; then come digits.
ReadsNumHex(t, l) ==
  /\ l.state = 0 => t = <<>>
  /\ l.state = 1 => t = <<"0">>
  /\ l.state < 2 => l.val = 0
  /\ l.state >= 2 =>
       \E p \in HexMarks, ds \in Seq(Hex) :
         t = p \o ds /\ (l.state = 3 <=> ds # <<>>) /\ l.val = Numeral(16, ds) % Word

LEMMA UpperIs ==
  /\ \A ch : to_upper(ch) = "0" <=> ch = "0"
  /\ \A ch : to_upper(ch) = "X" <=> ch \in {"x", "X"}
  /\ \A ch : Ends(to_upper(ch)) <=> Ends(ch)
<1>1. DOMAIN Upper = {"a", "b", "c", "d", "e", "f", "x"}
  BY DEF Upper
<1>2. /\ Upper["a"] = "A" /\ Upper["b"] = "B" /\ Upper["c"] = "C" /\ Upper["d"] = "D"
      /\ Upper["e"] = "E" /\ Upper["f"] = "F" /\ Upper["x"] = "X"
  BY DEF Upper
<1> QED
  BY <1>1, <1>2 DEF to_upper, Ends

LEMMA AppendedIs ==
  ASSUME NEW S, NEW z \in Seq(S), NEW c \in S
  PROVE  Len(z) = 1 => 
           LET e == Append(z, c)
           IN  e \in Seq(S) /\ Len(e) = 2 /\ e[1] = z[1] /\ e[2] = c
<1> DEFINE e == Append(z, c)
<1>1. e \in Seq(S)
  OBVIOUS
<1>2. Len(e) = Len(z) + 1
  OBVIOUS
<1>3. e[Len(z) + 1] = c
  OBVIOUS
<1>4. \A i \in 1 .. Len(z) : e[i] = z[i]
  OBVIOUS
<1> HIDE DEF e
<1>5. Len(z) = 1 => e[1] = z[1]
  BY <1>4
<1>6. Len(z) = 1 => e[2] = c
  BY <1>3
<1> QED BY <1>1, <1>2, <1>5, <1>6 DEF e

LEMMA AppendSecond ==
  ASSUME NEW S, NEW z \in Seq(S), Len(z) = 1, NEW c \in S
  PROVE  Append(z, c) = <<z[1], c>>
<1> DEFINE e == Append(z, c)
<1>1. e \in Seq(S) /\ Len(e) = 2 /\ e[1] = z[1] /\ e[2] = c
  BY AppendedIs
<1> HIDE DEF e
<1>2. e = <<e[1], e[2]>>
  BY <1>1
<1> QED BY <1>1, <1>2 DEF e

LEMMA AppendTwo ==
  ASSUME NEW a, NEW c
  PROVE  Append(<<a>>, c) = <<a, c>>
<1> DEFINE z == <<a>>
           S == {a, c}
<1>1. z \in Seq(S) /\ Len(z) = 1 /\ c \in S /\ z[1] = a
  OBVIOUS
<1> HIDE DEF z, S
<1>2. Append(z, c) = <<z[1], c>>
  BY <1>1, AppendSecond
<1> QED BY <1>1, <1>2 DEF z

LEMMA HexPrefix ==
  ASSUME NEW t, NEW l \in Locals, ReadsNumHex(t, l), l.state < 2,
         NEW ch, to_upper(ch) = <<"0", "X">>[l.state + 1]
  PROVE  ReadsNumHex(Append(t, ch), [l EXCEPT !.state = @ + 1])
<1> DEFINE m == [l EXCEPT !.state = @ + 1]
<1>1. m.state = l.state + 1 /\ m.val = l.val /\ l.state \in 0 .. 3
  BY DEF Locals
<1>2. l.val = 0
  BY DEF ReadsNumHex
<1> HIDE DEF m
<1>3. CASE l.state = 0
  <2>1. ch = "0" /\ Append(t, ch) = <<"0">>
    BY <1>3, UpperIs DEF ReadsNumHex
  <2>2. ReadsNumHex(Append(t, ch), m)
    BY <1>1, <1>2, <1>3, <2>1 DEF ReadsNumHex
  <2> QED BY <2>2 DEF m
<1>4. CASE l.state = 1
  <2>1. ch \in {"x", "X"} /\ t = <<"0">>
    BY <1>4, UpperIs DEF ReadsNumHex
  <2>2. <<"0", ch>> \in HexMarks /\ Append(t, ch) = <<"0", ch>> \o <<>>
    <3>1. <<"0", ch>> \in HexMarks
      BY <2>1 DEF HexMarks
    <3>2. Append(t, ch) = <<"0", ch>>
      <4>1. t = <<"0">>
        BY <2>1
      <4>2. Append(<<"0">>, ch) = <<"0", ch>>
        BY AppendTwo
      <4> QED BY <4>1, <4>2
    <3>3. <<"0", ch>> \o <<>> = <<"0", ch>>
      BY <3>1, LettersAre
    <3> QED BY <3>1, <3>2, <3>3
  <2>3. Numeral(16, <<>>) = 0 /\ 0 % Word = 0
    BY NumeralEmpty, WordIs
  <2>4. ReadsNumHex(Append(t, ch), m)
    <3>1. m.state = 2 /\ m.val = Numeral(16, <<>>) % Word
      BY <1>1, <1>2, <1>4, <2>3
    <3>2. <<>> \in Seq(Hex)
      OBVIOUS
    <3>3. \E p \in HexMarks, ds \in Seq(Hex) :
            Append(t, ch) = p \o ds /\ (m.state = 3 <=> ds # <<>>) /\ m.val = Numeral(16, ds) % Word
      <4>1. m.state # 3
        BY <3>1
      <4> QED BY <2>2, <3>1, <3>2, <4>1, Zenon
    <3>4. m.state # 0 /\ m.state # 1 /\ ~(m.state < 2)
      BY <3>1
    <3> QED BY <3>3, <3>4, Zenon DEF ReadsNumHex
  <2> QED BY <2>4 DEF m
<1> QED
  BY <1>1, <1>3, <1>4

LEMMA HexDigitRead ==
  ASSUME NEW t, NEW l \in Locals, ReadsNumHex(t, l), l.state >= 2, NEW ch \in Hex
  PROVE  ReadsNumHex(Append(t, ch), [l EXCEPT !.val = (16 * @ + Digit(to_upper(ch))) % Word, !.state = 3])
<1> DEFINE m == [l EXCEPT !.val = (16 * @ + Digit(to_upper(ch))) % Word, !.state = 3]
<1>1. m.state = 3 /\ m.val = (16 * l.val + Digit(to_upper(ch))) % Word
  BY DEF Locals
<1> HIDE DEF m
<1>2. PICK p \in HexMarks, ds \in Seq(Hex) : t = p \o ds /\ l.val = Numeral(16, ds) % Word
  BY DEF ReadsNumHex
<1> DEFINE es == Append(ds, ch)
<1>3. es \in Seq(Hex) /\ es # <<>>
  BY AppendProperties, Zenon
<1>4. Append(t, ch) = p \o es
  <2>1. p \in Seq(Letter)
    BY LettersAre
  <2>2. ds \in Seq(Letter) /\ ch \in Letter
    BY LettersAre
  <2> QED BY <1>2, <2>1, <2>2
<1>5. m.val = Numeral(16, es) % Word
  BY <1>1, <1>2, NumeralMod
<1>6. ReadsNumHex(Append(t, ch), m)
  <2> HIDE DEF es
  <2>1. \E r \in HexMarks, cs \in Seq(Hex) :
          Append(t, ch) = r \o cs /\ (m.state = 3 <=> cs # <<>>) /\ m.val = Numeral(16, cs) % Word
    BY <1>1, <1>3, <1>4, <1>5
  <2>2. m.state # 0 /\ m.state # 1 /\ ~(m.state < 2)
    BY <1>1
  <2> QED BY <2>1, <2>2, Zenon DEF ReadsNumHex
<1> QED BY <1>6 DEF m

LEMMA HexMarksAre ==
  ASSUME NEW p \in HexMarks, NEW ds \in Seq(Hex)
  PROVE  LET t == p \o ds
         IN  /\ t \in Seq(Letter) /\ Len(t) = 2 + Len(ds) /\ t[1] = "0" /\ t[2] \in {"x", "X"}
             /\ p = <<t[1], t[2]>>
             /\ \A k \in 1 .. Len(ds) : t[2 + k] = ds[k]
             /\ \A k \in 3 .. Len(t) : t[k] \in Hex
<1> DEFINE t == p \o ds
<1>1. PICK c \in {"x", "X"} : p = <<"0", c>>
  BY DEF HexMarks
<1>2. ds \in Seq(Letter) /\ p \in Seq(Letter)
  BY LettersAre
<1>3. Len(p) = 2 /\ p[1] = "0" /\ p[2] = c
  BY <1>1
<1>4. /\ t \in Seq(Letter) /\ Len(t) = 2 + Len(ds) /\ t[1] = "0" /\ t[2] = c /\ Len(ds) \in Nat
      /\ \A k \in 1 .. Len(ds) : t[2 + k] = ds[k]
      /\ \A k \in 3 .. Len(t) : t[k] = ds[k - 2]
  <2>0. /\ t \in Seq(Letter) /\ Len(t) = Len(p) + Len(ds)
        /\ \A i \in 1 .. Len(p) + Len(ds) : t[i] = IF i <= Len(p) THEN p[i] ELSE ds[i - Len(p)]
    BY <1>2, ConcatProperties, Zenon
  <2> HIDE DEF t
  <2>1. t \in Seq(Letter) /\ Len(t) = 2 + Len(ds) /\ Len(ds) \in Nat
    BY <1>3, <2>0
  <2>2. t[1] = "0" /\ t[2] = c
    <3>1. 1 \in 1 .. Len(p) + Len(ds) /\ 2 \in 1 .. Len(p) + Len(ds) /\ 1 <= Len(p) /\ 2 <= Len(p)
      BY <1>3, <2>1
    <3> QED BY <1>3, <2>0, <3>1
  <2>3. ASSUME NEW k \in 1 .. Len(ds) PROVE t[2 + k] = ds[k]
    <3>1. 2 + k \in 1 .. Len(p) + Len(ds) /\ ~(2 + k <= Len(p)) /\ (2 + k) - Len(p) = k
      BY <1>3, <2>1
    <3> QED BY <2>0, <3>1
  <2>4. ASSUME NEW k \in 3 .. Len(t) PROVE t[k] = ds[k - 2]
    <3>1. k - 2 \in 1 .. Len(ds) /\ 2 + (k - 2) = k
      BY <2>1
    <3> QED BY <2>3, <3>1
  <2> QED BY <2>1, <2>2, <2>3, <2>4
<1> HIDE DEF t
<1>5. ASSUME NEW k \in 3 .. Len(t) PROVE t[k] \in Hex
  <2>1. k - 2 \in 1 .. Len(ds)
    BY <1>4
  <2> QED BY <1>4, <2>1
<1> QED
  BY <1>1, <1>4, <1>5 DEF t

LEMMA NumHexEnd ==
  ASSUME NEW v \in Variable, v.type = "NUM_HEX", NEW t, NEW l \in Locals, ReadsNumHex(t, l)
  PROVE  /\ l.state = 3 => \E x : IsField(v, t, x)
         /\ \A x : IsField(v, t, x) => l.state = 3 /\ x % Word = l.val
<1>1. l.state = 3 => \E x : IsField(v, t, x)
  <2> SUFFICES ASSUME l.state = 3 PROVE \E x : IsField(v, t, x)
    OBVIOUS
  <2>1. PICK p \in HexMarks, ds \in Seq(Hex) : t = p \o ds /\ ds # <<>>
    BY DEF ReadsNumHex
  <2>2. IsField(v, t, Numeral(16, ds))
    BY <2>1 DEF IsField
  <2> QED BY <2>2
<1>2. ASSUME NEW x, IsField(v, t, x) PROVE l.state = 3 /\ x % Word = l.val
  <2>1. PICK q \in HexMarks, es \in Seq(Hex) \ {<<>>} : t = q \o es /\ x = Numeral(16, es)
    BY <1>2 DEF IsField
  <2>2. Len(t) = 2 + Len(es) /\ Len(es) > 0 /\ \A k \in 1 .. Len(es) : t[2 + k] = es[k]
    BY <2>1, HexMarksAre
  <2>3. l.state >= 2
    <3>1. l.state \in 0 .. 3
      BY DEF Locals
    <3>2. l.state \in {0, 1} => Len(t) <= 1
      <4>1. t = <<>> => Len(t) = 0
        OBVIOUS
      <4>2. t = <<"0">> => Len(t) = 1
        OBVIOUS
      <4>3. l.state = 0 => t = <<>>
        BY DEF ReadsNumHex
      <4>4. l.state = 1 => t = <<"0">>
        BY DEF ReadsNumHex
      <4>5. l.state = 0 => Len(t) <= 1
        BY <4>1, <4>3
      <4>6. l.state = 1 => Len(t) <= 1
        <5>1. l.state = 1 => Len(t) = 1
          BY <4>2, <4>4, Zenon
        <5> QED BY <5>1
      <4> QED BY <4>5, <4>6
    <3> QED BY <2>2, <3>1, <3>2
  <2>4. PICK p \in HexMarks, ds \in Seq(Hex) :
          t = p \o ds /\ (l.state = 3 <=> ds # <<>>) /\ l.val = Numeral(16, ds) % Word
    BY <2>3 DEF ReadsNumHex
  <2>5. Len(t) = 2 + Len(ds) /\ \A k \in 1 .. Len(ds) : t[2 + k] = ds[k]
    BY <2>4, HexMarksAre
  <2>6. ds = es
    BY <2>2, <2>5
  <2> QED BY <2>1, <2>4, <2>6
<1> QED
  BY <1>1, <1>2

LEMMA NumHexCarries ==
  ASSUME NEW v \in Variable, v.type = "NUM_HEX", NEW t, NEW l \in Locals, ReadsNumHex(t, l),
         NEW u, NEW x, IsField(v, u, x), NEW ch, CarriesNext(t, ch, u)
  PROVE  \/ l.state < 2 /\ to_upper(ch) = <<"0", "X">>[l.state + 1]
         \/ l.state >= 2 /\ ch \in Hex
         \/ l.state = 3 /\ Ends(ch) /\ x % Word = l.val
<1>1. CASE Ends(ch) /\ u = t
  BY <1>1, NumHexEnd
<1>2. CASE Len(t) < Len(u) /\ u[Len(t) + 1] = ch
  <2>1. PICK q \in HexMarks, es \in Seq(Hex) : u = q \o es
    BY DEF IsField
  <2>2. u \in Seq(Letter) /\ u[1] = "0" /\ u[2] \in {"x", "X"} /\ \A k \in 3 .. Len(u) : u[k] \in Hex
    BY <2>1, HexMarksAre
  <2>3. l.state \in 0 .. 3
    BY DEF Locals
  <2>4. CASE l.state = 0
    <3>1. Len(t) = 0
      BY <2>4 DEF ReadsNumHex
    <3> QED BY <1>2, <2>2, <2>4, <3>1, UpperIs
  <2>5. CASE l.state = 1
    <3>1. Len(t) = 1
      BY <2>5 DEF ReadsNumHex
    <3> QED BY <1>2, <2>2, <2>5, <3>1, UpperIs
  <2>6. CASE l.state >= 2
    <3>1. PICK p \in HexMarks, ds \in Seq(Hex) : t = p \o ds
      BY <2>6 DEF ReadsNumHex
    <3>2. Len(t) = 2 + Len(ds) /\ Len(ds) \in Nat
      BY <3>1, HexMarksAre
    <3>3. Len(t) + 1 \in 3 .. Len(u)
      BY <1>2, <2>2, <3>2
    <3> QED BY <1>2, <2>2, <2>6, <3>3
  <2> QED BY <2>3, <2>4, <2>5, <2>6
<1> QED
  BY <1>1, <1>2 DEF CarriesNext

-----------------------------------------------------------------------------
(* Bytes.                                                                  *)

\* Pairs of digits, each stored as a byte, and perhaps the first of a pair.
ReadsBytes(v, t, l, d) ==
  /\ t \in Seq(Hex) /\ l.state \in {0, 1} /\ Len(t) = 2 * l.size + l.state
  /\ l.byte = IF l.state = 1 THEN Digit(to_upper(t[Len(t)])) ELSE 0
  /\ v.access # "READ_ONLY" => \A i \in 0 .. l.size - 1 : d[i] = Byte(t, i + 1)

LEMMA AppendIs ==
  ASSUME NEW A, NEW s \in Seq(A), NEW c \in A
  PROVE  LET e == Append(s, c)
         IN  /\ e \in Seq(A) /\ Len(e) = Len(s) + 1 /\ e[Len(s) + 1] = c
             /\ \A k \in 1 .. Len(s) : e[k] = s[k]
OBVIOUS

LEMMA ByteIs ==
  ASSUME NEW t \in Seq(Hex), NEW i \in Nat \ {0}, 2 * i <= Len(t)
  PROVE  Byte(t, i) = 16 * Digit(to_upper(t[2 * i - 1])) + Digit(to_upper(t[2 * i]))
<1> DEFINE a == t[2 * i - 1]
           c == t[2 * i]
           w == SubSeq(t, 2 * i - 1, 2 * i)
<1>1. a \in Hex /\ c \in Hex
  BY 2 * i - 1 \in 1 .. Len(t), 2 * i \in 1 .. Len(t)
<1>2. w = <<a, c>>
  <2>1. w \in Seq(Hex) /\ Len(w) = 2 /\ w[1] = a /\ w[2] = c
    BY 2 * i - 1 \in 1 .. Len(t), 2 * i \in 1 .. Len(t)
  <2> HIDE DEF w, a, c
  <2> QED BY <2>1
<1> HIDE DEF a, c, w
<1>3. w = Append(Append(<<>>, a), c)
  BY <1>2, AppendTwo
<1>4. Append(<<>>, a) \in Seq(Hex) /\ <<>> \in Seq(Hex)
  BY <1>1
<1>5. Numeral(16, Append(<<>>, a)) = 16 * Numeral(16, <<>>) + Digit(to_upper(a))
  BY <1>1, <1>4, NumeralAppend
<1>6. Numeral(16, w) = 16 * Numeral(16, Append(<<>>, a)) + Digit(to_upper(c))
  BY <1>1, <1>3, <1>4, NumeralAppend
<1>7. Digit(to_upper(a)) \in 0 .. 15
  BY <1>1, HexDigitIs
<1>8. Numeral(16, Append(<<>>, a)) = Digit(to_upper(a))
  BY <1>5, <1>7, NumeralEmpty
<1> QED
  BY <1>6, <1>8 DEF Byte, a, c, w

LEMMA ByteAppend ==
  ASSUME NEW t \in Seq(Hex), NEW ch \in Hex, NEW i \in Nat \ {0}, 2 * i <= Len(t)
  PROVE  Byte(Append(t, ch), i) = Byte(t, i)
<1> DEFINE s == Append(t, ch)
<1>1. s \in Seq(Hex) /\ Len(s) = Len(t) + 1 /\ \A k \in 1 .. Len(t) : s[k] = t[k]
  BY AppendIs
<1> HIDE DEF s
<1>2. 2 * i - 1 \in 1 .. Len(t) /\ 2 * i \in 1 .. Len(t) /\ 2 * i <= Len(s)
  BY <1>1
<1> QED
  BY <1>1, <1>2, ByteIs DEF s

\* The first half of a byte.
LEMMA FirstHalf ==
  ASSUME NEW v \in Variable, NEW t, NEW l \in Locals, NEW d, ReadsBytes(v, t, l, d),
         l.state = 0, NEW ch \in Hex, NEW m \in Locals,
         m.state = 1, m.size = l.size, m.byte = (16 * l.byte + Digit(to_upper(ch))) % 256
  PROVE  ReadsBytes(v, Append(t, ch), m, d)
<1> DEFINE s == Append(t, ch)
<1>1. t \in Seq(Hex) /\ Len(t) = 2 * l.size /\ l.byte = 0 /\ l.size \in Nat
  BY DEF ReadsBytes, Locals
<1>2. s \in Seq(Hex) /\ Len(s) = Len(t) + 1 /\ s[Len(t) + 1] = ch
  BY <1>1, AppendIs
<1>3. \A i \in 1 .. l.size : Byte(s, i) = Byte(t, i)
  BY <1>1, ByteAppend
<1> HIDE DEF s
<1>4. m.byte = Digit(to_upper(s[Len(s)]))
  <2>1. Digit(to_upper(ch)) \in 0 .. 15
    BY HexDigitIs
  <2>2. \A a \in 0 .. 15 : (16 * 0 + a) % 256 = a
    OBVIOUS
  <2>3. m.byte = (16 * 0 + Digit(to_upper(ch))) % 256
    BY <1>1
  <2>4. s[Len(s)] = ch
    BY <1>2
  <2> QED BY <2>1, <2>2, <2>3, <2>4
<1>5. v.access # "READ_ONLY" => \A i \in 0 .. m.size - 1 : d[i] = Byte(s, i + 1)
  <2>1. \A i \in 0 .. l.size - 1 : i + 1 \in 1 .. l.size
    BY <1>1
  <2> QED BY <1>3, <2>1 DEF ReadsBytes
<1> QED
  BY <1>1, <1>2, <1>4, <1>5 DEF ReadsBytes, s

\* The second half, and the byte that is stored.
LEMMA SecondHalf ==
  ASSUME NEW v \in Variable, NEW t, NEW l \in Locals, NEW d, ReadsBytes(v, t, l, d),
         l.state = 1, NEW ch \in Hex, NEW m \in Locals,
         m.state = 0, m.size = l.size + 1, m.byte = 0,
         NEW e,
         v.access # "READ_ONLY" =>
           /\ e[l.size] = (16 * l.byte + Digit(to_upper(ch))) % 256
           /\ \A i \in 0 .. l.size - 1 : e[i] = d[i]
  PROVE  ReadsBytes(v, Append(t, ch), m, e)
<1> DEFINE s == Append(t, ch)
           b == Digit(to_upper(t[Len(t)]))
           c == Digit(to_upper(ch))
<1>1. t \in Seq(Hex) /\ Len(t) = 2 * l.size + 1 /\ l.byte = b /\ l.size \in Nat
  BY DEF ReadsBytes, Locals
<1>2. /\ s \in Seq(Hex) /\ Len(s) = Len(t) + 1 /\ s[Len(t) + 1] = ch
      /\ \A k \in 1 .. Len(t) : s[k] = t[k]
  BY <1>1, AppendIs
<1>3. \A i \in 1 .. l.size : Byte(s, i) = Byte(t, i)
  BY <1>1, ByteAppend
<1>4. b \in 0 .. 15 /\ c \in 0 .. 15
  <2>1. Len(t) \in 1 .. Len(t)
    BY <1>1
  <2>2. t[Len(t)] \in Hex
    BY <1>1, <2>1
  <2> QED BY <2>2, HexDigitIs
<1> HIDE DEF s
<1>5. Byte(s, l.size + 1) = 16 * b + c
  <2>1. l.size + 1 \in Nat \ {0} /\ 2 * (l.size + 1) = Len(s) /\ 2 * (l.size + 1) - 1 = Len(t)
    <3>1. Len(s) = 2 * l.size + 1 + 1
      BY <1>1, <1>2
    <3> QED BY <1>1, <3>1
  <2>2. Len(t) \in 1 .. Len(t) /\ Len(s) = Len(t) + 1
    BY <1>1, <1>2
  <2>3. s[2 * (l.size + 1) - 1] = t[Len(t)] /\ s[2 * (l.size + 1)] = ch
    BY <1>2, <2>1, <2>2
  <2>4. 2 * (l.size + 1) <= Len(s)
    BY <1>1, <1>2, <2>1
  <2> QED BY <1>2, <2>1, <2>3, <2>4, ByteIs
<1> HIDE DEF b, c
<1>6. (16 * b + c) % 256 = 16 * b + c
  BY <1>4
<1>7. v.access # "READ_ONLY" => \A i \in 0 .. m.size - 1 : e[i] = Byte(s, i + 1)
  <2> SUFFICES ASSUME v.access # "READ_ONLY", NEW i \in 0 .. m.size - 1
               PROVE  e[i] = Byte(s, i + 1)
    OBVIOUS
  <2>1. CASE i = l.size
    BY <1>1, <1>5, <1>6, <2>1 DEF c
  <2>2. CASE i \in 0 .. l.size - 1
    <3>1. i + 1 \in 1 .. l.size
      BY <1>1, <2>2
    <3> QED BY <1>3, <2>2, <3>1 DEF ReadsBytes
  <2> QED BY <1>1, <2>1, <2>2
<1>8. Len(s) = 2 * m.size + m.state
  BY <1>1, <1>2
<1> QED
  BY <1>2, <1>7, <1>8 DEF ReadsBytes, s

Bytes(t) == [i \in 1 .. Len(t) \div 2 |-> Byte(t, i)]

LEMMA BytesEnd ==
  ASSUME NEW v \in Variable, v.type = "BUF_HEX", NEW t, NEW l \in Locals, NEW d, ReadsBytes(v, t, l, d),
         l.state = 0, l.size > 0
  PROVE  /\ IsField(v, t, Bytes(t)) /\ Bytes(t) \in Seq(Nat) /\ Len(Bytes(t)) = l.size
         /\ v.access # "READ_ONLY" => \A i \in 0 .. l.size - 1 : d[i] = Bytes(t)[i + 1]
<1> DEFINE x == [i \in 1 .. Len(t) \div 2 |-> Byte(t, i)]
<1>1. t \in Seq(Hex) /\ Len(t) = 2 * l.size /\ l.size \in Nat
  BY DEF ReadsBytes, Locals
<1>2. Len(t) % 2 = 0 /\ Len(t) \div 2 = l.size /\ t # <<>>
  BY <1>1
<1>3. IsField(v, t, x)
  BY <1>1, <1>2 DEF IsField
<1>4. ASSUME NEW i \in 1 .. l.size PROVE Byte(t, i) \in Nat
  <2>1. 2 * i - 1 \in 1 .. Len(t) /\ 2 * i \in 1 .. Len(t)
    BY <1>1
  <2>2. t[2 * i - 1] \in Hex /\ t[2 * i] \in Hex
    BY <1>1, <2>1
  <2>3. Digit(to_upper(t[2 * i - 1])) \in 0 .. 15 /\ Digit(to_upper(t[2 * i])) \in 0 .. 15
    BY <2>2, HexDigitIs
  <2>4. Byte(t, i) = 16 * Digit(to_upper(t[2 * i - 1])) + Digit(to_upper(t[2 * i]))
    BY <1>1, <2>1, ByteIs
  <2> QED BY <2>3, <2>4
<1>5. x = [i \in 1 .. l.size |-> Byte(t, i)]
  BY <1>2
<1>6. x \in Seq(Nat) /\ Len(x) = l.size
  BY <1>1, <1>4, <1>5
<1>7. ASSUME v.access # "READ_ONLY", NEW i \in 0 .. l.size - 1 PROVE d[i] = x[i + 1]
  <2>1. i + 1 \in 1 .. l.size
    BY <1>1
  <2>2. d[i] = Byte(t, i + 1)
    BY <1>7 DEF ReadsBytes
  <2> QED BY <1>5, <2>1, <2>2
<1> QED
  BY <1>3, <1>6, <1>7 DEF Bytes

LEMMA BytesCarries ==
  ASSUME NEW v \in Variable, v.type = "BUF_HEX", NEW t, NEW l \in Locals, NEW d, ReadsBytes(v, t, l, d),
         NEW u, NEW x, IsField(v, u, x), NEW n \in Nat, Len(x) <= n, NEW ch, CarriesNext(t, ch, u)
  PROVE  \/ ch \in Hex /\ (l.state = 0 \/ l.size < n)
         \/ l.state = 0 /\ l.size > 0 /\ Ends(ch)
<1>1. /\ u \in Seq(Hex) /\ u # <<>> /\ Len(u) % 2 = 0
      /\ x = [i \in 1 .. Len(u) \div 2 |-> Byte(u, i)]
  BY DEF IsField
<1>2. Len(u) \in Nat /\ Len(u) \div 2 \in Nat /\ Len(x) = Len(u) \div 2 /\ Len(u) > 0
  BY <1>1
<1>3. t \in Seq(Hex) /\ l.state \in {0, 1} /\ Len(t) = 2 * l.size + l.state /\ l.size \in Nat
  BY DEF ReadsBytes, Locals
<1>4. CASE Ends(ch) /\ u = t
  BY <1>1, <1>2, <1>3, <1>4
<1>5. CASE Len(t) < Len(u) /\ u[Len(t) + 1] = ch
  <2>1. Len(t) + 1 \in 1 .. Len(u)
    BY <1>2, <1>3, <1>5
  <2>2. ch \in Hex
    BY <1>1, <1>5, <2>1
  <2>3. l.state = 1 => l.size < Len(u) \div 2
    BY <1>1, <1>2, <1>3, <1>5
  <2> QED BY <1>2, <1>3, <2>2, <2>3
<1> QED
  BY <1>4, <1>5 DEF CarriesNext

-----------------------------------------------------------------------------
(* Strings.                                                                *)

\* The text of a string up to the state of the parser.
StringText(s, ps) ==
  CASE s = 0 -> <<>>
    [] s = 1 -> <<"QUOTE">> \o Flat(ps)
    [] s = 2 -> <<"QUOTE">> \o Flat(ps) \o <<"BACKSLASH">>
    [] s = 3 -> <<"QUOTE">> \o Flat(ps) \o <<"QUOTE">>

\* The pieces read so far, each stored as the character it stands for.
ReadsString(v, t, l, d) ==
  \E ps \in Seq(Pieces(v)) :
    /\ Len(ps) = l.size /\ t = StringText(l.state, ps)
    /\ l.state = 0 => l.size = 0
    /\ v.access # "READ_ONLY" => \A i \in 0 .. l.size - 1 : d[i] = ps[i + 1].value

LEMMA QuotedIs ==
  ASSUME NEW w \in Seq(Letter)
  PROVE  LET t == <<"QUOTE">> \o w
         IN  /\ t \in Seq(Letter) /\ Len(t) = 1 + Len(w) /\ t[1] = "QUOTE"
             /\ \A i \in 1 .. Len(w) : t[i + 1] = w[i]
<1> DEFINE q == <<"QUOTE">>
           t == q \o w
<1>1. q \in Seq(Letter) /\ Len(q) = 1 /\ q[1] = "QUOTE"
  BY LettersAre
<1> HIDE DEF q
<1>2. /\ t \in Seq(Letter) /\ Len(t) = Len(q) + Len(w)
      /\ \A i \in 1 .. Len(q) + Len(w) : t[i] = IF i <= Len(q) THEN q[i] ELSE w[i - Len(q)]
  BY <1>1, ConcatProperties, Zenon
<1> HIDE DEF t
<1>3. Len(w) \in Nat
  OBVIOUS
<1>4. t[1] = "QUOTE"
  <2>1. 1 \in 1 .. Len(q) + Len(w) /\ 1 <= Len(q)
    BY <1>1, <1>3
  <2> QED BY <1>1, <1>2, <2>1
<1>5. ASSUME NEW i \in 1 .. Len(w) PROVE t[i + 1] = w[i]
  <2>1. i + 1 \in 1 .. Len(q) + Len(w) /\ ~(i + 1 <= Len(q)) /\ (i + 1) - Len(q) = i
    BY <1>1, <1>3
  <2> QED BY <1>2, <2>1
<1> QED
  BY <1>1, <1>2, <1>4, <1>5 DEF t, q

LEMMA ClosedIs ==
  ASSUME NEW w \in Seq(Letter), NEW c \in Letter
  PROVE  LET s == w \o <<c>>
         IN  /\ s \in Seq(Letter) /\ Len(s) = Len(w) + 1 /\ s[Len(w) + 1] = c
             /\ \A i \in 1 .. Len(w) : s[i] = w[i]
             /\ s = Append(w, c)
<1>1. w \o <<c>> = Append(w, c)
  BY AppendIsConcat
<1> QED BY <1>1, AppendIs

\* The concatenation is the same from either side.
LEMMA QuoteClose ==
  ASSUME NEW w \in Seq(Letter), NEW s \in Seq(Letter)
  PROVE  <<"QUOTE">> \o w \o s = <<"QUOTE">> \o (w \o s)
<1> DEFINE q == <<"QUOTE">>
<1>1. q \in Seq(Letter)
  BY LettersAre
<1> HIDE DEF q
<1>2. (q \o w) \o s = q \o (w \o s)
  BY <1>1
<1> QED BY <1>2 DEF q

LEMMA QuoteAppend ==
  ASSUME NEW w \in Seq(Letter), NEW c \in Letter
  PROVE  Append(<<"QUOTE">> \o w, c) = <<"QUOTE">> \o Append(w, c)
<1> DEFINE q == <<"QUOTE">>
<1>1. q \in Seq(Letter)
  BY LettersAre
<1> HIDE DEF q
<1>2. Append(q \o w, c) = q \o Append(w, c)
  BY <1>1
<1> QED BY <1>2 DEF q

LEMMA StringTextIs ==
  ASSUME NEW v \in Variable, NEW ps \in Seq(Pieces(v)), NEW s \in 1 .. 3
  PROVE  LET t == StringText(s, ps)
             P == Flat(ps)
         IN  /\ t \in Seq(Letter) /\ P \in Seq(Letter) /\ t[1] = "QUOTE"
             /\ Len(t) = IF s = 1 THEN 1 + Len(P) ELSE 2 + Len(P)
             /\ \A i \in 1 .. Len(P) : t[i + 1] = P[i]
             /\ s = 2 => t[Len(P) + 2] = "BACKSLASH"
             /\ s = 3 => t[Len(P) + 2] = "QUOTE"
<1> DEFINE P == Flat(ps)
<1>1. P \in Seq(Letter) /\ Len(P) \in Nat
  BY FlatIs
<1> HIDE DEF P
<1>2. CASE s = 1
  <2> DEFINE t == StringText(s, ps)
  <2>1. t = <<"QUOTE">> \o P
    BY <1>2 DEF StringText, P
  <2> HIDE DEF t
  <2>2. /\ t \in Seq(Letter) /\ Len(t) = 1 + Len(P) /\ t[1] = "QUOTE"
        /\ \A i \in 1 .. Len(P) : t[i + 1] = P[i]
    BY <1>1, <2>1, QuotedIs
  <2>3. s # 2 /\ s # 3
    BY <1>2
  <2> QED BY <1>1, <1>2, <2>2, <2>3 DEF P, t
<1>3. ASSUME NEW c \in Letter, s # 1, StringText(s, ps) = <<"QUOTE">> \o P \o <<c>>
      PROVE  LET t == StringText(s, ps)
             IN  /\ t \in Seq(Letter) /\ t[1] = "QUOTE" /\ Len(t) = 2 + Len(P)
                 /\ \A i \in 1 .. Len(P) : t[i + 1] = P[i]
                 /\ t[Len(P) + 2] = c
  <2> DEFINE w == P \o <<c>>
             t == StringText(s, ps)
  <2>1. /\ w \in Seq(Letter) /\ Len(w) = Len(P) + 1 /\ w[Len(P) + 1] = c
        /\ \A i \in 1 .. Len(P) : w[i] = P[i]
    BY <1>1, ClosedIs
  <2>2. <<c>> \in Seq(Letter)
    OBVIOUS
  <2>3. t = <<"QUOTE">> \o w
    BY <1>1, <1>3, <2>2, QuoteClose
  <2> HIDE DEF t, w
  <2>4. /\ t \in Seq(Letter) /\ Len(t) = 1 + Len(w) /\ t[1] = "QUOTE"
        /\ \A i \in 1 .. Len(w) : t[i + 1] = w[i]
    BY <2>1, <2>3, QuotedIs
  <2>5. ASSUME NEW i \in 1 .. Len(P) PROVE t[i + 1] = P[i]
    <3>1. i \in 1 .. Len(w)
      BY <1>1, <2>1
    <3> QED BY <2>1, <2>4, <3>1
  <2>6. t[Len(P) + 2] = c
    <3>1. Len(P) + 1 \in 1 .. Len(w) /\ (Len(P) + 1) + 1 = Len(P) + 2
      BY <1>1, <2>1
    <3> QED BY <2>1, <2>4, <3>1
  <2>7. Len(t) = 2 + Len(P)
    BY <1>1, <2>1, <2>4
  <2> QED BY <2>4, <2>5, <2>6, <2>7 DEF t
<1>4. CASE s = 2
  <2>1. StringText(s, ps) = <<"QUOTE">> \o P \o <<"BACKSLASH">>
    BY <1>4 DEF StringText, P
  <2>2. "BACKSLASH" \in Letter /\ s # 1 /\ s # 3
    BY <1>4, LettersAre
  <2> HIDE DEF P
  <2> QED BY <1>1, <1>3, <1>4, <2>1, <2>2 DEF P
<1>5. CASE s = 3
  <2>1. StringText(s, ps) = <<"QUOTE">> \o P \o <<"QUOTE">>
    BY <1>5 DEF StringText, P
  <2>2. "QUOTE" \in Letter /\ s # 1 /\ s # 2
    BY <1>5, LettersAre
  <2> QED BY <1>1, <1>3, <1>5, <2>1, <2>2 DEF P
<1> QED
  BY <1>2, <1>4, <1>5

LEMMA StringQuote ==
  ASSUME NEW v \in Variable, NEW t, NEW l \in Locals, NEW d, ReadsString(v, t, l, d),
         l.state = 0, NEW m \in Locals, m.state = 1, m.size = l.size
  PROVE  ReadsString(v, Append(t, "QUOTE"), m, d)
<1>1. PICK ps \in Seq(Pieces(v)) : Len(ps) = l.size /\ t = StringText(0, ps) /\ l.size = 0
  BY DEF ReadsString
<1>2. ps = <<>> /\ t = <<>>
  BY <1>1 DEF StringText
<1>3. Append(t, "QUOTE") = <<"QUOTE">> \o <<>>
  BY <1>2
<1>4. Append(t, "QUOTE") = StringText(1, ps)
  BY <1>2, <1>3, FlatEmpty DEF StringText
<1>5. m.state # 0 /\ Len(ps) = m.size /\ \A i \in 0 .. m.size - 1 : FALSE
  <2>1. m.size = 0
    BY <1>1
  <2>2. \A i \in 0 .. 0 - 1 : FALSE
    OBVIOUS
  <2> QED BY <1>1, <2>1, <2>2
<1> QED
  BY <1>4, <1>5, Zenon DEF ReadsString

\* A backslash, or the quote that closes.
LEMMA StringMark ==
  ASSUME NEW v \in Variable, NEW t, NEW l \in Locals, NEW d, ReadsString(v, t, l, d),
         l.state = 1, NEW m \in Locals, m.size = l.size,
         NEW ch, (ch = "BACKSLASH" /\ m.state = 2) \/ (ch = "QUOTE" /\ m.state = 3)
  PROVE  ReadsString(v, Append(t, ch), m, d)
<1>1. PICK ps \in Seq(Pieces(v)) :
        /\ Len(ps) = l.size /\ t = StringText(1, ps)
        /\ v.access # "READ_ONLY" => \A i \in 0 .. l.size - 1 : d[i] = ps[i + 1].value
  BY DEF ReadsString
<1>2. Flat(ps) \in Seq(Letter) /\ ch \in Letter
  BY FlatIs, LettersAre
<1>3. t = <<"QUOTE">> \o Flat(ps)
  BY <1>1 DEF StringText
<1>4. Append(t, ch) = <<"QUOTE">> \o Flat(ps) \o <<ch>>
  <2>1. t \in Seq(Letter)
    BY <1>2, <1>3, QuotedIs
  <2> QED BY <1>2, <1>3, <2>1, AppendIsConcat
<1>5. Append(t, ch) = StringText(m.state, ps)
  BY <1>4 DEF StringText
<1> QED
  BY <1>1, <1>5 DEF ReadsString

\* A piece that is stored.
LEMMA StringPiece ==
  ASSUME NEW v \in Variable, NEW t, NEW l \in Locals, NEW d, ReadsString(v, t, l, d),
         NEW m \in Locals, m.state = 1, m.size = l.size + 1,
         NEW ch, NEW p \in Pieces(v),
         (l.state = 1 /\ p.text = <<ch>>) \/ (l.state = 2 /\ p.text = <<"BACKSLASH", ch>>),
         NEW e,
         v.access # "READ_ONLY" =>
           e[l.size] = p.value /\ \A i \in 0 .. l.size - 1 : e[i] = d[i]
  PROVE  ReadsString(v, Append(t, ch), m, e)
<1>1. PICK ps \in Seq(Pieces(v)) :
        /\ Len(ps) = l.size /\ t = StringText(l.state, ps)
        /\ v.access # "READ_ONLY" => \A i \in 0 .. l.size - 1 : d[i] = ps[i + 1].value
  BY DEF ReadsString
<1> DEFINE qs == Append(ps, p)
<1>2. /\ qs \in Seq(Pieces(v)) /\ Len(qs) = Len(ps) + 1 /\ qs[Len(ps) + 1] = p
      /\ \A i \in 1 .. Len(ps) : qs[i] = ps[i]
  BY AppendIs
<1>3. Flat(qs) = Flat(ps) \o p.text /\ Flat(ps) \in Seq(Letter)
  BY FlatIs
<1> HIDE DEF qs
<1>4. p.text \in Seq(Letter)
  BY PieceIs
<1>5. ch \in Letter
  <2>1. CASE p.text = <<ch>>
    <3>1. p.text[1] = ch /\ 1 \in 1 .. Len(p.text)
      BY <2>1
    <3> QED BY <1>4, <3>1
  <2>2. CASE p.text = <<"BACKSLASH", ch>>
    <3>1. p.text[2] = ch /\ 2 \in 1 .. Len(p.text)
      BY <2>2
    <3> QED BY <1>4, <3>1
  <2> QED BY <2>1, <2>2
<1>6. Append(t, ch) = <<"QUOTE">> \o Flat(qs)
  <2>1. CASE l.state = 1 /\ p.text = <<ch>>
    <3>1. t = <<"QUOTE">> \o Flat(ps)
      BY <1>1, <2>1 DEF StringText
    <3>2. Append(t, ch) = <<"QUOTE">> \o Append(Flat(ps), ch)
      BY <1>3, <1>5, <3>1, QuoteAppend
    <3>3. Flat(ps) \o <<ch>> = Append(Flat(ps), ch)
      BY <1>3, <1>5, ClosedIs
    <3> QED BY <1>3, <2>1, <3>2, <3>3
  <2>2. CASE l.state = 2 /\ p.text = <<"BACKSLASH", ch>>
    <3>0. "BACKSLASH" \in Letter /\ <<"BACKSLASH">> \in Seq(Letter)
      BY LettersAre
    <3> DEFINE w == Flat(ps) \o <<"BACKSLASH">>
    <3>1. t = <<"QUOTE">> \o w
      <4>1. t = <<"QUOTE">> \o Flat(ps) \o <<"BACKSLASH">>
        BY <1>1, <2>2 DEF StringText
      <4> QED BY <1>3, <3>0, <4>1, QuoteClose
    <3>2. w \in Seq(Letter)
      BY <1>3, <3>0
    <3>3. Append(t, ch) = <<"QUOTE">> \o Append(w, ch)
      BY <1>5, <3>1, <3>2, QuoteAppend
    <3>4. Append(w, ch) = Flat(ps) \o Append(<<"BACKSLASH">>, ch)
      BY <1>3, <1>5, <3>0, AppendConcat
    <3>5. Append(<<"BACKSLASH">>, ch) = p.text
      BY <2>2, AppendTwo
    <3> QED BY <1>3, <3>3, <3>4, <3>5
  <2> QED BY <2>1, <2>2
<1>7. Append(t, ch) = StringText(m.state, qs)
  BY <1>6 DEF StringText
<1>8. ASSUME v.access # "READ_ONLY", NEW i \in 0 .. m.size - 1 PROVE e[i] = qs[i + 1].value
  <2>0. l.size \in Nat
    BY DEF Locals
  <2>1. CASE i = l.size
    BY <1>1, <1>2, <1>8, <2>1
  <2>2. CASE i \in 0 .. l.size - 1
    <3>1. i + 1 \in 1 .. Len(ps)
      BY <1>1, <2>0, <2>2
    <3> QED BY <1>1, <1>2, <1>8, <2>2, <3>1
  <2> QED BY <2>0, <2>1, <2>2
<1> QED
  BY <1>1, <1>2, <1>7, <1>8 DEF ReadsString

LEMMA StringCarries ==
  ASSUME NEW v \in Variable, v.type = "BUF_STRING", NEW t, NEW l \in Locals, NEW d, ReadsString(v, t, l, d),
         NEW u, NEW x, IsField(v, u, x), NEW n \in Nat, Len(x) < n, NEW ch, CarriesNext(t, ch, u)
  PROVE  \/ l.state = 0 /\ ch = "QUOTE"
         \/ l.state = 1 /\ (ch \in {"BACKSLASH", "QUOTE"} \/ (ch \in Plain(v) /\ l.size < n))
         \/ l.state = 2 /\ ch \in DOMAIN Unescaped /\ l.size < n
         \/ l.state = 3 /\ Ends(ch) /\ l.size < n
<1>1. PICK ps \in Seq(Pieces(v)) : Len(ps) = l.size /\ t = StringText(l.state, ps)
  BY DEF ReadsString
<1>2. PICK qs \in Seq(Pieces(v)) : u = <<"QUOTE">> \o Flat(qs) \o <<"QUOTE">> /\ x = Values(qs)
  BY DEF IsField
<1> DEFINE P == Flat(ps)
           s == Flat(qs) \o <<"QUOTE">>
<1>3. /\ s \in Seq(Letter) /\ P \in Seq(Letter) /\ Len(s) \in Nat /\ Len(P) \in Nat
      /\ s = Flat(qs) \o <<"QUOTE">>
  <2>1. Flat(qs) \in Seq(Letter) /\ P \in Seq(Letter)
    BY FlatIs
  <2> QED BY <2>1, LettersAre, ClosedIs
<1>4. /\ u \in Seq(Letter) /\ Len(u) = 1 + Len(s) /\ u[1] = "QUOTE"
      /\ \A i \in 1 .. Len(s) : u[i + 1] = s[i]
  <2>1. u = <<"QUOTE">> \o s
    <3>1. Flat(qs) \in Seq(Letter) /\ <<"QUOTE">> \in Seq(Letter)
      BY FlatIs, LettersAre
    <3> QED BY <1>2, <3>1, QuoteClose
  <2> HIDE DEF s
  <2> QED BY <1>3, <2>1, QuotedIs
<1>5. Len(qs) < n /\ Len(qs) \in Nat /\ Len(ps) \in Nat
  <2>1. Len(x) = Len(qs)
    BY <1>2 DEF Values
  <2> QED BY <2>1
<1>6. l.state \in 0 .. 3 /\ l.size = Len(ps)
  BY <1>1 DEF Locals
<1>7. CASE l.state = 0
  <2>1. t = <<>> /\ Len(t) = 0
    BY <1>1, <1>7 DEF StringText
  <2>2. Len(u) > 0
    BY <1>3, <1>4
  <2>3. ch = u[Len(t) + 1]
    BY <2>1, <2>2 DEF CarriesNext
  <2> QED BY <1>4, <1>7, <2>1, <2>3
<1> HIDE DEF P, s
<1>8. CASE l.state \in 1 .. 3
  <2>1. /\ t \in Seq(Letter)
        /\ Len(t) = IF l.state = 1 THEN 1 + Len(P) ELSE 2 + Len(P)
        /\ \A i \in 1 .. Len(P) : t[i + 1] = P[i]
        /\ l.state = 2 => t[Len(P) + 2] = "BACKSLASH"
        /\ l.state = 3 => t[Len(P) + 2] = "QUOTE"
    BY <1>1, <1>8, StringTextIs DEF P
  <2>2. /\ Len(t) <= Len(u) /\ \A i \in 1 .. Len(t) : u[i] = t[i]
        /\ (u = t /\ Ends(ch)) \/ (Len(t) < Len(u) /\ u[Len(t) + 1] = ch)
    BY <1>4, <2>1 DEF CarriesNext
  <2>3. Len(P) <= Len(s)
    BY <1>3, <1>4, <2>1, <2>2
  <2>4. ASSUME NEW i \in 1 .. Len(P) PROVE P[i] = s[i]
    <3>1. i + 1 \in 1 .. Len(t) /\ i \in 1 .. Len(s)
      BY <1>3, <2>1, <2>3
    <3> QED BY <1>4, <2>1, <2>2, <3>1
  <2> DEFINE q == qs[Len(ps) + 1]
  <2>5. /\ Len(ps) <= Len(qs)
        /\ Len(ps) = Len(qs) => Len(s) = Len(P) + 1 /\ s[Len(P) + 1] = "QUOTE"
        /\ Len(ps) < Len(qs) =>
             /\ Len(P) + Len(q.text) < Len(s)
             /\ \A j \in 1 .. Len(q.text) : s[Len(P) + j] = q.text[j]
    <3>1. Len(Flat(ps)) <= Len(s) /\ \A i \in 1 .. Len(Flat(ps)) : Flat(ps)[i] = s[i]
      BY <2>3, <2>4 DEF P
    <3>2. s \in Seq(Letter) /\ s = Flat(qs) \o <<"QUOTE">>
      BY <1>3
    <3>3. /\ Len(ps) <= Len(qs)
          /\ Len(ps) = Len(qs) => Len(s) = Len(Flat(ps)) + 1 /\ s[Len(Flat(ps)) + 1] = "QUOTE"
          /\ Len(ps) < Len(qs) =>
               LET r == qs[Len(ps) + 1]
               IN  /\ Len(Flat(ps)) + Len(r.text) < Len(s)
                   /\ \A j \in 1 .. Len(r.text) : s[Len(Flat(ps)) + j] = r.text[j]
      BY <3>1, <3>2, Decode, Zenon
    <3> QED BY <3>3, Zenon DEF P
  <2>6. Len(ps) < Len(qs) => q \in Pieces(v)
    BY <1>5
  <2> HIDE DEF q
  <2>7. ASSUME Len(ps) < Len(qs)
        PROVE  /\ Len(q.text) \in {1, 2} /\ s[Len(P) + 1] = q.text[1]
               /\ Len(q.text) = 2 => s[Len(P) + 2] = q.text[2]
    <3>1. Len(q.text) \in {1, 2}
      BY <2>6, <2>7, PieceIs
    <3>0. \A k \in {1, 2} : 1 \in 1 .. k /\ (k = 2 => 2 \in 1 .. k)
      OBVIOUS
    <3>2. 1 \in 1 .. Len(q.text) /\ (Len(q.text) = 2 => 2 \in 1 .. Len(q.text))
      BY <3>0, <3>1, Zenon
    <3> QED BY <2>5, <2>7, <3>1, <3>2
  <2>8. u[Len(P) + 2] = s[Len(P) + 1]
    <3>1. Len(P) + 1 \in 1 .. Len(s) /\ (Len(P) + 1) + 1 = Len(P) + 2
      BY <1>3, <1>5, <2>5, <2>7
    <3> QED BY <1>4, <3>1
  <2>9. CASE l.state = 1
    <3>1. Len(t) = 1 + Len(P)
      BY <2>1, <2>9
    <3>2. u # t
      BY <1>3, <1>4, <1>5, <2>5, <2>7, <3>1
    <3>3. ch = s[Len(P) + 1]
      <4>1. ch = u[Len(t) + 1] /\ Len(t) + 1 = Len(P) + 2
        BY <1>3, <2>2, <3>1, <3>2
      <4> QED BY <2>8, <4>1
    <3>4. Len(ps) = Len(qs) => ch = "QUOTE"
      BY <2>5, <3>3
    <3>5. Len(ps) < Len(qs) => ch \in Plain(v) \cup {"BACKSLASH"}
      BY <2>6, <2>7, <3>3, PieceIs
    <3>6. Len(ps) < Len(qs) => l.size < n
      BY <1>5, <1>6
    <3> QED BY <1>5, <2>5, <2>9, <3>4, <3>5, <3>6
  <2>10. CASE l.state = 2
    <3>1. Len(t) = 2 + Len(P) /\ t[Len(P) + 2] = "BACKSLASH"
      BY <2>1, <2>10
    <3>2. s[Len(P) + 1] = "BACKSLASH"
      <4>1. Len(P) + 2 \in 1 .. Len(t)
        BY <1>3, <3>1
      <4> QED BY <2>2, <2>8, <3>1, <4>1
    <3>3. Len(ps) < Len(qs)
      BY <1>5, <2>5, <3>2
    <3>4. Len(q.text) = 2 /\ q.text[2] \in DOMAIN Unescaped
      <4>1. q.text[1] = "BACKSLASH"
        BY <2>7, <3>2, <3>3
      <4>2. "BACKSLASH" \notin Plain(v)
        BY DEF Plain
      <4> QED BY <2>6, <2>7, <3>3, <4>1, <4>2, PieceIs
    <3>5. u # t
      BY <1>3, <1>4, <2>5, <3>1, <3>3, <3>4
    <3>6. ch = s[Len(P) + 2]
      <4>1. ch = u[Len(t) + 1] /\ Len(t) + 1 = (Len(P) + 2) + 1
        BY <1>3, <2>2, <3>1, <3>5
      <4>2. Len(P) + 2 \in 1 .. Len(s)
        BY <1>3, <2>5, <3>3, <3>4
      <4> QED BY <1>4, <4>1, <4>2
    <3>7. l.size < n
      BY <1>5, <1>6, <3>3
    <3> QED BY <2>7, <2>10, <3>3, <3>4, <3>6, <3>7
  <2>11. CASE l.state = 3
    <3>1. Len(t) = 2 + Len(P) /\ t[Len(P) + 2] = "QUOTE"
      BY <2>1, <2>11
    <3>2. s[Len(P) + 1] = "QUOTE"
      <4>1. Len(P) + 2 \in 1 .. Len(t)
        BY <1>3, <3>1
      <4> QED BY <2>2, <2>8, <3>1, <4>1
    <3>3. ~(Len(ps) < Len(qs))
      BY <2>6, <2>7, <3>2, PieceIs
    <3>4. Len(ps) = Len(qs)
      BY <1>5, <2>5, <3>3
    <3>5. ~(Len(t) < Len(u))
      BY <1>3, <1>4, <2>5, <3>1, <3>4
    <3>6. l.size < n
      BY <1>5, <1>6, <3>4
    <3> QED BY <2>2, <2>11, <3>5, <3>6
  <2> QED BY <1>8, <2>9, <2>10, <2>11
<1> QED
  BY <1>6, <1>7, <1>8

-----------------------------------------------------------------------------
(* Fields and the texts that were read.                                    *)

LEMMA FieldText ==
  ASSUME NEW v \in Variable, NEW t, NEW x, IsField(v, t, x)
  PROVE  /\ t \in Seq(Letter)
         /\ v.type = "INT_DEC" => x \in Int
         /\ v.type \in {"UINT_DEC", "NUM_HEX"} => x \in Nat
<1>1. CASE v.type = "INT_DEC"
  <2>1. PICK sign \in Signs, ds \in Seq(Dec) : t = sign \o ds /\ x = SignedValue(sign, ds)
    BY <1>1 DEF IsField
  <2>2. t \in Seq(Letter)
    BY <2>1, SignsAre
  <2>3. ds \in Seq(Hex)
    BY DecIs
  <2>4. Numeral(10, ds) \in Nat
    BY <2>3, NumeralNat
  <2>5. x \in Int
    BY <2>1, <2>4 DEF SignedValue
  <2> QED BY <1>1, <2>2, <2>5
<1>2. CASE v.type = "UINT_DEC"
  <2>1. t \in Seq(Dec) /\ x = Numeral(10, t)
    BY <1>2 DEF IsField
  <2>2. t \in Seq(Letter) /\ t \in Seq(Hex)
    BY <2>1, LettersAre, DecIs
  <2> QED BY <1>2, <2>1, <2>2, NumeralNat
<1>3. CASE v.type = "NUM_HEX"
  <2>1. PICK p \in HexMarks, ds \in Seq(Hex) : t = p \o ds /\ x = Numeral(16, ds)
    BY <1>3 DEF IsField
  <2> QED BY <1>3, <2>1, HexMarksAre, NumeralNat
<1>4. CASE v.type = "BUF_HEX"
  <2>1. t \in Seq(Hex)
    BY <1>4 DEF IsField
  <2> QED BY <1>4, <2>1, LettersAre
<1>5. CASE v.type = "BUF_STRING"
  <2>1. PICK ps \in Seq(Pieces(v)) : t = <<"QUOTE">> \o Flat(ps) \o <<"QUOTE">>
    BY <1>5 DEF IsField
  <2>2. Flat(ps) \in Seq(Letter) /\ <<"QUOTE">> \in Seq(Letter)
    BY FlatIs, LettersAre
  <2>3. <<"QUOTE">> \o Flat(ps) \in Seq(Letter)
    BY <2>2
  <2> QED BY <1>5, <2>1, <2>2, <2>3
<1> QED
  BY <1>1, <1>2, <1>3, <1>4, <1>5, VarTypes

\* A field within the bounds of the runs is one that the runs look at.
LEMMA FieldIn ==
  ASSUME NEW v \in Variable, NEW t, NEW x, IsField(v, t, x),
         v.type # "BUF_STRING" => t \in Seq(Chars[v.type]) /\ Len(t) <= MaxField,
         v.type = "BUF_STRING" => Len(x) <= v.data_size
  PROVE  [text |-> t, value |-> x] \in FieldsOf(v)
<1>0. MaxField \in Nat /\ v.data_size \in Nat
  BY VarParserAssumption, VarTypes
<1> DEFINE C == Chars[v.type]
<1>10. ASSUME NEW ds \in Seq(Letter), NEW k \in Nat, Len(t) = k + Len(ds), v.type # "BUF_STRING",
              \A i \in 1 .. Len(ds) : t[k + i] = ds[i]
       PROVE  ds \in Seq(C) /\ Len(ds) <= MaxField
  <2> HIDE DEF C
  <2>1. Len(ds) \in Nat /\ Len(ds) <= MaxField /\ t \in Seq(C)
    BY <1>0, <1>10 DEF C
  <2>2. ASSUME NEW i \in 1 .. Len(ds) PROVE ds[i] \in C
    <3>1. k + i \in 1 .. Len(t)
      BY <1>10, <2>1
    <3> QED BY <1>10, <2>1, <3>1
  <2> QED BY <2>1, <2>2
<1>1. CASE v.type = "INT_DEC"
  <2>1. PICK sign \in Signs, ds \in Seq(Dec) \ {<<>>} : t = sign \o ds /\ x = SignedValue(sign, ds)
    BY <1>1 DEF IsField
  <2>2. /\ Len(t) = Len(sign) + Len(ds) /\ Len(sign) \in Nat
        /\ \A k \in 1 .. Len(ds) : t[Len(sign) + k] = ds[k]
    BY <2>1, SignsAre
  <2>3. ds \in Seq(Letter)
    BY LettersAre
  <2>4. ds \in Seq(C) /\ Len(ds) <= MaxField
    BY <1>1, <1>10, <2>2, <2>3
  <2>5. ds \in Numerals(v, is_valid_dec_char)
    BY <2>4, NumeralsAre
  <2>6. sign \in {<<>>, <<"+">>, <<"-">>}
    BY DEF Signs
  <2>7. [text |-> t, value |-> x] =
          [text |-> sign \o ds, value |-> IF sign = <<"-">> THEN -Numeral(10, ds) ELSE Numeral(10, ds)]
    BY <2>1 DEF SignedValue
  <2> DEFINE F(s, d) == [text |-> s \o d, value |-> IF s = <<"-">> THEN -Numeral(10, d) ELSE Numeral(10, d)]
             S == {<<>>, <<"+">>, <<"-">>}
             N == Numerals(v, is_valid_dec_char)
  <2>8. FieldsOf(v) = {F(s, d) : s \in S, d \in N}
    BY <1>1 DEF FieldsOf
  <2>9. [text |-> t, value |-> x] = F(sign, ds)
    BY <2>7
  <2> HIDE DEF F, S, N
  <2> QED BY <2>5, <2>6, <2>8, <2>9 DEF S, N
<1>2. CASE v.type = "UINT_DEC"
  <2>1. t \in Seq(Dec) \ {<<>>} /\ x = Numeral(10, t)
    BY <1>2 DEF IsField
  <2>2. t \in Numerals(v, is_valid_dec_char)
    BY <1>2, <2>1, NumeralsAre
  <2> QED BY <1>2, <2>1, <2>2 DEF FieldsOf
<1>3. CASE v.type = "NUM_HEX"
  <2>1. PICK p \in HexMarks, ds \in Seq(Hex) \ {<<>>} : t = p \o ds /\ x = Numeral(16, ds)
    BY <1>3 DEF IsField
  <2>2. /\ Len(t) = 2 + Len(ds) /\ 2 \in Nat
        /\ \A k \in 1 .. Len(ds) : t[2 + k] = ds[k]
    BY <2>1, HexMarksAre
  <2>3. ds \in Seq(Letter)
    BY LettersAre
  <2>4. ds \in Seq(C) /\ Len(ds) <= MaxField
    BY <1>3, <1>10, <2>2, <2>3
  <2>5. ds \in Numerals(v, is_valid_hex_char)
    BY <2>4, NumeralsAre
  <2>6. PICK m \in {"x", "X"} : p = <<"0", m>>
    BY DEF HexMarks
  <2> DEFINE F(s, d) == [text |-> <<"0", s>> \o d, value |-> Numeral(16, d)]
             S == {"x", "X"}
             N == Numerals(v, is_valid_hex_char)
  <2>8. FieldsOf(v) = {F(s, d) : s \in S, d \in N}
    BY <1>3 DEF FieldsOf
  <2>9. [text |-> t, value |-> x] = F(m, ds)
    BY <2>1, <2>6
  <2> HIDE DEF F, N
  <2> QED BY <2>5, <2>6, <2>8, <2>9 DEF N
<1>4. CASE v.type = "BUF_HEX"
  <2>1. /\ t \in Seq(Hex) \ {<<>>} /\ Len(t) % 2 = 0
        /\ x = [i \in 1 .. Len(t) \div 2 |-> Numeral(16, SubSeq(t, 2 * i - 1, 2 * i))]
    BY <1>4 DEF IsField, Byte
  <2>2. t \in Numerals(v, is_valid_hex_char)
    BY <1>4, <2>1, NumeralsAre
  <2> DEFINE F(d) == [text |-> d, value |-> [i \in 1 .. Len(d) \div 2 |-> Numeral(16, SubSeq(d, 2 * i - 1, 2 * i))]]
             S == {d \in Numerals(v, is_valid_hex_char) : Len(d) % 2 = 0}
  <2>3. FieldsOf(v) = {F(d) : d \in S}
    BY <1>4 DEF FieldsOf
  <2>4. [text |-> t, value |-> x] = F(t) /\ t \in S
    BY <2>1, <2>2
  <2> HIDE DEF F, S
  <2> QED BY <2>3, <2>4
<1>5. CASE v.type = "BUF_STRING"
  <2>1. PICK ps \in Seq(Pieces(v)) : t = <<"QUOTE">> \o Flat(ps) \o <<"QUOTE">> /\ x = Values(ps)
    BY <1>5 DEF IsField
  <2>2. Len(ps) <= v.data_size
    <3>1. Len(x) = Len(ps)
      BY <2>1 DEF Values
    <3> QED BY <1>5, <3>1
  <2>3. ps \in BoundedSeq(Pieces(v), v.data_size)
    BY <1>0, <2>2, BoundedIs
  <2> DEFINE F(d) == [text |-> <<"QUOTE">> \o FlattenSeq([i \in DOMAIN d |-> d[i].text]) \o <<"QUOTE">>,
                      value |-> [i \in DOMAIN d |-> d[i].value]]
             S == BoundedSeq(Pieces(v), v.data_size)
  <2>4. FieldsOf(v) = {F(d) : d \in S}
    BY <1>5 DEF FieldsOf
  <2>5. [text |-> t, value |-> x] = F(ps)
    BY <2>1 DEF Flat, Values
  <2> HIDE DEF F, S
  <2> QED BY <2>3, <2>4, <2>5 DEF S
<1> QED
  BY <1>1, <1>2, <1>3, <1>4, <1>5, VarTypes

LEMMA FrontIs ==
  ASSUME NEW A, NEW t \in Seq(A), NEW c \in A
  PROVE  LET w == Append(t, c)
         IN  Front(w) = t /\ w[Len(w)] = c
<1> DEFINE w == Append(t, c)
<1>1. /\ w \in Seq(A) /\ Len(w) = Len(t) + 1 /\ Len(t) \in Nat /\ w[Len(w)] = c
      /\ \A i \in 1 .. Len(t) : w[i] = t[i]
  OBVIOUS
<1>2. Front(w) = SubSeq(w, 1, Len(t))
  BY <1>1 DEF Front
<1> QED BY <1>1, <1>2

\* The fields of the variable that is parsed.
LEMMA VarFields ==
  ASSUME TypeInv
  PROVE  Fields[var] = FieldsOf(var)
<1>1. cmd.vars \in Seq(Variable) /\ index \in DOMAIN cmd.vars /\ cmd \in Commands
  BY VarIs DEF TypeInv
<1>2. var \in ToSet(cmd.vars)
  BY <1>1 DEF ToSet, var
<1>3. var \in UNION {ToSet(c.vars) : c \in Commands}
  BY <1>1, <1>2
<1> QED BY <1>3 DEF Fields

-----------------------------------------------------------------------------
(* The invariant.                                                          *)

\* The locals of the parser say what the text so far is.
Reading ==
  result = "parse" =>
    /\ text \in Seq(Letter)
    /\ var.type = "INT_DEC" => ReadsInt(text, local)
    /\ var.type = "UINT_DEC" => ReadsUint(text, local)
    /\ var.type = "NUM_HEX" => ReadsNumHex(text, local)
    /\ var.type = "BUF_HEX" => ReadsBytes(var, text, local, data[index])
    /\ var.type = "BUF_STRING" => ReadsString(var, text, local, data[index])
    /\ var.type # "BUF_STRING" => text \in Seq(Chars[var.type]) /\ Len(text) <= MaxField

\* RejectedRightly, of fields of any length.
Rejected ==
  result = "bad" => \A t, x : IsField(var, t, x) /\ Fits(var, x) => ~Carries(t)

\* The variable has the value x, as HookSeesValue says it.
Holds(x) ==
  IF var.access = "READ_ONLY" THEN data[index] = before /\ write_size = 0
  ELSE CASE var.type \in Number ->
              /\ write_size = var.data_size
              /\ Fits(var, data[index][0])
              /\ var.type = "INT_DEC" /\ {x, -x} \subseteq SignedWord => x = data[index][0]
              /\ var.type # "INT_DEC" => x % Word = data[index][0]
         [] OTHER ->
              /\ Fits(var, x)
              /\ write_size = Len(x)
              /\ \A i \in Cells(var) :
                   data[index][i] = CASE i < write_size -> x[i + 1]
                                      [] i = write_size /\ var.type = "BUF_STRING" -> "NUL"
                                      [] OTHER -> before[i]

\* The inductive invariant behind HookSeesValue and RejectedRightly.
ReadInv == Reading /\ HookSeesValue /\ Rejected

\* One character of a field.
Reads(ch) ==
  /\ TypeInv /\ FieldInv /\ ReadInv
  /\ result = "parse" /\ text' = Append(text, ch) /\ UNCHANGED <<cmd, index, before>>
  /\ ch \in Letter
  /\ ~Ends(ch) => ch \in Chars[var.type] /\ Len(text) < MaxField

LEMMA ReadsIs ==
  ASSUME NEW ch, Reads(ch)
  PROVE  /\ var \in Variable /\ var' = var /\ local \in Locals /\ text \in Seq(Letter) /\ ch \in Letter
         /\ text' \in Seq(Letter) /\ Front(text') = text
         /\ var.type # "BUF_STRING" => text \in Seq(Chars[var.type]) /\ Len(text) <= MaxField
         /\ var.type # "BUF_STRING" /\ ~Ends(ch) =>
              text' \in Seq(Chars[var.type]) /\ Len(text') <= MaxField
<1>1. var \in Variable /\ var' = var /\ local \in Locals
  BY VarIs DEF Reads, TypeInv, var
<1>2. /\ text \in Seq(Letter) /\ ch \in Letter /\ text' = Append(text, ch)
      /\ var.type # "BUF_STRING" => text \in Seq(Chars[var.type]) /\ Len(text) <= MaxField
  BY DEF Reads, ReadInv, Reading
<1>3. Front(text') = text
  BY <1>2, FrontIs
<1>4. text' \in Seq(Letter)
  BY <1>2
<1>5. ASSUME var.type # "BUF_STRING", ~Ends(ch)
      PROVE  text' \in Seq(Chars[var.type]) /\ Len(text') <= MaxField
  <2>1. ch \in Chars[var.type] /\ Len(text) < MaxField /\ MaxField \in Nat
    BY <1>5, VarParserAssumption DEF Reads
  <2> QED BY <1>2, <1>5, <2>1
<1> QED
  BY <1>1, <1>2, <1>3, <1>4, <1>5

\* The parser goes on.
LEMMA ReadsOn ==
  ASSUME NEW ch, Reads(ch), result' = "parse", var.type # "BUF_STRING" => ~Ends(ch),
         var.type = "INT_DEC" => ReadsInt(text', local'),
         var.type = "UINT_DEC" => ReadsUint(text', local'),
         var.type = "NUM_HEX" => ReadsNumHex(text', local'),
         var.type = "BUF_HEX" => ReadsBytes(var, text', local', data'[index]),
         var.type = "BUF_STRING" => ReadsString(var, text', local', data'[index])
  PROVE  ReadInv'
<1>1. index' = index
  BY DEF Reads
<1>2. Reading'
  BY <1>1, ReadsIs DEF Reading
<1> QED
  BY <1>2 DEF ReadInv, HookSeesValue, Rejected

\* It refuses the character.
LEMMA Refuses ==
  ASSUME NEW ch, Reads(ch), result' = "bad",
         \A t, x : IsField(var, t, x) /\ Fits(var, x) => ~CarriesNext(text, ch, t)
  PROVE  ReadInv'
<1>1. var' = var /\ var \in Variable /\ text \in Seq(Letter) /\ ch \in Letter /\ text' = Append(text, ch)
  BY ReadsIs DEF Reads
<1>2. ASSUME NEW t, NEW x, IsField(var, t, x), Fits(var, x), Carries(t)'
      PROVE  FALSE
  <2>1. t \in Seq(Letter)
    BY <1>1, <1>2, FieldText
  <2>2. CarriesNext(text, ch, t)
    BY <1>1, <1>2, <2>1, CarriesIs
  <2> QED BY <1>2, <2>2
<1>3. Rejected'
  BY <1>1, <1>2 DEF Rejected
<1> QED
  BY <1>3 DEF ReadInv, Reading, HookSeesValue

\* It ends the field.
LEMMA FieldRead ==
  ASSUME NEW ch, Reads(ch), result' = "hook", NEW x, IsField(var, text, x), Holds(x)',
         var.type = "BUF_STRING" => Len(x) <= var.data_size
  PROVE  ReadInv'
<1>1. /\ var' = var /\ var \in Variable /\ Front(text') = text
      /\ var.type # "BUF_STRING" => text \in Seq(Chars[var.type]) /\ Len(text) <= MaxField
  BY ReadsIs
<1> DEFINE f == [text |-> text, value |-> x]
<1>2. f \in FieldsOf(var)
  BY <1>1, FieldIn
<1>3. f.text = text /\ f.value = x
  OBVIOUS
<1>4. Fields[var] = FieldsOf(var)
  BY VarFields DEF Reads
<1> HIDE DEF f
<1>5. \E g \in Fields[var] : g.text = text /\ Holds(g.value)'
  BY <1>2, <1>3, <1>4
<1>6. HookSeesValue'
  BY <1>1, <1>5 DEF HookSeesValue, Holds
<1> QED
  BY <1>6 DEF ReadInv, Reading, Rejected

-----------------------------------------------------------------------------
(* Numbers.                                                                *)

\* n is what is stored for the value x.
NumberIs(n, x) ==
  IF var.type = "INT_DEC" THEN {x, -x} \subseteq SignedWord => n = x
  ELSE x % Word = n

LEMMA NumberFits ==
  ASSUME var \in Variable, var.type \in Number, var.access # "READ_ONLY",
         NEW n, NEW x, NumberIs(n, x), Fits(var, x),
         var.type = "INT_DEC" => x \in Int, var.type # "INT_DEC" => x \in Nat
  PROVE  var.data_size \in DOMAIN Limit /\ InRange(n)
<1>1. var.data_size \in DOMAIN Limit
  BY DEF Fits, Number
<1> DEFINE L == Limit[var.data_size]
<1>2. /\ L \in Nat \ {0} /\ L % 2 = 0 /\ 2 * L <= Word /\ Word \in Nat
  BY <1>1, VarParserAssumption
<1>3. CASE var.type = "INT_DEC"
  <2>1. x >= -(L \div 2) /\ 2 * x < L /\ x \in Int
    BY <1>3 DEF Fits
  <2> HIDE DEF L
  <2>2. {x, -x} \subseteq SignedWord
    BY <1>2, <2>1 DEF SignedWord
  <2>3. n = x
    BY <1>3, <2>2 DEF NumberIs
  <2>4. n \in -(L \div 2) .. L \div 2 - 1
    BY <1>2, <2>1, <2>3
  <2> QED BY <1>1, <1>3, <2>4 DEF InRange, L
<1>4. CASE var.type # "INT_DEC"
  <2>1. x < L /\ x \in Nat
    BY <1>4 DEF Fits, Number
  <2> HIDE DEF L
  <2>2. n = x
    <3>1. x < Word
      BY <1>2, <2>1
    <3>2. x % Word = x
      BY <1>2, <2>1, <3>1
    <3> QED BY <1>4, <3>2 DEF NumberIs
  <2> QED BY <1>1, <1>4, <2>1, <2>2 DEF InRange, L
<1> QED
  BY <1>3, <1>4

LEMMA InRangeFits ==
  ASSUME var \in Variable, var.type \in Number, NEW n \in Int,
         var.data_size \in DOMAIN Limit, InRange(n)
  PROVE  Fits(var, n)
<1> DEFINE L == Limit[var.data_size]
<1>1. L \in Nat \ {0}
  BY VarParserAssumption
<1>2. CASE var.type = "INT_DEC"
  <2>1. n \in -(L \div 2) .. L \div 2 - 1
    BY <1>2 DEF InRange
  <2> HIDE DEF L
  <2>2. n >= -(L \div 2) /\ 2 * n < L
    BY <1>1, <2>1
  <2> QED BY <1>2, <2>2 DEF Fits, L
<1>3. CASE var.type \in {"UINT_DEC", "NUM_HEX"}
  BY <1>3 DEF Fits, InRange
<1> QED
  BY <1>2, <1>3 DEF Number

LEMMA NumberRead ==
  ASSUME NEW ch, Reads(ch), var.type \in Number, NEW n \in CellValues(var), Validate(n),
         \E x : IsField(var, text, x),
         \A x : IsField(var, text, x) => NumberIs(n, x),
         \A t, x : IsField(var, t, x) /\ CarriesNext(text, ch, t) => NumberIs(n, x)
  PROVE  ReadInv'
<1>1. /\ var' = var /\ var \in Variable /\ UNCHANGED <<cmd, index, before>> /\ TypeInv
      /\ data[index] = before
  BY ReadsIs DEF Reads, FieldInv, ParsedSoFar
<1>2. var.type \notin {"BUF_HEX", "BUF_STRING"} /\ var.type \in {"INT_DEC", "UINT_DEC", "NUM_HEX"}
  BY DEF Number
<1>3. 0 \in Cells(var)
  BY <1>1, CellsAre
<1>4. CASE Fail
  <2>1. result' = "bad"
    BY <1>4 DEF Fail
  <2>2. ASSUME NEW t, NEW x, IsField(var, t, x), Fits(var, x), CarriesNext(text, ch, t)
        PROVE  FALSE
    <3>1. NumberIs(n, x)
      BY <2>2
    <3>2. (var.type = "INT_DEC" => x \in Int) /\ (var.type # "INT_DEC" => x \in Nat)
      BY <1>1, <1>2, <2>2, FieldText
    <3>3. ~(var.access = "READ_ONLY" \/ (var.data_size \in DOMAIN Limit /\ InRange(n)))
      BY <1>4 DEF Validate, Fail, FieldEnds
    <3> QED BY <1>1, <2>2, <3>1, <3>2, <3>3, NumberFits
  <2> QED BY <2>1, <2>2, Refuses
<1>5. CASE /\ var.access = "READ_ONLY" \/ (var.data_size \in DOMAIN Limit /\ InRange(n))
           /\ Store(0, n) /\ FieldEnds(var.data_size)
  <2>1. PICK x : IsField(var, text, x)
    OBVIOUS
  <2>2. result' = "hook" /\ write_size' = IF var.access = "READ_ONLY" THEN 0 ELSE var.data_size
    BY <1>5 DEF FieldEnds
  <2>3. Holds(x)'
    <3>1. CASE var.access = "READ_ONLY"
      <4>1. data' = data
        BY <1>5, <3>1 DEF Store
      <4> QED BY <1>1, <2>2, <3>1, <4>1 DEF Holds
    <3>2. CASE var.access # "READ_ONLY"
      <4>1. data'[index][0] = n
        BY <1>1, <1>3, <1>5, <3>2, StoreIs
      <4>2. n \in Int
        BY <1>1, <1>2, CellValuesAre, WordIs DEF SignedWord
      <4>3. Fits(var, n)
        BY <1>1, <1>5, <3>2, <4>2, InRangeFits
      <4>4. NumberIs(n, x)
        BY <2>1
      <4>5. Fits(var, data[index][0])'
        BY <1>1, <4>1, <4>3 DEF Fits
      <4> QED BY <1>1, <2>2, <3>2, <4>1, <4>4, <4>5 DEF Holds, NumberIs
    <3> QED BY <3>1, <3>2
  <2> QED BY <1>2, <2>1, <2>2, <2>3, FieldRead
<1> QED
  BY <1>4, <1>5 DEF Validate

-----------------------------------------------------------------------------
(* One character of a field of each type.                                  *)

LEMMA IntReads ==
  ASSUME NEW ch, Reads(ch), var.type = "INT_DEC", parse_int_decimal(ch)
  PROVE  ReadInv'
<1>1. /\ var \in Variable /\ local \in Locals /\ ReadsInt(text, local) /\ text' = Append(text, ch)
      /\ var.type \in Number
  BY ReadsIs DEF Reads, ReadInv, Reading, Number
<1>2. /\ local.val \in SignedWord /\ local.val * local.sign \in Int
      /\ CellValues(var) = SignedWord
  <2>1. local.val \in SignedWord /\ local.sign \in {-1, 0, 1}
    BY DEF Reads, TypeInv, ValOK, Locals
  <2>2. \A a \in Int, b \in {-1, 0, 1} : a * b \in Int
    OBVIOUS
  <2>3. SignedWord \subseteq Int
    BY WordIs DEF SignedWord
  <2> QED BY <1>1, <2>1, <2>2, <2>3, CellValuesAre
<1>3. \A t, x : IsField(var, t, x) /\ CarriesNext(text, ch, t) =>
        \/ ch \in Dec
        \/ local.sign = 0 /\ ch \in {"-", "+"}
        \/ /\ local.ok /\ Ends(ch)
           /\ {x, -x} \subseteq SignedWord => \A n \in Signed(local.val * local.sign) : n = x
  BY <1>1, IntCarries
<1>4. Dec \cap {"-", "+", "COMMA", "NUL"} = {} /\ (is_valid_dec_char(ch) <=> ch \in Dec)
  BY DecIs
<1>5. ASSUME local.ok /\ Ends(ch), NEW n \in Signed(local.val * local.sign), Validate(n)
      PROVE  ReadInv'
  <2>1. n \in CellValues(var)
    BY <1>2, <1>5, SignedIs
  <2>2. \E x : IsField(var, text, x)
    BY <1>1, <1>5, IntEnd
  <2>3. \A x : IsField(var, text, x) => NumberIs(n, x)
    BY <1>1, <1>5, IntEnd DEF NumberIs
  <2>4. \A t, x : IsField(var, t, x) /\ CarriesNext(text, ch, t) => NumberIs(n, x)
    BY <1>3, <1>4, <1>5 DEF NumberIs, Ends
  <2> QED BY <1>1, <1>5, <2>1, <2>2, <2>3, <2>4, NumberRead
<1>6. ASSUME NEW m, GoOn(m), ~Ends(ch), ReadsInt(Append(text, ch), m)
      PROVE  ReadInv'
  <2>1. result' = "parse" /\ local' = m
    BY <1>6 DEF GoOn, Reads
  <2> QED BY <1>1, <1>6, <2>1, ReadsOn
<1>7. CASE local.sign = 0 /\ ch \in {"-", "+"} /\ GoOn([local EXCEPT !.sign = IF ch = "-" THEN -1 ELSE 1])
  BY <1>1, <1>6, <1>7, IntSign DEF Ends
<1>8. ASSUME ch \in Dec, NEW val \in Signed(10 * local.val + Digit(ch)),
             GoOn([local EXCEPT !.sign = IF @ = 0 THEN 1 ELSE @, !.val = val, !.ok = TRUE])
      PROVE  ReadInv'
  <2>1. ~Ends(ch)
    BY <1>4, <1>8 DEF Ends
  <2> QED BY <1>1, <1>6, <1>8, <2>1, IntDigit
<1>9. CASE ~(local.ok /\ Ends(ch)) /\ ~is_valid_dec_char(ch) /\ ~(local.sign = 0 /\ ch \in {"-", "+"}) /\ Fail
  <2>1. \A t, x : IsField(var, t, x) => ~CarriesNext(text, ch, t)
    BY <1>3, <1>4, <1>9
  <2>2. result' = "bad"
    BY <1>9 DEF Fail
  <2> QED BY <2>1, <2>2, Refuses
<1> QED
  BY <1>4, <1>5, <1>7, <1>8, <1>9 DEF parse_int_decimal

LEMMA UintReads ==
  ASSUME NEW ch, Reads(ch), var.type = "UINT_DEC", parse_uint_decimal(ch)
  PROVE  ReadInv'
<1>1. /\ var \in Variable /\ local \in Locals /\ ReadsUint(text, local) /\ text' = Append(text, ch)
      /\ var.type \in Number /\ var.type # "INT_DEC"
  BY ReadsIs DEF Reads, ReadInv, Reading, Number
<1>2. local.val \in CellValues(var)
  <2>1. local.val \in 0 .. Word - 1
    BY DEF Reads, TypeInv, ValOK
  <2> QED BY <1>1, <2>1, CellValuesAre
<1>3. \A t, x : IsField(var, t, x) /\ CarriesNext(text, ch, t) =>
        ch \in Dec \/ (local.ok /\ Ends(ch) /\ x % Word = local.val)
  BY <1>1, UintCarries
<1>4. Dec \cap {"COMMA", "NUL"} = {} /\ (is_valid_dec_char(ch) <=> ch \in Dec)
  BY DecIs
<1>5. CASE local.ok /\ Ends(ch) /\ Validate(local.val)
  <2>2. \E x : IsField(var, text, x)
    BY <1>1, <1>5, UintEnd
  <2>3. \A x : IsField(var, text, x) => NumberIs(local.val, x)
    BY <1>1, <1>5, UintEnd DEF NumberIs
  <2>4. \A t, x : IsField(var, t, x) /\ CarriesNext(text, ch, t) => NumberIs(local.val, x)
    BY <1>1, <1>3, <1>4, <1>5 DEF NumberIs, Ends
  <2> QED BY <1>1, <1>2, <1>5, <2>2, <2>3, <2>4, NumberRead
<1>6. CASE ch \in Dec /\ GoOn([local EXCEPT !.val = (10 * @ + Digit(ch)) % Word, !.ok = TRUE])
  <2> DEFINE m == [local EXCEPT !.val = (10 * @ + Digit(ch)) % Word, !.ok = TRUE]
  <2>1. ReadsUint(Append(text, ch), m)
    BY <1>1, <1>6, UintDigit
  <2>2. result' = "parse" /\ local' = m
    BY <1>6 DEF GoOn, Reads
  <2> HIDE DEF m
  <2>3. ~Ends(ch)
    BY <1>4, <1>6 DEF Ends
  <2> QED BY <1>1, <2>1, <2>2, <2>3, ReadsOn
<1>7. CASE ~(local.ok /\ Ends(ch)) /\ ~is_valid_dec_char(ch) /\ Fail
  <2>1. \A t, x : IsField(var, t, x) => ~CarriesNext(text, ch, t)
    BY <1>3, <1>4, <1>7
  <2>2. result' = "bad"
    BY <1>7 DEF Fail
  <2> QED BY <2>1, <2>2, Refuses
<1> QED
  BY <1>4, <1>5, <1>6, <1>7 DEF parse_uint_decimal

LEMMA NumHexReads ==
  ASSUME NEW ch, Reads(ch), var.type = "NUM_HEX", parse_num_hexadecimal(ch)
  PROVE  ReadInv'
<1> DEFINE c == to_upper(ch)
           E == <<"0", "X">>
<1>1. /\ var \in Variable /\ local \in Locals /\ ReadsNumHex(text, local) /\ text' = Append(text, ch)
      /\ var.type \in Number /\ var.type # "INT_DEC" /\ local.state \in 0 .. 3
  BY ReadsIs DEF Reads, ReadInv, Reading, Number, Locals
<1>2. local.val \in CellValues(var)
  <2>1. local.val \in 0 .. Word - 1
    BY DEF Reads, TypeInv, ValOK
  <2> QED BY <1>1, <2>1, CellValuesAre
<1>3. \A t, x : IsField(var, t, x) /\ CarriesNext(text, ch, t) =>
        \/ local.state < 2 /\ c = E[local.state + 1]
        \/ local.state >= 2 /\ ch \in Hex
        \/ local.state = 3 /\ Ends(ch) /\ x % Word = local.val
  BY <1>1, NumHexCarries
<1>4. /\ Hex \cap {"COMMA", "NUL"} = {} /\ (is_valid_hex_char(c) <=> ch \in Hex) /\ (Ends(c) <=> Ends(ch))
      /\ E[1] = "0" /\ E[2] = "X"
  BY DecIs, HexIs, UpperIs
<1>8. /\ \/ local.state = 3 /\ Ends(c) /\ Validate(local.val)
         \/ local.state < 2 /\ c = E[local.state + 1] /\ GoOn([local EXCEPT !.state = @ + 1])
         \/ local.state >= 2 /\ is_valid_hex_char(c) /\ GoOn([local EXCEPT !.val = (16 * @ + Digit(c)) % Word, !.state = 3])
         \/ /\ \/ local.state < 2 /\ c # E[local.state + 1]
               \/ local.state = 2 /\ ~is_valid_hex_char(c)
               \/ local.state = 3 /\ ~is_valid_hex_char(c) /\ ~Ends(c)
            /\ Fail
  BY DEF parse_num_hexadecimal
<1>9. ~Ends("0") /\ ~Ends("X")
  BY DEF Ends
<1> HIDE DEF c, E
<1>5. CASE local.state = 3 /\ Ends(c) /\ Validate(local.val)
  <2>2. \E x : IsField(var, text, x)
    BY <1>1, <1>5, NumHexEnd
  <2>3. \A x : IsField(var, text, x) => NumberIs(local.val, x)
    BY <1>1, <1>5, NumHexEnd DEF NumberIs
  <2>4. \A t, x : IsField(var, t, x) /\ CarriesNext(text, ch, t) => NumberIs(local.val, x)
    <3>1. ch \notin Hex
      BY <1>4, <1>5 DEF Ends
    <3>2. ~(local.state < 2)
      BY <1>5
    <3> QED BY <1>1, <1>3, <3>1, <3>2 DEF NumberIs
  <2> QED BY <1>1, <1>2, <1>5, <2>2, <2>3, <2>4, NumberRead
<1>10. ASSUME NEW m, GoOn(m), ~Ends(ch), ReadsNumHex(Append(text, ch), m)
       PROVE  ReadInv'
  <2>1. result' = "parse" /\ local' = m
    BY <1>10 DEF GoOn, Reads
  <2> QED BY <1>1, <1>10, <2>1, ReadsOn
<1>6. CASE local.state < 2 /\ c = E[local.state + 1] /\ GoOn([local EXCEPT !.state = @ + 1])
  <2>1. ReadsNumHex(Append(text, ch), [local EXCEPT !.state = @ + 1])
    BY <1>1, <1>6, HexPrefix DEF c, E
  <2>2. local.state = 0 \/ local.state = 1
    BY <1>1, <1>6
  <2>3. ~Ends(ch)
    <3>1. CASE local.state = 0
      <4>1. c = E[1]
        BY <1>6, <3>1
      <4> QED BY <1>4, <1>9, <4>1
    <3>2. CASE local.state = 1
      <4>1. c = E[2]
        BY <1>6, <3>2
      <4> QED BY <1>4, <1>9, <4>1
    <3> QED BY <2>2, <3>1, <3>2
  <2> QED BY <1>6, <1>10, <2>1, <2>3
<1>7. CASE local.state >= 2 /\ is_valid_hex_char(c) /\ GoOn([local EXCEPT !.val = (16 * @ + Digit(c)) % Word, !.state = 3])
  <2>1. ch \in Hex
    BY <1>4, <1>7
  <2>2. ReadsNumHex(Append(text, ch), [local EXCEPT !.val = (16 * @ + Digit(c)) % Word, !.state = 3])
    BY <1>1, <1>7, <2>1, HexDigitRead DEF c
  <2>3. ~Ends(ch)
    BY <1>4, <2>1 DEF Ends
  <2> QED BY <1>7, <1>10, <2>2, <2>3
<1>11. CASE /\ \/ local.state < 2 /\ c # E[local.state + 1]
               \/ local.state = 2 /\ ~is_valid_hex_char(c)
               \/ local.state = 3 /\ ~is_valid_hex_char(c) /\ ~Ends(c)
            /\ Fail
  <2>1. \A t, x : IsField(var, t, x) => ~CarriesNext(text, ch, t)
    BY <1>1, <1>3, <1>4, <1>11
  <2>2. result' = "bad"
    BY <1>11 DEF Fail
  <2> QED BY <2>1, <2>2, Refuses
<1> QED
  BY <1>5, <1>6, <1>7, <1>8, <1>11

LEMMA BytesReads ==
  ASSUME NEW ch, Reads(ch), var.type = "BUF_HEX", parse_buffer_hexadecimal(ch)
  PROVE  ReadInv'
<1> DEFINE c == to_upper(ch)
           byte == (16 * local.byte + Digit(c)) % 256
<1>1. /\ var \in Variable /\ local \in Locals /\ ReadsBytes(var, text, local, data[index])
      /\ text' = Append(text, ch) /\ UNCHANGED <<cmd, index, before>> /\ var' = var /\ index' = index
      /\ local.state \in {0, 1} /\ local.size \in Nat /\ var.data_size \in Nat /\ TypeInv
      /\ var.type \notin Number
  BY ReadsIs, VarTypes DEF Reads, ReadInv, Reading, Number, Locals, ReadsBytes
<1>2. \A t, x : IsField(var, t, x) /\ Fits(var, x) /\ CarriesNext(text, ch, t) =>
        \/ ch \in Hex /\ (local.state = 0 \/ local.size < var.data_size)
        \/ local.state = 0 /\ local.size > 0 /\ Ends(ch)
  <2>1. ASSUME NEW t, NEW x, IsField(var, t, x), Fits(var, x), CarriesNext(text, ch, t)
        PROVE  \/ ch \in Hex /\ (local.state = 0 \/ local.size < var.data_size)
               \/ local.state = 0 /\ local.size > 0 /\ Ends(ch)
    <3>1. Len(x) <= var.data_size
      BY <2>1 DEF Fits
    <3> QED BY <1>1, <2>1, <3>1, BytesCarries
  <2> QED BY <2>1
<1>4. Hex \cap {"COMMA", "NUL"} = {} /\ (is_valid_hex_char(c) <=> ch \in Hex) /\ (Ends(c) <=> Ends(ch))
  BY DecIs, HexIs, UpperIs
<1>5. \/ local.size > 0 /\ local.state = 0 /\ Ends(c) /\ FieldEnds(local.size) /\ UNCHANGED data
      \/ is_valid_hex_char(c) /\ local.state = 0 /\ GoOn([local EXCEPT !.byte = byte, !.state = 1])
      \/ /\ is_valid_hex_char(c) /\ local.state = 1 /\ HasRoom
         /\ Store(local.size, byte)
         /\ local' = [local EXCEPT !.size = @ + 1, !.byte = 0, !.state = 0]
         /\ UNCHANGED <<write_size, result>>
      \/ /\ IF is_valid_hex_char(c) THEN local.state = 1 /\ ~HasRoom
            ELSE ~(local.size > 0 /\ local.state = 0 /\ Ends(c))
         /\ Fail
  BY DEF parse_buffer_hexadecimal
<1> HIDE DEF c, byte
<1>12. byte \in 0 .. 255 \/ ~is_valid_hex_char(c)
  <2>1. is_valid_hex_char(c) => 16 * local.byte + Digit(c) \in Int
    <3>1. is_valid_hex_char(c) => Digit(c) \in 0 .. 15
      BY DigitIs
    <3>2. local.byte \in 0 .. 255
      BY <1>1 DEF Locals
    <3>3. \A a \in 0 .. 255, b \in 0 .. 15 : 16 * a + b \in Int
      OBVIOUS
    <3> QED BY <3>1, <3>2, <3>3, Zenon
  <2>2. \A a \in Int : a % 256 \in 0 .. 255
    OBVIOUS
  <2> QED BY <2>1, <2>2, Zenon DEF byte
<1>6. CASE local.size > 0 /\ local.state = 0 /\ Ends(c) /\ FieldEnds(local.size) /\ UNCHANGED data
  <2>0. PICK x : x = Bytes(text)
    OBVIOUS
  <2>1. /\ IsField(var, text, x) /\ x \in Seq(Nat) /\ Len(x) = local.size
        /\ var.access # "READ_ONLY" => \A i \in 0 .. local.size - 1 : data[index][i] = x[i + 1]
    BY <1>1, <1>6, <2>0, BytesEnd
  <2>2. /\ result' = "hook" /\ data' = data
        /\ write_size' = IF var.access = "READ_ONLY" THEN 0 ELSE local.size
    BY <1>6 DEF FieldEnds
  <2>3. /\ local.size <= var.data_size
        /\ \A i \in Cells(var) : i >= local.size => data[index][i] = before[i]
        /\ var.access = "READ_ONLY" => data[index] = before
    BY <1>1 DEF Reads, FieldInv, ParsedSoFar
  <2>4. ASSUME var.access # "READ_ONLY", NEW i \in Cells(var)
        PROVE  data[index][i] = CASE i < local.size -> x[i + 1]
                                  [] i = local.size /\ var.type = "BUF_STRING" -> "NUL"
                                  [] OTHER -> before[i]
    <3>1. i \in 0 .. var.data_size - 1 /\ i \in Int /\ i >= 0
      BY <1>1, CellsAre
    <3>2. CASE i < local.size
      <4>1. i \in 0 .. local.size - 1
        BY <1>1, <3>1, <3>2
      <4> QED BY <2>1, <2>4, <3>2, <4>1
    <3>3. CASE i >= local.size
      <4>1. ~(i < local.size)
        BY <1>1, <3>1, <3>3
      <4> QED BY <2>3, <3>3, <4>1
    <3> QED BY <1>1, <3>1, <3>2, <3>3
  <2>5. Fits(var, x)
    BY <2>1, <2>3 DEF Fits
  <2>6. Holds(x)'
    <3>1. CASE var.access = "READ_ONLY"
      BY <1>1, <2>2, <2>3, <3>1 DEF Holds
    <3>2. CASE var.access # "READ_ONLY"
      <4>1. Fits(var, x)' /\ Cells(var)' = Cells(var)
        BY <1>1, <2>5 DEF Fits, Cells
      <4> QED BY <1>1, <2>1, <2>2, <2>4, <3>2, <4>1 DEF Holds
    <3> QED BY <3>1, <3>2
  <2> QED BY <2>1, <2>2, <2>6, FieldRead
<1>7. CASE is_valid_hex_char(c) /\ local.state = 0 /\ GoOn([local EXCEPT !.byte = byte, !.state = 1])
  <2> DEFINE m == [local EXCEPT !.byte = byte, !.state = 1]
  <2>1. m \in Locals /\ m.byte = byte /\ m.state = 1 /\ m.size = local.size
    <3>1. Like([local EXCEPT !.byte = byte], local) /\ [local EXCEPT !.byte = byte].byte = byte
      BY <1>1, <1>7, <1>12, SetByte DEF Locals
    <3> DEFINE b == [local EXCEPT !.byte = byte]
    <3>2. b \in Locals /\ b.byte = byte /\ b.size = local.size
      BY <3>1 DEF Like
    <3>3. m = [b EXCEPT !.state = 1]
      BY <1>1 DEF Locals
    <3> HIDE DEF b, m
    <3> QED BY <3>2, <3>3 DEF Locals
  <2>2. local' = m /\ data' = data /\ result' = "parse"
    BY <1>7 DEF GoOn, Reads
  <2> HIDE DEF m
  <2>3. ReadsBytes(var, Append(text, ch), m, data[index])
    BY <1>1, <1>4, <1>7, <2>1, FirstHalf DEF byte, c
  <2>4. ~Ends(ch)
    BY <1>4, <1>7 DEF Ends
  <2> QED BY <1>1, <2>2, <2>3, <2>4, ReadsOn
<1>8. CASE /\ is_valid_hex_char(c) /\ local.state = 1 /\ HasRoom
           /\ Store(local.size, byte)
           /\ local' = [local EXCEPT !.size = @ + 1, !.byte = 0, !.state = 0]
           /\ UNCHANGED <<write_size, result>>
  <2> DEFINE m == [local EXCEPT !.size = @ + 1, !.byte = 0, !.state = 0]
  <2>1. m \in Locals /\ m.byte = 0 /\ m.state = 0 /\ m.size = local.size + 1
    <3> DEFINE b == [local EXCEPT !.size = local.size + 1]
               e == [b EXCEPT !.byte = 0]
    <3>1. b \in Locals /\ b.size = local.size + 1
      BY <1>1, SetSize, Zenon
    <3>2. m = [e EXCEPT !.state = 0]
      OBVIOUS
    <3> HIDE DEF b
    <3>3. e \in Locals /\ e.byte = 0 /\ e.size = local.size + 1
      BY <3>1 DEF Locals
    <3> HIDE DEF e, m
    <3> QED BY <3>2, <3>3 DEF Locals
  <2>2. local' = m /\ result' = "parse"
    BY <1>8 DEF Reads
  <2> HIDE DEF m
  <2>3. var.access # "READ_ONLY" =>
          data'[index][local.size] = byte /\ \A i \in 0 .. local.size - 1 : data'[index][i] = data[index][i]
    <3>1. local.size \in Cells(var) /\ local.size < var.data_size
      BY <1>1, <1>8, RoomIs DEF HasRoom
    <3>2. \A i \in 0 .. local.size - 1 : i \in Cells(var) /\ i # local.size
      BY <1>1, <3>1, CellsAre
    <3>3. \A i \in Cells(var) :
            data'[index][i] = IF i = local.size /\ var.access # "READ_ONLY" THEN byte ELSE data[index][i]
      BY <1>1, <1>8, <3>1, StoreIs
    <3> QED BY <3>1, <3>2, <3>3
  <2>4. ReadsBytes(var, Append(text, ch), m, data'[index])
    BY <1>1, <1>4, <1>8, <2>1, <2>3, SecondHalf DEF byte, c
  <2>5. ~Ends(ch)
    BY <1>4, <1>8 DEF Ends
  <2> QED BY <1>1, <2>2, <2>4, <2>5, ReadsOn
<1>9. CASE /\ IF is_valid_hex_char(c) THEN local.state = 1 /\ ~HasRoom
              ELSE ~(local.size > 0 /\ local.state = 0 /\ Ends(c))
           /\ Fail
  <2>1. \A t, x : IsField(var, t, x) /\ Fits(var, x) => ~CarriesNext(text, ch, t)
    BY <1>2, <1>4, <1>9 DEF HasRoom, Ends
  <2>2. result' = "bad"
    BY <1>9 DEF Fail
  <2> QED BY <2>1, <2>2, Refuses
<1> QED
  BY <1>5, <1>6, <1>7, <1>8, <1>9

LEMMA StringReads ==
  ASSUME NEW ch, Reads(ch), var.type = "BUF_STRING", parse_buffer_string(ch)
  PROVE  ReadInv'
<1>1. /\ var \in Variable /\ local \in Locals /\ ReadsString(var, text, local, data[index])
      /\ text' = Append(text, ch) /\ UNCHANGED <<cmd, index, before>> /\ var' = var /\ index' = index
      /\ local.state \in 0 .. 3 /\ local.size \in Nat /\ var.data_size \in Nat /\ TypeInv
      /\ var.type \notin Number /\ result = "parse"
  BY ReadsIs, VarTypes DEF Reads, ReadInv, Reading, Number, Locals
<1>2. \A t, x : IsField(var, t, x) /\ Fits(var, x) /\ CarriesNext(text, ch, t) =>
        \/ local.state = 0 /\ ch = "QUOTE"
        \/ local.state = 1 /\ (ch \in {"BACKSLASH", "QUOTE"} \/ (ch \in Plain(var) /\ HasRoom))
        \/ local.state = 2 /\ ch \in DOMAIN Unescaped /\ HasRoom
        \/ local.state = 3 /\ Ends(ch) /\ HasRoom
  <2>1. ASSUME NEW t, NEW x, IsField(var, t, x), Fits(var, x), CarriesNext(text, ch, t)
        PROVE  \/ local.state = 0 /\ ch = "QUOTE"
               \/ local.state = 1 /\ (ch \in {"BACKSLASH", "QUOTE"} \/ (ch \in Plain(var) /\ local.size < var.data_size))
               \/ local.state = 2 /\ ch \in DOMAIN Unescaped /\ local.size < var.data_size
               \/ local.state = 3 /\ Ends(ch) /\ local.size < var.data_size
    <3>1. Len(x) < var.data_size
      BY <2>1 DEF Fits
    <3> QED BY <1>1, <2>1, <3>1, StringCarries
  <2> QED BY <2>1 DEF HasRoom
<1>3. ASSUME Fail,
             ~ \/ local.state = 0 /\ ch = "QUOTE"
               \/ local.state = 1 /\ (ch \in {"BACKSLASH", "QUOTE"} \/ (ch \in Plain(var) /\ HasRoom))
               \/ local.state = 2 /\ ch \in DOMAIN Unescaped /\ HasRoom
               \/ local.state = 3 /\ Ends(ch) /\ HasRoom
      PROVE  ReadInv'
  <2>1. result' = "bad"
    BY <1>3 DEF Fail
  <2>2. \A t, x : IsField(var, t, x) /\ Fits(var, x) => ~CarriesNext(text, ch, t)
    BY <1>2, <1>3
  <2> QED BY <2>1, <2>2, Refuses
<1>4. ASSUME NEW s \in 0 .. 3, GoOn([local EXCEPT !.state = s]),
             \A m \in Locals : m.state = s /\ m.size = local.size =>
               ReadsString(var, Append(text, ch), m, data[index])
      PROVE  ReadInv'
  <2> DEFINE m == [local EXCEPT !.state = s]
  <2>1. m \in Locals /\ m.state = s /\ m.size = local.size
    BY <1>1 DEF Locals
  <2>2. local' = m /\ data' = data /\ result' = "parse"
    BY <1>1, <1>4 DEF GoOn
  <2> HIDE DEF m
  <2>3. ReadsString(var, text', local', data'[index])
    BY <1>1, <1>4, <2>1, <2>2
  <2> QED BY <1>1, <2>2, <2>3, ReadsOn
<1>5. ASSUME NEW p \in Pieces(var), StringChar(p.value), HasRoom,
             (local.state = 1 /\ p.text = <<ch>>) \/ (local.state = 2 /\ p.text = <<"BACKSLASH", ch>>)
      PROVE  ReadInv'
  <2> DEFINE b == [local EXCEPT !.size = local.size + 1]
             m == [b EXCEPT !.state = 1]
  <2>1. /\ Store(local.size, p.value) /\ local' = m /\ result' = "parse"
    BY <1>1, <1>5 DEF StringChar
  <2>2. m \in Locals /\ m.state = 1 /\ m.size = local.size + 1
    <3>1. b \in Locals /\ b.size = local.size + 1
      BY <1>1, SetSize, Zenon
    <3> HIDE DEF b
    <3> QED BY <3>1 DEF Locals
  <2> HIDE DEF m
  <2>3. var.access # "READ_ONLY" =>
          data'[index][local.size] = p.value /\ \A i \in 0 .. local.size - 1 : data'[index][i] = data[index][i]
    <3>1. local.size \in Cells(var) /\ local.size < var.data_size
      BY <1>1, <1>5, RoomIs DEF HasRoom
    <3>2. \A i \in 0 .. local.size - 1 : i \in Cells(var) /\ i # local.size
      BY <1>1, <3>1, CellsAre
    <3>3. \A i \in Cells(var) :
            data'[index][i] = IF i = local.size /\ var.access # "READ_ONLY" THEN p.value ELSE data[index][i]
      BY <1>1, <2>1, <3>1, StoreIs
    <3> QED BY <3>1, <3>2, <3>3
  <2>4. ReadsString(var, Append(text, ch), m, data'[index])
    BY <1>1, <1>5, <2>2, <2>3, StringPiece
  <2> QED BY <1>1, <2>1, <2>4, ReadsOn
<1>6. CASE local.state = 0
  <2>1. CASE ch = "QUOTE"
    <3>1. GoOn([local EXCEPT !.state = 1])
      BY <1>6, <2>1 DEF parse_buffer_string
    <3>2. \A m \in Locals : m.state = 1 /\ m.size = local.size => ReadsString(var, Append(text, ch), m, data[index])
      BY <1>1, <1>6, <2>1, StringQuote
    <3> QED BY <1>4, <3>1, <3>2
  <2>2. CASE ch # "QUOTE"
    <3>1. Fail
      BY <1>6, <2>2 DEF parse_buffer_string
    <3> QED BY <1>3, <1>6, <2>2, <3>1
  <2> QED BY <2>1, <2>2
<1>7. CASE local.state = 1
  <2>2. (CASE ch = "NUL" -> Fail
           [] ch = "BACKSLASH" -> GoOn([local EXCEPT !.state = 2])
           [] ch = "QUOTE" -> GoOn([local EXCEPT !.state = 3])
           [] OTHER -> StringChar(ch))
    BY <1>7 DEF parse_buffer_string
  <2>3. CASE ch = "NUL"
    <3>1. Fail
      BY <2>2, <2>3
    <3>2. ch \notin Plain(var)
      BY <1>1, <2>3, LetterIs DEF Plain
    <3> QED BY <1>3, <1>7, <2>3, <3>1, <3>2
  <2>4. CASE ch = "BACKSLASH"
    <3>1. GoOn([local EXCEPT !.state = 2])
      BY <2>2, <2>4
    <3>2. \A m \in Locals : m.state = 2 /\ m.size = local.size => ReadsString(var, Append(text, ch), m, data[index])
      BY <1>1, <1>7, <2>4, StringMark
    <3> QED BY <1>4, <3>1, <3>2
  <2>5. CASE ch = "QUOTE"
    <3>1. GoOn([local EXCEPT !.state = 3])
      BY <2>2, <2>5
    <3>2. \A m \in Locals : m.state = 3 /\ m.size = local.size => ReadsString(var, Append(text, ch), m, data[index])
      BY <1>1, <1>7, <2>5, StringMark
    <3> QED BY <1>4, <3>1, <3>2
  <2>6. CASE ch \notin {"NUL", "BACKSLASH", "QUOTE"}
    <3>1. StringChar(ch)
      BY <2>2, <2>6
    <3>2. ch \in Plain(var)
      BY <2>6 DEF Reads, Plain, Ends
    <3>3. CASE HasRoom
      <4> DEFINE p == [text |-> <<ch>>, value |-> ch]
      <4>1. p \in Pieces(var)
        BY <1>1, <3>2, PiecesAre
      <4>2. p.text = <<ch>> /\ p.value = ch
        OBVIOUS
      <4> HIDE DEF p
      <4> QED BY <1>5, <1>7, <3>1, <3>3, <4>1, <4>2
    <3>4. CASE ~HasRoom
      <4>1. Fail
        BY <3>1, <3>4 DEF StringChar
      <4> QED BY <1>3, <1>7, <2>6, <3>4, <4>1
    <3> QED BY <3>3, <3>4
  <2> QED BY <2>3, <2>4, <2>5, <2>6
<1>8. CASE local.state = 2
  <2>1. IF ch \in DOMAIN Unescaped THEN StringChar(Unescaped[ch]) ELSE Fail
    BY <1>8 DEF parse_buffer_string
  <2>2. CASE ch \in DOMAIN Unescaped /\ HasRoom
    <3> DEFINE p == [text |-> <<"BACKSLASH", ch>>, value |-> Unescaped[ch]]
    <3>1. p \in Pieces(var)
      BY <1>1, <2>2, PiecesAre
    <3>2. p.text = <<"BACKSLASH", ch>> /\ p.value = Unescaped[ch]
      OBVIOUS
    <3> HIDE DEF p
    <3> QED BY <1>5, <1>8, <2>1, <2>2, <3>1, <3>2
  <2>3. CASE ~(ch \in DOMAIN Unescaped /\ HasRoom)
    <3>1. Fail
      BY <2>1, <2>3 DEF StringChar
    <3> QED BY <1>3, <1>8, <2>3, <3>1
  <2> QED BY <2>2, <2>3
<1>9. CASE local.state = 3
  <2>1. IF Ends(ch) /\ HasRoom THEN Terminate /\ FieldEnds(local.size) ELSE Fail
    BY <1>9 DEF parse_buffer_string
  <2>2. CASE ~(Ends(ch) /\ HasRoom)
    <3>1. Fail
      BY <2>1, <2>2
    <3> QED BY <1>3, <1>9, <2>2, <3>1
  <2>3. CASE Ends(ch) /\ HasRoom
    <3>1. PICK ps \in Seq(Pieces(var)) :
            /\ Len(ps) = local.size /\ text = <<"QUOTE">> \o Flat(ps) \o <<"QUOTE">>
            /\ var.access # "READ_ONLY" => \A i \in 0 .. local.size - 1 : data[index][i] = ps[i + 1].value
      BY <1>1, <1>9 DEF ReadsString, StringText
    <3>2. PICK x : x = Values(ps)
      OBVIOUS
    <3>3. IsField(var, text, x)
      BY <3>1, <3>2 DEF IsField
    <3>4. Len(x) = local.size /\ \A i \in 1 .. local.size : x[i] = ps[i].value
      BY <3>1, <3>2 DEF Values
    <3>5. /\ result' = "hook" /\ Store(local.size, "NUL")
          /\ write_size' = IF var.access = "READ_ONLY" THEN 0 ELSE local.size
      BY <2>1, <2>3 DEF FieldEnds, Terminate
    <3>6. local.size < var.data_size /\ local.size \in Cells(var)
      BY <1>1, <2>3, RoomIs DEF HasRoom
    <3>7. /\ \A i \in Cells(var) : i >= local.size => data[index][i] = before[i]
          /\ var.access = "READ_ONLY" => data[index] = before
      BY <1>1 DEF Reads, FieldInv, ParsedSoFar
    <3>8. ASSUME var.access # "READ_ONLY", NEW i \in Cells(var)
          PROVE  data'[index][i] = CASE i < local.size -> x[i + 1]
                                     [] i = local.size /\ var.type = "BUF_STRING" -> "NUL"
                                     [] OTHER -> before[i]
      <4>1. i \in 0 .. var.data_size - 1 /\ i \in Int /\ i >= 0
        BY <1>1, CellsAre
      <4>2. data'[index][i] = IF i = local.size THEN "NUL" ELSE data[index][i]
        BY <1>1, <3>5, <3>6, <3>8, StoreIs
      <4>3. CASE i < local.size
        <5>1. i \in 0 .. local.size - 1 /\ i + 1 \in 1 .. local.size /\ i # local.size
          BY <1>1, <4>1, <4>3
        <5>2. data[index][i] = ps[i + 1].value
          BY <3>1, <3>8, <5>1
        <5> QED BY <3>4, <4>2, <4>3, <5>1, <5>2
      <4>4. CASE i = local.size
        <5>1. ~(i < local.size)
          BY <1>1, <4>4
        <5> QED BY <4>2, <4>4, <5>1
      <4>5. CASE i > local.size
        <5>1. ~(i < local.size) /\ i # local.size /\ i >= local.size
          BY <1>1, <4>1, <4>5
        <5>2. data[index][i] = before[i]
          BY <3>7, <5>1
        <5> QED BY <4>2, <5>1, <5>2
      <4> QED BY <1>1, <4>1, <4>3, <4>4, <4>5
    <3>9. Fits(var, x)
      BY <3>4, <3>6 DEF Fits
    <3>10. Holds(x)'
      <4>1. CASE var.access = "READ_ONLY"
        <5>1. data' = data
          BY <3>5, <4>1 DEF Store
        <5> QED BY <1>1, <3>5, <3>7, <4>1, <5>1 DEF Holds
      <4>2. CASE var.access # "READ_ONLY"
        <5>1. Fits(var, x)' /\ Cells(var)' = Cells(var)
          BY <1>1, <3>9 DEF Fits, Cells
        <5> QED BY <1>1, <3>4, <3>5, <3>8, <4>2, <5>1 DEF Holds
      <4> QED BY <4>1, <4>2
    <3>11. Len(x) <= var.data_size
      BY <1>1, <3>4, <3>6
    <3> QED BY <3>3, <3>5, <3>10, <3>11, FieldRead
  <2> QED BY <2>2, <2>3
<1> QED
  BY <1>1, <1>6, <1>7, <1>8, <1>9

-----------------------------------------------------------------------------
(* Every step.                                                             *)

\* At the beginning of a field nothing is read.
LEMMA FreshReads ==
  ASSUME NEW v \in Variable, NEW d
  PROVE  /\ <<>> \in Seq(Letter) /\ <<>> \in Seq(Chars[v.type]) /\ Len(<<>>) <= MaxField
         /\ ReadsInt(<<>>, Fresh) /\ ReadsUint(<<>>, Fresh) /\ ReadsNumHex(<<>>, Fresh)
         /\ ReadsBytes(v, <<>>, Fresh, d) /\ ReadsString(v, <<>>, Fresh, d)
<1>1. Fresh.size = 0 /\ Fresh.state = 0 /\ Fresh.sign = 0 /\ Fresh.val = 0
      /\ Fresh.ok = FALSE /\ Fresh.byte = 0
  BY DEF Fresh
<1>2. <<>> \in Seq(Letter) /\ <<>> \in Seq(Dec) /\ <<>> \in Seq(Hex) /\ <<>> \in Seq(Chars[v.type])
      /\ <<>> \in Seq(Pieces(v)) /\ Len(<<>>) = 0
  OBVIOUS
<1>3. Numeral(10, <<>>) = 0
  BY NumeralEmpty
<1>4. ReadsInt(<<>>, Fresh)
  <2>1. <<>> \in Signs /\ <<>> \o <<>> = <<>> /\ <<>> # <<"-">> /\ <<>> # <<"+">>
    BY DEF Signs
  <2> QED BY <1>1, <1>2, <1>3, <2>1 DEF ReadsInt
<1>5. ReadsUint(<<>>, Fresh)
  <2>1. 0 % Word = 0
    BY WordIs
  <2> QED BY <1>1, <1>2, <1>3, <2>1 DEF ReadsUint
<1>6. ReadsNumHex(<<>>, Fresh)
  BY <1>1 DEF ReadsNumHex
<1>7. ReadsBytes(v, <<>>, Fresh, d)
  <2>1. \A i \in 0 .. 0 - 1 : FALSE
    OBVIOUS
  <2> QED BY <1>1, <1>2, <2>1 DEF ReadsBytes
<1>8. ReadsString(v, <<>>, Fresh, d)
  <2>1. \A i \in 0 .. 0 - 1 : FALSE
    OBVIOUS
  <2>2. StringText(0, <<>>) = <<>>
    BY DEF StringText
  <2> QED BY <1>1, <1>2, <2>1, <2>2 DEF ReadsString
<1>9. Len(<<>>) <= MaxField
  BY <1>2, VarParserAssumption
<1> QED
  BY <1>2, <1>4, <1>5, <1>6, <1>7, <1>8, <1>9

LEMMA ReadingStarts ==
  /\ TypeInv /\ local = Fresh /\ text = <<>> => Reading
  /\ (TypeInv /\ local = Fresh /\ text = <<>>)' => Reading'
<1>1. TypeInv => var \in Variable
  BY VarParserAssumption DEF TypeInv, var
<1>2. TypeInv' => var' \in Variable
  BY VarParserAssumption DEF TypeInv, var
<1>3. TypeInv /\ local = Fresh /\ text = <<>> => Reading
  BY <1>1, FreshReads DEF Reading
<1>4. (TypeInv /\ local = Fresh /\ text = <<>>)' => Reading'
  BY <1>2, FreshReads DEF Reading
<1> QED
  BY <1>3, <1>4

LEMMA ReadStep == TypeInv /\ FieldInv /\ ReadInv /\ [Next]_vars => ReadInv'
<1> SUFFICES ASSUME TypeInv, FieldInv, ReadInv, [Next]_vars PROVE ReadInv'
  OBVIOUS
<1>1. TypeInv'
  BY TypeStep
<1>2. ASSUME NEW k, StartField(k) PROVE ReadInv'
  <2>1. result' = "parse" /\ local' = Fresh /\ text' = <<>>
    BY <1>2 DEF StartField
  <2>2. Reading'
    BY <1>1, <2>1, ReadingStarts
  <2> QED BY <2>1, <2>2 DEF ReadInv, HookSeesValue, Rejected
<1>3. CASE ParseChar
  <2>1. var \in Variable
    BY VarIs DEF TypeInv, var
  <2>2. PICK ch \in {"COMMA", "NUL"} \cup IF Len(text) < MaxField THEN Chars[var.type] ELSE {} :
          /\ CASE var.type = "INT_DEC" -> parse_int_decimal(ch)
               [] var.type = "UINT_DEC" -> parse_uint_decimal(ch)
               [] var.type = "NUM_HEX" -> parse_num_hexadecimal(ch)
               [] var.type = "BUF_HEX" -> parse_buffer_hexadecimal(ch)
               [] var.type = "BUF_STRING" -> parse_buffer_string(ch)
          /\ text' = Append(text, ch)
    BY <1>3 DEF ParseChar
  <2>3. Reads(ch)
    <3>1. ch \in Letter
      BY <2>1, LetterIs
    <3>2. ~Ends(ch) => ch \in Chars[var.type] /\ Len(text) < MaxField
      BY DEF Ends
    <3> QED BY <1>3, <2>2, <3>1, <3>2 DEF Reads, ParseChar
  <2>4. CASE var.type = "INT_DEC"
    BY <2>2, <2>3, <2>4, IntReads
  <2>5. CASE var.type = "UINT_DEC"
    BY <2>2, <2>3, <2>5, UintReads
  <2>6. CASE var.type = "NUM_HEX"
    BY <2>2, <2>3, <2>6, NumHexReads
  <2>7. CASE var.type = "BUF_HEX"
    BY <2>2, <2>3, <2>7, BytesReads
  <2>8. CASE var.type = "BUF_STRING"
    BY <2>2, <2>3, <2>8, StringReads
  <2> QED BY <2>1, <2>4, <2>5, <2>6, <2>7, <2>8, VarTypes
<1>4. CASE CallHook
  <2>1. CASE StartField(index + 1)
    BY <1>2, <2>1
  <2>2. CASE result' \in {"error", "done"}
    BY <2>2 DEF ReadInv, Reading, HookSeesValue, Rejected
  <2> QED BY <1>4, <2>1, <2>2 DEF CallHook
<1>5. CASE NextLine
  BY <1>2, <1>5 DEF NextLine
<1>6. CASE UNCHANGED vars
  BY <1>6 DEF vars, ReadInv, Reading, HookSeesValue, Rejected, var, Carries, Cells
<1> QED
  BY <1>3, <1>4, <1>5, <1>6 DEF Next

LEMMA ReadInit == Init => ReadInv
<1> SUFFICES ASSUME Init PROVE ReadInv
  OBVIOUS
<1>1. TypeInv /\ local = Fresh /\ text = <<>> /\ result = "parse"
  BY TypeInit DEF Init
<1> QED
  BY <1>1, ReadingStarts DEF ReadInv, HookSeesValue, Rejected

\* Of the fields that the runs look at.
LEMMA RejectedIs ==
  ASSUME TypeInv, FieldInv, Rejected
  PROVE  RejectedRightly
<1>1. var \in Variable /\ Fields[var] = FieldsOf(var)
  BY VarIs, VarFields DEF TypeInv, var
<1>2. \A f \in Fields[var] : IsField(var, f.text, f.value)
  BY <1>1, FieldsAre
<1> QED
  BY <1>2 DEF Rejected, RejectedRightly, FieldInv, ParsedSoFar

\* The write hook sees what was typed, for every width of a number, size of a
\* buffer and length of a field: the text read is a field of its variable, the
\* variable holds its value, with what lay behind it in a buffer, and write_size
\* is its length.  This is the invariant that the five loops of cat.c keep
\* between two characters.
THEOREM HookSeesValueHolds == Spec => []HookSeesValue
<1>1. Init => FieldInv
  BY TypeInit, FieldStarts DEF Init
<1>2. ReadInv => HookSeesValue
  BY DEF ReadInv
<1> QED
  BY <1>1, <1>2, TypeInit, TypeStep, FieldStep, ReadInit, ReadStep, PTL DEF Spec

\* A parser refuses a text only when nothing typed after it could have made a
\* field that the variable can take, and a refused number is not stored.
THEOREM RejectedRightlyHolds == Spec => []RejectedRightly
<1>1. Init => FieldInv
  BY TypeInit, FieldStarts DEF Init
<1>2. TypeInv /\ FieldInv /\ ReadInv => RejectedRightly
  BY RejectedIs DEF ReadInv
<1> QED
  BY <1>1, <1>2, TypeInit, TypeStep, FieldStep, ReadInit, ReadStep, PTL DEF Spec

-----------------------------------------------------------------------------
(* A text is a field of one value only.                                    *)

LEMMA PiecesUnique ==
  ASSUME NEW v \in Variable, NEW ps \in Seq(Pieces(v)), NEW qs \in Seq(Pieces(v)),
         <<"QUOTE">> \o Flat(ps) \o <<"QUOTE">> = <<"QUOTE">> \o Flat(qs) \o <<"QUOTE">>
  PROVE  ps = qs
<1> DEFINE s == Flat(ps) \o <<"QUOTE">>
           r == Flat(qs) \o <<"QUOTE">>
<1>1. Flat(ps) \in Seq(Letter) /\ Flat(qs) \in Seq(Letter) /\ <<"QUOTE">> \in Seq(Letter) /\ "QUOTE" \in Letter
  BY FlatIs, LettersAre
<1>2. /\ s \in Seq(Letter) /\ Len(s) = Len(Flat(ps)) + 1 /\ \A i \in 1 .. Len(Flat(ps)) : s[i] = Flat(ps)[i]
      /\ r \in Seq(Letter) /\ Len(r) = Len(Flat(qs)) + 1 /\ \A i \in 1 .. Len(Flat(qs)) : r[i] = Flat(qs)[i]
      /\ Len(Flat(ps)) \in Nat /\ Len(Flat(qs)) \in Nat
  BY <1>1, ClosedIs
<1>3. <<"QUOTE">> \o s = <<"QUOTE">> \o r
  BY <1>1, QuoteClose
<1>4. s = Flat(ps) \o <<"QUOTE">> /\ r = Flat(qs) \o <<"QUOTE">>
  OBVIOUS
<1> HIDE DEF s, r
<1> DEFINE t == <<"QUOTE">> \o s
<1>5. Len(t) = 1 + Len(s) /\ \A i \in 1 .. Len(s) : t[i + 1] = s[i]
  BY <1>2, QuotedIs
<1>6. Len(t) = 1 + Len(r) /\ \A i \in 1 .. Len(r) : t[i + 1] = r[i]
  BY <1>2, <1>3, QuotedIs
<1> HIDE DEF t
<1>7. s = r
  <2>1. Len(s) = Len(r) /\ \A i \in 1 .. Len(s) : s[i] = r[i]
    BY <1>2, <1>5, <1>6
  <2> QED BY <1>2, <2>1
<1>8. Len(ps) <= Len(qs) /\ \A i \in 1 .. Len(ps) : ps[i] = qs[i]
  <2>1. Len(Flat(ps)) <= Len(s) /\ \A i \in 1 .. Len(Flat(ps)) : Flat(ps)[i] = s[i]
    BY <1>2
  <2>2. s \in Seq(Letter) /\ s = Flat(qs) \o <<"QUOTE">>
    BY <1>2, <1>4, <1>7
  <2> QED BY <2>1, <2>2, Decode
<1>9. Len(qs) <= Len(ps)
  <2>1. Len(Flat(qs)) <= Len(s) /\ \A i \in 1 .. Len(Flat(qs)) : Flat(qs)[i] = s[i]
    BY <1>2, <1>7
  <2>2. s \in Seq(Letter) /\ s = Flat(ps) \o <<"QUOTE">>
    BY <1>2, <1>4
  <2> QED BY <2>1, <2>2, Decode
<1> QED
  BY <1>8, <1>9

LEMMA FieldUnique ==
  ASSUME NEW v \in Variable, NEW t, NEW x, NEW y, IsField(v, t, x), IsField(v, t, y)
  PROVE  x = y
<1>1. CASE v.type = "INT_DEC"
  <2>1. PICK sign \in Signs, ds \in Seq(Dec) : t = sign \o ds /\ x = SignedValue(sign, ds)
    BY <1>1 DEF IsField
  <2>2. PICK other \in Signs, es \in Seq(Dec) : t = other \o es /\ y = SignedValue(other, es)
    BY <1>1 DEF IsField
  <2>3. sign = other /\ ds = es
    BY <2>1, <2>2, SignSplit
  <2> QED BY <2>1, <2>2, <2>3
<1>2. CASE v.type = "UINT_DEC"
  BY <1>2 DEF IsField
<1>3. CASE v.type = "NUM_HEX"
  <2>1. PICK p \in HexMarks, ds \in Seq(Hex) : t = p \o ds /\ x = Numeral(16, ds)
    BY <1>3 DEF IsField
  <2>2. PICK q \in HexMarks, es \in Seq(Hex) : t = q \o es /\ y = Numeral(16, es)
    BY <1>3 DEF IsField
  <2>3. Len(t) = 2 + Len(ds) /\ \A k \in 1 .. Len(ds) : t[2 + k] = ds[k]
    BY <2>1, HexMarksAre
  <2>4. Len(t) = 2 + Len(es) /\ \A k \in 1 .. Len(es) : t[2 + k] = es[k]
    BY <2>2, HexMarksAre
  <2>5. ds = es
    <3>1. Len(ds) = Len(es) /\ \A k \in 1 .. Len(ds) : ds[k] = es[k]
      BY <2>3, <2>4
    <3> QED BY <3>1
  <2> QED BY <2>1, <2>2, <2>5
<1>4. CASE v.type = "BUF_HEX"
  BY <1>4 DEF IsField
<1>5. CASE v.type = "BUF_STRING"
  <2>1. PICK ps \in Seq(Pieces(v)) : t = <<"QUOTE">> \o Flat(ps) \o <<"QUOTE">> /\ x = Values(ps)
    BY <1>5 DEF IsField
  <2>2. PICK qs \in Seq(Pieces(v)) : t = <<"QUOTE">> \o Flat(qs) \o <<"QUOTE">> /\ y = Values(qs)
    BY <1>5 DEF IsField
  <2>3. ps = qs
    BY <2>1, <2>2, PiecesUnique
  <2> QED BY <2>1, <2>2, <2>3
<1> QED
  BY <1>1, <1>2, <1>3, <1>4, <1>5, VarTypes

-----------------------------------------------------------------------------
(* What the formatters print is a field.                                   *)

\* The values that the cells of a variable can have.
CellsOK(v, d) ==
  /\ DOMAIN d = Cells(v) /\ \A i \in Cells(v) : d[i] \in CellValues(v)
  /\ v.type \in Number /\ v.data_size \in DOMAIN Limit => Fits(v, d[0])

\* A variable that reads as a value, as ReadsBack says it.
Readable(v, d) ==
  CASE v.type = "BUF_STRING" -> \E i \in Cells(v) : d[i] = "NUL"
    [] v.type = "BUF_HEX" -> TRUE
    [] OTHER -> v.data_size \in DOMAIN Limit

\* The value.
ValueOf(v, d) ==
  CASE v.type = "BUF_HEX" -> [i \in 1 .. v.data_size |-> d[i - 1]]
    [] v.type = "BUF_STRING" -> Content(v, d)
    [] OTHER -> d[0]

LEMMA HexDigitsAre ==
  ASSUME NEW n \in Nat, NEW width \in Nat
  PROVE  LET ds == Digits(16, n, width)
         IN  /\ ds \in Seq(Hex) \ {<<>>} /\ Numeral(16, ds) = n
             /\ n < 256 /\ width = 2 => Len(ds) = 2
<1>1. 16 \in {10, 16} /\ 16 = 16 /\ DigitsOf(16) = Hex
  BY DEF DigitsOf
<1>2. LET ds == Digits(16, n, width)
      IN  /\ ds \in Seq(DigitsOf(16)) /\ ds # <<>> /\ Numeral(16, ds) = n
          /\ 16 = 16 /\ n < 256 /\ width = 2 => Len(ds) = 2
  BY <1>1, DigitsAre, Zenon
<1> QED BY <1>1, <1>2, Zenon

LEMMA NumberPrinted ==
  ASSUME NEW v \in Variable, v.access = "READ_WRITE", v.type \in Number, NEW d, CellsOK(v, d)
  PROVE  IsField(v, Formatted(v, d), d[0])
<1>1. d[0] \in CellValues(v)
  BY CellsAre DEF CellsOK
<1>2. CASE v.type = "INT_DEC"
  <2>1. d[0] \in Int
    BY <1>1, <1>2, CellValuesAre, WordIs DEF SignedWord
  <2>2. CASE d[0] < 0
    <3> DEFINE ds == Digits(10, -d[0], 1)
    <3>1. -d[0] \in Nat
      BY <2>1, <2>2
    <3>5. ~(d[0] >= 0)
      BY <2>1, <2>2
    <3>2. ds \in Seq(Dec) \ {<<>>} /\ Numeral(10, ds) = -d[0]
      BY <3>1, DigitsAre DEF DigitsOf
    <3>3. Formatted(v, d) = <<"-">> \o ds
      BY <1>2, <2>2, <3>5 DEF Formatted
    <3> HIDE DEF ds
    <3>4. d[0] = SignedValue(<<"-">>, ds) /\ <<"-">> \in Signs
      BY <2>1, <3>2 DEF SignedValue, Signs
    <3> QED BY <1>2, <3>2, <3>3, <3>4 DEF IsField
  <2>3. CASE d[0] >= 0
    <3> DEFINE ds == Digits(10, d[0], 1)
    <3>1. d[0] \in Nat /\ ~(d[0] < 0)
      BY <2>1, <2>3
    <3>2. ds \in Seq(Dec) \ {<<>>} /\ Numeral(10, ds) = d[0]
      BY <3>1, DigitsAre DEF DigitsOf
    <3>3. Formatted(v, d) = ds
      BY <1>2, <2>3, <3>1 DEF Formatted
    <3> HIDE DEF ds
    <3>4. d[0] = SignedValue(<<>>, ds) /\ <<>> \in Signs /\ ds = <<>> \o ds
      BY <3>2 DEF SignedValue, Signs
    <3> QED BY <1>2, <3>2, <3>3, <3>4 DEF IsField
  <2> QED BY <2>1, <2>2, <2>3
<1>3. CASE v.type = "UINT_DEC"
  <2> DEFINE ds == Digits(10, d[0], 1)
  <2>1. d[0] \in Nat
    BY <1>1, <1>3, CellValuesAre, WordIs
  <2>2. ds \in Seq(Dec) \ {<<>>} /\ Numeral(10, ds) = d[0]
    BY <2>1, DigitsAre DEF DigitsOf
  <2>3. Formatted(v, d) = ds
    BY <1>3 DEF Formatted
  <2> HIDE DEF ds
  <2> QED BY <1>3, <2>2, <2>3 DEF IsField
<1>4. CASE v.type = "NUM_HEX"
  <2> DEFINE ds == Digits(16, d[0], 2 * v.data_size)
  <2>1. d[0] \in Nat /\ 2 * v.data_size \in Nat
    BY <1>1, <1>4, CellValuesAre, WordIs, VarTypes
  <2>2. ds \in Seq(Hex) \ {<<>>} /\ Numeral(16, ds) = d[0]
    BY <2>1, HexDigitsAre
  <2>3. Formatted(v, d) = <<"0", "x">> \o ds /\ <<"0", "x">> \in HexMarks
    BY <1>4 DEF Formatted, HexMarks
  <2> HIDE DEF ds
  <2> QED BY <1>4, <2>2, <2>3 DEF IsField
<1> QED
  BY <1>2, <1>3, <1>4 DEF Number

\* Sequences of two letters put together.
LEMMA PairsOffsets ==
  ASSUME NEW A, NEW ss \in Seq(Seq(A)), \A k \in 1 .. Len(ss) : Len(ss[k]) = 2
  PROVE  LET t == FlattenSeq(ss)
         IN  /\ t \in Seq(A) /\ Len(t) = 2 * Len(ss)
             /\ \A k \in 1 .. Len(ss) : t[2 * k - 1] = ss[k][1] /\ t[2 * k] = ss[k][2]
<1> DEFINE t == FlattenSeq(ss)
           n == Len(ss)
<1>1. t \in Seq(A)
  BY FlattenAppend, <<>> \in Seq(A)
<1>2. PICK o \in [0 .. n -> Nat] :
         /\ o[0] = 0 /\ \A k \in 1 .. n : o[k] = o[k - 1] + Len(ss[k])
         /\ Len(t) = o[n]
         /\ \A k \in 1 .. n : \A j \in 1 .. Len(ss[k]) : t[o[k - 1] + j] = ss[k][j]
  BY FlattenOffsets DEF Offsets
<1>3. n \in Nat /\ \A k \in 1 .. n : Len(ss[k]) = 2
  OBVIOUS
<1> HIDE DEF t, n
<1> DEFINE I == {k \in Nat : k <= n => o[k] = 2 * k}
<1>4. 0 \in I
  BY <1>2
<1>5. ASSUME NEW k \in Nat, k \in I PROVE k + 1 \in I
  <2> SUFFICES ASSUME k + 1 <= n PROVE o[k + 1] = 2 * (k + 1)
    OBVIOUS
  <2>1. k + 1 \in 1 .. n /\ (k + 1) - 1 = k /\ o[k] = 2 * k
    BY <1>3, <1>5
  <2>2. o[k + 1] = o[k] + 2
    BY <1>2, <1>3, <2>1
  <2> QED BY <2>1, <2>2
<1> HIDE DEF I
<1>6. \A k \in Nat : k \in I
  BY <1>4, <1>5, SetInduction
<1>7. \A k \in 0 .. n : o[k] = 2 * k
  BY <1>3, <1>6 DEF I
<1>8. Len(t) = 2 * n
  BY <1>2, <1>3, <1>7
<1>9. ASSUME NEW k \in 1 .. n PROVE t[2 * k - 1] = ss[k][1] /\ t[2 * k] = ss[k][2]
  <2>1. k - 1 \in 0 .. n /\ 2 * (k - 1) + 1 = 2 * k - 1 /\ 2 * (k - 1) + 2 = 2 * k
    BY <1>3
  <2>2. o[k - 1] = 2 * (k - 1) /\ Len(ss[k]) = 2
    BY <1>3, <1>7, <2>1
  <2>3. 1 \in 1 .. 2 /\ 2 \in 1 .. 2
    OBVIOUS
  <2>4. t[o[k - 1] + 1] = ss[k][1] /\ t[o[k - 1] + 2] = ss[k][2]
    BY <1>2, <2>2, <2>3
  <2> QED BY <2>1, <2>2, <2>4
<1> QED
  BY <1>1, <1>8, <1>9 DEF t, n

LEMMA BytesPrinted ==
  ASSUME NEW v \in Variable, v.access = "READ_WRITE", v.type = "BUF_HEX", NEW d, CellsOK(v, d)
  PROVE  IsField(v, Formatted(v, d), [i \in 1 .. v.data_size |-> d[i - 1]])
<1> DEFINE n == v.data_size
           ss == [i \in 1 .. n |-> Digits(16, d[i - 1], 2)]
           t == FlattenSeq(ss)
<1>1. n \in Nat \ {0}
  BY VarTypes
<1>2. Formatted(v, d) = t
  BY DEF Formatted
<1>3. ASSUME NEW i \in 1 .. n
      PROVE  /\ ss[i] \in Seq(Hex) /\ Len(ss[i]) = 2 /\ Numeral(16, ss[i]) = d[i - 1]
  <2>1. i - 1 \in Cells(v)
    BY <1>1, CellsAre DEF Number
  <2>2. d[i - 1] \in 0 .. 255
    <3>1. d[i - 1] \in CellValues(v)
      BY <2>1 DEF CellsOK
    <3> QED BY <3>1, CellValuesAre, Zenon
  <2>3. d[i - 1] \in Nat /\ d[i - 1] < 256
    BY <2>2
  <2>4. LET ds == Digits(16, d[i - 1], 2)
        IN  ds \in Seq(Hex) /\ Numeral(16, ds) = d[i - 1] /\ Len(ds) = 2
    BY <2>3, HexDigitsAre
  <2> QED BY <2>4
<1>4. Len(ss) = n /\ ss \in Seq(Seq(Hex))
  <2>1. DOMAIN ss = 1 .. n /\ \A i \in 1 .. n : ss[i] \in Seq(Hex)
    BY <1>3
  <2>2. ss = [i \in 1 .. n |-> ss[i]]
    OBVIOUS
  <2> HIDE DEF ss, n
  <2> QED BY <1>1, <2>1, <2>2
<1> HIDE DEF ss, n
<1>5. /\ t \in Seq(Hex) /\ Len(t) = 2 * n
      /\ \A k \in 1 .. n : t[2 * k - 1] = ss[k][1] /\ t[2 * k] = ss[k][2]
  BY <1>3, <1>4, PairsOffsets
<1> HIDE DEF t
<1>6. t # <<>> /\ Len(t) % 2 = 0 /\ Len(t) \div 2 = n
  BY <1>1, <1>5
<1>7. ASSUME NEW k \in 1 .. n PROVE Byte(t, k) = d[k - 1]
  <2>1. k \in Nat \ {0} /\ 2 * k <= Len(t)
    BY <1>1, <1>5
  <2>2. Byte(t, k) = 16 * Digit(to_upper(t[2 * k - 1])) + Digit(to_upper(t[2 * k]))
    BY <1>5, <2>1, ByteIs
  <2>3. Byte(ss[k], 1) = 16 * Digit(to_upper(ss[k][1])) + Digit(to_upper(ss[k][2]))
    <3>1. 1 \in Nat \ {0} /\ 2 * 1 <= Len(ss[k]) /\ 2 * 1 - 1 = 1 /\ 2 * 1 = 2 /\ ss[k] \in Seq(Hex)
      <4>1. Len(ss[k]) = 2 /\ ss[k] \in Seq(Hex)
        BY <1>3
      <4>2. 1 \in Nat \ {0} /\ 2 * 1 <= 2 /\ 2 * 1 - 1 = 1 /\ 2 * 1 = 2
        OBVIOUS
      <4> QED BY <4>1, <4>2, Zenon
    <3>2. Byte(ss[k], 1) = 16 * Digit(to_upper(ss[k][2 * 1 - 1])) + Digit(to_upper(ss[k][2 * 1]))
      BY <3>1, ByteIs, Zenon
    <3> QED BY <3>1, <3>2, Zenon
  <2>4. SubSeq(ss[k], 2 * 1 - 1, 2 * 1) = ss[k]
    <3>1. ss[k] \in Seq(Hex) /\ Len(ss[k]) = 2
      BY <1>3
    <3> QED BY <3>1
  <2>5. Byte(ss[k], 1) = d[k - 1]
    BY <1>3, <2>4 DEF Byte
  <2> QED BY <1>5, <2>2, <2>3, <2>5
<1>8. [i \in 1 .. n |-> d[i - 1]] = [i \in 1 .. Len(t) \div 2 |-> Byte(t, i)]
  BY <1>6, <1>7
<1> QED
  BY <1>2, <1>5, <1>6, <1>8 DEF IsField, n

\* n is where the string ends.
EndsAt(v, d, n) ==
  n \in Cells(v) /\ d[n] = "NUL" /\ \A i \in 0 .. n - 1 : d[i] # "NUL"

LEMMA EndExists ==
  ASSUME NEW v \in Variable, v.type = "BUF_STRING", NEW d, \E i \in Cells(v) : d[i] = "NUL"
  PROVE  \E n \in Nat : EndsAt(v, d, n)
<1>0. Cells(v) = 0 .. v.data_size - 1 /\ v.data_size \in Nat
  BY CellsAre, VarTypes DEF Number
<1> DEFINE I == {n \in Nat : \A i \in 0 .. n - 1 : d[i] # "NUL"}
<1> SUFFICES ASSUME ~\E n \in Nat : EndsAt(v, d, n) PROVE FALSE
  OBVIOUS
<1>1. PICK m \in Cells(v) : d[m] = "NUL"
  OBVIOUS
<1>2. 0 \in I
  OBVIOUS
<1> DEFINE J == {n \in Nat : n <= v.data_size => n \in I}
<1>3. 0 \in J
  BY <1>2
<1>4. ASSUME NEW n \in Nat, n \in J PROVE n + 1 \in J
  <2> SUFFICES ASSUME n + 1 <= v.data_size PROVE n + 1 \in I
    OBVIOUS
  <2>1. n \in I /\ n \in Cells(v)
    BY <1>0, <1>4
  <2>2. d[n] # "NUL"
    BY <2>1 DEF EndsAt
  <2>3. ASSUME NEW i \in 0 .. (n + 1) - 1 PROVE d[i] # "NUL"
    <3>1. i = n \/ i \in 0 .. n - 1
      OBVIOUS
    <3> QED BY <2>1, <2>2, <3>1
  <2> QED BY <2>3
<1> HIDE DEF J
<1>5. \A n \in Nat : n \in J
  BY <1>3, <1>4, SetInduction
<1>6. v.data_size \in I
  BY <1>0, <1>5 DEF J
<1> QED
  BY <1>0, <1>1, <1>6

LEMMA ContentIs ==
  ASSUME NEW v \in Variable, v.type = "BUF_STRING", NEW d, NEW n \in Nat, EndsAt(v, d, n)
  PROVE  Content(v, d) = [i \in 1 .. n |-> d[i - 1]]
<1>0. Cells(v) = 0 .. v.data_size - 1 /\ v.data_size \in Nat
  BY CellsAre, VarTypes DEF Number
<1> DEFINE used == {i \in Cells(v) : \A j \in 0 .. i : d[j] # "NUL"}
<1>1. used = 0 .. n - 1
  <2>1. ASSUME NEW i \in used PROVE i \in 0 .. n - 1
    <3>1. i \in Nat /\ \A j \in 0 .. i : d[j] # "NUL"
      BY <1>0
    <3>2. ~(n \in 0 .. i)
      BY <3>1 DEF EndsAt
    <3> QED BY <3>1, <3>2
  <2>2. ASSUME NEW i \in 0 .. n - 1 PROVE i \in used
    <3>1. i \in Cells(v)
      BY <1>0 DEF EndsAt
    <3>2. \A j \in 0 .. i : j \in 0 .. n - 1
      OBVIOUS
    <3> QED BY <3>1, <3>2 DEF EndsAt
  <2> HIDE DEF used
  <2> QED BY <2>1, <2>2
<1>2. Cardinality(0 .. n - 1) = n
  <2>1. Cardinality(0 .. n - 1) = IF 0 > n - 1 THEN 0 ELSE (n - 1) - 0 + 1
    BY FS_Interval
  <2> QED BY <2>1
<1>3. Content(v, d) = [i \in 1 .. Cardinality(used) |-> d[i - 1]]
  BY DEF Content
<1> HIDE DEF used
<1> QED
  BY <1>1, <1>2, <1>3

\* The piece of a string that Escape prints for a character.
PieceOf(ch) == [text |-> Escape(ch), value |-> ch]

LEMMA PieceOfIs ==
  ASSUME NEW v \in Variable, v.type = "BUF_STRING", NEW ch \in CellValues(v), ch # "NUL"
  PROVE  PieceOf(ch) \in Pieces(v)
<1>1. ch \in Chars[v.type] \cup {"COMMA", "LF"}
  <2>1. CellValues(v) = Chars["BUF_STRING"] \cup {"COMMA", "NUL", "LF"}
    BY CellValuesAre
  <2> QED BY <2>1
<1>2. CASE ch = "BACKSLASH"
  BY <1>2 DEF PieceOf, Escape, Pieces
<1>3. CASE ch = "QUOTE"
  BY <1>3 DEF PieceOf, Escape, Pieces
<1>4. CASE ch = "LF"
  BY <1>4 DEF PieceOf, Escape, Pieces
<1>5. CASE ch \notin {"BACKSLASH", "QUOTE", "LF"}
  <2>1. Escape(ch) = <<ch>>
    BY <1>5 DEF Escape
  <2>2. ch \in (Chars[v.type] \cup {"COMMA"}) \ {"QUOTE", "BACKSLASH"}
    BY <1>1, <1>5
  <2> QED BY <2>1, <2>2 DEF PieceOf, Pieces
<1> QED
  BY <1>2, <1>3, <1>4, <1>5

LEMMA StringPrinted ==
  ASSUME NEW v \in Variable, v.access = "READ_WRITE", v.type = "BUF_STRING", NEW d, CellsOK(v, d),
         \E i \in Cells(v) : d[i] = "NUL"
  PROVE  /\ IsField(v, Formatted(v, d), Content(v, d))
         /\ Content(v, d) \in Seq(CellValues(v) \ {"NUL"}) /\ Len(Content(v, d)) < v.data_size
<1>1. PICK n \in Nat : EndsAt(v, d, n)
  BY EndExists
<1> DEFINE c == Content(v, d)
           ps == [i \in 1 .. n |-> PieceOf(c[i])]
<1>2. c = [i \in 1 .. n |-> d[i - 1]]
  BY <1>1, ContentIs
<1>3. n < v.data_size /\ Cells(v) = 0 .. v.data_size - 1 /\ v.data_size \in Nat
  <2>1. Cells(v) = 0 .. v.data_size - 1 /\ v.data_size \in Nat
    BY CellsAre, VarTypes DEF Number
  <2> QED BY <1>1, <2>1 DEF EndsAt
<1>4. ASSUME NEW i \in 1 .. n PROVE c[i] \in CellValues(v) \ {"NUL"}
  <2>1. i - 1 \in 0 .. n - 1 /\ i - 1 \in Cells(v)
    BY <1>3
  <2> QED BY <1>1, <1>2, <2>1 DEF EndsAt, CellsOK
<1>5. DOMAIN c = 1 .. n
  BY <1>2
<1>6. c \in Seq(CellValues(v) \ {"NUL"}) /\ Len(c) = n
  <2>1. c = [i \in 1 .. n |-> c[i]]
    BY <1>2
  <2> HIDE DEF c
  <2> QED BY <1>4, <2>1
<1> HIDE DEF c
<1>7. ps \in Seq(Pieces(v)) /\ DOMAIN ps = 1 .. n
  <2>1. \A i \in 1 .. n : ps[i] \in Pieces(v)
    BY <1>4, PieceOfIs
  <2> QED BY <2>1
<1>8. [i \in DOMAIN ps |-> ps[i].text] = [i \in DOMAIN c |-> Escape(c[i])]
  BY <1>5, <1>7 DEF PieceOf
<1>9. Values(ps) = c
  <2>1. Values(ps) = [i \in 1 .. n |-> c[i]]
    BY <1>7 DEF Values, PieceOf
  <2> QED BY <1>6, <2>1
<1>10. Formatted(v, d) = <<"QUOTE">> \o FlattenSeq([i \in DOMAIN c |-> Escape(c[i])]) \o <<"QUOTE">>
  BY DEF Formatted, c
<1>11. Formatted(v, d) = <<"QUOTE">> \o Flat(ps) \o <<"QUOTE">>
  BY <1>8, <1>10 DEF Flat
<1> HIDE DEF ps
<1>12. IsField(v, Formatted(v, d), c)
  BY <1>7, <1>9, <1>11 DEF IsField
<1> QED
  BY <1>3, <1>6, <1>12 DEF c

LEMMA Printed ==
  ASSUME NEW v \in Variable, v.access = "READ_WRITE", NEW d, CellsOK(v, d), Readable(v, d)
  PROVE  IsField(v, Formatted(v, d), ValueOf(v, d)) /\ Fits(v, ValueOf(v, d))
<1>1. CASE v.type \in Number
  <2>1. ValueOf(v, d) = d[0] /\ v.data_size \in DOMAIN Limit
    BY <1>1 DEF ValueOf, Readable, Number
  <2> QED BY <1>1, <2>1, NumberPrinted DEF CellsOK
<1>2. CASE v.type = "BUF_HEX"
  <2>1. ValueOf(v, d) = [i \in 1 .. v.data_size |-> d[i - 1]]
    BY <1>2 DEF ValueOf
  <2>2. Len([i \in 1 .. v.data_size |-> d[i - 1]]) = v.data_size
    BY VarTypes
  <2>3. Fits(v, ValueOf(v, d))
    BY <1>2, <2>1, <2>2, VarTypes DEF Fits
  <2> QED BY <1>2, <2>1, <2>3, BytesPrinted
<1>3. CASE v.type = "BUF_STRING"
  <2>1. ValueOf(v, d) = Content(v, d) /\ \E i \in Cells(v) : d[i] = "NUL"
    BY <1>3 DEF ValueOf, Readable
  <2> QED BY <1>3, <2>1, StringPrinted DEF Fits
<1> QED
  BY <1>1, <1>2, <1>3, VarTypes DEF Number

LEMMA NumberShown ==
  ASSUME NEW v \in Variable, v.access = "READ_WRITE", v.type \in Number, NEW d, NEW e,
         d[0] = e[0], e[0] \in CellValues(v)
  PROVE  Formatted(v, d) = Formatted(v, e)
<1>1. CASE v.type = "INT_DEC"
  <2>1. e[0] \in Int
    BY <1>1, CellValuesAre, WordIs DEF SignedWord
  <2>2. CASE e[0] < 0
    <3>1. ~(e[0] >= 0) /\ ~(d[0] >= 0) /\ d[0] < 0
      BY <2>1, <2>2
    <3>2. Formatted(v, d) = <<"-">> \o Digits(10, -d[0], 1)
      BY <1>1, <3>1 DEF Formatted
    <3>3. Formatted(v, e) = <<"-">> \o Digits(10, -e[0], 1)
      BY <1>1, <2>2, <3>1 DEF Formatted
    <3> QED BY <3>2, <3>3
  <2>3. CASE e[0] >= 0
    <3>1. ~(e[0] < 0) /\ ~(d[0] < 0) /\ d[0] >= 0
      BY <2>1, <2>3
    <3>2. Formatted(v, d) = Digits(10, d[0], 1)
      BY <1>1, <3>1 DEF Formatted
    <3>3. Formatted(v, e) = Digits(10, e[0], 1)
      BY <1>1, <2>3, <3>1 DEF Formatted
    <3> QED BY <3>2, <3>3
  <2> QED BY <2>1, <2>2, <2>3
<1>2. CASE v.type = "UINT_DEC"
  BY <1>2 DEF Formatted
<1>3. CASE v.type = "NUM_HEX"
  BY <1>3 DEF Formatted
<1> QED
  BY <1>1, <1>2, <1>3 DEF Number

\* The variable after the field of its own value is what it was, to the formatter.
LEMMA SamePrinted ==
  ASSUME TypeInv, var.access = "READ_WRITE", CellsOK(var, before), Readable(var, before),
         Holds(ValueOf(var, before))
  PROVE  Formatted(var, data[index]) = Formatted(var, before)
<1> DEFINE v == var
           d == data[index]
           x == ValueOf(var, before)
<1>1. var \in Variable
  BY VarIs DEF TypeInv, var
<1>2. Fits(var, x)
  BY <1>1, Printed
<1>3. CASE var.type \in Number
  <2>1. x = before[0] /\ var.data_size \in DOMAIN Limit /\ 0 \in Cells(var)
        /\ before[0] \in CellValues(var)
    BY <1>1, <1>3, CellsAre DEF ValueOf, Readable, Number, CellsOK
  <2> DEFINE n == data[index][0]
  <2>2. /\ var.type = "INT_DEC" /\ {x, -x} \subseteq SignedWord => x = n
        /\ var.type # "INT_DEC" => x % Word = n
    BY <1>3 DEF Holds
  <2>3. n = before[0]
    <3> DEFINE L == Limit[var.data_size]
    <3>1. L \in Nat \ {0} /\ L % 2 = 0 /\ 2 * L <= Word /\ Word \in Nat
      BY <2>1, VarParserAssumption
    <3> HIDE DEF L, x, n
    <3>2. CASE var.type = "INT_DEC"
      <4>1. x \in SignedWord /\ x \in Int
        BY <1>1, <2>1, <3>2, CellValuesAre, WordIs DEF SignedWord
      <4>2. x >= -(L \div 2) /\ 2 * x < L
        BY <1>2, <3>2 DEF Fits, L
      <4>3. {x, -x} \subseteq SignedWord
        BY <3>1, <4>1, <4>2 DEF SignedWord
      <4> QED BY <2>1, <2>2, <3>2, <4>3
    <3>3. CASE var.type # "INT_DEC"
      <4>1. x \in 0 .. Word - 1
        BY <1>1, <1>3, <2>1, <3>3, CellValuesAre DEF Number
      <4>2. x % Word = x
        BY <3>1, <4>1
      <4> QED BY <2>1, <2>2, <3>3, <4>2
    <3> QED BY <3>2, <3>3
  <2> QED BY <1>1, <1>3, <2>1, <2>3, NumberShown
<1>4. CASE var.type = "BUF_HEX"
  <2>1. x = [i \in 1 .. var.data_size |-> before[i - 1]]
    BY <1>4 DEF ValueOf
  <2>2. Len(x) = var.data_size /\ Cells(var) = 0 .. var.data_size - 1 /\ var.data_size \in Nat
    BY <1>1, <1>4, <2>1, VarTypes, CellsAre DEF Number
  <2> HIDE DEF x
  <2>3. write_size = Len(x) /\ \A i \in Cells(var) : i < write_size => data[index][i] = x[i + 1]
    BY <1>4 DEF Holds, Number, x
  <2>4. ASSUME NEW i \in 1 .. var.data_size PROVE data[index][i - 1] = before[i - 1]
    <3>1. i - 1 \in Cells(var) /\ i - 1 < write_size /\ (i - 1) + 1 = i
      BY <2>2, <2>3
    <3>2. data[index][i - 1] = x[i]
      BY <2>3, <3>1
    <3> QED BY <2>1, <3>2
  <2>5. [i \in 1 .. var.data_size |-> Digits(16, data[index][i - 1], 2)] =
        [i \in 1 .. var.data_size |-> Digits(16, before[i - 1], 2)]
    BY <2>4
  <2> QED BY <1>4, <2>5 DEF Formatted
<1>5. CASE var.type = "BUF_STRING"
  <2>1. x = Content(var, before) /\ \E i \in Cells(var) : before[i] = "NUL"
    BY <1>5 DEF ValueOf, Readable
  <2>2. x \in Seq(CellValues(var) \ {"NUL"}) /\ Len(x) < var.data_size
    BY <1>1, <1>5, <2>1, StringPrinted
  <2>3. Cells(var) = 0 .. var.data_size - 1 /\ var.data_size \in Nat
    BY <1>1, <1>5, VarTypes, CellsAre DEF Number
  <2> HIDE DEF x
  <2>4. /\ write_size = Len(x)
        /\ \A i \in Cells(var) : i < write_size => data[index][i] = x[i + 1]
        /\ \A i \in Cells(var) : i = write_size /\ ~(i < write_size) => data[index][i] = "NUL"
    BY <1>5 DEF Holds, Number, x
  <2> DEFINE n == Len(x)
  <2>5. n \in Nat /\ n < var.data_size /\ n \in Cells(var)
    BY <2>2, <2>3
  <2>6. ASSUME NEW i \in 0 .. n - 1 PROVE data[index][i] = x[i + 1] /\ x[i + 1] # "NUL"
    <3>1. i \in Cells(var) /\ i < write_size /\ i + 1 \in 1 .. Len(x)
      BY <2>3, <2>4, <2>5
    <3> QED BY <2>2, <2>4, <3>1
  <2>7. EndsAt(var, data[index], n)
    BY <2>4, <2>5, <2>6 DEF EndsAt
  <2>8. Content(var, data[index]) = [i \in 1 .. n |-> data[index][i - 1]]
    BY <1>1, <1>5, <2>5, <2>7, ContentIs
  <2>9. Content(var, data[index]) = x
    <3>1. \A i \in 1 .. n : data[index][i - 1] = x[i]
      <4>1. ASSUME NEW i \in 1 .. n PROVE data[index][i - 1] = x[i]
        <5>1. i - 1 \in 0 .. n - 1 /\ (i - 1) + 1 = i
          BY <2>5
        <5> QED BY <2>6, <5>1
      <4> QED BY <4>1
    <3>2. [i \in 1 .. n |-> data[index][i - 1]] = [i \in 1 .. n |-> x[i]]
      BY <3>1
    <3>3. x = [i \in 1 .. n |-> x[i]]
      BY <2>2
    <3> QED BY <2>8, <3>2, <3>3
  <2> HIDE DEF n
  <2> QED BY <1>5, <2>1, <2>9 DEF Formatted
<1> QED
  BY <1>1, <1>3, <1>4, <1>5, VarTypes DEF Number

-----------------------------------------------------------------------------
(* What a variable holds can be printed and read back.                     *)

\* A number whose size the parsers know is in its range, always.
NumberOK(v, d) == v.type \in Number /\ v.data_size \in DOMAIN Limit => Fits(v, d[0])

\* The inductive invariant behind ReadsBack, with ReadInv.
ValuesInv ==
  /\ \A k \in DOMAIN cmd.vars : NumberOK(cmd.vars[k], data[k])
  /\ CellsOK(var, before)

LEMMA ValuesStart ==
  /\ TypeInv /\ (\A k \in DOMAIN cmd.vars : NumberOK(cmd.vars[k], data[k])) /\ before = data[index] =>
       ValuesInv
  /\ (TypeInv /\ (\A k \in DOMAIN cmd.vars : NumberOK(cmd.vars[k], data[k])) /\ before = data[index])' =>
       ValuesInv'
BY DEF TypeInv, ValuesInv, NumberOK, CellsOK, var

LEMMA ValuesInit == Init => ValuesInv
<1> SUFFICES ASSUME Init PROVE ValuesInv
  OBVIOUS
<1>1. TypeInv /\ before = data[index]
  BY TypeInit DEF Init
<1>2. ASSUME NEW k \in DOMAIN cmd.vars, cmd.vars[k].type \in Number, cmd.vars[k].data_size \in DOMAIN Limit
      PROVE  Fits(cmd.vars[k], data[k][0])
  <2> DEFINE v == cmd.vars[k]
             L == Limit[v.data_size]
  <2>1. v \in Variable
    BY <1>1, VarIs DEF TypeInv
  <2>2. data[k][0] = 0
    <3>1. data[k] = Zero(v)
      BY DEF Init
    <3>2. 0 \in Cells(v) /\ v.type # "BUF_STRING"
      BY <1>2, <2>1, CellsAre DEF Number
    <3> QED BY <3>1, <3>2 DEF Zero
  <2>3. L \in Nat \ {0}
    BY <1>2, VarParserAssumption
  <2> HIDE DEF L
  <2>4. 0 >= -(L \div 2) /\ 2 * 0 < L /\ 0 < L
    BY <2>3
  <2>5. Fits(v, 0)
    <3> HIDE DEF v
    <3>1. v.type \in Number /\ v.data_size \in DOMAIN Limit
      BY <1>2 DEF v
    <3>2. CASE v.type = "INT_DEC"
      BY <2>4, <3>1, <3>2 DEF Fits, L
    <3>3. CASE v.type \in {"UINT_DEC", "NUM_HEX"}
      BY <2>4, <3>1, <3>3 DEF Fits, L
    <3> QED BY <3>1, <3>2, <3>3 DEF Number
  <2> QED BY <2>2, <2>5
<1> QED
  BY <1>1, <1>2, ValuesStart DEF NumberOK

LEMMA IteratedValues ==
  ASSUME TypeInv, ValuesInv, Iterated, UNCHANGED <<cmd, index, before>>
  PROVE  ValuesInv'
<1>1. var \in Variable /\ var' = var /\ Cells(var)' = Cells(var) /\ index \in DOMAIN cmd.vars
  BY VarIs DEF TypeInv, var, Cells
<1>2. CellsOK(var, before)'
  BY <1>1 DEF ValuesInv, CellsOK
<1>3. ASSUME NEW k \in DOMAIN cmd.vars, data'[k] = data[k] \/ cmd.vars[k].type \notin Number
      PROVE  NumberOK(cmd.vars[k], data'[k])
  BY <1>3 DEF ValuesInv, NumberOK
<1>4. ASSUME NEW cell \in Cells(var), NEW b, Store(cell, b), NEW k \in DOMAIN cmd.vars, k # index
      PROVE  NumberOK(cmd.vars[k], data'[k])
  BY <1>3, <1>4, StoreIs
<1>5. ASSUME \A k \in DOMAIN cmd.vars : NumberOK(cmd.vars[k], data'[k])
      PROVE  ValuesInv'
  BY <1>2, <1>5 DEF ValuesInv
<1>6. CASE UNCHANGED data
  BY <1>3, <1>5, <1>6
<1>7. CASE NumberEnds
  <2>1. PICK n \in CellValues(var) :
          (var.access = "READ_ONLY" \/ Fits(var, n)) /\ Store(0, n)
    BY <1>7 DEF NumberEnds
  <2>2. 0 \in Cells(var) /\ var.type \in Number
    BY <1>1, <1>7, CellsAre DEF NumberEnds
  <2>3. NumberOK(var, data'[index])
    <3>1. CASE var.access = "READ_ONLY"
      BY <2>2, <3>1 DEF NumberOK, Fits, Number
    <3>2. CASE var.access # "READ_ONLY"
      <4>1. data'[index][0] = n
        BY <2>1, <2>2, <3>2, StoreIs
      <4> QED BY <2>1, <3>2, <4>1 DEF NumberOK
    <3> QED BY <3>1, <3>2
  <2>4. NumberOK(cmd.vars[index], data'[index])
    BY <2>3 DEF var
  <2> QED BY <1>4, <1>5, <2>1, <2>2, <2>4
<1>8. ASSUME var.type \notin Number, NEW cell \in Cells(var), NEW b, Store(cell, b)
      PROVE  ValuesInv'
  <2>1. cmd.vars[index].type \notin Number
    BY <1>8 DEF var
  <2> QED BY <1>1, <1>3, <1>4, <1>5, <1>8, <2>1
<1>9. CASE ByteStored
  BY <1>8, <1>9, RoomIs DEF ByteStored
<1>10. CASE StringEnds
  BY <1>8, <1>10, RoomIs DEF StringEnds, Terminate, Number
<1> QED
  BY <1>6, <1>7, <1>9, <1>10 DEF Iterated, GoesOn, GoOn, Fail, BufferEnds

LEMMA ValuesStep == TypeInv /\ ValuesInv /\ [Next]_vars => ValuesInv'
<1> SUFFICES ASSUME TypeInv, ValuesInv, [Next]_vars PROVE ValuesInv'
  OBVIOUS
<1>1. TypeInv'
  BY TypeStep
<1>2. ASSUME NEW k, StartField(k), UNCHANGED <<cmd, data>> PROVE ValuesInv'
  <2>1. before' = data'[index']
    BY <1>2 DEF StartField
  <2>2. (\A i \in DOMAIN cmd.vars : NumberOK(cmd.vars[i], data[i]))'
    BY <1>2 DEF ValuesInv
  <2> QED BY <1>1, <2>1, <2>2, ValuesStart
<1>3. CASE ParseChar
  BY <1>3, ParseCharIterates, IteratedValues DEF ParseChar
<1>4. CASE CallHook
  <2>1. CASE StartField(index + 1)
    BY <1>2, <1>4, <2>1 DEF CallHook
  <2>2. CASE UNCHANGED <<index, before>>
    BY <1>4, <2>2 DEF CallHook, ValuesInv, NumberOK, CellsOK, var, Cells, Fits
  <2> QED BY <1>4, <2>1, <2>2 DEF CallHook
<1>5. CASE NextLine
  BY <1>2, <1>5 DEF NextLine
<1>6. CASE UNCHANGED vars
  BY <1>6 DEF vars, ValuesInv, NumberOK, CellsOK, var, Cells, Fits
<1> QED
  BY <1>3, <1>4, <1>5, <1>6 DEF Next

LEMMA ReadsBackIs ==
  ASSUME TypeInv, ReadInv, ValuesInv
  PROVE  ReadsBack
<1> DEFINE printed == Formatted(var, before)
<1>1. var \in Variable /\ Fields[var] = FieldsOf(var)
  BY VarIs, VarFields DEF TypeInv, var
<1> SUFFICES ASSUME var.access = "READ_WRITE", Readable(var, before)
             PROVE  /\ result = "bad" => ~Carries(printed)
                    /\ result = "hook" /\ Front(text) = printed => Formatted(var, data[index]) = printed
  BY DEF ReadsBack, Readable
<1>2. IsField(var, printed, ValueOf(var, before)) /\ Fits(var, ValueOf(var, before))
  BY <1>1, Printed DEF ValuesInv
<1> HIDE DEF printed
<1>3. result = "bad" => ~Carries(printed)
  BY <1>2 DEF ReadInv, Rejected
<1>4. ASSUME result = "hook", Front(text) = printed
      PROVE  Formatted(var, data[index]) = printed
  <2>1. PICK f \in Fields[var] : f.text = printed /\ Holds(f.value)
    BY <1>4 DEF ReadInv, HookSeesValue, Holds
  <2>2. IsField(var, printed, f.value)
    BY <1>1, <2>1, FieldsAre
  <2>3. f.value = ValueOf(var, before)
    BY <1>1, <1>2, <2>2, FieldUnique
  <2> QED BY <2>1, <2>3, SamePrinted DEF ValuesInv, printed
<1> QED
  BY <1>3, <1>4

\* What format_* prints of a variable, the parser of its type takes, and what it
\* stores is what was held: of every value of every width, and of every content
\* of a buffer (a string needs its terminator).
THEOREM ReadsBackHolds == Spec => []ReadsBack
<1>1. Init => FieldInv
  BY TypeInit, FieldStarts DEF Init
<1> QED
  BY <1>1, TypeInit, TypeStep, FieldStep, ReadInit, ReadStep, ValuesInit, ValuesStep, ReadsBackIs, PTL DEF Spec
=============================================================================
