-------------------------- MODULE SerialPortProofs --------------------------
(***************************************************************************)
(* Proofs about SerialPort, for every capacity of the ring buffer and      *)
(* every number of bytes: the ring stays within its slots, the driver is   *)
(* never given the buffer it fills, and what a put said it stored arrives, *)
(* until two puts overlap.                                                 *)
(***************************************************************************)
EXTENDS SerialPort, TLAPS

Slots == 0 .. Cap - 1
Content == Byte \cup {Garbage}

-----------------------------------------------------------------------------
(* The inductive invariant.                                                *)

\* The put of the Bluetooth thread is of bytes that the thread handed over.
PutOK ==
  /\ sent \in [Senders -> 0 .. MaxBytes]
  /\ bt \in [at : {"out", "copy", "finish"}, from : Nat, start : Slots, num : Nat]
  /\ bt.at # "out" => bt.from + bt.num <= sent[BT]

\* rx_buf_idx is the buffer that the driver fills until it asks for another, and
\* then the other one, whether the driver took it or not.
IndexOK ==
  /\ rx_buf_idx \in {0, 1}
  /\ driver \in [on : BOOLEAN, current : {-1, 0, 1}, next : {-1, 0, 1}, asked : BOOLEAN]
  /\ driver.on =>
       /\ driver.current \in {0, 1}
       /\ driver.current # driver.next
       /\ rx_buf_idx = (IF driver.asked THEN Other(driver.current) ELSE driver.current)
       /\ driver.next # -1 => driver.asked /\ driver.next = rx_buf_idx

PortInv ==
  /\ PortTypeOK /\ PutOK
  /\ got \in Seq(Content)
  /\ accepted \subseteq Byte
  /\ raced \in BOOLEAN

\* Without an overlap, what is claimed is claimed by the put under way, which
\* begins right behind the bytes put before, ...
ClaimOK ==
  IF bt.at = "out" THEN claimed = 0
  ELSE claimed = bt.num /\ bt.start = Place(used)

\* ... where its bytes are once they are copied.
CopyOK ==
  bt.at = "finish" =>
    \A k \in 0 .. bt.num - 1 :
       slot[Place(used + k)] = [from |-> BT, no |-> bt.from + k + 1]

\* The bytes that a sender has handed over before the put under way.
Handed(s) == IF s = BT /\ bt.at # "out" THEN bt.from ELSE sent[s]

AcceptedOK == \A b \in accepted : b.no <= Handed(b.from)

\* The conjuncts of AcceptedArrive, as of any two values.
Holds(f, bytes) == {f[i] : i \in DOMAIN f} = bytes
InOrder(f) ==
  \A i, j \in DOMAIN f : i < j /\ f[i].from = f[j].from => f[i].no < f[j].no

-----------------------------------------------------------------------------
(* Places in the ring.                                                     *)

LEMMA PlaceIs ==
  ASSUME first \in Slots, NEW i \in 0 .. Cap
  PROVE  Place(i) \in Slots
BY PortAssumption DEF Slots, Place, Wrapped

\* A slot is a place, and only one.
LEMMA PlaceDiffers ==
  ASSUME first \in Slots, NEW i \in Slots, NEW j \in Slots, i # j
  PROVE  Place(i) # Place(j)
BY PortAssumption DEF Slots, Place, Wrapped

\* What is copied to behind u bytes are the n places there and no other.
LEMMA CopiedAt ==
  ASSUME first \in Slots, slot \in [Slots -> Content],
         NEW s, NEW from \in Nat, NEW u \in 0 .. Cap, NEW n \in 0 .. Cap - u,
         NEW j \in Slots
  PROVE  Copied(s, from, n, Place(u))[Place(j)] =
           IF u <= j /\ j < u + n THEN [from |-> s, no |-> from + (j - u) + 1]
           ELSE slot[Place(j)]
<1>1. Place(j) \in DOMAIN slot
  BY PlaceIs, PortAssumption DEF Slots
<1>2. Wrapped(Place(j) - Place(u)) = IF u <= j THEN j - u ELSE j - u + Cap
  BY PortAssumption DEF Slots, Place, Wrapped
<1> QED
  BY <1>1, <1>2, PortAssumption DEF Copied, Slots

LEMMA CopiedType ==
  ASSUME slot \in [Slots -> Content], NEW start \in Slots,
         NEW s \in Senders, NEW from \in Nat, NEW n \in Nat, from + n <= MaxBytes
  PROVE  Copied(s, from, n, start) \in [Slots -> Content]
<1>1. ASSUME NEW i \in Slots
      PROVE  Wrapped(i - start) \in Nat
  BY PortAssumption DEF Slots, Wrapped
<1>2. ASSUME NEW k \in Nat, k < n
      PROVE  [from |-> s, no |-> from + k + 1] \in Content
  BY <1>2, PortAssumption DEF Content, Byte
<1> QED
  BY <1>1, <1>2 DEF Copied, Slots

LEMMA BytesType ==
  ASSUME NEW s \in Senders, NEW from \in Nat, NEW n \in Nat, from + n <= MaxBytes
  PROVE  Bytes(s, from, n) \subseteq Byte
BY PortAssumption DEF Bytes, Byte

-----------------------------------------------------------------------------
(* The ring stays within its slots.                                        *)

LEMMA PortInit == Init => PortInv /\ IndexOK
<1>1. Init => PortInv
  <2> SUFFICES ASSUME Init PROVE PortInv
    OBVIOUS
  <2>1. PortTypeOK
    BY PortAssumption DEF Init, PortTypeOK
  <2>2. PutOK
    BY PortAssumption DEF Init, PutOK, Idle, Slots
  <2>3. got = << >> /\ accepted = {} /\ raced = FALSE
    BY DEF Init
  <2>4. got \in Seq(Content)
    BY <2>3
  <2>5. accepted \subseteq Byte /\ raced \in BOOLEAN
    BY <2>3
  <2> QED
    BY <2>1, <2>2, <2>4, <2>5 DEF PortInv
<1>2. Init => IndexOK
  BY DEF Init, IndexOK
<1> QED
  BY <1>1, <1>2

LEMMA BtClaimType == PortInv /\ BtClaim /\ UNCHANGED got => PortInv'
<1> SUFFICES ASSUME PortInv, BtClaim, UNCHANGED got PROVE PortInv'
  OBVIOUS
<1> USE DEF PortInv, PortTypeOK, PutOK
<1>1. PICK len \in 1 .. MaxBytes - sent[BT] :
        LET n == Smaller(len, Free)
        IN  /\ claimed' = claimed + n
            /\ sent' = [sent EXCEPT ![BT] = @ + len]
            /\ bt' = IF n = 0 THEN Idle
                     ELSE [at |-> "copy", from |-> sent[BT], start |-> Place(used + claimed),
                           num |-> n]
  BY DEF BtClaim
<1>2. BT \in Senders /\ sent[BT] \in 0 .. MaxBytes
  BY DEF Senders
<1>3. Smaller(len, Free) \in 0 .. Cap - used - claimed /\ Smaller(len, Free) <= len
  BY <1>2, PortAssumption DEF Smaller, Free
<1>4. claimed' \in 0 .. Cap - used
  BY <1>1, <1>3, PortAssumption
<1>5. sent' \in [Senders -> 0 .. MaxBytes] /\ sent'[BT] = sent[BT] + len
  BY <1>1, <1>2, PortAssumption
<1>6. Place(used + claimed) \in Slots
  <2>1. used + claimed \in 0 .. Cap
    BY PortAssumption
  <2>2. first \in Slots
    BY DEF Slots
  <2> QED
    BY <2>1, <2>2, PlaceIs
<1>7. /\ bt' \in [at : {"out", "copy", "finish"}, from : Nat, start : Slots, num : Nat]
      /\ bt'.at # "out" => bt'.from + bt'.num <= sent'[BT]
  <2>1. CASE Smaller(len, Free) = 0
    BY <1>1, <2>1, PortAssumption DEF Idle, Slots
  <2>2. CASE Smaller(len, Free) # 0
    BY <1>1, <1>2, <1>3, <1>5, <1>6, <2>2
  <2> QED BY <2>1, <2>2
<1> QED
  BY <1>4, <1>5, <1>7 DEF BtClaim

LEMMA BtCopyType == PortInv /\ BtCopy /\ UNCHANGED got => PortInv'
<1> SUFFICES ASSUME PortInv, BtCopy, UNCHANGED got PROVE PortInv'
  OBVIOUS
<1> USE DEF PortInv, PortTypeOK, PutOK
<1>1. bt.from + bt.num <= MaxBytes
  BY PortAssumption DEF BtCopy, Senders
<1>2. slot' \in [Slots -> Content]
  BY <1>1, CopiedType DEF BtCopy, Senders, Slots, Content
<1>3. bt' \in [at : {"out", "copy", "finish"}, from : Nat, start : Slots, num : Nat]
  BY DEF BtCopy
<1>4. bt'.from = bt.from /\ bt'.num = bt.num
  BY DEF BtCopy
<1> QED
  BY <1>2, <1>3, <1>4 DEF BtCopy, Slots, Content

LEMMA BtFinishType == PortInv /\ BtFinish /\ UNCHANGED got => PortInv'
<1> SUFFICES ASSUME PortInv, BtFinish, UNCHANGED got PROVE PortInv'
  OBVIOUS
<1> USE DEF PortInv, PortTypeOK, PutOK
<1>1. bt.from + bt.num <= MaxBytes
  BY PortAssumption DEF BtFinish, Senders
<1>2. Bytes(BT, bt.from, bt.num) \subseteq Byte
  BY <1>1, BytesType DEF Senders
<1>3. used' \in 0 .. Cap /\ claimed' \in 0 .. Cap - used'
  BY PortAssumption DEF BtFinish
<1>4. bt' \in [at : {"out", "copy", "finish"}, from : Nat, start : Slots, num : Nat]
  BY PortAssumption DEF BtFinish, Idle, Slots
<1>5. bt'.at = "out"
  BY DEF BtFinish, Idle
<1> QED
  BY <1>2, <1>3, <1>4, <1>5 DEF BtFinish

LEMMA UartRxRdyType == PortInv /\ UartRxRdy /\ UNCHANGED got => PortInv'
<1> SUFFICES ASSUME PortInv, UartRxRdy, UNCHANGED got PROVE PortInv'
  OBVIOUS
<1> USE DEF PortInv, PortTypeOK, PutOK
<1>1. PICK len \in 1 .. MaxBytes - sent[UART] :
        LET n == Smaller(len, Free)
        IN  /\ slot' = Copied(UART, RxOffset, n, Place(used + claimed))
            /\ used' = used + n
            /\ sent' = [sent EXCEPT ![UART] = @ + len]
            /\ accepted' = accepted \cup Bytes(UART, sent[UART], n)
  BY DEF UartRxRdy
<1>2. UART \in Senders /\ sent[UART] \in 0 .. MaxBytes
  BY DEF Senders
<1>3. Smaller(len, Free) \in 0 .. Cap - used - claimed /\ Smaller(len, Free) <= len
  BY <1>2, PortAssumption DEF Smaller, Free
<1>4. used' \in 0 .. Cap /\ claimed' \in 0 .. Cap - used'
  BY <1>1, <1>3, PortAssumption DEF UartRxRdy
<1>5. sent' \in [Senders -> 0 .. MaxBytes] /\ sent'[BT] = sent[BT]
  BY <1>1, <1>2, PortAssumption DEF UART, BT
<1>6. Place(used + claimed) \in Slots
  <2>1. used + claimed \in 0 .. Cap
    BY PortAssumption
  <2>2. first \in Slots
    BY DEF Slots
  <2> QED
    BY <2>1, <2>2, PlaceIs
<1>7. slot' \in [Slots -> Content]
  <2>1. slot \in [Slots -> Content]
    BY DEF Slots, Content
  <2>2. sent[UART] \in Nat /\ Smaller(len, Free) \in Nat
    BY <1>2, <1>3, PortAssumption
  <2>3. sent[UART] + Smaller(len, Free) <= MaxBytes
    BY <1>2, <1>3, PortAssumption
  <2>4. Copied(UART, sent[UART], Smaller(len, Free), Place(used + claimed)) \in [Slots -> Content]
    BY <1>2, <1>6, <2>1, <2>2, <2>3, CopiedType
  <2> QED
    BY <1>1, <2>4 DEF RxOffset
<1>8. accepted' \subseteq Byte
  BY <1>1, <1>2, <1>3, BytesType, PortAssumption
<1> QED
  BY <1>4, <1>5, <1>7, <1>8 DEF UartRxRdy, Slots, Content

LEMMA ReadCharType == PortInv /\ read_char => PortInv'
<1> SUFFICES ASSUME PortInv, read_char PROVE PortInv'
  OBVIOUS
<1> USE DEF PortInv, PortTypeOK, PutOK
<1>1. used > 0
  BY DEF read_char, HasInput
<1>2. first' \in 0 .. Cap - 1
  BY PlaceIs, PortAssumption DEF read_char, Slots
<1>3. got' \in Seq(Content)
  BY DEF read_char, Content
<1>4. used' \in 0 .. Cap /\ claimed' \in 0 .. Cap - used'
  BY <1>1, PortAssumption DEF read_char
<1> QED
  BY <1>2, <1>3, <1>4 DEF read_char

LEMMA PortStep == PortInv /\ [Next]_vars => PortInv'
<1> SUFFICES ASSUME PortInv, [Next]_vars PROVE PortInv'
  OBVIOUS
<1>1. CASE received /\ UNCHANGED <<phase, writer, got, rxVars>>
  BY <1>1, BtClaimType, BtCopyType, BtFinishType DEF received
<1>2. CASE UartRxRdy /\ UNCHANGED <<phase, writer, got>>
  BY <1>2, UartRxRdyType
<1>3. CASE read_char
  BY <1>3, ReadCharType
<1>4. CASE UNCHANGED <<got, ringVars>>
  BY <1>4 DEF ringVars, PortInv, PortTypeOK, PutOK
<1> QED
  BY <1>1, <1>2, <1>3, <1>4
     DEF Next, UartReceive, UartRxBufRequest, UartRxBufReleased, UartRxDisabled, ParserStep, vars

\* The indices of the ring buffer stay in it and it never holds or has claimed
\* more than its capacity, though the interrupt's put may come between the
\* steps of the Bluetooth thread's.
THEOREM PortTypeOKHolds == Spec => []PortTypeOK
<1>1. PortInv => PortTypeOK
  BY DEF PortInv
<1> QED
  BY <1>1, PortInit, PortStep, PTL DEF Spec

-----------------------------------------------------------------------------
(* The two buffers of the driver.                                          *)

LEMMA IndexStep == IndexOK /\ [Next]_vars => IndexOK'
<1> SUFFICES ASSUME IndexOK, [Next]_vars PROVE IndexOK'
  OBVIOUS
<1>1. CASE UartRxBufRequest
  <2>1. driver.on /\ ~driver.asked /\ driver.current = rx_buf_idx
    BY <1>1 DEF UartRxBufRequest, IndexOK
  <2>2. rx_buf_idx' = 1 - rx_buf_idx
    BY <1>1 DEF UartRxBufRequest, RequestedBuffer, Other
  <2>3. PICK next \in {rx_buf_idx', -1} :
          driver' = [driver EXCEPT !.asked = TRUE, !.next = next]
    BY <1>1 DEF UartRxBufRequest
  <2>4. rx_buf_idx \in {0, 1} /\ rx_buf_idx' \in {0, 1} /\ rx_buf_idx' # driver.current
    BY <2>1, <2>2 DEF IndexOK
  <2> QED
    BY <1>1, <2>1, <2>2, <2>3, <2>4 DEF Other, IndexOK
<1>2. CASE UartRxBufReleased
  BY <1>2 DEF UartRxBufReleased, Other, IndexOK
<1>3. CASE UartRxDisabled
  BY <1>3 DEF UartRxDisabled, Other, IndexOK
<1>4. CASE UNCHANGED rxVars
  BY <1>4 DEF rxVars, IndexOK
<1> QED
  BY <1>1, <1>2, <1>3, <1>4 DEF Next, UartReceive, UartRxRdy, vars

\* Reception is never continued in the buffer that the driver still fills:
\* rx_buf_idx is the buffer named last, whichever event moved it and whether the
\* driver took it or not.
THEOREM BuffersDistinctHolds == Spec => []BuffersDistinct
<1>1. IndexOK => BuffersDistinct
  BY DEF IndexOK, BuffersDistinct
<1> QED
  BY <1>1, PortInit, IndexStep, PTL DEF Spec

-----------------------------------------------------------------------------
(* What was accepted arrives.                                              *)

\* g is the L values of f and behind them n bytes of sender s, ...
Behind(f, L, g, s, from, n) ==
  /\ DOMAIN f = 1 .. L /\ DOMAIN g = 1 .. L + n
  /\ \A i \in 1 .. L : g[i] = f[i]
  /\ \A k \in 1 .. n : g[L + k] = [from |-> s, no |-> from + k]

\* ... of which the values of f are not younger.
Older(f, L, s, from) ==
  \A i \in 1 .. L : f[i].no \in Nat /\ (f[i].from = s => f[i].no <= from)

LEMMA Appended ==
  ASSUME NEW L \in Nat, NEW n \in Nat, NEW f, NEW g, NEW bytes,
         NEW s, NEW from \in Nat,
         Behind(f, L, g, s, from, n), Older(f, L, s, from),
         Holds(f, bytes), InOrder(f)
  PROVE  Holds(g, bytes \cup Bytes(s, from, n)) /\ InOrder(g)
<1> USE DEF Behind, Older
<1>1. DOMAIN f = 1 .. L /\ DOMAIN g = 1 .. L + n
  OBVIOUS
<1>2. ASSUME NEW i \in 1 .. L + n
      PROVE  \/ i \in 1 .. L /\ g[i] = f[i]
             \/ \E k \in 1 .. n : i = L + k /\ g[i] = [from |-> s, no |-> from + k]
  <2>1. CASE i <= L
    BY <2>1
  <2>2. CASE i > L
    <3>1. i - L \in 1 .. n /\ i = L + (i - L)
      BY <2>2
    <3>2. g[i] = [from |-> s, no |-> from + (i - L)]
      BY <3>1
    <3> QED BY <3>1, <3>2
  <2> QED BY <2>1, <2>2
<1>3. ASSUME NEW i \in DOMAIN g PROVE g[i] \in bytes \cup Bytes(s, from, n)
  BY <1>1, <1>2 DEF Holds, Bytes
<1>4. ASSUME NEW b \in bytes \cup Bytes(s, from, n)
      PROVE  \E i \in DOMAIN g : g[i] = b
  <2>1. CASE b \in bytes
    <3>1. PICK i \in 1 .. L : f[i] = b
      BY <1>1, <2>1 DEF Holds
    <3>2. i \in DOMAIN g /\ g[i] = b
      BY <1>1, <3>1
    <3> QED BY <3>2
  <2>2. CASE b \in Bytes(s, from, n)
    <3>1. PICK k \in 1 .. n : b = [from |-> s, no |-> from + k]
      BY <2>2 DEF Bytes
    <3>2. L + k \in DOMAIN g /\ g[L + k] = b
      BY <1>1, <3>1
    <3> QED BY <3>2
  <2> QED BY <2>1, <2>2
<1>5. ASSUME NEW i \in DOMAIN g, NEW j \in DOMAIN g, i < j, g[i].from = g[j].from
      PROVE  g[i].no < g[j].no
  <2>1. CASE j \in 1 .. L
    BY <1>1, <1>5, <2>1 DEF InOrder
  <2>2. CASE j \notin 1 .. L
    <3>1. PICK k \in 1 .. n : j = L + k /\ g[j] = [from |-> s, no |-> from + k]
      BY <1>1, <1>2, <2>2
    <3>2. CASE i \in 1 .. L
      BY <1>5, <3>1, <3>2
    <3>3. CASE i \notin 1 .. L
      <4>1. PICK m \in 1 .. n : i = L + m /\ g[i] = [from |-> s, no |-> from + m]
        BY <1>1, <1>2, <3>3
      <4> QED BY <1>5, <3>1, <4>1
    <3> QED BY <3>2, <3>3
  <2> QED BY <2>1, <2>2
<1> QED
  BY <1>3, <1>4, <1>5 DEF Holds, InOrder

\* The values that arrived are accepted bytes, of their senders so far.
LEMMA ArrivedIs ==
  ASSUME PortInv, AcceptedOK, Holds(Arrived, accepted),
         NEW i \in 1 .. Len(got) + used
  PROVE  Arrived[i] \in Byte /\ Arrived[i].no <= Handed(Arrived[i].from)
<1>1. Arrived[i] \in accepted
  BY DEF Holds, Arrived
<1> QED
  BY <1>1 DEF PortInv, AcceptedOK

\* A put that ends adds its bytes to what arrives.
LEMMA PutArrives ==
  ASSUME PortInv, AcceptedOK, Holds(Arrived, accepted), InOrder(Arrived),
         NEW s \in Senders, NEW from \in Nat, NEW n \in Nat,
         used + n <= Cap, used' = used + n, Handed(s) <= from,
         UNCHANGED <<first, got>>,
         \A j \in 0 .. used - 1 : slot'[Place(j)] = slot[Place(j)],
         \A k \in 0 .. n - 1 :
            slot'[Place(used + k)] = [from |-> s, no |-> from + k + 1],
         accepted' = accepted \cup Bytes(s, from, n)
  PROVE  Holds(Arrived', accepted') /\ InOrder(Arrived')
<1> DEFINE L == Len(got) + used
<1>1. Len(got) \in Nat /\ used \in Nat
  BY PortAssumption DEF PortInv, PortTypeOK
<1>2. DOMAIN Arrived = 1 .. L
  BY DEF Arrived
<1>3. DOMAIN (Arrived') = 1 .. L + n
  <2>1. Len(got') + used' = L + n
    BY <1>1
  <2> QED BY <2>1 DEF Arrived
<1>4. ASSUME NEW i \in 1 .. L + n
      PROVE  Arrived'[i] = IF i <= Len(got) THEN got[i] ELSE slot'[Place(i - Len(got) - 1)]
  <2>1. Len(got') + used' = L + n
    BY <1>1
  <2> QED BY <2>1 DEF Arrived, Place
<1>12. ASSUME NEW i \in 1 .. L + n, ~(i <= Len(got))
      PROVE  Arrived'[i] = slot'[Place(i - Len(got) - 1)]
  BY <1>4, <1>12
<1>5. ASSUME NEW i \in 1 .. L PROVE Arrived'[i] = Arrived[i]
  <2>1. i \in 1 .. L + n
    BY <1>1
  <2>2. CASE i <= Len(got)
    BY <1>1, <1>4, <2>1, <2>2 DEF Arrived
  <2>3. CASE ~(i <= Len(got))
    <3>1. i - Len(got) - 1 \in 0 .. used - 1
      BY <1>1, <2>3
    <3>2. Arrived[i] = slot[Place(i - Len(got) - 1)]
      BY <2>3 DEF Arrived
    <3>3. Arrived'[i] = slot'[Place(i - Len(got) - 1)]
      BY <1>12, <2>1, <2>3
    <3> QED BY <3>1, <3>2, <3>3
  <2> QED BY <2>2, <2>3
<1>6. ASSUME NEW k \in 1 .. n PROVE Arrived'[L + k] = [from |-> s, no |-> from + k]
  <2>1. ASSUME NEW i \in 1 .. L + n, i = L + k
        PROVE  Arrived'[i] = slot'[Place(used + (k - 1))]
    <3>1. ~(i <= Len(got)) /\ i - Len(got) - 1 = used + (k - 1)
      BY <1>1, <2>1
    <3>2. Arrived'[i] = slot'[Place(i - Len(got) - 1)]
      BY <1>12, <3>1
    <3> QED BY <3>1, <3>2
  <2>2. L + k \in 1 .. L + n
    BY <1>1
  <2>3. Arrived'[L + k] = slot'[Place(used + (k - 1))]
    BY <2>1, <2>2
  <2>5. k - 1 \in 0 .. n - 1 /\ from + (k - 1) + 1 = from + k
    OBVIOUS
  <2> QED BY <2>3, <2>5
<1>7. ASSUME NEW i \in 1 .. L
      PROVE  Arrived[i].no \in Nat /\ (Arrived[i].from = s => Arrived[i].no <= from)
  <2>1. Arrived[i] \in Byte /\ Arrived[i].no <= Handed(Arrived[i].from)
    BY ArrivedIs
  <2>2. Arrived[i].no \in Nat
    BY <2>1, PortAssumption DEF Byte
  <2>3. Handed(s) \in Nat
    BY PortAssumption DEF Handed, PortInv, PutOK
  <2> QED BY <2>1, <2>2, <2>3
<1>8. L \in Nat
  BY <1>1
<1> HIDE DEF L
<1>9. Behind(Arrived, L, Arrived', s, from, n)
  BY <1>2, <1>3, <1>5, <1>6 DEF Behind
<1>10. Older(Arrived, L, s, from)
  BY <1>7 DEF Older
<1>11. Holds(Arrived', accepted \cup Bytes(s, from, n)) /\ InOrder(Arrived')
  BY <1>8, <1>9, <1>10, Appended
<1> QED
  BY <1>11

\* Nothing that arrives moves when only slots behind it change.
LEMMA SameArrived ==
  ASSUME PortInv, UNCHANGED <<first, used, got>>,
         \A j \in 0 .. used - 1 : slot'[Place(j)] = slot[Place(j)]
  PROVE  Arrived' = Arrived
<1>1. Len(got) \in Nat /\ used \in Nat
  BY PortAssumption DEF PortInv, PortTypeOK
<1>2. ASSUME NEW i \in 1 .. Len(got) + used, ~(i <= Len(got))
      PROVE  slot'[Place(i - Len(got) - 1)] = slot[Place(i - Len(got) - 1)]
  <2>1. i - Len(got) - 1 \in 0 .. used - 1
    BY <1>1, <1>2
  <2> QED BY <2>1
<1> QED
  BY <1>2 DEF Arrived, Place

-----------------------------------------------------------------------------
(* The steps, until two puts overlap.                                      *)

Arrives ==
  ~raced => ClaimOK /\ CopyOK /\ AcceptedOK /\ Holds(Arrived, accepted) /\ InOrder(Arrived)

LEMMA ArrivesInit == Init => Arrives
<1> SUFFICES ASSUME Init PROVE Arrives
  OBVIOUS
<1>1. DOMAIN Arrived = {}
  BY DEF Init, Arrived
<1>2. Holds(Arrived, accepted) /\ InOrder(Arrived)
  BY <1>1 DEF Init, Holds, InOrder
<1> QED
  BY <1>2 DEF Init, Arrives, ClaimOK, CopyOK, AcceptedOK, Idle

LEMMA BtClaimArrives == PortInv /\ Arrives /\ BtClaim /\ UNCHANGED got => Arrives'
<1> SUFFICES ASSUME PortInv, Arrives, BtClaim, UNCHANGED got, ~raced'
             PROVE  /\ ClaimOK' /\ CopyOK' /\ AcceptedOK'
                    /\ Holds(Arrived', accepted') /\ InOrder(Arrived')
  BY DEF Arrives, Holds, InOrder
<1>0. ~raced
  BY DEF BtClaim
<1>1. PICK len \in 1 .. MaxBytes - sent[BT] :
        LET n == Smaller(len, Free)
        IN  /\ claimed' = claimed + n
            /\ sent' = [sent EXCEPT ![BT] = @ + len]
            /\ bt' = IF n = 0 THEN Idle
                     ELSE [at |-> "copy", from |-> sent[BT], start |-> Place(used + claimed),
                           num |-> n]
  BY DEF BtClaim
<1>2. claimed = 0 /\ bt.at = "out"
  BY <1>0 DEF BtClaim, Arrives, ClaimOK
<1>3. Smaller(len, Free) \in Nat /\ used \in Nat
  BY PortAssumption DEF PortInv, PortTypeOK, PutOK, Smaller, Free, Senders
<1>4. Arrived' = Arrived
  BY SameArrived DEF BtClaim
<1>5. ClaimOK'
  <2>1. Place(used)' = Place(used)
    BY DEF BtClaim, Place
  <2> QED
    BY <1>1, <1>2, <1>3, <2>1 DEF ClaimOK, Idle
<1>6. CopyOK'
  BY <1>1 DEF CopyOK, Idle
<1>7. AcceptedOK'
  <2>1. BT \in Senders /\ sent[BT] \in Int /\ sent'[BT] = sent[BT] + len /\ sent'[UART] = sent[UART]
    BY <1>1 DEF PortInv, PutOK, Senders, UART, BT
  <2>2. Handed(BT)' \in {sent[BT], sent[BT] + len} /\ Handed(UART)' = sent[UART]
    <3>1. bt'.at # "out" => bt'.from = sent[BT]
      BY <1>1 DEF Idle
    <3> QED
      BY <2>1, <3>1 DEF Handed, UART, BT
  <2>3. ASSUME NEW b \in accepted PROVE b.no <= Handed(b.from)'
    <3>1. b \in Byte /\ b.no <= sent[b.from]
      BY <1>0, <1>2 DEF Arrives, AcceptedOK, PortInv, Handed
    <3>2. b.from \in {UART, BT} /\ b.no \in Int
      BY <3>1, PortAssumption DEF Byte, Senders
    <3>3. CASE b.from = UART
      BY <2>2, <3>1, <3>3
    <3>4. CASE b.from = BT
      BY <2>1, <2>2, <3>1, <3>2, <3>4
    <3> QED BY <3>2, <3>3, <3>4
  <2> QED
    BY <2>3 DEF AcceptedOK, BtClaim, Handed
<1>8. accepted' = accepted
  BY DEF BtClaim
<1> QED
  BY <1>0, <1>4, <1>5, <1>6, <1>7, <1>8 DEF Arrives

LEMMA BtCopyArrives == PortInv /\ Arrives /\ BtCopy /\ UNCHANGED got => Arrives'
<1> SUFFICES ASSUME PortInv, Arrives, BtCopy, UNCHANGED got, ~raced
             PROVE  /\ ClaimOK' /\ CopyOK' /\ AcceptedOK'
                    /\ Holds(Arrived', accepted') /\ InOrder(Arrived')
  BY DEF Arrives, BtCopy, Holds, InOrder
<1>1. first \in Slots /\ slot \in [Slots -> Content] /\ used \in 0 .. Cap
  BY DEF PortInv, PortTypeOK, Slots, Content
<1>2. bt.start = Place(used) /\ bt.num \in 0 .. Cap - used /\ bt.from \in Nat
  BY PortAssumption DEF PortInv, PortTypeOK, PutOK, Arrives, ClaimOK, BtCopy
<1>3. slot' = Copied(BT, bt.from, bt.num, Place(used))
  BY <1>2 DEF BtCopy
<1>4. \A j \in Slots :
        slot'[Place(j)] =
          IF used <= j /\ j < used + bt.num
          THEN [from |-> BT, no |-> bt.from + (j - used) + 1] ELSE slot[Place(j)]
  BY <1>1, <1>2, <1>3, CopiedAt
<1>5. bt' = [bt EXCEPT !.at = "finish"] /\ bt'.at = "finish"
      /\ bt'.num = bt.num /\ bt'.from = bt.from /\ bt'.start = bt.start
  BY DEF BtCopy, PortInv, PutOK
<1>6. \A j \in 0 .. used - 1 : slot'[Place(j)] = slot[Place(j)]
  <2>1. ASSUME NEW j \in 0 .. used - 1 PROVE slot'[Place(j)] = slot[Place(j)]
    <3>1. j \in Slots /\ ~(used <= j)
      BY <1>1, PortAssumption DEF Slots
    <3> QED BY <1>4, <3>1
  <2> QED BY <2>1
<1>7. Arrived' = Arrived
  BY <1>6, SameArrived DEF BtCopy
<1>8. CopyOK'
  <2>1. ASSUME NEW k \in 0 .. bt.num - 1
        PROVE  slot'[Place(used + k)] = [from |-> BT, no |-> bt.from + k + 1]
    <3>1. ASSUME NEW j \in Slots, j = used + k
          PROVE  slot'[Place(j)] = [from |-> BT, no |-> bt.from + k + 1]
      <4>1. used <= j /\ j < used + bt.num /\ bt.from + (j - used) + 1 = bt.from + k + 1
        BY <1>1, <1>2, <3>1
      <4> QED BY <1>4, <4>1
    <3>2. used + k \in Slots
      BY <1>1, <1>2, PortAssumption DEF Slots
    <3> QED BY <3>1, <3>2
  <2> QED
    BY <1>5, <2>1 DEF CopyOK, BtCopy, Place
<1>9. ClaimOK' /\ AcceptedOK'
  BY <1>5 DEF Arrives, ClaimOK, AcceptedOK, Handed, BtCopy, Place
<1> QED
  BY <1>7, <1>8, <1>9 DEF Arrives, BtCopy

LEMMA BtFinishArrives == PortInv /\ Arrives /\ BtFinish /\ UNCHANGED got => Arrives'
<1> SUFFICES ASSUME PortInv, Arrives, BtFinish, UNCHANGED got, ~raced
             PROVE  /\ ClaimOK' /\ CopyOK' /\ AcceptedOK'
                    /\ Holds(Arrived', accepted') /\ InOrder(Arrived')
  BY DEF Arrives, BtFinish, Holds, InOrder
<1>1. claimed = bt.num /\ bt.num \in Nat /\ bt.from \in Nat /\ used + bt.num <= Cap
  BY PortAssumption DEF PortInv, PortTypeOK, PutOK, Arrives, ClaimOK, BtFinish
<1>2. used' = used + bt.num /\ claimed' = 0
      /\ accepted' = accepted \cup Bytes(BT, bt.from, bt.num)
  BY <1>1 DEF BtFinish
<1>3. BT \in Senders /\ Handed(BT) <= bt.from
  BY <1>1 DEF Handed, BtFinish, Senders
<1>4. \A k \in 0 .. bt.num - 1 : slot[Place(used + k)] = [from |-> BT, no |-> bt.from + k + 1]
  BY DEF Arrives, CopyOK, BtFinish
<1>5. slot' = slot /\ UNCHANGED <<first, got>>
  BY DEF BtFinish
<1>6. AcceptedOK /\ Holds(Arrived, accepted) /\ InOrder(Arrived)
  BY DEF Arrives
<1>7. Holds(Arrived', accepted') /\ InOrder(Arrived')
  BY <1>1, <1>2, <1>3, <1>4, <1>5, <1>6, PutArrives
<1>8. bt'.at = "out" /\ sent' = sent
  BY DEF BtFinish, Idle
<1>9. AcceptedOK'
  <2>1. ASSUME NEW b \in accepted PROVE b.no <= sent[b.from]
    <3>1. b \in Byte /\ b.no <= Handed(b.from) /\ b.from \in {UART, BT} /\ b.no \in Int
      BY PortAssumption DEF Arrives, AcceptedOK, PortInv, Byte, Senders
    <3>2. CASE b.from = UART
      BY <3>1, <3>2 DEF Handed, UART, BT
    <3>3. CASE b.from = BT
      <4>1. b.no <= bt.from /\ bt.from + bt.num <= sent[BT] /\ sent[BT] \in Int
        BY <3>1, <3>3, PortAssumption DEF Handed, BtFinish, PortInv, PutOK, Senders
      <4> QED BY <1>1, <3>1, <3>3, <4>1
    <3> QED BY <3>1, <3>2, <3>3
  <2>2. ASSUME NEW b \in Bytes(BT, bt.from, bt.num) PROVE b.no <= sent[b.from]
    <3>1. b.from = BT /\ b.no \in Int /\ b.no <= bt.from + bt.num
      BY <1>1, <2>2 DEF Bytes
    <3>2. bt.from + bt.num <= sent[BT] /\ sent[BT] \in Int
      BY PortAssumption DEF BtFinish, PortInv, PutOK, Senders
    <3> QED BY <1>1, <3>1, <3>2
  <2>3. \A b \in accepted' : Handed(b.from)' = sent[b.from]
    BY <1>8 DEF Handed
  <2> QED
    BY <1>2, <2>1, <2>2, <2>3 DEF AcceptedOK, Handed
<1> QED
  BY <1>2, <1>7, <1>8, <1>9 DEF ClaimOK, CopyOK

LEMMA UartRxRdyArrives == PortInv /\ Arrives /\ UartRxRdy /\ UNCHANGED got => Arrives'
<1> SUFFICES ASSUME PortInv, Arrives, UartRxRdy, UNCHANGED got, ~raced, bt.at = "out"
             PROVE  /\ ClaimOK' /\ CopyOK' /\ AcceptedOK'
                    /\ Holds(Arrived', accepted') /\ InOrder(Arrived')
  BY DEF Arrives, UartRxRdy, Holds, InOrder
<1>1. PICK len \in 1 .. MaxBytes - sent[UART] :
        LET n == Smaller(len, Free)
        IN  /\ slot' = Copied(UART, RxOffset, n, Place(used + claimed))
            /\ used' = used + n
            /\ sent' = [sent EXCEPT ![UART] = @ + len]
            /\ accepted' = accepted \cup Bytes(UART, sent[UART], n)
  BY DEF UartRxRdy
<1> DEFINE n == Smaller(len, Free)
<1>2. claimed = 0 /\ UART \in Senders
  BY DEF Arrives, ClaimOK, Senders
<1>3. first \in Slots /\ slot \in [Slots -> Content] /\ used \in 0 .. Cap /\ sent[UART] \in Nat
  BY <1>2, PortAssumption DEF PortInv, PortTypeOK, PutOK, Slots, Content
<1>4. n \in 0 .. Cap - used /\ n <= len /\ len \in Nat
  BY <1>2, <1>3, PortAssumption DEF Smaller, Free
<1>5. /\ slot' = Copied(UART, sent[UART], n, Place(used))
      /\ used' = used + n /\ sent' = [sent EXCEPT ![UART] = @ + len]
      /\ accepted' = accepted \cup Bytes(UART, sent[UART], n)
  <2>1. used + claimed = used
    BY <1>2, <1>3
  <2> QED BY <1>1, <2>1 DEF RxOffset
<1> HIDE DEF n
<1>6. \A j \in Slots :
        slot'[Place(j)] =
          IF used <= j /\ j < used + n
          THEN [from |-> UART, no |-> sent[UART] + (j - used) + 1] ELSE slot[Place(j)]
  BY <1>3, <1>4, <1>5, CopiedAt
<1>7. \A j \in 0 .. used - 1 : slot'[Place(j)] = slot[Place(j)]
  <2>1. ASSUME NEW j \in 0 .. used - 1 PROVE slot'[Place(j)] = slot[Place(j)]
    <3>1. j \in Slots /\ ~(used <= j)
      BY <1>3, PortAssumption DEF Slots
    <3> QED BY <1>6, <3>1
  <2> QED BY <2>1
<1>8. ASSUME NEW k \in 0 .. n - 1
      PROVE  slot'[Place(used + k)] = [from |-> UART, no |-> sent[UART] + k + 1]
  <2>1. ASSUME NEW j \in Slots, j = used + k
        PROVE  slot'[Place(j)] = [from |-> UART, no |-> sent[UART] + k + 1]
    <3>1. used <= j /\ j < used + n /\ sent[UART] + (j - used) + 1 = sent[UART] + k + 1
      BY <1>3, <1>4, <2>1
    <3> QED BY <1>6, <3>1
  <2>2. used + k \in Slots
    BY <1>3, <1>4, PortAssumption DEF Slots
  <2> QED BY <2>1, <2>2
<1>9. Handed(UART) <= sent[UART] /\ used + n <= Cap /\ n \in Nat
  BY <1>3, <1>4, PortAssumption DEF Handed
<1>10. UNCHANGED <<first, got, bt>> /\ claimed' = 0
  BY DEF UartRxRdy
<1>11. AcceptedOK /\ Holds(Arrived, accepted) /\ InOrder(Arrived)
  BY DEF Arrives
<1>12. Holds(Arrived', accepted') /\ InOrder(Arrived')
  BY <1>2, <1>3, <1>5, <1>7, <1>8, <1>9, <1>10, <1>11, PutArrives
<1>13. AcceptedOK'
  <2>1. sent'[UART] = sent[UART] + len /\ sent'[BT] = sent[BT]
    BY <1>2, <1>5 DEF PortInv, PutOK, Senders, UART, BT
  <2>2. ASSUME NEW b \in accepted PROVE b.no <= sent'[b.from]
    <3>1. b \in Byte /\ b.no <= sent[b.from] /\ b.from \in {UART, BT} /\ b.no \in Int
      BY PortAssumption DEF Arrives, AcceptedOK, PortInv, Byte, Senders, Handed
    <3> QED BY <1>3, <1>4, <2>1, <3>1
  <2>3. ASSUME NEW b \in Bytes(UART, sent[UART], n) PROVE b.no <= sent'[b.from]
    <3>1. b.from = UART /\ b.no \in Int /\ b.no <= sent[UART] + n
      BY <1>3, <1>9, <2>3 DEF Bytes
    <3> QED BY <1>3, <1>4, <2>1, <3>1
  <2>4. \A b \in accepted' : Handed(b.from)' = sent'[b.from]
    BY <1>10 DEF Handed
  <2> QED
    BY <1>5, <2>2, <2>3, <2>4 DEF AcceptedOK, Handed
<1> QED
  BY <1>10, <1>12, <1>13 DEF ClaimOK, CopyOK

LEMMA ReadCharArrives == PortInv /\ Arrives /\ read_char => Arrives'
<1> SUFFICES ASSUME PortInv, Arrives, read_char, ~raced'
             PROVE  /\ ClaimOK' /\ CopyOK' /\ AcceptedOK'
                    /\ Holds(Arrived', accepted') /\ InOrder(Arrived')
  BY DEF Arrives, Holds, InOrder
<1>1. /\ ~raced /\ used \in 1 .. Cap /\ first \in Slots /\ Len(got) \in Nat
      /\ claimed \in 0 .. Cap - used
      /\ first' = Place(1) /\ used' = used - 1 /\ got' = Append(got, slot[first])
      /\ UNCHANGED <<slot, claimed, bt, sent, accepted>>
  BY PortAssumption DEF read_char, HasInput, PortInv, PortTypeOK, Slots
<1>2. ASSUME NEW i \in 0 .. Cap - 1, NEW j \in 1 .. Cap, j = i + 1
      PROVE  Wrapped(first' + i) = Place(j)
  BY <1>1, <1>2, PortAssumption DEF Place, Wrapped, Slots
<1>3. Arrived' = Arrived
  <2> DEFINE L == Len(got) + used
  <2>1. Len(got') + used' = L /\ Len(got') = Len(got) + 1
    BY <1>1 DEF PortInv
  <2>2. ASSUME NEW i \in 1 .. L
        PROVE  (IF i <= Len(got') THEN got'[i] ELSE slot'[Wrapped(first' + (i - Len(got') - 1))])
                 = IF i <= Len(got) THEN got[i] ELSE slot[Place(i - Len(got) - 1)]
    <3>1. CASE i <= Len(got)
      <4>1. got'[i] = got[i]
        BY <1>1, <3>1 DEF PortInv
      <4> QED BY <1>1, <2>1, <3>1, <4>1
    <3>2. CASE i = Len(got) + 1
      <4>1. got'[i] = slot[first]
        BY <1>1, <3>2 DEF PortInv
      <4>2. i - Len(got) - 1 = 0 /\ i <= Len(got') /\ ~(i <= Len(got))
        BY <1>1, <2>1, <3>2
      <4>3. Place(0) = first
        BY <1>1, PortAssumption DEF Place, Wrapped, Slots
      <4> QED BY <4>1, <4>2, <4>3
    <3>3. CASE i > Len(got) + 1
      <4>1. /\ i - Len(got') - 1 \in 0 .. Cap - 1 /\ i - Len(got) - 1 \in 1 .. Cap
            /\ i - Len(got) - 1 = (i - Len(got') - 1) + 1
            /\ ~(i <= Len(got')) /\ ~(i <= Len(got))
        BY <1>1, <2>1, <3>3, PortAssumption
      <4>2. Wrapped(first' + (i - Len(got') - 1)) = Place(i - Len(got) - 1)
        BY <1>2, <4>1
      <4> QED BY <1>1, <4>1, <4>2
    <3> QED BY <1>1, <3>1, <3>2, <3>3
  <2>3. DOMAIN (Arrived') = 1 .. L /\ DOMAIN Arrived = 1 .. L
    BY <2>1 DEF Arrived
  <2> QED
    BY <2>1, <2>2, <2>3 DEF Arrived, Place
<1>4. ClaimOK'
  <2>1. CASE bt.at = "out"
    BY <1>1, <2>1 DEF Arrives, ClaimOK
  <2>2. CASE bt.at # "out"
    <3>1. claimed = bt.num /\ bt.start = Place(used)
      BY <1>1, <2>2 DEF Arrives, ClaimOK
    <3>2. Wrapped(first' + used') = Place(used)
      <4>1. used' \in 0 .. Cap - 1 /\ used = used' + 1
        BY <1>1, PortAssumption
      <4> QED BY <1>1, <1>2, <4>1
    <3> QED BY <1>1, <2>2, <3>1, <3>2 DEF ClaimOK, Place
  <2> QED BY <2>1, <2>2
<1>5. CopyOK'
  <2> SUFFICES ASSUME bt.at = "finish", NEW k \in 0 .. bt.num - 1
               PROVE  slot[Wrapped(first' + (used' + k))] = [from |-> BT, no |-> bt.from + k + 1]
    BY <1>1 DEF CopyOK, Place
  <2>1. claimed = bt.num
    BY <1>1 DEF Arrives, ClaimOK
  <2>2. used' + k \in 0 .. Cap - 1 /\ used + k \in 1 .. Cap /\ used + k = (used' + k) + 1
    BY <1>1, <2>1, PortAssumption
  <2>3. Wrapped(first' + (used' + k)) = Place(used + k)
    BY <1>2, <2>2
  <2> QED
    BY <1>1, <2>3 DEF Arrives, CopyOK
<1>6. AcceptedOK'
  BY <1>1 DEF Arrives, AcceptedOK, Handed
<1> QED
  BY <1>1, <1>3, <1>4, <1>5, <1>6 DEF Arrives

LEMMA ArrivesStep == PortInv /\ Arrives /\ [Next]_vars => Arrives'
<1> SUFFICES ASSUME PortInv, Arrives, [Next]_vars PROVE Arrives'
  OBVIOUS
<1>1. CASE received /\ UNCHANGED <<phase, writer, got, rxVars>>
  BY <1>1, BtClaimArrives, BtCopyArrives, BtFinishArrives DEF received
<1>2. CASE UartRxRdy /\ UNCHANGED <<phase, writer, got>>
  BY <1>2, UartRxRdyArrives
<1>3. CASE read_char
  BY <1>3, ReadCharArrives
<1>4. CASE UNCHANGED <<got, ringVars>>
  <2>1. Arrived' = Arrived
    BY <1>4, SameArrived DEF ringVars
  <2>2. UNCHANGED <<ClaimOK, CopyOK, AcceptedOK>>
    BY <1>4 DEF ringVars, ClaimOK, CopyOK, AcceptedOK, Handed, Place
  <2> QED
    BY <1>4, <2>1, <2>2 DEF ringVars, Arrives, Holds, InOrder
<1> QED
  BY <1>1, <1>2, <1>3, <1>4
     DEF Next, UartReceive, UartRxBufRequest, UartRxBufReleased, UartRxDisabled, ParserStep, vars

\* Until a put comes between the steps of another, every byte that a put said
\* it stored reaches the parser and nothing else does, in its sender's order,
\* whatever found the ring buffer full before.
THEOREM AcceptedArriveHolds == Spec => []AcceptedArrive
<1>1. PortInv /\ Arrives => AcceptedArrive
  BY DEF Arrives, Holds, InOrder, AcceptedArrive
<1> QED
  BY <1>1, PortInit, PortStep, ArrivesInit, ArrivesStep, PTL DEF Spec
=============================================================================
