-------------------------- MODULE EventQueueProofs --------------------------
(***************************************************************************)
(* For every size of the ring, every set of commands and every reader: the *)
(* ring stays consistent, and its separate stores implement the bounded    *)
(* FIFO of EventFifo.                                                      *)
(***************************************************************************)
EXTENDS EventQueue, SequenceTheorems, TLAPS

USE QueueAssumption

Item == (Commands \cup {NoCmd}) \X (Types \cup {"NONE"})

Pushing == {"push_cmd", "push_type", "push_tail"}
Popping == {"pop_cmd", "pop_head"}

\* The type of the state.
Shape ==
  /\ slot \in [Slots -> Item]
  /\ head \in Slots /\ tail \in Slots
  /\ count \in 0 .. Size
  /\ cmd \in Commands \cup {NoCmd} /\ cmd_type \in Types \cup {"NONE"}
  /\ item \in Item
  /\ step \in {"free", "pop_count", "reset"} \cup Pushing \cup Popping

\* The number of items is the distance of the indices, a push has room and a
\* pop has an item.
Distance ==
  /\ tail = head + Stored \/ tail = head + Stored - Size
  /\ step \in Pushing => count < Size
  /\ step \in Popping => count > 0

\* The slots of the queue hold events, and the holder of the mutex moves the
\* one it should: next behind them for a push, the oldest for a pop.
Held ==
  /\ \A i \in 1 .. count : slot[Place(i)] \in Events
  /\ step \in Pushing => item \in Events
  /\ step = "push_cmd" => slot[tail][1] = item[1]
  /\ step = "push_type" => slot[tail] = item
  /\ step = "push_tail" => slot[Place(count + 1)] = item
  /\ step \in Popping => item = slot[Oldest]
  /\ step \in Popping \cup {"pop_count"} => item \in Events /\ cmd = item[1]
  /\ step \in {"free"} \cup Pushing /\ cmd # NoCmd => <<cmd, cmd_type>> \in Events
  /\ step = "reset" => cmd = NoCmd

QInv == Shape /\ Distance /\ Held

-----------------------------------------------------------------------------
(* Lemmas about the ring.                                                  *)

\* A store to one field of a slot replaces a pair in it.
LEMMA StoreField ==
  ASSUME slot \in [Slots -> Item], NEW s \in Slots, NEW a
  PROVE  /\ [slot EXCEPT ![s][1] = a] = [slot EXCEPT ![s] = <<a, slot[s][2]>>]
         /\ [slot EXCEPT ![s][2] = a] = [slot EXCEPT ![s] = <<slot[s][1], a>>]
<1>1. slot[s] \in Item
  OBVIOUS
<1>2. [slot[s] EXCEPT ![1] = a] = <<a, slot[s][2]>>
  BY <1>1, SMT DEF Item
<1>3. [slot[s] EXCEPT ![2] = a] = <<slot[s][1], a>>
  BY <1>1, SMT DEF Item
<1> QED
  BY <1>2, <1>3

\* Indices move within the ring, and one forward is undone by one back.
LEMMA Moves ==
  ASSUME NEW s \in Slots
  PROVE  NextSlot(s) \in Slots /\ PrevSlot(s) \in Slots /\ PrevSlot(NextSlot(s)) = s
BY SMT DEF Slots, NextSlot, PrevSlot

\* The items occupy slots, none of them the one to be filled next.
LEMMA Places ==
  ASSUME Shape, Distance, NEW i \in 1 .. Size
  PROVE  /\ Oldest \in Slots
         /\ Place(i) \in Slots
         /\ i <= count /\ step \in {"free", "push_cmd", "push_type"} /\ count < Size
              => Place(i) # tail
         /\ step \in {"push_tail"} => PrevSlot(tail) = Place(count + 1)
         /\ step \in {"push_type"} => tail = Place(count + 1)
         /\ Place(1) = Oldest
<1>1. Oldest \in Slots
  BY Moves DEF Oldest, Shape
<1>2. Place(i) \in Slots
  BY <1>1, SMT DEF Place, Slots
<1>3. ASSUME i <= count, step \in {"free", "push_cmd", "push_type"}, count < Size
      PROVE  Place(i) # tail
  <2>1. Oldest = head /\ Stored = count
    BY <1>3 DEF Oldest, Stored
  <2> QED
    BY <2>1, <1>3, SMT DEF Shape, Distance, Place, Slots
<1>4. ASSUME step \in {"push_tail"}
      PROVE  PrevSlot(tail) = Place(count + 1)
  <2>1. Oldest = head /\ Stored = count + 1 /\ count < Size
    BY <1>4 DEF Oldest, Stored, Distance, Pushing
  <2> QED
    BY <2>1, SMT DEF Shape, Distance, Place, Slots, PrevSlot
<1>5. ASSUME step \in {"push_type"}
      PROVE  tail = Place(count + 1)
  <2>1. Oldest = head /\ Stored = count /\ count < Size
    BY <1>5 DEF Oldest, Stored, Distance, Pushing
  <2> QED
    BY <2>1, SMT DEF Shape, Distance, Place, Slots
<1>6. Place(1) = Oldest
  BY <1>1, SMT DEF Place, Slots
<1> QED
  BY <1>1, <1>2, <1>3, <1>4, <1>5, <1>6
\* One element more at the end; the first element taken off.
LEMMA AppendIs ==
  ASSUME NEW S, NEW n \in Nat, NEW f \in [1 .. n + 1 -> S], NEW g \in [1 .. n -> S],
         \A i \in 1 .. n : g[i] = f[i]
  PROVE  f = Append(g, f[n + 1])
<1>1. f[n + 1] \in S
  BY SMT
<1>2. g \in Seq(S) /\ Len(g) = n
  BY SMT
<1> DEFINE h == Append(g, f[n + 1])
<1>3. h \in Seq(S) /\ Len(h) = n + 1 /\ (\A i \in 1 .. n : h[i] = g[i]) /\ h[n + 1] = f[n + 1]
  BY <1>1, <1>2, AppendProperties
<1>4. h \in [1 .. n + 1 -> S]
  <2> HIDE DEF h
  <2> QED
    BY <1>3, LenProperties
<1>5. \A i \in 1 .. n + 1 : h[i] = f[i]
  BY <1>3, SMT
<1> QED
  BY <1>4, <1>5

LEMMA TailIs ==
  ASSUME NEW S, NEW n \in Nat, NEW f \in [1 .. n + 1 -> S], NEW g \in [1 .. n -> S],
         \A i \in 1 .. n : g[i] = f[i + 1]
  PROVE  g = Tail(f) /\ Head(f) = f[1] /\ f # <<>>
<1>1. f \in Seq(S) /\ Len(f) = n + 1 /\ f # <<>>
  BY SMT
<1> DEFINE t == Tail(f)
<1>2. t \in Seq(S) /\ Len(t) = n /\ \A i \in 1 .. n : t[i] = f[i + 1]
  <2>1. Len(t) = n
    BY <1>1, HeadTailProperties
  <2> QED
    BY <1>1, <2>1, HeadTailProperties, Zenon
<1>3. t \in [1 .. n -> S]
  <2> HIDE DEF t
  <2> QED
    BY <1>2, LenProperties
<1>4. Head(f) = f[1]
  BY <1>1, SMT
<1> QED
  BY <1>1, <1>2, <1>3, <1>4

-----------------------------------------------------------------------------
LEMMA QInit == Init => QInv
<1> SUFFICES ASSUME Init PROVE QInv
  OBVIOUS
<1>1. 0 \in Slots
  BY DEF Slots
<1>2. NoEvent \in Item
  BY DEF NoEvent, Item
<1>3. Shape
  BY <1>1, <1>2, SMT DEF Init, Shape, Slots
<1>4. Distance
  BY SMT DEF Init, Distance, Stored, Pushing, Popping
<1>5. Held
  BY SMT DEF Init, Held, Pushing, Popping
<1> QED
  BY <1>3, <1>4, <1>5 DEF QInv

-----------------------------------------------------------------------------
(* What a step does to the queue as EventFifo sees it, with the invariant. *)

Keeps == QInv' /\ UNCHANGED <<buffered, processed>>

Takes(e) == buffered' = Append(buffered, e) /\ UNCHANGED processed

\* The queue is unchanged when the number of its items is, and their slots.
LEMMA SameQueue ==
  ASSUME Shape, Distance, count' = count, Oldest' = Oldest,
         \A i \in 1 .. count : slot'[Place(i)] = slot[Place(i)]
  PROVE  /\ buffered' = buffered
         /\ \A i \in 1 .. count : Place(i)' = Place(i)
<1>1. \A i \in 1 .. count : Place(i)' = Place(i)
  BY DEF Place
<1> QED
  BY <1>1 DEF buffered

LEMMA BufferedType == QInv => buffered \in [1 .. count -> Events]
BY DEF QInv, Held, buffered

LEMMA PushCmdKeeps == QInv /\ PushCmd => Keeps
<1> SUFFICES ASSUME QInv, PushCmd PROVE Keeps
  OBVIOUS
<1> USE DEF QInv
<1>1. PICK e \in Events : item' = e /\ slot' = [slot EXCEPT ![tail][1] = e[1]]
  BY DEF PushCmd
<1>2. /\ step = "free" /\ step' = "push_cmd" /\ count < Size
      /\ UNCHANGED <<head, tail, count, cmd, cmd_type>>
  BY SMT DEF PushCmd, is_unsolicited_buffer_full, Shape
<1>3. slot' = [slot EXCEPT ![tail] = <<e[1], slot[tail][2]>>]
  BY <1>1, StoreField DEF Shape
<1>4. e \in Item /\ <<e[1], slot[tail][2]>> \in Item
  BY SMT DEF Events, Item, Shape
<1>5. Shape'
  BY <1>1, <1>2, <1>3, <1>4 DEF Shape, Pushing
<1>6. Distance'
  BY <1>2 DEF Distance, Stored, Popping
<1>7. Oldest' = Oldest
  BY <1>2 DEF Oldest
<1>8. \A i \in 1 .. count : slot'[Place(i)] = slot[Place(i)]
  <2> TAKE i \in 1 .. count
  <2>1. Place(i) \in Slots /\ Place(i) # tail
    BY <1>2, Places, SMT DEF Shape
  <2> QED
    BY <2>1, <1>3 DEF Shape
<1>9. UNCHANGED buffered /\ \A i \in 1 .. count : Place(i)' = Place(i)
  BY <1>2, <1>7, <1>8, SameQueue
<1>10. UNCHANGED processed
  BY <1>2 DEF processed
<1>11. Held'
  <2>1. slot'[tail][1] = e[1]
    BY <1>3 DEF Shape
  <2> QED
    BY <1>1, <1>2, <1>8, <1>9, <2>1 DEF Held, Pushing, Popping
<1> QED
  BY <1>5, <1>6, <1>9, <1>10, <1>11 DEF Keeps

LEMMA PushTypeKeeps == QInv /\ PushType => Keeps
<1> SUFFICES ASSUME QInv, PushType PROVE Keeps
  OBVIOUS
<1> USE DEF QInv
<1>1. /\ step = "push_cmd" /\ step' = "push_type" /\ count < Size
      /\ UNCHANGED <<head, tail, count, cmd, cmd_type, item>>
      /\ item \in Events /\ slot[tail][1] = item[1]
  BY DEF PushType, Distance, Held, Pushing
<1>2. slot' = [slot EXCEPT ![tail] = <<slot[tail][1], item[2]>>]
  BY StoreField DEF PushType, Shape
<1>3. <<slot[tail][1], item[2]>> = item
  BY <1>1, SMT DEF Events
<1>4. Shape'
  BY <1>1, <1>2, <1>3 DEF Shape, Pushing
<1>5. Distance'
  BY <1>1 DEF Distance, Stored, Pushing, Popping
<1>6. Oldest' = Oldest
  BY <1>1 DEF Oldest
<1>7. \A i \in 1 .. count : slot'[Place(i)] = slot[Place(i)]
  <2> TAKE i \in 1 .. count
  <2>1. Place(i) \in Slots /\ Place(i) # tail
    BY <1>1, Places, SMT DEF Shape
  <2> QED
    BY <2>1, <1>2 DEF Shape
<1>8. UNCHANGED buffered /\ \A i \in 1 .. count : Place(i)' = Place(i)
  BY <1>1, <1>6, <1>7, SameQueue
<1>9. UNCHANGED processed
  BY <1>1 DEF processed
<1>10. Held'
  <2>1. slot'[tail] = item
    BY <1>2, <1>3 DEF Shape
  <2> QED
    BY <1>1, <1>7, <1>8, <2>1 DEF Held, Pushing, Popping
<1> QED
  BY <1>4, <1>5, <1>8, <1>9, <1>10 DEF Keeps

LEMMA PushTailKeeps == QInv /\ PushTail => Keeps
<1> SUFFICES ASSUME QInv, PushTail PROVE Keeps
  OBVIOUS
<1> USE DEF QInv
<1>1. /\ step = "push_type" /\ step' = "push_tail" /\ count < Size
      /\ UNCHANGED <<slot, head, count, cmd, cmd_type, item>>
      /\ item \in Events /\ slot[tail] = item
      /\ tail' = NextSlot(tail)
  BY DEF PushTail, Distance, Held, Pushing
<1>2. Shape'
  BY <1>1, Moves DEF Shape, Pushing
<1>3. Distance'
  BY <1>1, SMT DEF Distance, Stored, Pushing, Popping, NextSlot, Shape, Slots
<1>4. Oldest' = Oldest
  BY <1>1 DEF Oldest
<1>5. UNCHANGED buffered /\ \A i \in 1 .. count : Place(i)' = Place(i)
  BY <1>1, <1>4, SameQueue
<1>6. UNCHANGED processed
  BY <1>1 DEF processed
<1>7. Place(count + 1)' = tail
  <2>1. 1 \in 1 .. Size
    BY SMT
  <2>2. Place(count + 1) = tail
    BY <1>1, <2>1, Places
  <2> QED
    BY <1>1, <1>4, <2>2 DEF Place
<1>8. Held'
  BY <1>1, <1>5, <1>7 DEF Held, Pushing, Popping
<1> QED
  BY <1>2, <1>3, <1>5, <1>6, <1>8 DEF Keeps

LEMMA PushCountTakes == QInv /\ PushCount => QInv' /\ Fifo!Accept
<1> SUFFICES ASSUME QInv, PushCount PROVE QInv' /\ Fifo!Accept
  OBVIOUS
<1> USE DEF QInv
<1>1. /\ step = "push_tail" /\ step' = "free" /\ count < Size
      /\ UNCHANGED <<slot, head, tail, cmd, cmd_type>>
      /\ item \in Events /\ slot[Place(count + 1)] = item
      /\ count' = count + 1 /\ item' = NoEvent
  BY DEF PushCount, Distance, Held, Pushing
<1>2. Shape'
  BY <1>1, SMT DEF Shape, NoEvent, Item
<1>3. Distance'
  BY <1>1 DEF Distance, Stored, Pushing, Popping
<1>4. \A i : Place(i)' = Place(i)
  BY <1>1 DEF Place, Oldest
<1>5. \A i \in 1 .. count' : slot'[Place(i)'] \in Events
  <2> TAKE i \in 1 .. count'
  <2>1. i \in 1 .. count \/ i = count + 1
    BY <1>1, SMT DEF Shape
  <2> QED
    BY <1>1, <1>4, <2>1 DEF Held
<1>6. Held'
  BY <1>1, <1>5 DEF Held, Pushing, Popping
<1>7. UNCHANGED processed
  BY <1>1 DEF processed
<1>8. buffered \in [1 .. count -> Events] /\ buffered' \in [1 .. count + 1 -> Events]
  BY <1>1, <1>5, BufferedType DEF buffered
<1>9. count \in Nat /\ count + 1 \in 1 .. count + 1
  BY SMT DEF Shape
<1>10. \A i \in 1 .. count : buffered[i] = buffered'[i]
  BY <1>1, <1>4, SMT DEF buffered, Shape
<1>11. buffered'[count + 1] = item
  BY <1>1, <1>4, <1>9 DEF buffered
<1>12. buffered' = Append(buffered, item)
  BY <1>8, <1>9, <1>10, <1>11, AppendIs
<1>13. Len(buffered) < Size
  BY <1>1, <1>8, <1>9, SMT
<1> QED
  BY <1>1, <1>2, <1>3, <1>6, <1>7, <1>12, <1>13 DEF Fifo!Accept

LEMMA PopCmdKeeps == QInv /\ PopCmd => Keeps
<1> SUFFICES ASSUME QInv, PopCmd PROVE Keeps
  OBVIOUS
<1> USE DEF QInv
<1>1. /\ step = "free" /\ step' = "pop_cmd" /\ cmd = NoCmd /\ count > 0
      /\ UNCHANGED <<slot, head, tail, count, cmd_type>>
      /\ cmd' = slot[head][1] /\ item' = slot[head]
  BY SMT DEF PopCmd, ring, Shape
<1>2. slot[head] \in Events
  <2>1. Place(1) = head /\ 1 \in 1 .. count
    BY <1>1, Places, SMT DEF Oldest, Shape
  <2> QED
    BY <2>1 DEF Held
<1>3. slot[head] \in Item /\ slot[head][1] \in Commands
  BY <1>2, SMT DEF Events, Item
<1>4. Shape'
  BY <1>1, <1>3 DEF Shape, Popping
<1>5. Distance'
  BY <1>1 DEF Distance, Stored, Pushing, Popping
<1>6. Oldest' = Oldest /\ Oldest' = head
  BY <1>1 DEF Oldest
<1>7. UNCHANGED buffered /\ \A i \in 1 .. count : Place(i)' = Place(i)
  BY <1>1, <1>6, SameQueue
<1>8. UNCHANGED processed
  BY <1>1 DEF processed
<1>9. Held'
  BY <1>1, <1>2, <1>6, <1>7 DEF Held, Pushing, Popping
<1> QED
  BY <1>4, <1>5, <1>7, <1>8, <1>9 DEF Keeps

LEMMA PopHeadKeeps == QInv /\ PopHead => Keeps
<1> SUFFICES ASSUME QInv, PopHead PROVE Keeps
  OBVIOUS
<1> USE DEF QInv
<1>1. /\ step = "pop_cmd" /\ step' = "pop_head" /\ count > 0
      /\ UNCHANGED <<slot, tail, count, cmd, cmd_type, item>>
      /\ head' = NextSlot(head)
  BY DEF PopHead, Distance, Popping
<1>2. Shape'
  BY <1>1, Moves DEF Shape, Popping
<1>3. Distance'
  BY <1>1, SMT DEF Distance, Stored, Pushing, Popping, NextSlot, Shape, Slots
<1>4. Oldest' = Oldest
  BY <1>1, Moves DEF Oldest, Shape
<1>5. UNCHANGED buffered /\ \A i \in 1 .. count : Place(i)' = Place(i)
  BY <1>1, <1>4, SameQueue
<1>6. UNCHANGED processed
  BY <1>1 DEF processed
<1>7. Held'
  BY <1>1, <1>4, <1>5 DEF Held, Pushing, Popping
<1> QED
  BY <1>2, <1>3, <1>5, <1>6, <1>7 DEF Keeps

LEMMA PopCountTakes == QInv /\ PopCount => QInv' /\ Fifo!Take
<1> SUFFICES ASSUME QInv, PopCount PROVE QInv' /\ Fifo!Take
  OBVIOUS
<1> USE DEF QInv
<1>1. /\ step = "pop_head" /\ step' = "pop_count" /\ count > 0
      /\ UNCHANGED <<slot, head, tail, cmd, cmd_type, item>>
      /\ count' = count - 1
      /\ item = slot[Oldest] /\ item \in Events /\ cmd = item[1]
  BY DEF PopCount, Distance, Held, Popping
<1>2. Shape'
  BY <1>1, SMT DEF Shape
<1>3. Distance'
  BY <1>1 DEF Distance, Stored, Pushing, Popping
<1>4. \A i \in 1 .. count - 1 : Place(i)' = Place(i + 1)
  <2>1. Oldest' = head /\ Oldest = PrevSlot(head)
    BY <1>1 DEF Oldest
  <2> QED
    BY <1>1, <2>1, SMT DEF Place, PrevSlot, Shape, Slots
<1>5. \A i \in 1 .. count' : slot'[Place(i)'] = slot[Place(i + 1)] /\ i + 1 \in 1 .. count
  BY <1>1, <1>4, SMT DEF Shape
<1>6. Held'
  BY <1>1, <1>5 DEF Held, Pushing, Popping
<1>7. processed = NoEvent /\ processed' = item
  BY <1>1 DEF processed
<1>8. count - 1 \in Nat /\ (count - 1) + 1 = count /\ 1 \in 1 .. count
  BY <1>1, SMT DEF Shape
<1>9. buffered \in [1 .. count -> Events] /\ buffered' \in [1 .. count - 1 -> Events]
  BY <1>1, <1>6, BufferedType DEF buffered, Held
<1>10. \A i \in 1 .. count - 1 : buffered'[i] = buffered[i + 1]
  BY <1>1, <1>5 DEF buffered
<1>11. buffered[1] = item
  <2>1. Place(1) = Oldest
    BY Places, SMT
  <2> QED
    BY <1>1, <1>8, <2>1 DEF buffered
<1>12. buffered' = Tail(buffered) /\ Head(buffered) = item /\ buffered # <<>>
  BY <1>8, <1>9, <1>10, <1>11, TailIs
<1> QED
  BY <1>2, <1>3, <1>6, <1>7, <1>12 DEF Fifo!Take

LEMMA SetTypeKeeps == QInv /\ SetType => Keeps
<1> SUFFICES ASSUME QInv, SetType PROVE Keeps
  OBVIOUS
<1> USE DEF QInv
<1>1. /\ step = "pop_count" /\ step' = "free"
      /\ UNCHANGED <<slot, head, tail, count, cmd>>
      /\ cmd_type' = item[2] /\ item' = NoEvent
      /\ item \in Events /\ cmd = item[1]
  BY DEF SetType, Held, ring
<1>2. item = <<cmd, item[2]>> /\ cmd \in Commands /\ item[2] \in Types
  BY <1>1, SMT DEF Events
<1>3. Shape'
  BY <1>1, <1>2, SMT DEF Shape, NoEvent, Item
<1>4. Distance'
  BY <1>1 DEF Distance, Stored, Pushing, Popping
<1>5. Oldest' = Oldest
  BY <1>1 DEF Oldest
<1>6. UNCHANGED buffered /\ \A i \in 1 .. count : Place(i)' = Place(i)
  BY <1>1, <1>5, SameQueue
<1>7. UNCHANGED processed
  BY <1>1, <1>2 DEF processed
<1>8. Held'
  BY <1>1, <1>2, <1>6 DEF Held, Pushing, Popping
<1> QED
  BY <1>3, <1>4, <1>6, <1>7, <1>8 DEF Keeps

LEMMA ResetCmdFinishes == QInv /\ ResetCmd => QInv' /\ Fifo!Finish
<1> SUFFICES ASSUME QInv, ResetCmd PROVE QInv' /\ Fifo!Finish
  OBVIOUS
<1> USE DEF QInv
<1>1. /\ step = "free" /\ step' = "reset"
      /\ UNCHANGED <<slot, head, tail, count, cmd_type, item>>
      /\ cmd # NoCmd /\ cmd' = NoCmd
  BY DEF ResetCmd, ring
<1>2. Shape'
  BY <1>1 DEF Shape
<1>3. Distance'
  BY <1>1 DEF Distance, Stored, Pushing, Popping
<1>4. Oldest' = Oldest
  BY <1>1 DEF Oldest
<1>5. UNCHANGED buffered /\ \A i \in 1 .. count : Place(i)' = Place(i)
  BY <1>1, <1>4, SameQueue
<1>6. Held'
  BY <1>1, <1>5 DEF Held, Pushing, Popping
<1>7. processed = <<cmd, cmd_type>> /\ processed' = NoEvent
  BY <1>1 DEF processed
<1>8. processed # NoEvent
  BY <1>1, <1>7 DEF NoEvent
<1> QED
  BY <1>2, <1>3, <1>5, <1>6, <1>7, <1>8 DEF Fifo!Finish

LEMMA ResetTypeKeeps == QInv /\ ResetType => Keeps
<1> SUFFICES ASSUME QInv, ResetType PROVE Keeps
  OBVIOUS
<1> USE DEF QInv
<1>1. /\ step = "reset" /\ step' = "free"
      /\ UNCHANGED <<slot, head, tail, count, cmd, item>>
      /\ cmd_type' = "NONE" /\ cmd = NoCmd
  BY DEF ResetType, Held, ring
<1>2. Shape'
  BY <1>1 DEF Shape
<1>3. Distance'
  BY <1>1 DEF Distance, Stored, Pushing, Popping
<1>4. Oldest' = Oldest
  BY <1>1 DEF Oldest
<1>5. UNCHANGED buffered /\ \A i \in 1 .. count : Place(i)' = Place(i)
  BY <1>1, <1>4, SameQueue
<1>6. UNCHANGED processed
  BY <1>1 DEF processed
<1>7. Held'
  BY <1>1, <1>5 DEF Held, Pushing, Popping
<1> QED
  BY <1>2, <1>3, <1>5, <1>6, <1>7 DEF Keeps

-----------------------------------------------------------------------------
(* The theorems.                                                           *)

\* Steps of the reader leave the queue alone.
LEMMA ReaderKeeps == QInv /\ UNCHANGED <<ring, machine>> => Keeps
<1> SUFFICES ASSUME QInv, UNCHANGED <<ring, machine>> PROVE Keeps
  OBVIOUS
<1>1. UNCHANGED <<slot, head, tail, count, cmd, cmd_type, step, item>>
  BY DEF ring, machine
<1> QED
  BY <1>1 DEF Keeps, QInv, Shape, Distance, Held, Stored, Place, Oldest, buffered, processed

\* Every step keeps the invariant and is a step of the FIFO or a stutter.
LEMMA QStep == QInv /\ [Next]_vars => QInv' /\ [Fifo!Next]_(Fifo!fifo)
<1> SUFFICES ASSUME QInv, [Next]_vars PROVE QInv' /\ [Fifo!Next]_(Fifo!fifo)
  OBVIOUS
<1> USE DEF Keeps, Fifo!Next, Fifo!fifo
<1>1. CASE Push
  BY <1>1, PushCmdKeeps, PushTypeKeeps, PushTailKeeps, PushCountTakes DEF Push
<1>2. CASE Pop
  BY <1>2, PopCmdKeeps, PopHeadKeeps, PopCountTakes, SetTypeKeeps DEF Pop
<1>3. CASE Reset
  BY <1>3, ResetCmdFinishes, ResetTypeKeeps DEF Reset
<1>4. CASE UNCHANGED <<ring, machine>>
  BY <1>4, ReaderKeeps
<1>5. CASE UNCHANGED vars
  BY <1>5, ReaderKeeps DEF vars, ring, machine
<1> QED
  BY <1>1, <1>2, <1>3, <1>4, <1>5 DEF Next

LEMMA QInvariant == Spec => []QInv
<1>1. QInv /\ [Next]_vars => QInv'
  BY QStep
<1> QED
  BY <1>1, QInit, PTL DEF Spec

\* For every size the ring's indices stay inside it and agree with the number
\* of items, between any two stores of a push or a pop (cat.c:162-212).
THEOREM RingOKHolds == Spec => []RingOK
<1>1. QInv => RingOK
  BY DEF QInv, Shape, Distance, RingOK, Item
<1> QED
  BY <1>1, QInvariant, PTL

\* For every size the ring is the bounded FIFO of the API: no event is lost,
\* duplicated or overtaken (the safety part of RingIsFifo).
THEOREM RingImplementsFifo == Spec => Fifo!Spec
<1>1. Init => Fifo!Init
  <2> SUFFICES ASSUME Init PROVE Fifo!Init
    OBVIOUS
  <2>1. buffered = <<>>
    BY SMT DEF Init, buffered
  <2> QED
    BY <2>1 DEF Init, processed, Fifo!Init
<1>2. QInv /\ [Next]_vars => [Fifo!Next]_(Fifo!fifo)
  BY QStep
<1> QED
  BY <1>1, <1>2, QInvariant, PTL DEF Spec, Fifo!Spec

-----------------------------------------------------------------------------
(* The unlocked reader, asked for events of any type.                      *)

ReaderOK ==
  /\ reader \in [at : {"out", "num", "index", "cmd", "type", "walk", "item", "OK", "BUSY"},
                 asked : Questions \cup {NoEvent}, num : 0 .. Size, index : Slots]
  /\ reader.at # "out" => reader.asked \in Questions
  /\ reader.at = "item" => reader.num > 0
  /\ history \in [absent : BOOLEAN, put : BOOLEAN]
  /\ reader.at = "out" => ~history.absent /\ ~history.put

\* The slot j behind i.
Behind(i, j) == IF i + j < Size THEN i + j ELSE i + j - Size

\* A call during which nothing has been put and the event was always there.
Sought ==
  /\ reader.at # "out" /\ reader.asked[2] = "NONE"
  /\ ~history.put /\ ~history.absent

\* The items the reader counted reach to the last one stored, however many of
\* them were taken since; if the machine was seen without the command, it is
\* among those the reader has still to look at.
SoughtAhead ==
  Sought =>
    /\ step \notin Pushing /\ Present
    /\ reader.at \in {"num", "index", "cmd", "walk", "BUSY"}
    /\ reader.at = "index" => Stored <= reader.num
    /\ reader.at = "cmd" =>
         \E d \in 0 .. Size : d + Stored <= reader.num /\ head = Behind(reader.index, d)
    /\ reader.at = "walk" =>
         \E j \in 0 .. reader.num - 1 : slot[Behind(reader.index, j)][1] = reader.asked[1]

LEMMA ReaderInit == Init => ReaderOK /\ SoughtAhead
BY SMT DEF Init, ReaderOK, NotAsking, Slots, SoughtAhead, Sought

LEMMA ReaderType == ReaderOK /\ QInv /\ [Next]_vars => ReaderOK'
<1> SUFFICES ASSUME ReaderOK, QInv, [Next]_vars PROVE ReaderOK'
  OBVIOUS
<1> DEFINE Readers == [at : {"out", "num", "index", "cmd", "type", "walk", "item", "OK", "BUSY"},
                       asked : Questions \cup {NoEvent}, num : 0 .. Size, index : Slots]
<1> DEFINE Shaped == /\ reader' \in Readers
                     /\ reader'.at # "out" => reader'.asked \in Questions
                     /\ reader'.at = "item" => reader'.num > 0
<1>1. CASE UNCHANGED vars
  BY <1>1 DEF vars, ReaderOK
<1>2. CASE Next
  <2>1. Shaped
    <3>1. CASE UNCHANGED reader
      BY <3>1 DEF ReaderOK
    <3>2. CASE Call
      <4>1. PICK q \in Questions : reader' = [NotAsking EXCEPT !.at = "num", !.asked = q]
        BY <3>2 DEF Call, AfterLoad
      <4>2. reader' = [at |-> "num", asked |-> q, num |-> 0, index |-> 0]
        <5>1. [NotAsking EXCEPT !.at = "num"] = [at |-> "num", asked |-> NoEvent, num |-> 0, index |-> 0]
          BY DEF NotAsking
        <5>2. reader' = [[NotAsking EXCEPT !.at = "num"] EXCEPT !.asked = q]
          BY <4>1
        <5> QED BY <5>1, <5>2
      <4>3. 0 \in 0 .. Size /\ 0 \in Slots
        BY SMT DEF Slots
      <4> QED BY <4>2, <4>3
    <3>3. CASE LoadNum
      BY <3>3 DEF LoadNum, Goto, AfterLoad, ReaderOK, QInv, Shape
    <3>4. CASE LoadIndex
      BY <3>4 DEF LoadIndex, Goto, AfterLoad, ReaderOK, QInv, Shape
    <3>5. CASE LoadCmd
      BY <3>5 DEF LoadCmd, Goto, AfterLoad, Matched, Answer, ReaderOK
    <3>6. CASE LoadType
      BY <3>6 DEF LoadType, Goto, AfterLoad, Answer, ReaderOK
    <3>7. reader.num > 0 /\ reader.at # "out" =>
            NextItem \in Readers /\ NextItem.at = "walk" /\ NextItem.asked \in Questions
      <4> SUFFICES ASSUME reader.num > 0, reader.at # "out"
                   PROVE  NextItem \in Readers /\ NextItem.at = "walk" /\ NextItem.asked \in Questions
        OBVIOUS
      <4>1. reader.num - 1 \in 0 .. Size /\ NextSlot(reader.index) \in Slots
        BY Moves, SMT DEF ReaderOK
      <4> QED BY <4>1 DEF NextItem, Goto, ReaderOK
    <3>8. CASE WalkCmd
      <4>1. CASE reader' = NextItem
        BY <3>7, <3>8, <4>1, SMT DEF WalkCmd, Matched, Goto, Answer, ReaderOK
      <4>2. CASE reader' # NextItem
        BY <3>8, <4>2, SMT DEF WalkCmd, Matched, Goto, Answer, ReaderOK
      <4> QED BY <4>1, <4>2
    <3>9. CASE WalkType
      BY <3>7, <3>9 DEF WalkType, Goto, Answer, ReaderOK
    <3>10. CASE Return
      BY <3>10 DEF Return, NotAsking, ReaderOK, Slots
    <3> QED
      BY <1>2, <3>1, <3>2, <3>3, <3>4, <3>5, <3>6, <3>8, <3>9, <3>10
         DEF Next, cat_is_unsolicited_event_buffered
  <2>2. /\ history' \in [absent : BOOLEAN, put : BOOLEAN]
        /\ reader'.at = "out" => ~history'.absent /\ ~history'.put
    <3>1. CASE reader'.at = "out"
      <4>1. history' = [absent |-> FALSE, put |-> FALSE]
        BY <1>2, <3>1 DEF Next, Remember
      <4> QED BY <4>1, Zenon
    <3>2. CASE reader'.at # "out"
      <4> DEFINE absent == history.absent \/ ~Present'
                 put == history.put \/ step' \in {"push_cmd", "push_type", "push_tail"}
      <4>1. history' = [absent |-> absent, put |-> put]
        BY <1>2, <3>2 DEF Next, Remember
      <4>2. absent \in BOOLEAN /\ put \in BOOLEAN
        BY Zenon
      <4> HIDE DEF absent, put
      <4> QED BY <3>2, <4>1, <4>2
    <3> QED BY <3>1, <3>2
  <2> QED
    BY <2>1, <2>2 DEF ReaderOK
<1> QED
  BY <1>1, <1>2

\* A call that is without a put and with the event after a step was so before.
LEMMA SoughtBefore ==
  ASSUME ReaderOK, Next, Sought'
  PROVE  /\ Present' /\ step' \notin Pushing
         /\ ~history.absent /\ ~history.put
<1>1. history' = [absent |-> history.absent \/ ~Present',
                  put |-> history.put \/ step' \in {"push_cmd", "push_type", "push_tail"}]
  BY DEF Next, Remember, Sought
<1>2. history'.absent = (history.absent \/ ~Present')
      /\ history'.put = (history.put \/ step' \in {"push_cmd", "push_type", "push_tail"})
  BY <1>1, Zenon
<1> QED
  BY <1>2, Zenon DEF Sought, Pushing

\* The event is with the machine or among the items stored.
LEMMA Waiting ==
  ASSUME QInv, ReaderOK, reader.at # "out", Present, reader.asked[2] = "NONE",
         step \notin Pushing, cmd # reader.asked[1]
  PROVE  \E j \in 0 .. Stored - 1 : slot[Behind(head, j)][1] = reader.asked[1]
<1> USE DEF QInv
<1>1. reader.asked[1] \in Commands /\ reader.asked[1] # NoCmd
  BY DEF ReaderOK
<1>2. ~Asked(processed)
  <2>1. step = "pop_count" => cmd = item[1]
    BY DEF Held
  <2> QED
    BY <1>1, <2>1 DEF Asked, processed
<1>3. PICK i \in 1 .. count : slot[Place(i)][1] = reader.asked[1]
  BY <1>2, Zenon DEF Present, Asked, buffered
<1>4. CASE step = "pop_head"
  <2>1. Stored = count - 1 /\ Oldest = PrevSlot(head)
    BY <1>4 DEF Stored, Oldest
  <2>2. i # 1
    <3>1. 1 \in 1 .. Size
      BY SMT
    <3>2. Place(1) = Oldest
      BY <3>1, Places
    <3>3. item = slot[Oldest] /\ cmd = item[1]
      BY <1>4 DEF Held, Popping
    <3> QED BY <1>3, <3>2, <3>3
  <2>3. i - 2 \in 0 .. Stored - 1
    BY <2>1, <2>2, SMT DEF Shape
  <2>4. Place(i) = Behind(head, i - 2)
    BY <2>1, <2>2, SMT DEF Place, Behind, PrevSlot, Shape, Slots
  <2> QED BY <1>3, <2>3, <2>4
<1>5. CASE step # "pop_head"
  <2>1. Stored = count /\ Oldest = head
    BY <1>5 DEF Stored, Oldest, Pushing
  <2>2. i - 1 \in 0 .. Stored - 1 /\ Place(i) = Behind(head, i - 1)
    BY <2>1, SMT DEF Place, Behind, Shape, Slots
  <2> QED BY <1>3, <2>2
<1> QED
  BY <1>4, <1>5

\* The service takes items while the reader looks for one.
LEMMA ServiceKeepsAhead ==
  ASSUME QInv, ReaderOK, SoughtAhead, Next, Push \/ Pop \/ Reset, UNCHANGED reader
  PROVE  SoughtAhead'
<1> SUFFICES ASSUME Sought' PROVE SoughtAhead'
  BY DEF SoughtAhead
<1>1. Present' /\ step' \notin Pushing /\ Sought
  BY SoughtBefore DEF Sought
<1>2. step \notin Pushing
  BY <1>1 DEF SoughtAhead
<1>3. Pop \/ Reset
  BY <1>1, <1>2 DEF Push, PushCmd, PushType, PushTail, PushCount, Pushing
<1>4. UNCHANGED slot
  BY <1>3 DEF Pop, Reset, PopCmd, PopHead, PopCount, SetType, ResetCmd, ResetType, ring
<1>5. \/ head' = head /\ Stored' = Stored
      \/ head' = NextSlot(head) /\ Stored' = Stored - 1
  <2>1. CASE PopHead
    BY <2>1 DEF PopHead, Stored
  <2>2. CASE PopCount
    BY <2>2 DEF PopCount, Stored
  <2>3. CASE PopCmd \/ SetType \/ Reset
    BY <2>3 DEF PopCmd, SetType, Reset, ResetCmd, ResetType, Stored, ring
  <2> QED BY <1>3, <2>1, <2>2, <2>3 DEF Pop
<1>6. Stored \in Int /\ (head' # head => Stored > 0) /\ Stored' >= 0
  <2>1. Stored \in Nat /\ (PopHead => Stored > 0)
    BY SMT DEF QInv, Shape, Distance, Stored, Popping, PopHead
  <2>2. head' # head => PopHead
    BY <1>3 DEF Pop, Reset, PopCmd, PopCount, SetType, ResetCmd, ResetType, ring
  <2>3. Stored' \in Nat
    BY QStep, SMT DEF QInv, Shape, Distance, Stored, Popping
  <2> QED BY <2>1, <2>2, <2>3, SMT
<1>7. reader.at = "index" => Stored' <= reader.num
  BY <1>1, <1>5, <1>6, SMT DEF SoughtAhead, ReaderOK
<1>8. ASSUME reader.at = "cmd"
      PROVE  \E d \in 0 .. Size : d + Stored' <= reader.num /\ head' = Behind(reader.index, d)
  <2>1. PICK d \in 0 .. Size : d + Stored <= reader.num /\ head = Behind(reader.index, d)
    BY <1>1, <1>8 DEF SoughtAhead
  <2>2. CASE head' = head /\ Stored' = Stored
    BY <2>1, <2>2
  <2>3. CASE head' = NextSlot(head) /\ Stored' = Stored - 1
    <3>1. d + 1 \in 0 .. Size /\ (d + 1) + Stored' <= reader.num
      BY <1>6, <2>1, <2>3, SMT DEF ReaderOK
    <3>2. head' = Behind(reader.index, d + 1)
      BY <2>1, <2>3, <3>1, SMT DEF Behind, NextSlot, ReaderOK, Slots
    <3> QED BY <3>1, <3>2
  <2> QED BY <1>5, <2>2, <2>3
<1> QED
  BY <1>1, <1>4, <1>7, <1>8 DEF SoughtAhead

\* The reader goes on.
LEMMA ReaderKeepsAhead ==
  ASSUME QInv, ReaderOK, SoughtAhead, Next,
         cat_is_unsolicited_event_buffered, UNCHANGED <<ring, machine>>
  PROVE  SoughtAhead'
<1> SUFFICES ASSUME Sought' PROVE SoughtAhead'
  BY DEF SoughtAhead
<1>1. Present' /\ step' \notin Pushing /\ ~history.absent /\ ~history.put
  BY SoughtBefore
<1>2. UNCHANGED <<slot, head, count, cmd, step, Stored>>
  BY DEF ring, machine, Stored
<1>3. ASSUME reader.at # "out", reader'.asked = reader.asked
      PROVE  /\ Sought /\ Present /\ step \notin Pushing /\ reader.asked[2] = "NONE"
             /\ reader.at \in {"num", "index", "cmd", "walk", "BUSY"}
  BY <1>1, <1>3 DEF Sought, SoughtAhead
<1>4. CASE Call
  <2>1. reader'.at = "num"
    BY <1>4 DEF Call, AfterLoad, NotAsking
  <2> QED BY <1>1, <2>1 DEF SoughtAhead
<1>5. CASE LoadNum
  <2>1. reader'.at = "index" /\ reader'.num = count /\ reader'.asked = reader.asked
    BY <1>5 DEF LoadNum, Goto, AfterLoad, ReaderOK
  <2>2. Stored <= count
    BY <1>1, <1>2, SMT DEF Stored, QInv, Shape, Pushing
  <2> QED BY <1>1, <1>2, <2>1, <2>2 DEF SoughtAhead
<1>6. CASE LoadIndex
  <2>1. /\ reader'.at = "cmd" /\ reader'.num = reader.num /\ reader'.index = head
        /\ reader'.asked = reader.asked
    BY <1>6 DEF LoadIndex, Goto, AfterLoad, ReaderOK
  <2>2. Stored <= reader.num /\ Stored \in Int
    BY <1>3, <1>6, <2>1, SMT DEF SoughtAhead, LoadIndex, Stored, QInv, Shape
  <2>3. 0 \in 0 .. Size /\ 0 + Stored <= reader.num /\ head = Behind(head, 0)
    BY <2>2, SMT DEF Behind, QInv, Shape, Slots
  <2>4. \E d \in 0 .. Size : d + Stored' <= reader'.num /\ head' = Behind(reader'.index, d)
    BY <1>2, <2>1, <2>3
  <2> QED BY <1>1, <2>1, <2>4 DEF SoughtAhead
<1>7. CASE LoadCmd
  <2>0. reader'.asked = reader.asked /\ reader'.num = reader.num /\ reader'.index = reader.index
    BY <1>7 DEF LoadCmd, Matched, Answer, Goto, AfterLoad, ReaderOK
  <2>1. CASE cmd = reader.asked[1]
    <3>1. reader'.at = "BUSY"
      BY <1>3, <1>7, <2>0, <2>1 DEF LoadCmd, Matched, Answer, Goto, ReaderOK
    <3> QED BY <1>1, <3>1 DEF SoughtAhead
  <2>2. CASE cmd # reader.asked[1]
    <3>1. reader'.at = "walk"
      BY <1>7, <2>2 DEF LoadCmd, Goto, AfterLoad, ReaderOK
    <3>2. PICK d \in 0 .. Size : d + Stored <= reader.num /\ head = Behind(reader.index, d)
      BY <1>3, <1>7, <2>0 DEF SoughtAhead, LoadCmd
    <3>3. PICK j \in 0 .. Stored - 1 : slot[Behind(head, j)][1] = reader.asked[1]
      BY <1>3, <1>7, <2>0, <2>2, Waiting DEF LoadCmd
    <3>4. Stored \in Int
      BY SMT DEF Stored, QInv, Shape
    <3>5. d + j \in 0 .. reader.num - 1
      BY <3>2, <3>4, SMT DEF ReaderOK
    <3>6. Behind(head, j) = Behind(reader.index, d + j)
      BY <3>2, <3>4, <3>5, SMT DEF Behind, ReaderOK, Slots
    <3>7. \E k \in 0 .. reader'.num - 1 : slot'[Behind(reader'.index, k)][1] = reader'.asked[1]
      BY <1>2, <2>0, <3>3, <3>5, <3>6
    <3> QED BY <1>1, <3>1, <3>7 DEF SoughtAhead
  <2> QED BY <2>1, <2>2
<1>8. CASE WalkCmd
  <2>1. reader.at = "walk" /\ reader'.asked = reader.asked
    BY <1>8 DEF WalkCmd, Matched, Answer, Goto, NextItem, ReaderOK
  <2>2. PICK j \in 0 .. reader.num - 1 : slot[Behind(reader.index, j)][1] = reader.asked[1]
    BY <1>3, <2>1 DEF SoughtAhead
  <2>3. reader.num > 0 /\ reader.num <= Size /\ reader.index \in Slots /\ reader.num \in Nat
    BY <2>2, SMT DEF ReaderOK
  <2>4. CASE slot[reader.index][1] = reader.asked[1]
    <3>1. reader'.at = "BUSY"
      BY <1>3, <1>8, <2>1, <2>3, <2>4 DEF WalkCmd, Matched, Answer, Goto, ReaderOK
    <3> QED BY <1>1, <3>1 DEF SoughtAhead
  <2>5. CASE slot[reader.index][1] # reader.asked[1]
    <3>1. reader' = NextItem
      BY <1>8, <2>3, <2>5 DEF WalkCmd
    <3>2. /\ reader'.at = "walk" /\ reader'.num = reader.num - 1
          /\ reader'.index = NextSlot(reader.index)
      BY <3>1 DEF NextItem, Goto, ReaderOK
    <3>3. j # 0
      <4>1. Behind(reader.index, 0) = reader.index
        BY <2>3, SMT DEF Behind, Slots
      <4> QED BY <2>2, <2>5, <4>1
    <3>4. j - 1 \in 0 .. (reader.num - 1) - 1
      BY <2>3, <3>3, SMT
    <3>5. Behind(NextSlot(reader.index), j - 1) = Behind(reader.index, j)
      BY <2>3, <3>3, SMT DEF Behind, NextSlot, Slots
    <3>6. \E k \in 0 .. reader'.num - 1 : slot'[Behind(reader'.index, k)][1] = reader'.asked[1]
      BY <1>2, <2>1, <2>2, <3>2, <3>4, <3>5
    <3> QED BY <1>1, <3>2, <3>6 DEF SoughtAhead
  <2> QED BY <2>4, <2>5
<1>9. ASSUME LoadType \/ WalkType PROVE FALSE
  <2>1. reader.at \in {"type", "item"} /\ reader'.asked = reader.asked
    BY <1>9 DEF LoadType, WalkType, Answer, Goto, NextItem, ReaderOK
  <2> QED BY <1>3, <2>1
<1>10. ASSUME Return PROVE FALSE
  BY <1>10 DEF Return, NotAsking, Sought
<1> QED
  BY <1>4, <1>5, <1>6, <1>7, <1>8, <1>9, <1>10 DEF cat_is_unsolicited_event_buffered

LEMMA AheadStep == QInv /\ ReaderOK /\ SoughtAhead /\ [Next]_vars => SoughtAhead'
<1> SUFFICES ASSUME QInv, ReaderOK, SoughtAhead, [Next]_vars PROVE SoughtAhead'
  OBVIOUS
<1>1. CASE UNCHANGED vars
  BY <1>1 DEF vars, ring, machine, SoughtAhead, Sought, Present, Asked, processed, buffered,
              Place, Oldest, Stored
<1>2. CASE Next
  BY <1>2, ServiceKeepsAhead, ReaderKeepsAhead DEF Next
<1> QED
  BY <1>1, <1>2

\* The answer OK, to a question about events of any type, is right at some
\* moment of the call when nothing is put during it: for every size of the
\* ring and wherever the reader is overtaken by the service (cat.c:265-283).
THEOREM OkForAnyTypeHolds == Spec => []OkForAnyType
<1>1. ReaderOK /\ SoughtAhead => OkForAnyType
  BY DEF SoughtAhead, Sought, OkForAnyType
<1>2. QInv /\ ReaderOK /\ SoughtAhead /\ [Next]_vars => (QInv /\ ReaderOK /\ SoughtAhead)'
  BY QStep, ReaderType, AheadStep
<1> QED
  BY <1>1, <1>2, QInit, ReaderInit, PTL DEF Spec
=============================================================================
