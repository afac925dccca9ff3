-------------------------- MODULE MessageRingProofs --------------------------
(***************************************************************************)
(* For every size and every set of messages, the ring buffer is a bounded  *)
(* first-in first-out queue.  The inductive invariant is TypeOK together   *)
(* with IndicesAgree: without the latter the slot that Put writes could be *)
(* one that is still to be read.                                           *)
(***************************************************************************)
EXTENDS MessageRing, TLAPS

USE SizeAssumption, ZeroAssumption

(* Indices are at most one turn past the end.                                *)
LEMMA ModOnce ==
  ASSUME NEW n \in Nat, n < 2 * Size
  PROVE  n % Size = IF n < Size THEN n ELSE n - Size
  OBVIOUS

LEMMA ModSum ==
  ASSUME NEW a \in Slot, NEW k \in 0 .. Size
  PROVE  (a + k) % Size = IF a + k < Size THEN a + k ELSE a + k - Size
  BY ModOnce DEF Slot

Inv == TypeOK /\ IndicesAgree

(* The slot of the k-th message, and of the first free one.                  *)
SlotOf(k) == IF tail + k < Size THEN tail + k ELSE tail + k - Size

LEMMA SlotOfContents ==
  ASSUME TypeOK, NEW k \in 0 .. Size
  PROVE  (tail + k) % Size = SlotOf(k) /\ SlotOf(k) \in Slot
  <1>1. tail \in Slot
    BY DEF TypeOK
  <1>2. (tail + k) % Size = IF tail + k < Size THEN tail + k ELSE tail + k - Size
    BY <1>1, ModSum
  <1>. QED  BY <1>1, <1>2 DEF SlotOf, Slot

LEMMA NextIndex ==
  ASSUME NEW n \in Slot
  PROVE  /\ (n + 1) % Size = IF n + 1 < Size THEN n + 1 ELSE 0
         /\ (n + 1) % Size \in Slot
  <1>1. n + 1 \in Nat /\ n + 1 < 2 * Size /\ n + 1 <= Size
    BY DEF Slot
  <1>. QED  BY <1>1, ModOnce DEF Slot

(***************************************************************************)
(* midi_vw_buffer_put and _get keep head, tail and count in agreement.     *)
(***************************************************************************)
THEOREM RingInvariant == Spec => [](TypeOK /\ IndicesAgree)
<1>1. Init => Inv
  <2>. SUFFICES ASSUME Init PROVE Inv
    OBVIOUS
  <2>1. TypeOK  BY DEF Init, TypeOK, Slot
  <2>2. (tail + count) % Size = 0
    BY ModOnce DEF Init
  <2>. QED  BY <2>1, <2>2 DEF Init, Inv, IndicesAgree
<1>2. Inv /\ [Next]_vars => Inv'
  <2>. SUFFICES ASSUME Inv, [Next]_vars PROVE Inv'
    OBVIOUS
  <2>. USE DEF Inv
  <2>1. ASSUME NEW m \in Message, Put(m) PROVE Inv'
    <3>1. count + 1 <= Size /\ count \in 0 .. Size /\ head \in Slot
      BY <2>1 DEF Put, IsFull, TypeOK
    <3>2. TypeOK'  BY <2>1, <3>1, NextIndex DEF Put, TypeOK
    <3>3. head = SlotOf(count)
      BY <3>1, SlotOfContents DEF IndicesAgree
    <3>4. (tail + (count + 1)) % Size = SlotOf(count + 1)
      BY <3>1, SlotOfContents
    <3>5. SlotOf(count + 1) = IF head + 1 < Size THEN head + 1 ELSE 0
      BY <3>1, <3>3 DEF SlotOf, TypeOK, Slot
    <3>6. head' = (tail + (count + 1)) % Size
      BY <2>1, <3>1, <3>4, <3>5, NextIndex DEF Put
    <3>. QED  BY <2>1, <3>2, <3>6 DEF Put, IndicesAgree
  <2>2. ASSUME Get PROVE Inv'
    <3>1. count \in 1 .. Size /\ tail \in Slot
      BY <2>2 DEF Get, IsEmpty, TypeOK
    <3>2. TypeOK'  BY <2>2, <3>1, NextIndex DEF Get, TypeOK, Slot
    <3>3. head = SlotOf(count)
      BY <3>1, SlotOfContents DEF IndicesAgree
    <3>4. tail' = (IF tail + 1 < Size THEN tail + 1 ELSE 0) /\ tail' \in Slot
      BY <2>2, <3>1, NextIndex DEF Get
    <3>5. count' \in 0 .. Size
      BY <2>2, <3>1 DEF Get
    <3>6. (tail' + count') % Size
            = IF tail' + count' < Size THEN tail' + count' ELSE tail' + count' - Size
      BY <3>4, <3>5, ModSum
    <3>7. head' = (tail' + count') % Size
      BY <2>2, <3>1, <3>3, <3>4, <3>6 DEF Get, SlotOf, Slot
    <3>. QED  BY <3>2, <3>7 DEF IndicesAgree
  <2>3. CASE Clear
    <3>1. TypeOK'  BY <2>3 DEF Clear, TypeOK, Slot
    <3>2. (tail' + count') % Size = 0
      BY <2>3, ModOnce DEF Clear
    <3>. QED  BY <2>3, <3>1, <3>2 DEF Clear, IndicesAgree
  <2>4. CASE UNCHANGED vars
    BY <2>4 DEF vars, TypeOK, IndicesAgree
  <2>. QED  BY <2>1, <2>2, <2>3, <2>4 DEF Next
<1>. QED  BY <1>1, <1>2, PTL DEF Spec, Inv

-----------------------------------------------------------------------------
(* Distinct messages of the buffer are in distinct slots.                    *)
LEMMA SlotsDistinct ==
  ASSUME TypeOK, NEW k \in 0 .. Size - 1, NEW l \in 0 .. Size - 1, k # l
  PROVE  SlotOf(k) # SlotOf(l)
  BY DEF TypeOK, SlotOf, Slot

LEMMA ContentsAt ==
  ASSUME TypeOK
  PROVE  /\ Contents \in Seq(Message)
         /\ Len(Contents) = count
         /\ \A k \in 1 .. count : Contents[k] = messages[SlotOf(k - 1)]
  <1>1. count \in 0 .. Size
    BY DEF TypeOK
  <1>2. ASSUME NEW k \in 1 .. count
        PROVE  /\ Contents[k] = messages[SlotOf(k - 1)]
               /\ Contents[k] \in Message
    <2>1. k - 1 \in 0 .. Size
      BY <1>1
    <2>2. (tail + (k - 1)) % Size = SlotOf(k - 1) /\ SlotOf(k - 1) \in Slot
      BY <2>1, SlotOfContents
    <2>. QED  BY <2>2 DEF Contents, TypeOK
  <1>3. Contents \in [1 .. count -> Message]
    BY <1>2 DEF Contents
  <1>. QED  BY <1>1, <1>2, <1>3

ContentsOK == Contents \in Seq(Message) /\ Len(Contents) = count

LEMMA ContentsTyped == TypeOK => ContentsOK
  BY ContentsAt DEF ContentsOK

(***************************************************************************)
(* midi_vw_buffer_put and _get implement the bounded queue: a put appends  *)
(* to the contents, a get takes the oldest message away.                   *)
(***************************************************************************)
THEOREM RingIsFifo == Spec => IsFifo
<1>1. Init => Fifo!Init
  <2>. SUFFICES ASSUME Init PROVE Fifo!Init
    OBVIOUS
  <2>1. Contents = <<>>  BY DEF Init, Contents
  <2>. QED  BY <2>1 DEF Init, Fifo!Init
<1>2. Inv /\ Inv' /\ [Next]_vars => [Fifo!Next]_(Fifo!vars)
  <2>. SUFFICES ASSUME Inv, Inv', [Next]_vars
                PROVE  Fifo!Next \/ UNCHANGED Fifo!vars
    OBVIOUS
  <2>. USE DEF Inv
  <2>0. /\ Contents \in Seq(Message) /\ Contents' \in Seq(Message)
        /\ Len(Contents) = count /\ Len(Contents') = count'
        /\ count \in 0 .. Size /\ count' \in 0 .. Size
    <3>1. Contents \in Seq(Message) /\ Len(Contents) = count
      BY ContentsAt
    <3>2. TypeOK' => ContentsOK'
      BY ContentsTyped, PTL
    <3>. QED  BY <3>1, <3>2 DEF TypeOK, ContentsOK
  <2>1. ASSUME NEW m \in Message, Put(m) PROVE Fifo!Put(m)
    <3>1. count < Size /\ count' = count + 1 /\ tail' = tail
      BY <2>0, <2>1 DEF Put, IsFull
    <3>2. head = SlotOf(count)
      BY <2>0, <3>1, SlotOfContents DEF IndicesAgree
    <3>3. ASSUME NEW k \in 1 .. count + 1
          PROVE  Contents'[k] = IF k = count + 1 THEN m ELSE Contents[k]
      <4>1. k - 1 \in 0 .. Size - 1 /\ count \in 0 .. Size - 1
        BY <2>0, <3>1
      <4>2. (tail + (k - 1)) % Size = SlotOf(k - 1) /\ SlotOf(k - 1) \in Slot
        BY <4>1, SlotOfContents
      <4>3. Contents'[k] = messages'[SlotOf(k - 1)]
        BY <3>1, <4>2 DEF Contents
      <4>4. k # count + 1 => SlotOf(k - 1) # head
        BY <3>2, <4>1, SlotsDistinct
      <4>5. k # count + 1 => Contents[k] = messages[SlotOf(k - 1)]
        BY <2>0, ContentsAt
      <4>. QED
        BY <2>1, <3>2, <4>2, <4>3, <4>4, <4>5 DEF Put, TypeOK
    <3>4. Contents' = Append(Contents, m)
      BY <2>0, <3>1, <3>3
    <3>. QED  BY <2>0, <2>1, <3>1, <3>4 DEF Put, Fifo!Put
  <2>2. ASSUME Get PROVE Fifo!Get
    <3>1. count > 0 /\ count' = count - 1 /\ messages' = messages
      BY <2>0, <2>2 DEF Get, IsEmpty
    <3>2. tail' = SlotOf(1)
      BY <2>0, <2>2, <3>1, SlotOfContents DEF Get
    <3>3. ASSUME NEW k \in 1 .. count - 1
          PROVE  Contents'[k] = Contents[k + 1]
      <4>1. k \in 0 .. Size /\ k - 1 \in 0 .. Size /\ k + 1 \in 1 .. count
        BY <2>0, <3>1
      <4>2. tail' \in Slot
        BY DEF TypeOK
      <4>3. (tail' + (k - 1)) % Size = SlotOf(k)
        <5>. DEFINE l == k - 1
        <5>1. (tail' + l) % Size = IF tail' + l < Size THEN tail' + l
                                                       ELSE tail' + l - Size
          <6>1. l \in 0 .. Size
            BY <4>1
          <6>. HIDE DEF l
          <6>. QED  BY <4>2, <6>1, ModSum
        <5>. QED  BY <3>2, <4>1, <4>2, <5>1 DEF SlotOf, TypeOK, Slot
      <4>4. Contents'[k] = messages[SlotOf(k)]
        BY <3>1, <4>3 DEF Contents
      <4>5. Contents[k + 1] = messages[SlotOf(k)]
        BY <4>1, ContentsAt
      <4>. QED  BY <4>4, <4>5
    <3>4. Contents' = Tail(Contents)
      BY <2>0, <3>1, <3>3
    <3>5. Contents # <<>> /\ out' = Head(Contents)
      <4>1. 1 \in 1 .. count /\ SlotOf(0) = tail
        BY <2>0, <3>1 DEF SlotOf, TypeOK, Slot
      <4>2. Contents[1] = messages[tail]
        BY <4>1, ContentsAt
      <4>. QED  BY <2>0, <2>2, <3>1, <4>2 DEF Get
    <3>. QED  BY <3>4, <3>5 DEF Fifo!Get
  <2>3. CASE Clear
    <3>1. Contents' = <<>>  BY <2>3 DEF Clear, Contents
    <3>. QED  BY <2>3, <3>1 DEF Clear, Fifo!Clear, Fifo!Next
  <2>4. CASE UNCHANGED vars
    BY <2>4 DEF vars, Fifo!vars, Contents
  <2>. QED  BY <2>1, <2>2, <2>3, <2>4 DEF Next, Fifo!Next
<1>. QED  BY <1>1, <1>2, RingInvariant, PTL DEF Spec, Fifo!Spec, IsFifo, Inv
=============================================================================
