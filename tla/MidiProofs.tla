------------------------------ MODULE MidiProofs ------------------------------
(***************************************************************************)
(* The MIDI driver's conversions: midi_send_sysex writes the payload it is *)
(* given, and past its array exactly when the payload is too long (for     *)
(* arrays of up to 85 events; beyond that the uint8_t remaining wraps with *)
(* payloads that would still fit); a connection drops, maps and passes on  *)
(* what its filter and channels say; the parser puts payloads together and *)
(* delivers messages.                                                      *)
(***************************************************************************)
EXTENDS SysexSender, FilteredConnection, MidiParser, TLAPS

Words == Nat \X Nat \X Nat \X Nat \X Nat

TypeInv ==
  /\ length \in Nat /\ index \in Nat
  /\ events \in Seq(Words)
  /\ pc \in {"idle", "loop", "sent", "overrun"}

(***************************************************************************)
(* While the loop runs the events hold the start marker and index bytes at *)
(* most.  If remaining does not wrap, every event is full, but the one     *)
(* that completes the payload, which may be one byte short.                *)
(***************************************************************************)
Accounted ==
  pc = "loop" =>
    /\ 2 <= index /\ index <= length
    /\ index + 1 <= 3 * Len(events)
    /\ length < 258 => /\ index < length => 3 * Len(events) = index + 1
                       /\ 3 * Len(events) <= index + 2

SizeInv ==
  /\ TypeInv /\ Accounted
  /\ Len(events) <= MaxEvents
  /\ pc = "sent" => length < 3 * MaxEvents

-----------------------------------------------------------------------------
LEMMA EventIsWords ==
  ASSUME NEW c \in Nat, NEW a \in Nat, NEW b \in Nat, NEW d \in Nat
  PROVE  Event(c, a, b, d) \in Words
  BY DEF Event, Words

LEMMA Appended ==
  ASSUME NEW s \in Seq(Words), NEW w \in Words
  PROVE  Append(s, w) \in Seq(Words) /\ Len(Append(s, w)) = Len(s) + 1
  OBVIOUS

LEMMA SizeInit == Init => SizeInv
  BY LengthsAssumption
     DEF Init, SizeInv, TypeInv, Accounted

LEMMA StepBegin ==
  ASSUME SizeInv, NEW n \in Lengths, Begin(n)
  PROVE  SizeInv'
PROOF
<1>1. /\ n \in Nat /\ 1 <= n /\ MaxEvents \in Nat /\ 1 <= MaxEvents
  BY LengthsAssumption
<1>2. PICK w \in Words : events' = <<w>>
  BY EventIsWords DEF Begin, SysexStart, SysexEnd
<1>3. events' \in Seq(Words) /\ Len(events') = 1
  BY <1>2
<1>4. /\ length' = n /\ index' \in {0, 2} /\ pc' \in {"loop", "sent"}
      /\ pc' = "loop" => index' = 2 /\ 2 <= n
      /\ pc' = "sent" => n = 1
  BY <1>1 DEF Begin
<1>5. TypeInv'
  BY <1>1, <1>3, <1>4 DEF TypeInv
<1>6. Accounted'
  BY <1>1, <1>3, <1>4 DEF Accounted
<1>7. QED
  BY <1>1, <1>3, <1>4, <1>5, <1>6 DEF SizeInv

(* A turn of the loop takes one to three bytes of those that are left; with  *)
(* a short payload the remainder is what is left.                            *)
LEMMA TurnTakes ==
  ASSUME SizeInv, More
  PROVE  /\ pc = "loop" /\ index < length - 1 /\ 2 <= index
         /\ length \in Nat /\ index \in Nat
         /\ MaxEvents \in Nat /\ Len(events) < MaxEvents
         /\ events \in Seq(Words) /\ Len(events) \in Nat
         /\ Remaining \in Nat
         /\ length < 258 => /\ Remaining = length - index /\ Remaining >= 2
                            /\ 3 * Len(events) = index + 1
         /\ Turn.event \in Words
         /\ Turn.took = IF Remaining >= 3 THEN 3 ELSE IF Remaining = 2 THEN 2 ELSE 1
         /\ Turn.took <= length - index
PROOF
<1>1. /\ pc = "loop" /\ index < length - 1 /\ 2 <= index
      /\ length \in Nat /\ index \in Nat /\ MaxEvents \in Nat
      /\ events \in Seq(Words) /\ Len(events) \in Nat
      /\ length < 258 => 3 * Len(events) = index + 1
      /\ Len(events) < MaxEvents
  BY LengthsAssumption
     DEF More, InLoop, Room, SizeInv, TypeInv, Accounted
<1>2. /\ Remaining \in Nat /\ Remaining <= length - index
      /\ length < 258 => Remaining = length - index
  BY <1>1 DEF Remaining
<1>3. /\ Turn.event \in Words
      /\ Turn.took = IF Remaining >= 3 THEN 3 ELSE IF Remaining = 2 THEN 2 ELSE 1
  <2>1. CASE Remaining >= 3
    <3>1. Turn = [event |-> Event(4, index + 1, index + 2, index + 3),
                  took |-> 3]
      BY <2>1, <1>2 DEF Turn
    <3>2. QED
      BY <2>1, <3>1, <1>1, EventIsWords
  <2>2. CASE Remaining = 2
    <3>1. Turn = [event |-> Event(4, index + 1, index + 2, SysexEnd),
                  took |-> 2]
      BY <2>2 DEF Turn
    <3>2. QED
      BY <2>2, <3>1, <1>1, EventIsWords DEF SysexEnd
  <2>3. CASE ~(Remaining >= 3) /\ Remaining # 2
    <3>1. Turn = [event |-> Event(4, index + 1, SysexEnd, 0), took |-> 1]
      BY <2>3 DEF Turn
    <3>2. QED
      BY <2>3, <3>1, <1>1, EventIsWords DEF SysexEnd
  <2>4. QED
    BY <2>1, <2>2, <2>3
<1>4. QED
  BY <1>1, <1>2, <1>3

LEMMA StepMore ==
  ASSUME SizeInv, More
  PROVE  SizeInv'
PROOF
<1>1. /\ pc = "loop" /\ index < length - 1 /\ 2 <= index
      /\ length \in Nat /\ index \in Nat
      /\ MaxEvents \in Nat /\ Len(events) < MaxEvents
      /\ events \in Seq(Words) /\ Len(events) \in Nat
      /\ length < 258 => /\ Remaining = length - index /\ Remaining >= 2
                         /\ 3 * Len(events) = index + 1
      /\ Turn.event \in Words /\ Remaining \in Nat
      /\ Turn.took = IF Remaining >= 3 THEN 3 ELSE IF Remaining = 2 THEN 2 ELSE 1
      /\ Turn.took <= length - index
  BY TurnTakes
<1>2. index + 1 <= 3 * Len(events)
  BY <1>1 DEF SizeInv, Accounted
<1>3. /\ events' \in Seq(Words) /\ Len(events') = Len(events) + 1
  BY <1>1, Appended DEF More
<1>4. /\ index' = index + Turn.took
      /\ length' = length /\ pc' = pc
  BY DEF More
<1>5. Accounted'
  BY <1>1, <1>2, <1>3, <1>4 DEF Accounted
<1>6. TypeInv'
  BY <1>1, <1>3, <1>4 DEF TypeInv
<1>7. QED
  BY <1>1, <1>3, <1>4, <1>5, <1>6 DEF SizeInv

LEMMA StepFinish ==
  ASSUME SizeInv, Finish
  PROVE  SizeInv'
PROOF
<1>1. /\ pc = "loop" /\ 2 <= index /\ index <= length
      /\ length \in Nat /\ index \in Nat /\ MaxEvents \in Nat
      /\ events \in Seq(Words) /\ Len(events) \in Nat
      /\ index + 1 <= 3 * Len(events)
      /\ length' = length /\ index' = index /\ pc' = "sent"
      /\ Len(events) <= MaxEvents
  BY LengthsAssumption
     DEF Finish, SizeInv, TypeInv, Accounted
<1>2. CASE index = length - 1
  <2>1. Event(5, index + 1, SysexEnd, 0) \in Words
    BY <1>1, EventIsWords DEF SysexEnd
  <2>2. /\ events' \in Seq(Words) /\ Len(events') = Len(events) + 1
        /\ Len(events) < MaxEvents
    BY <1>1, <1>2, <2>1, Appended DEF Finish, LastByte, Room
  <2>3. QED
    BY <1>1, <1>2, <2>2 DEF SizeInv, TypeInv, Accounted
<1>3. CASE index # length - 1
  <2>1. events' = events /\ index = length
    BY <1>1, <1>3 DEF Finish, InLoop, LastByte
  <2>2. QED
    BY <1>1, <2>1 DEF SizeInv, TypeInv, Accounted
<1>4. QED
  BY <1>2, <1>3

LEMMA StepOverrun ==
  ASSUME SizeInv, Overrun
  PROVE  SizeInv'
  BY DEF Overrun, SizeInv, TypeInv, Accounted

LEMMA SizeStep ==
  ASSUME SizeInv, [Next]_vars
  PROVE  SizeInv'
PROOF
<1>1. CASE UNCHANGED vars
  BY <1>1 DEF vars, SizeInv, TypeInv, Accounted
<1>2. QED
  BY <1>1, StepBegin, StepMore, StepFinish, StepOverrun DEF Next

(* Whoever runs past the array had too long a payload.                       *)
LEMMA OverrunIsLong ==
  ASSUME SizeInv, MaxEvents <= 85, [Next]_vars,
         pc = "overrun" => length >= 3 * MaxEvents
  PROVE  (pc = "overrun" => length >= 3 * MaxEvents)'
PROOF
<1>1. CASE Overrun
  <2>1. /\ pc = "loop" /\ index < length /\ Len(events) = MaxEvents
        /\ length \in Nat /\ index \in Nat /\ MaxEvents \in Nat
        /\ length < 258 => 3 * Len(events) = index + 1
        /\ length' = length
    BY <1>1, LengthsAssumption
       DEF Overrun, InLoop, LastByte, Room, SizeInv, TypeInv, Accounted
  <2>2. QED
    BY <2>1
<1>2. CASE pc' # "overrun"
  BY <1>2
<1>3. CASE UNCHANGED vars
  BY <1>3 DEF vars
<1>4. QED
  BY <1>1, <1>2, <1>3 DEF Next, Begin, More, Finish

(***************************************************************************)
(* midi_send_sysex sends exactly the payloads of up to 3 * MaxEvents - 1   *)
(* bytes, and runs past events[] with all others: for arrays of up to 85   *)
(* events (64 in the code) and payloads of any length.                     *)
(***************************************************************************)
THEOREM OverrunsExactly ==
  ASSUME MaxEvents <= 85
  PROVE  Spec => []EventsFit
PROOF
<1>. DEFINE Long == pc = "overrun" => length >= 3 * MaxEvents
<1>1. SizeInv /\ Long /\ [Next]_vars => SizeInv' /\ Long'
  BY SizeStep, OverrunIsLong
<1>2. SizeInv /\ Long => EventsFit
  BY DEF SizeInv, EventsFit
<1>3. Init => Long
  BY DEF Init
<1>4. QED
  BY <1>1, <1>2, <1>3, SizeInit, PTL DEF Spec

-----------------------------------------------------------------------------
(***************************************************************************)
(* What the events hold when t bytes of the payload have been taken.  The  *)
(* events that the loop appends to are full, and one that is not full is   *)
(* the last one: so no byte that was written gets another meaning.         *)
(***************************************************************************)
ByteAt(n, t) ==
  IF n = 0 THEN SysexStart
  ELSE IF n <= t THEN n ELSE IF n = t + 1 THEN SysexEnd ELSE 0

Written(s, t) ==
  \A k \in DOMAIN s, i \in 1 .. 3 : s[k][2 + i] = ByteAt(Position(k, i), t)

Filled ==
  length < 258 =>
    /\ pc \in {"loop", "overrun"} => 3 * Len(events) > index
    /\ pc = "sent" => 3 * Len(events) \in length + 1 .. length + 3
    /\ pc # "idle" => Written(events, Taken)

LEMMA WrittenFirst ==
  /\ Written(<<Event(4, SysexStart, 1, SysexEnd)>>, 1)
  /\ Written(<<Event(4, SysexStart, 1, 2)>>, 2)
  <1>1. ASSUME NEW e, NEW t, e[3] = ByteAt(0, t), e[4] = ByteAt(1, t),
               e[5] = ByteAt(2, t)
        PROVE  Written(<<e>>, t)
    <2>. SUFFICES ASSUME NEW i \in 1 .. 3
                  PROVE  e[2 + i] = ByteAt(Position(1, i), t)
      BY DEF Written
    <2>1. i = 1 \/ i = 2 \/ i = 3
      OBVIOUS
    <2>2. Position(1, i) = i - 1
      BY DEF Position
    <2>. QED  BY <1>1, <2>1, <2>2
  <1>2. /\ ByteAt(0, 1) = SysexStart /\ ByteAt(1, 1) = 1 /\ ByteAt(2, 1) = SysexEnd
        /\ ByteAt(0, 2) = SysexStart /\ ByteAt(1, 2) = 1 /\ ByteAt(2, 2) = 2
    BY DEF ByteAt
  <1>3. \A c, x, y, z : LET e == Event(c, x, y, z) IN e[3] = x /\ e[4] = y /\ e[5] = z
    BY DEF Event
  <1>. QED  BY <1>1, <1>2, <1>3

LEMMA WrittenNext ==
  ASSUME NEW s \in Seq(Words), NEW w \in Words, NEW t \in Nat, NEW u \in Nat,
         Written(s, t), 3 * Len(s) = t + 1, t <= u,
         w[3] = ByteAt(t + 1, u), w[4] = ByteAt(t + 2, u), w[5] = ByteAt(t + 3, u)
  PROVE  Written(Append(s, w), u)
  <1>. DEFINE q == Append(s, w)
  <1>1. /\ DOMAIN q = 1 .. Len(s) + 1 /\ q[Len(s) + 1] = w /\ Len(s) \in Nat
        /\ DOMAIN s = 1 .. Len(s) /\ \A k \in 1 .. Len(s) : q[k] = s[k]
    OBVIOUS
  <1>. HIDE DEF q
  <1>2. ASSUME NEW k \in DOMAIN q, NEW i \in 1 .. 3
        PROVE  q[k][2 + i] = ByteAt(Position(k, i), u)
    <2>0. i = 1 \/ i = 2 \/ i = 3
      OBVIOUS
    <2>1. CASE k \in 1 .. Len(s)
      <3>1. Position(k, i) \in Nat /\ Position(k, i) <= t
        BY <1>1, <2>0, <2>1 DEF Position
      <3>2. s[k][2 + i] = ByteAt(Position(k, i), t)
        BY <1>1, <2>1 DEF Written
      <3>3. ByteAt(Position(k, i), t) = ByteAt(Position(k, i), u)
        BY <3>1 DEF ByteAt
      <3>. QED  BY <1>1, <2>1, <3>2, <3>3
    <2>2. CASE k = Len(s) + 1
      <3>1. Position(k, i) = t + i
        BY <1>1, <2>0, <2>2 DEF Position
      <3>2. q[k] = w
        BY <1>1, <2>2
      <3>3. w[2 + i] = ByteAt(t + i, u)
        BY <2>0
      <3>. QED  BY <3>1, <3>2, <3>3
    <2>. QED  BY <1>1, <2>1, <2>2
  <1>3. Written(q, u)
    BY <1>2 DEF Written
  <1>. QED  BY <1>3 DEF q

LEMMA FilledBegin ==
  ASSUME SizeInv, NEW n \in Lengths, Begin(n)
  PROVE  Filled'
  <1>1. n \in Nat /\ length' = n
    BY LengthsAssumption DEF Begin
  <1>2. CASE n = 1
    <2>1. /\ events' = <<Event(4, SysexStart, 1, SysexEnd)>>
          /\ pc' = "sent" /\ length' = 1 /\ Len(events') = 1 /\ Taken' = 1
      BY <1>2 DEF Begin, Taken
    <2>. QED  BY <2>1, WrittenFirst DEF Filled
  <1>3. CASE n # 1
    <2>1. /\ events' = <<Event(4, SysexStart, 1, 2)>>
          /\ pc' = "loop" /\ index' = 2 /\ Len(events') = 1 /\ Taken' = 2
      BY <1>3 DEF Begin, Taken
    <2>. QED  BY <2>1, WrittenFirst DEF Filled
  <1>. QED  BY <1>2, <1>3

LEMMA FilledMore ==
  ASSUME SizeInv, Filled, More, length < 258
  PROVE  Filled'
  <1>1. /\ pc = "loop" /\ index < length - 1 /\ 2 <= index
        /\ length \in Nat /\ index \in Nat
        /\ events \in Seq(Words) /\ Len(events) \in Nat
        /\ Remaining = length - index /\ Remaining >= 2
        /\ 3 * Len(events) = index + 1
    BY TurnTakes
  <1>2. Written(events, index)
    BY <1>1 DEF Filled, Taken
  <1>. DEFINE w == Turn.event
              u == index + Turn.took
  <1>3. /\ w \in Words /\ u \in Nat /\ index <= u /\ 3 * (Len(events) + 1) > u
        /\ w[3] = ByteAt(index + 1, u) /\ w[4] = ByteAt(index + 2, u)
        /\ w[5] = ByteAt(index + 3, u)
    <2>1. CASE Remaining >= 3
      <3>1. Turn = [event |-> Event(4, index + 1, index + 2, index + 3), took |-> 3]
        BY <2>1 DEF Turn
      <3>2. w = Event(4, index + 1, index + 2, index + 3) /\ u = index + 3
        BY <3>1
      <3>3. w[3] = index + 1 /\ w[4] = index + 2 /\ w[5] = index + 3
        BY <3>2 DEF Event
      <3>4. w \in Words
        BY <1>1, <3>2, EventIsWords
      <3>. QED  BY <1>1, <3>2, <3>3, <3>4 DEF ByteAt
    <2>2. CASE ~(Remaining >= 3)
      <3>0. Remaining = 2
        BY <1>1, <2>2
      <3>1. Turn = [event |-> Event(4, index + 1, index + 2, SysexEnd), took |-> 2]
        BY <3>0 DEF Turn
      <3>2. w = Event(4, index + 1, index + 2, SysexEnd) /\ u = index + 2
        BY <3>1
      <3>3. w[3] = index + 1 /\ w[4] = index + 2 /\ w[5] = SysexEnd
        BY <3>2 DEF Event
      <3>4. w \in Words
        BY <1>1, <3>2, EventIsWords DEF SysexEnd
      <3>. QED  BY <1>1, <3>2, <3>3, <3>4 DEF ByteAt
    <2>. QED  BY <2>1, <2>2
  <1>4. /\ events' = Append(events, w) /\ index' = u /\ pc' = "loop" /\ Taken' = u
    BY <1>1 DEF More, Taken
  <1>. HIDE DEF w, u
  <1>5. Written(Append(events, w), u)
    BY <1>1, <1>2, <1>3, WrittenNext
  <1>6. Len(events') = Len(events) + 1
    BY <1>1, <1>3, <1>4
  <1>. QED  BY <1>1, <1>3, <1>4, <1>5, <1>6 DEF Filled

LEMMA FilledFinish ==
  ASSUME SizeInv, Filled, Finish, length < 258
  PROVE  Filled'
  <1>1. /\ pc = "loop" /\ index <= length /\ 2 <= index
        /\ length \in Nat /\ index \in Nat
        /\ events \in Seq(Words) /\ Len(events) \in Nat
        /\ index < length => 3 * Len(events) = index + 1
        /\ 3 * Len(events) > index /\ 3 * Len(events) <= index + 2
        /\ pc' = "sent" /\ length' = length /\ Taken' = length
        /\ Written(events, index)
    BY DEF Finish, SizeInv, TypeInv, Accounted, Filled, Taken
  <1>2. index >= length - 1
    BY <1>1 DEF Finish, InLoop
  <1>3. CASE index = length - 1
    <2>. DEFINE w == Event(5, index + 1, SysexEnd, 0)
    <2>1. w \in Words
      BY <1>1, EventIsWords DEF SysexEnd
    <2>2. w[3] = index + 1 /\ w[4] = SysexEnd /\ w[5] = 0
      BY DEF Event
    <2>3. /\ w[3] = ByteAt(index + 1, length) /\ w[4] = ByteAt(index + 2, length)
          /\ w[5] = ByteAt(index + 3, length)
      BY <1>1, <1>3, <2>2 DEF ByteAt
    <2>4. events' = Append(events, w)
      BY <1>3 DEF Finish, LastByte
    <2>. HIDE DEF w
    <2>5. Written(Append(events, w), length)
      BY <1>1, <1>3, <2>1, <2>3, WrittenNext
    <2>6. 3 * Len(events') = length + 3
      BY <1>1, <1>3, <2>1, <2>4
    <2>. QED  BY <1>1, <2>4, <2>5, <2>6 DEF Filled
  <1>4. CASE index = length
    <2>1. events' = events
      BY <1>1, <1>4 DEF Finish, LastByte
    <2>. QED  BY <1>1, <1>4, <2>1 DEF Filled
  <1>. QED  BY <1>1, <1>2, <1>3, <1>4

LEMMA FilledStep ==
  ASSUME SizeInv, Filled, [Next]_vars
  PROVE  SizeInv' /\ Filled'
  <1>1. CASE UNCHANGED vars
    BY <1>1, SizeStep DEF vars, Filled, Taken
  <1>2. CASE Overrun
    <2>1. /\ UNCHANGED <<length, index, events>> /\ pc = "loop" /\ pc' = "overrun"
      BY <1>2 DEF Overrun, InLoop
    <2>. QED  BY <2>1, SizeStep DEF Filled, Taken
  <1>3. CASE More \/ Finish
    <2>1. length' = length
      BY <1>3 DEF More, Finish
    <2>2. CASE length < 258
      BY <1>3, <2>2, SizeStep, FilledMore, FilledFinish
    <2>3. CASE ~(length < 258)
      BY <2>1, <2>3, SizeStep DEF Filled
    <2>. QED  BY <2>2, <2>3
  <1>. QED
    BY <1>1, <1>2, <1>3, SizeStep, FilledBegin DEF Next

(***************************************************************************)
(* Whichever way the events are filled, they carry the payload in order    *)
(* and, at the end, whole: for payloads of up to 257 bytes and an array of *)
(* any size (of a payload that is too long for it, the part that fits).    *)
(***************************************************************************)
THEOREM PayloadCarried == Spec => []PayloadInOrder
<1>1. SizeInv /\ Filled /\ [Next]_vars => SizeInv' /\ Filled'
  BY FilledStep
<1>2. SizeInv /\ Filled => PayloadInOrder
  <2>. SUFFICES ASSUME SizeInv, Filled, pc # "idle", length < 258
                PROVE PayloadInOrder
    BY DEF PayloadInOrder
  <2>1. Taken < 3 * Len(events)
    <3>1. /\ length \in Nat /\ Len(events) \in Nat
          /\ pc \in {"loop", "sent", "overrun"}
      BY DEF SizeInv, TypeInv
    <3>. QED  BY <3>1 DEF Filled, Taken
  <2>2. ASSUME NEW k \in DOMAIN events, NEW i \in 1 .. 3
        PROVE  events[k][2 + i] = ByteAt(Position(k, i), Taken)
    BY DEF Filled, Written
  <2>. QED  BY <2>1, <2>2 DEF PayloadInOrder, ByteAt
<1>3. Init => SizeInv /\ Filled
  BY SizeInit DEF Init, Filled
<1>. QED  BY <1>1, <1>2, <1>3, PTL DEF Spec

-----------------------------------------------------------------------------
(***************************************************************************)
(* The first end marker.  As long as there is none, every event is full:   *)
(* event k is filled when 3 * k - 4 bytes of the payload have been taken.  *)
(***************************************************************************)
Unmarked(n) == \A j \in 2 .. n : ~FewerThanThree(j)

Straight == pc = "loop" /\ Unmarked(Len(events)) => index = 3 * Len(events) - 1

Marked ==
  \A k \in 2 .. Len(events) :
    Unmarked(k - 1) =>
      (FewerThanThree(k) <=> SysexEnd \in {events[k][4], events[k][5]})

LEMMA MarkedNext ==                    \* an event is added, marked or not
  ASSUME SizeInv, Marked, NEW w \in Words,
         events' = Append(events, w), length' = length, Len(events) > 0,
         Unmarked(Len(events)) =>
           (FewerThanThree(Len(events) + 1) <=> SysexEnd \in {w[4], w[5]})
  PROVE  Marked'
  <1>1. events \in Seq(Words) /\ Len(events) \in Nat
    BY DEF SizeInv, TypeInv
  <1>2. /\ Len(events') = Len(events) + 1 /\ events'[Len(events) + 1] = w
        /\ \A k \in 1 .. Len(events) : events'[k] = events[k]
    BY <1>1
  <1>3. \A k : FewerThanThree(k)' = FewerThanThree(k)
    BY DEF FewerThanThree
  <1>4. ASSUME NEW k \in 2 .. Len(events'), Unmarked(k - 1)'
        PROVE  (FewerThanThree(k) <=> SysexEnd \in {events[k][4], events[k][5]})'
    <2>1. Unmarked(k - 1)
      BY <1>3, <1>4 DEF Unmarked
    <2>2. CASE k <= Len(events)
      <3>1. k \in 2 .. Len(events) /\ events'[k] = events[k]
        BY <1>1, <1>2, <2>2
      <3>. QED  BY <1>3, <2>1, <3>1 DEF Marked
    <2>3. CASE k = Len(events) + 1
      <3>1. k - 1 = Len(events) /\ events'[k] = w
        BY <1>1, <1>2, <2>3
      <3>. QED  BY <1>3, <2>1, <2>3, <3>1
    <2>. QED  BY <1>1, <1>2, <2>2, <2>3
  <1>. QED  BY <1>4 DEF Marked

LEMMA FewerMeans ==
  ASSUME length \in Nat, index \in Nat, Len(events) \in Nat,
         index = 3 * Len(events) - 1
  PROVE  FewerThanThree(Len(events) + 1) <=> Remaining < 3
  <1>1. 3 * (Len(events) + 1) - 4 = index
    OBVIOUS
  <1>. QED  BY <1>1 DEF FewerThanThree, Remaining

LEMMA MarkedMore ==
  ASSUME SizeInv, Straight, Marked, MaxEvents <= 82, More
  PROVE  Straight' /\ Marked'
  <1>1. /\ pc = "loop" /\ index < length - 1 /\ 2 <= index
        /\ length \in Nat /\ index \in Nat
        /\ MaxEvents \in Nat /\ Len(events) < MaxEvents
        /\ events \in Seq(Words) /\ Len(events) \in Nat
        /\ Turn.event \in Words /\ Remaining \in Nat
        /\ Turn.took = IF Remaining >= 3 THEN 3 ELSE IF Remaining = 2 THEN 2 ELSE 1
    BY TurnTakes
  <1>2. /\ events' = Append(events, Turn.event) /\ index' = index + Turn.took
        /\ length' = length /\ pc' = pc
    BY DEF More
  <1>3. Len(events) > 0
    BY <1>1 DEF SizeInv, Accounted
  <1>4. ASSUME Unmarked(Len(events))
        PROVE  /\ FewerThanThree(Len(events) + 1) <=> Remaining < 3
               /\ Remaining < 3 <=> SysexEnd \in {Turn.event[4], Turn.event[5]}
    <2>1. index = 3 * Len(events) - 1
      BY <1>1, <1>4 DEF Straight
    <2>2. FewerThanThree(Len(events) + 1) <=> Remaining < 3
      BY <1>1, <2>1, FewerMeans
    <2>3. CASE Remaining >= 3
      <3>1. Turn.event[4] = index + 2 /\ Turn.event[5] = index + 3
        BY <2>3 DEF Turn, Event
      <3>2. index + 3 < 247
        BY <1>1, <2>1
      <3>. QED  BY <1>1, <2>2, <2>3, <3>1, <3>2 DEF SysexEnd
    <2>4. CASE Remaining = 2
      <3>1. Turn.event[5] = SysexEnd
        BY <2>4 DEF Turn, Event
      <3>. QED  BY <2>2, <2>4, <3>1
    <2>5. CASE ~(Remaining >= 3) /\ Remaining # 2
      <3>1. Turn.event[4] = SysexEnd
        BY <2>5 DEF Turn, Event
      <3>. QED  BY <1>1, <2>2, <2>5, <3>1
    <2>. QED  BY <2>3, <2>4, <2>5
  <1>5. Marked'
    BY <1>1, <1>2, <1>3, <1>4, MarkedNext
  <1>6. Straight'
    <2>. SUFFICES ASSUME Unmarked(Len(events))' PROVE index' = 3 * Len(events') - 1
      BY DEF Straight
    <2>1. Len(events') = Len(events) + 1
      BY <1>1, <1>2
    <2>2. \A j \in 2 .. Len(events) + 1 : ~FewerThanThree(j)
      BY <1>2, <2>1 DEF Unmarked, FewerThanThree
    <2>3. Unmarked(Len(events)) /\ ~FewerThanThree(Len(events) + 1)
      <3>1. Len(events) + 1 \in 2 .. Len(events) + 1
        BY <1>1, <1>3
      <3>2. 2 .. Len(events) \subseteq 2 .. Len(events) + 1
        BY <1>1
      <3>. QED  BY <2>2, <3>1, <3>2 DEF Unmarked
    <2>4. Turn.took = 3
      BY <1>1, <1>4, <2>3
    <2>5. index = 3 * Len(events) - 1
      BY <1>1, <2>3 DEF Straight
    <2>. QED  BY <1>1, <1>2, <2>1, <2>4, <2>5
  <1>. QED  BY <1>5, <1>6

LEMMA MarkedStep ==
  ASSUME SizeInv, Straight, Marked, MaxEvents <= 82, [Next]_vars
  PROVE  Straight' /\ Marked'
  <1>1. CASE UNCHANGED vars \/ Overrun
    <2>1. /\ UNCHANGED <<length, index, events>>
          /\ pc' = pc \/ pc' = "overrun"
      BY <1>1 DEF vars, Overrun
    <2>. QED  BY <2>1 DEF Straight, Marked, Unmarked, FewerThanThree
  <1>2. ASSUME NEW n \in Lengths, Begin(n) PROVE Straight' /\ Marked'
    <2>1. \E w : events' = <<w>>
      BY <1>2 DEF Begin
    <2>2. Len(events') = 1 /\ (pc' = "loop" => index' = 2)
      BY <1>2, <2>1 DEF Begin
    <2>. QED  BY <2>2 DEF Straight, Marked
  <1>3. CASE Finish
    <2>1. /\ pc = "loop" /\ pc' = "sent" /\ length' = length /\ index' = index
          /\ events \in Seq(Words) /\ Len(events) \in Nat
          /\ length \in Nat /\ index \in Nat
          /\ 2 <= index /\ index + 1 <= 3 * Len(events)
      BY <1>3 DEF Finish, SizeInv, TypeInv, Accounted
    <2>2. Straight'
      BY <2>1 DEF Straight
    <2>3. CASE index = length - 1
      <3>. DEFINE w == Event(5, index + 1, SysexEnd, 0)
      <3>1. events' = Append(events, w)
        BY <1>3, <2>3 DEF Finish, LastByte
      <3>2. w \in Words /\ w[4] = SysexEnd
        BY <2>1, EventIsWords DEF SysexEnd, Event
      <3>. HIDE DEF w
      <3>3. Unmarked(Len(events)) => FewerThanThree(Len(events) + 1)
        <4>. SUFFICES ASSUME Unmarked(Len(events))
                      PROVE  FewerThanThree(Len(events) + 1)
          OBVIOUS
        <4>1. index = 3 * Len(events) - 1
          BY <2>1 DEF Straight
        <4>2. Remaining = 1
          BY <2>1, <2>3 DEF Remaining
        <4>. QED  BY <2>1, <4>1, <4>2, FewerMeans
      <3>4. Len(events) > 0
        BY <2>1
      <3>. QED  BY <2>1, <2>2, <3>1, <3>2, <3>3, <3>4, MarkedNext
    <2>4. CASE index # length - 1
      <3>1. events' = events
        BY <1>3, <2>4 DEF Finish, LastByte
      <3>. QED  BY <2>1, <2>2, <3>1 DEF Marked, Unmarked, FewerThanThree
    <2>. QED  BY <2>3, <2>4
  <1>. QED  BY <1>1, <1>2, <1>3, MarkedMore DEF Next

(***************************************************************************)
(* Behind what is sent comes one end marker and then padding, or none at   *)
(* all when the payload filled its events; and the first end marker is     *)
(* where the remainder, modulo 256, first falls below three: for payloads  *)
(* of any length and arrays of up to 82 events, in which no payload byte   *)
(* has the number of the marker.                                           *)
(***************************************************************************)
THEOREM OneEndMarker ==
  ASSUME MaxEvents <= 82
  PROVE  Spec => []EndComesLast
<1>. DEFINE Inv == SizeInv /\ Filled /\ Straight /\ Marked
<1>1. Inv /\ [Next]_vars => Inv'
  BY FilledStep, MarkedStep
<1>2. Inv => EndComesLast
  <2>. SUFFICES ASSUME Inv PROVE EndComesLast
    OBVIOUS
  <2>1. length \in Nat /\ Len(events) \in Nat /\ DOMAIN events = 1 .. Len(events)
    BY DEF SizeInv, TypeInv
  <2>2. pc = "sent" => length < 258
    BY <2>1, LengthsAssumption DEF SizeInv
  <2>3. ASSUME pc = "sent", NEW k \in DOMAIN events, NEW i \in 1 .. 3,
               Position(k, i) > length
        PROVE  events[k][2 + i]
                 = IF Position(k, i) = length + 1 THEN SysexEnd ELSE 0
    <3>1. events[k][2 + i] = ByteAt(Position(k, i), length)
      BY <2>2, <2>3 DEF Filled, Written, Taken
    <3>2. Position(k, i) \in Nat
      BY <2>1 DEF Position
    <3>. QED  BY <2>1, <2>3, <3>1, <3>2 DEF ByteAt
  <2>4. pc = "sent" => (3 * Len(events) = length + 1 <=> length % 3 = 2)
    <3>. SUFFICES ASSUME pc = "sent"
                  PROVE  3 * Len(events) = length + 1 <=> length % 3 = 2
      OBVIOUS
    <3>1. \/ length = 3 * Len(events) - 1 \/ length = 3 * Len(events) - 2
          \/ length = 3 * Len(events) - 3
      BY <2>1, <2>2 DEF Filled
    <3>. QED  BY <2>1, <3>1
  <2>. QED  BY <2>3, <2>4 DEF EndComesLast, Marked, Unmarked
<1>3. Init => Inv
  BY SizeInit DEF Init, Filled, Straight, Marked
<1>. QED  BY <1>1, <1>2, <1>3, PTL DEF Spec

-----------------------------------------------------------------------------
(* Filter and channels.                                                      *)

USE ChannelsAssumption

LEMMA Halves ==
  ASSUME NEW s \in Byte
  PROVE  /\ s = MessageType(s) + ChannelOf(s)
         /\ MessageType(s) \in 0 .. 240 /\ ChannelOf(s) \in 0 .. 15
         /\ \A t \in 0 .. 15, c \in 0 .. 15 :
              MessageType(16 * t + c) = 16 * t /\ ChannelOf(16 * t + c) = c
         /\ \E t \in 0 .. 15 : MessageType(s) = 16 * t
  BY DEF Byte, MessageType, ChannelOf

LEMMA ClassIsNamed ==
  ASSUME NEW s \in Byte, NEW c \in Classes
  PROVE  c \in ClassesOf(s) <=> s \in Named(c)
  <1>. DEFINE t == MessageType(s)
  <1>1. s \in Nat /\ t \in Nat /\ t <= s /\ s < t + 16 /\ \E k \in 0 .. 15 : t = 16 * k
    <2>0. s \in Nat
      BY DEF Byte
    <2>1. s = t + ChannelOf(s) /\ t \in 0 .. 240 /\ ChannelOf(s) \in 0 .. 15
      BY Halves
    <2>2. \E k \in 0 .. 15 : t = 16 * k
      BY Halves
    <2>. HIDE DEF t
    <2>. QED  BY <2>0, <2>1, <2>2
  <1>2. /\ t = 128 <=> s \in 128 .. 143
        /\ t = 144 <=> s \in 144 .. 159
        /\ t = 176 <=> s \in 176 .. 191
        /\ t = 192 <=> s \in 192 .. 207
        /\ t = 224 <=> s \in 224 .. 239
        /\ t = 240 <=> s \in 240 .. 255
    BY <1>1
  <1>3. ClassesOf(s) = IF t \in {128, 144} THEN {"note"}
                       ELSE IF t = 176 THEN {"control"}
                       ELSE IF t = 192 THEN {"program"}
                       ELSE IF t = 224 THEN {"pitchbend"}
                       ELSE IF t = 240 THEN {"sysex"} ELSE {}
    <2>1. t # 240 => ~(s >= 248)
      BY <1>1, <1>2 DEF Byte
    <2>. QED  BY <2>1 DEF ClassesOf
  <1>4. /\ Named("note") = 128 .. 159 /\ Named("control") = 176 .. 191
        /\ Named("program") = 192 .. 207 /\ Named("pitchbend") = 224 .. 239
        /\ Named("sysex") = 240 .. 255 /\ Named("realtime") = {}
    BY DEF Named
  <1>. HIDE DEF t
  <1>5. CASE c = "note"
    BY <1>1, <1>2, <1>3, <1>4, <1>5
  <1>6. CASE c = "control"
    BY <1>1, <1>2, <1>3, <1>4, <1>6
  <1>7. CASE c = "program"
    BY <1>1, <1>2, <1>3, <1>4, <1>7
  <1>8. CASE c = "pitchbend"
    BY <1>1, <1>2, <1>3, <1>4, <1>8
  <1>9. CASE c = "sysex"
    BY <1>1, <1>2, <1>3, <1>4, <1>9
  <1>10. CASE c = "realtime"
    BY <1>3, <1>4, <1>10
  <1>. QED  BY <1>5, <1>6, <1>7, <1>8, <1>9, <1>10 DEF Classes

FilterType ==
  /\ filter \subseteq Classes /\ status \in Byte
  /\ sch \in Channels /\ dch \in Channels

LEMMA Remapped ==
  ASSUME NEW s \in Byte, NEW d \in Byte
  PROVE  /\ Remap(s, d) \in Byte
         /\ MessageType(Remap(s, d)) = MessageType(s)
         /\ MessageType(s) # \hF0 /\ d # AnyChannel => ChannelOf(Remap(s, d)) = d % 16
         /\ MessageType(s) = \hF0 => Remap(s, d) = s
  <1>1. CASE d # AnyChannel /\ MessageType(s) # \hF0
    <2>1. PICK t \in 0 .. 15 : MessageType(s) = 16 * t
      BY Halves
    <2>2. d % 16 \in 0 .. 15
      BY DEF Byte
    <2>. DEFINE c == d % 16
    <2>3. Remap(s, d) = MessageType(s) + c
      BY <1>1 DEF Remap
    <2>. HIDE DEF c
    <2>4. Remap(s, d) = 16 * t + c /\ c \in 0 .. 15
      BY <2>1, <2>2, <2>3 DEF c
    <2>5. MessageType(16 * t + c) = 16 * t /\ ChannelOf(16 * t + c) = c
      BY <2>4, Halves
    <2>6. 16 * t + c \in Byte
      BY <2>4 DEF Byte
    <2>. QED  BY <1>1, <2>1, <2>4, <2>5, <2>6 DEF c
  <1>2. CASE ~(d # AnyChannel /\ MessageType(s) # \hF0)
    BY <1>2 DEF Remap
  <1>. QED  BY <1>1, <1>2

LEMMA FilterTypeStep ==
  ASSUME FilterType, [FilterNext]_filterVars
  PROVE  FilterType'
  <1>1. CASE Pass
    BY <1>1, Remapped DEF FilterType, Pass
  <1>2. CASE ~Pass
    BY <1>2 DEF FilterType, FilterNext, SetBit, OtherMessage, filterVars, Byte
  <1>. QED  BY <1>1, <1>2

LEMMA FilterTypeInit == FilterInit => FilterType
  BY DEF FilterInit, FilterType, Byte

(***************************************************************************)
(* For every filter, status byte and channel that a byte can be: a message *)
(* is dropped exactly when a bit of the filter names it, if the connection *)
(* takes its channel.                                                      *)
(***************************************************************************)
THEOREM FilterDropsNamed == FilterSpec => []DropsWhatItNames
<1>1. FilterType /\ [FilterNext]_filterVars => FilterType'
  BY FilterTypeStep
<1>2. FilterType => DropsWhatItNames
  <2>. SUFFICES ASSUME FilterType, sch = AnyChannel \/ ChannelOf(status) = sch
                PROVE  ShouldFilter(filter, sch, status)
                         <=> \E c \in filter : status \in Named(c)
    BY DEF DropsWhatItNames
  <2>1. \A c \in filter : c \in ClassesOf(status) <=> status \in Named(c)
    BY ClassIsNamed DEF FilterType
  <2>. QED  BY <2>1 DEF ShouldFilter
<1>. QED  BY <1>1, <1>2, FilterTypeInit, PTL DEF FilterSpec

(***************************************************************************)
(* A bit that is added to a filter drops what it names besides what was    *)
(* dropped before, and the first one the other channels as well: for every *)
(* filter, every message and every channel.                                *)
(***************************************************************************)
THEOREM FilterBitsAdd == FilterSpec => BitsOnlyTakeAway
<1>1. FilterType /\ [FilterNext]_filterVars => FilterType'
  BY FilterTypeStep
<1>. DEFINE Change(class) ==
       LET before == ShouldFilter(filter, sch, status)
           after  == ShouldFilter(filter', sch, status)
       IN after <=> \/ before
                    \/ status \in Named(class)
                    \/ filter = {} /\ sch # AnyChannel /\ ChannelOf(status) # sch
<1>2. ASSUME FilterType, NEW class \in Classes, SetBit(class)
      PROVE  Change(class)
  <2>1. filter' = filter \cup {class} /\ filter' # {} /\ class \in filter'
    BY <1>2 DEF SetBit
  <2>2. class \in ClassesOf(status) <=> status \in Named(class)
    BY <1>2, ClassIsNamed DEF FilterType
  <2>. QED  BY <2>1, <2>2 DEF ShouldFilter
<1>3. FilterType => [\A class \in Classes : SetBit(class) => Change(class)]_filterVars
  BY <1>2
<1>. QED  BY <1>1, <1>3, FilterTypeInit, PTL DEF FilterSpec, BitsOnlyTakeAway

(***************************************************************************)
(* What passed a connection passes the same filter again, with its kind    *)
(* kept and moved to the destination channel: for every channel that a     *)
(* byte can be.                                                            *)
(***************************************************************************)
THEOREM FilterPassesAgain == FilterSpec => PassedStaysPassed
<1>1. FilterType /\ [FilterNext]_filterVars => FilterType'
  BY FilterTypeStep
<1>2. ASSUME FilterType, Pass
      PROVE  /\ MessageType(status') = MessageType(status)
             /\ MessageType(status) # \hF0 /\ dch # AnyChannel
                  => ChannelOf(status') = dch % 16
             /\ status >= \hF0 => status' = status
             /\ ~ShouldFilter(filter, AnyChannel, status')
  <2>1. /\ status \in Byte /\ dch \in Byte /\ filter \subseteq Classes
        /\ status' = Remap(status, dch) /\ filter' = filter
    BY <1>2 DEF FilterType, Pass
  <2>2. MessageType(status') = MessageType(status) /\ status' \in Byte
    BY <2>1, Remapped
  <2>3. MessageType(status) # \hF0 /\ dch # AnyChannel => ChannelOf(status') = dch % 16
    BY <2>1, Remapped
  <2>4. status >= \hF0 => MessageType(status) = \hF0
    BY <2>1 DEF Byte, MessageType
  <2>5. ClassesOf(status') \cap filter = {}
    <3>1. ~ShouldFilter(filter, sch, status)
      BY <1>2 DEF Pass
    <3>2. ClassesOf(status) \cap filter = {}
      BY <3>1 DEF ShouldFilter
    <3>3. MessageType(status) # \hF0 => ClassesOf(status') = ClassesOf(status)
      <4>1. MessageType(status) # \hF0 => ~(status >= \hF8) /\ ~(status' >= \hF8)
        BY <2>1, <2>2 DEF Byte, MessageType
      <4>. QED  BY <2>2, <4>1 DEF ClassesOf
    <3>4. MessageType(status) = \hF0 => status' = status
      BY <2>1, Remapped
    <3>. QED  BY <3>2, <3>3, <3>4
  <2>6. ~ShouldFilter(filter, AnyChannel, status')
    BY <2>5 DEF ShouldFilter
  <2>7. status >= \hF0 => status' = status
    BY <2>1, <2>4, Remapped
  <2>. QED  BY <2>2, <2>3, <2>6, <2>7
<1>3. FilterType => [Pass => /\ MessageType(status') = MessageType(status)
                             /\ MessageType(status) # \hF0 /\ dch # AnyChannel
                                  => ChannelOf(status') = dch % 16
                             /\ status >= \hF0 => status' = status
                             /\ ~ShouldFilter(filter, AnyChannel, status')]_filterVars
  BY <1>2
<1>. QED  BY <1>1, <1>3, FilterTypeInit, PTL DEF FilterSpec, PassedStaysPassed

-----------------------------------------------------------------------------
(* The parser: what it reads.                                                *)

USE ParserAssumption

Bytes5 == [1 .. 5 -> Byte]

Message == [status : Byte, length : 1 .. 3, data : Byte \X Byte]

LEMMA Smaller ==
  ASSUME NEW a \in Nat, NEW b \in Nat
  PROVE  Min({a, b}) = IF a <= b THEN a ELSE b
  BY DEF Min

Words5 == Byte \X Byte \X Byte \X Byte \X Byte

LEMMA EventRead ==
  ASSUME NEW p \in Seq(Byte), NEW i \in Nat, i < Len(p), NEW behind \in Behind
  PROVE  EventAt(p, i, behind) \in Bytes5
  <1>1. ASSUME NEW b \in 1 .. 5
        PROVE  (IF i + b <= Len(p) THEN p[i + b] ELSE behind[i + b - Len(p)]) \in Byte
    <2>1. CASE i + b <= Len(p)
      BY <2>1
    <2>2. CASE ~(i + b <= Len(p))
      <3>1. i + b - Len(p) \in 1 .. 4
        BY <2>2
      <3>2. behind[i + b - Len(p)] \in Stale
        BY <3>1 DEF Behind
      <3>. QED  BY <2>2, <3>2
    <2>. QED  BY <2>1, <2>2
  <1>. QED  BY <1>1 DEF EventAt, Bytes5

(* The packet of some events: byte t of their memory, counted from 0.        *)
LEMMA PacketBytes ==
  ASSUME NEW es \in Seq(Words5)
  PROVE  /\ Transmitted(es) \in Seq(Byte) /\ Len(Transmitted(es)) = 4 * Len(es)
         /\ \A t \in 0 .. 4 * Len(es) - 1 :
              /\ Transmitted(es)[t + 1] = es[1 + t \div 5][1 + (t % 5)]
              /\ 1 + t \div 5 \in 1 .. Len(es)
  <1>. DEFINE p == Transmitted(es)
              n == Len(es)
  <1>1. n \in Nat /\ 4 * n \in Nat
    OBVIOUS
  <1>2. ASSUME NEW w \in Words5, NEW c \in 1 .. 5 PROVE w[c] \in Byte
    <2>1. /\ w[1] \in Byte /\ w[2] \in Byte /\ w[3] \in Byte /\ w[4] \in Byte
          /\ w[5] \in Byte
      BY DEF Words5
    <2>2. c = 1 \/ c = 2 \/ c = 3 \/ c = 4 \/ c = 5
      OBVIOUS
    <2>. QED  BY <2>1, <2>2
  <1>. HIDE DEF n
  <1>3. ASSUME NEW t \in 0 .. 4 * n - 1
        PROVE  1 + t \div 5 \in 1 .. n /\ 1 + (t % 5) \in 1 .. 5
    BY <1>1
  <1>4. p = [k \in 1 .. 4 * n |-> es[1 + (k - 1) \div 5][1 + ((k - 1) % 5)]]
    BY DEF Transmitted, n
  <1>5. ASSUME NEW k \in 1 .. 4 * n
        PROVE  es[1 + (k - 1) \div 5][1 + ((k - 1) % 5)] \in Byte
    <2>1. k - 1 \in 0 .. 4 * n - 1
      BY <1>1
    <2>2. 1 + (k - 1) \div 5 \in 1 .. n /\ 1 + ((k - 1) % 5) \in 1 .. 5
      BY <1>3, <2>1
    <2>3. es[1 + (k - 1) \div 5] \in Words5
      BY <2>2 DEF n
    <2>. QED  BY <1>2, <2>2, <2>3
  <1>6. p \in [1 .. 4 * n -> Byte]
    BY <1>4, <1>5
  <1>7. p \in Seq(Byte) /\ Len(p) = 4 * n
    BY <1>1, <1>6
  <1>8. ASSUME NEW t \in 0 .. 4 * n - 1
        PROVE  p[t + 1] = es[1 + t \div 5][1 + (t % 5)]
    <2>1. t + 1 \in 1 .. 4 * n /\ t + 1 - 1 = t
      BY <1>1
    <2>. QED  BY <1>4, <2>1
  <1>. QED  BY <1>3, <1>7, <1>8 DEF n

LEMMA CodesFit ==
  ASSUME NEW s \in Byte
  PROVE  CodeIndex(s) \in 1 .. 15
  <1>1. s \in Nat /\ s <= 255
    BY DEF Byte
  <1>2. MessageType(s) \in \h80 .. \hE0 => s \div 16 \in 8 .. 14
    BY <1>1 DEF MessageType
  <1>. QED  BY <1>2 DEF CodeIndex

(* The packet that carries one message: its event but for the fifth byte.    *)
LEMMA MessagePacket ==
  ASSUME NEW m \in Message
  PROVE  LET p == Transmitted(<<EventOf(m)>>) IN
         /\ p \in Seq(Byte) /\ Len(p) = 4
         /\ p[1] = CodeIndex(m.status) /\ p[3] = m.status
         /\ p[4] = IF m.length > 1 THEN m.data[1] ELSE 0
  <1>. DEFINE e == EventOf(m)
              p == Transmitted(<<e>>)
  <1>1. /\ m.status \in Byte /\ m.data[1] \in Byte /\ m.data[2] \in Byte
        /\ 0 \in Byte /\ CodeIndex(m.status) \in Byte
    <2>1. m.status \in Byte /\ m.data[1] \in Byte /\ m.data[2] \in Byte
      BY DEF Message
    <2>2. CodeIndex(m.status) \in 1 .. 15
      BY <2>1, CodesFit
    <2>. QED  BY <2>1, <2>2 DEF Byte
  <1>2. e \in Words5
    BY <1>1 DEF EventOf, Event, Words5
  <1>3. /\ e[1] = CodeIndex(m.status) /\ e[3] = m.status
        /\ e[4] = IF m.length > 1 THEN m.data[1] ELSE 0
    BY DEF EventOf, Event
  <1>. HIDE DEF e
  <1>4. <<e>> \in Seq(Words5) /\ Len(<<e>>) = 1 /\ <<e>>[1] = e
    BY <1>2
  <1>5. /\ p \in Seq(Byte) /\ Len(p) = 4
        /\ \A t \in 0 .. 3 : p[t + 1] = <<e>>[1 + t \div 5][1 + (t % 5)]
    <2>. DEFINE es == <<e>>
    <2>1. /\ p \in Seq(Byte) /\ Len(p) = 4 * Len(es)
          /\ \A t \in 0 .. 4 * Len(es) - 1 :
               p[t + 1] = es[1 + t \div 5][1 + (t % 5)]
      BY <1>4, PacketBytes
    <2>2. 4 * Len(es) = 4 /\ 4 * Len(es) - 1 = 3
      BY <1>4
    <2>. QED  BY <2>1, <2>2
  <1>. HIDE DEF p
  <1>6. p[1] = e[1] /\ p[3] = e[3] /\ p[4] = e[4]
    <2>1. p[0 + 1] = <<e>>[1 + 0 \div 5][1 + (0 % 5)]
      BY <1>5
    <2>2. p[2 + 1] = <<e>>[1 + 2 \div 5][1 + (2 % 5)]
      BY <1>5
    <2>3. p[3 + 1] = <<e>>[1 + 3 \div 5][1 + (3 % 5)]
      BY <1>5
    <2>. QED  BY <1>4, <2>1, <2>2, <2>3
  <1>. QED  BY <1>3, <1>5, <1>6 DEF p, e

-----------------------------------------------------------------------------
(***************************************************************************)
(* The payload under assembly.  What is kept, a, of what was heard, h, is  *)
(* its beginning: all of it, until the buffer is full.                     *)
(***************************************************************************)
ParserType ==
  /\ packet \in Seq(Byte) /\ pos \in Nat
  /\ rx \in Seq(Message) /\ Len(rx) <= BufferSize
  /\ open \in BOOLEAN /\ buf \in Seq(Byte) /\ heard \in Seq(Byte)

Keeps(a, h) ==
  /\ a \in Seq(Byte) /\ h \in Seq(Byte)
  /\ Len(a) <= SysexSize /\ Len(a) <= Len(h)
  /\ \A k \in 1 .. Len(a) : a[k] = h[k]
  /\ \A k \in 1 .. Len(h) : h[k] # SysexEnd
  /\ Len(a) < SysexSize => Len(a) = Len(h)

Base == IF Complete THEN <<>> ELSE heard

LEMMA NoByte ==
  ASSUME NEW x
  PROVE  <<>> \in Seq(Byte) /\ Len(<<>>) = 0 /\ DOMAIN <<>> = {} /\ x \notin Range(<<>>)
  <1>1. <<>> \in Seq(Byte) /\ Len(<<>>) = 0 /\ DOMAIN <<>> = {}
    OBVIOUS
  <1>. QED  BY <1>1 DEF Range

LEMMA BodyOf ==
  ASSUME NEW e \in Bytes5
  PROVE  /\ Body(e) \in Seq(Byte) /\ Len(Body(e)) \in 0 .. 3
         /\ \A j \in 1 .. Len(Body(e)) : Body(e)[j] = e[2 + j] /\ e[2 + j] # SysexEnd
         /\ ~Ends(e) => Len(Body(e)) = 3
         /\ Ends(e) => Len(Body(e)) < 3 /\ e[3 + Len(Body(e))] = SysexEnd
  <1>1. e[3] \in Byte /\ e[4] \in Byte /\ e[5] \in Byte
    BY DEF Bytes5
  <1>2. CASE e[3] = SysexEnd
    <2>1. Body(e) = <<>> /\ Ends(e)
      <3>1. Body(e) = <<>>
        BY <1>2 DEF Body
      <3>2. Ends(e)
        BY <1>2 DEF Ends
      <3>. QED  BY <3>1, <3>2
    <2>2. Len(Body(e)) = 0 /\ Body(e) \in Seq(Byte)
      BY <2>1, NoByte
    <2>. QED  BY <1>2, <2>1, <2>2
  <1>3. CASE e[3] # SysexEnd /\ e[4] = SysexEnd
    <2>1. Body(e) = <<e[3]>> /\ Ends(e)
      <3>1. Body(e) = <<e[3]>>
        BY <1>3 DEF Body
      <3>2. Ends(e)
        BY <1>3 DEF Ends
      <3>. QED  BY <3>1, <3>2
    <2>2. Len(Body(e)) = 1 /\ Body(e) \in Seq(Byte) /\ Body(e)[1] = e[3]
      BY <1>1, <2>1
    <2>3. \A j \in 1 .. 1 : j = 1
      OBVIOUS
    <2>. QED  BY <1>3, <2>1, <2>2, <2>3
  <1>4. CASE e[3] # SysexEnd /\ e[4] # SysexEnd /\ e[5] = SysexEnd
    <2>1. Body(e) = <<e[3], e[4]>> /\ Ends(e)
      BY <1>4 DEF Body, Ends
    <2>2. /\ Len(Body(e)) = 2 /\ Body(e) \in Seq(Byte)
          /\ Body(e)[1] = e[3] /\ Body(e)[2] = e[4]
      BY <1>1, <2>1
    <2>3. \A j \in 1 .. 2 : j = 1 \/ j = 2
      OBVIOUS
    <2>. QED  BY <1>4, <2>1, <2>2, <2>3
  <1>5. CASE e[3] # SysexEnd /\ e[4] # SysexEnd /\ e[5] # SysexEnd
    <2>1. Body(e) = <<e[3], e[4], e[5]>> /\ ~Ends(e)
      BY <1>5 DEF Body, Ends
    <2>2. /\ Len(Body(e)) = 3 /\ Body(e) \in Seq(Byte)
          /\ Body(e)[1] = e[3] /\ Body(e)[2] = e[4] /\ Body(e)[3] = e[5]
      BY <1>1, <2>1
    <2>3. \A j \in 1 .. 3 : j = 1 \/ j = 2 \/ j = 3
      OBVIOUS
    <2>. QED  BY <1>5, <2>1, <2>2, <2>3
  <1>. QED  BY <1>2, <1>3, <1>4, <1>5

LEMMA BufKeeps ==
  ASSUME ParserType, PayloadsAsHeard
  PROVE  Keeps(OpenedBuf, Base)
  <1>1. CASE open
    <2>1. /\ ~Complete /\ Base = heard /\ OpenedBuf = buf
      BY <1>1 DEF PayloadsAsHeard, Base, OpenedBuf
    <2>2. \A k \in 1 .. Len(heard) : heard[k] # SysexEnd
      BY <2>1 DEF Complete, Range, ParserType
    <2>. QED  BY <2>1, <2>2 DEF Keeps, PayloadsAsHeard, ParserType
  <1>2. CASE ~open
    <2>1. Base = <<>>
      BY <1>2 DEF PayloadsAsHeard, Base
    <2>2. OpenedBuf = <<>>
      BY <1>2 DEF OpenedBuf
    <2>3. <<>> \in Seq(Byte) /\ Len(<<>>) = 0 /\ 0 <= SysexSize
      BY NoByte
    <2>. QED  BY <2>1, <2>2, <2>3 DEF Keeps
  <1>. QED  BY <1>1, <1>2

LEMMA KeptIsHeard ==
  ASSUME ParserType, PayloadsAsHeard, NEW e \in Bytes5, ParseSysex(e)
  PROVE  /\ buf' \in Seq(Byte) /\ heard' \in Seq(Byte) /\ open' \in BOOLEAN
         /\ PayloadsAsHeard'
  <1>. DEFINE a == OpenedBuf
              b == Body(e)
              h == Base
              t == <<e[3], e[4], e[5]>>
              w == a \o b
              n == Min({Len(w), SysexSize})
  <1>1. Keeps(a, h)
    BY BufKeeps
  <1>2. /\ b \in Seq(Byte) /\ Len(b) \in 0 .. 3
        /\ \A j \in 1 .. Len(b) : b[j] = e[2 + j] /\ e[2 + j] # SysexEnd
        /\ ~Ends(e) => Len(b) = 3
        /\ Ends(e) => Len(b) < 3 /\ e[3 + Len(b)] = SysexEnd
    BY BodyOf
  <1>3. /\ open' = ~Ends(e) /\ buf' = Kept(e) /\ heard' = h \o t
        /\ told' = IF Ends(e) THEN [kind |-> "sysex", args |-> buf'] ELSE told
    BY DEF ParseSysex, Base
  <1>4. /\ t \in Seq(Byte) /\ Len(t) = 3 /\ \A j \in 1 .. 3 : t[j] = e[2 + j]
    <2>1. e[3] \in Byte /\ e[4] \in Byte /\ e[5] \in Byte
      BY DEF Bytes5
    <2>2. \A j \in 1 .. 3 : j = 1 \/ j = 2 \/ j = 3
      OBVIOUS
    <2>. QED  BY <2>1, <2>2
  <1>5. Kept(e) = SubSeq(w, 1, n)
    BY DEF Kept
  <1>. HIDE DEF a, b, h, t
  <1>6. /\ a \in Seq(Byte) /\ h \in Seq(Byte)
        /\ Len(a) \in Nat /\ Len(h) \in Nat /\ Len(b) \in Nat
        /\ Len(a) <= SysexSize /\ Len(a) <= Len(h)
        /\ \A k \in 1 .. Len(a) : a[k] = h[k] /\ h[k] # SysexEnd
        /\ \A k \in 1 .. Len(h) : h[k] # SysexEnd
        /\ Len(a) < SysexSize => Len(a) = Len(h)
    BY <1>1, <1>2 DEF Keeps
  <1>7. /\ w \in Seq(Byte) /\ Len(w) = Len(a) + Len(b)
        /\ \A k \in 1 .. Len(w) : w[k] = IF k <= Len(a) THEN a[k] ELSE b[k - Len(a)]
    BY <1>2, <1>6
  <1>8. /\ heard' \in Seq(Byte) /\ Len(heard') = Len(h) + 3
        /\ \A k \in 1 .. Len(h) : heard'[k] = h[k]
        /\ \A j \in 1 .. 3 : heard'[Len(h) + j] = e[2 + j]
    <2>1. /\ heard' \in Seq(Byte) /\ Len(heard') = Len(h) + 3
          /\ \A k \in 1 .. Len(h) + 3 :
               heard'[k] = IF k <= Len(h) THEN h[k] ELSE t[k - Len(h)]
      <3>. DEFINE q == h \o t
      <3>0. h \in Seq(Byte) /\ t \in Seq(Byte)
        BY <1>4, <1>6
      <3>1. /\ q \in Seq(Byte) /\ Len(q) = Len(h) + Len(t)
            /\ \A k \in 1 .. Len(q) :
                 q[k] = IF k <= Len(h) THEN h[k] ELSE t[k - Len(h)]
        BY <3>0
      <3>. HIDE DEF q
      <3>2. Len(q) = Len(h) + 3
        BY <1>4, <3>1
      <3>3. heard' = q
        BY <1>3 DEF q
      <3>. QED  BY <3>1, <3>2, <3>3
    <2>2. ASSUME NEW j \in 1 .. 3 PROVE heard'[Len(h) + j] = e[2 + j]
      <3>1. Len(h) + j \in 1 .. Len(h) + 3 /\ ~(Len(h) + j <= Len(h))
            /\ Len(h) + j - Len(h) = j
        BY <1>6
      <3>. QED  BY <1>4, <2>1, <3>1
    <2>3. \A k \in 1 .. Len(h) : k \in 1 .. Len(h) + 3 /\ k <= Len(h)
      BY <1>6
    <2>. QED  BY <2>1, <2>2, <2>3
  <1>. HIDE DEF w
  <1>9. /\ n = IF Len(w) <= SysexSize THEN Len(w) ELSE SysexSize
        /\ n \in Nat /\ n <= Len(w) /\ n <= SysexSize
    BY <1>7, Smaller
  <1>. HIDE DEF n
  <1>10. /\ buf' \in Seq(Byte) /\ Len(buf') = n /\ DOMAIN buf' = 1 .. n
         /\ \A k \in 1 .. n : buf'[k] = w[k]
    BY <1>3, <1>5, <1>7, <1>9
  <1>11. Complete' <=> Ends(e)
    <2>1. Complete' <=> \E k \in 1 .. Len(h) + 3 : heard'[k] = SysexEnd
      <3>1. DOMAIN heard' = 1 .. Len(h) + 3
        BY <1>8
      <3>. QED  BY <3>1 DEF Complete, Range
    <2>2. ASSUME NEW k \in 1 .. Len(h) + 3, heard'[k] = SysexEnd PROVE Ends(e)
      <3>1. ~(k <= Len(h))
        <4>1. k \notin 1 .. Len(h)
          <5>1. \A j \in 1 .. Len(h) : heard'[j] = h[j] /\ h[j] # SysexEnd
            BY <1>6, <1>8
          <5>. QED  BY <2>2, <5>1
        <4>2. k \in Nat /\ 1 <= k /\ Len(h) \in Nat
          BY <1>6
        <4>. QED  BY <4>1, <4>2
      <3>2. k = Len(h) + 1 \/ k = Len(h) + 2 \/ k = Len(h) + 3
        <4>1. k \in 1 .. Len(h) + 3 /\ Len(h) \in Nat
          BY <1>6
        <4>. QED  BY <3>1, <4>1
      <3>3. e[2 + 1] = SysexEnd \/ e[2 + 2] = SysexEnd \/ e[2 + 3] = SysexEnd
        BY <1>8, <2>2, <3>2
      <3>. QED  BY <3>3 DEF Ends
    <2>3. ASSUME Ends(e) PROVE \E k \in 1 .. Len(h) + 3 : heard'[k] = SysexEnd
      <3>1. \E j \in 1 .. 3 : e[2 + j] = SysexEnd
        BY <2>3 DEF Ends
      <3>2. \A j \in 1 .. 3 : Len(h) + j \in 1 .. Len(h) + 3
        BY <1>6
      <3>. QED  BY <1>8, <3>1, <3>2
    <2>. QED  BY <2>1, <2>2, <2>3
  <1>12. ASSUME NEW k \in 1 .. n
         PROVE  buf'[k] = heard'[k] /\ buf'[k] # SysexEnd
    <2>1. k \in 1 .. Len(w) /\ k <= SysexSize /\ buf'[k] = w[k]
      BY <1>7, <1>9, <1>10
    <2>2. CASE k <= Len(a)
      <3>1. k \in 1 .. Len(a) /\ k \in 1 .. Len(h)
        BY <1>6, <2>2
      <3>. QED  BY <1>6, <1>7, <1>8, <2>1, <2>2, <3>1
    <2>3. CASE ~(k <= Len(a))
      <3>1. Len(a) = Len(h)
        BY <1>6, <2>1, <2>3
      <3>. DEFINE j == k - Len(a)
      <3>2. j \in 1 .. Len(b) /\ j \in 1 .. 3 /\ k = Len(h) + j
        <4>1. k \in Nat /\ k <= Len(a) + Len(b) /\ Len(b) <= 3
          <5>1. Len(w) = Len(a) + Len(b) /\ Len(w) \in Nat
            BY <1>6, <1>7
          <5>2. Len(b) <= 3
            BY <1>2
          <5>. QED  BY <2>1, <5>1, <5>2
        <4>. QED  BY <1>6, <2>3, <3>1, <4>1
      <3>3. w[k] = b[j]
        BY <1>7, <2>1, <2>3
      <3>. HIDE DEF j
      <3>. QED  BY <1>2, <1>8, <2>1, <3>2, <3>3
    <2>. QED  BY <2>2, <2>3
  <1>13. Len(buf') <= SysexSize /\ Len(buf') <= Len(heard')
    <2>1. /\ Len(w) = Len(a) + Len(b) /\ Len(b) <= 3 /\ Len(heard') = Len(h) + 3
          /\ n <= Len(w) /\ n <= SysexSize /\ n \in Nat /\ Len(buf') = n
      <3>1. Len(b) <= 3
        BY <1>2
      <3>2. Len(w) = Len(a) + Len(b) /\ Len(heard') = Len(h) + 3
        BY <1>7, <1>8
      <3>3. n <= Len(w) /\ n <= SysexSize /\ n \in Nat /\ Len(buf') = n
        BY <1>9, <1>10
      <3>. QED  BY <3>1, <3>2, <3>3
    <2>2. CASE Len(a) < SysexSize
      <3>1. Len(a) = Len(h)
        BY <1>6, <2>2
      <3>. QED  BY <1>6, <2>1, <3>1
    <2>3. CASE ~(Len(a) < SysexSize)
      <3>1. Len(a) <= SysexSize /\ Len(a) <= Len(h) /\ Len(h) \in Nat
        BY <1>6
      <3>. QED  BY <2>1, <2>3, <3>1
    <2>. QED  BY <2>2, <2>3
  <1>14. ASSUME Len(buf') < SysexSize
         PROVE  IF Complete' THEN heard'[Len(buf') + 1] = SysexEnd
                ELSE Len(buf') = Len(heard')
    <2>1. n = Len(w) /\ Len(a) = Len(h) /\ Len(buf') = Len(h) + Len(b)
      <3>1. /\ Len(w) = Len(a) + Len(b) /\ Len(buf') = n /\ n < SysexSize
            /\ n = IF Len(w) <= SysexSize THEN Len(w) ELSE SysexSize
        BY <1>7, <1>9, <1>10, <1>14
      <3>2. n = Len(w)
        BY <3>1
      <3>3. Len(a) \in Nat /\ Len(b) \in Nat
        BY <1>6
      <3>4. Len(a) < SysexSize
        BY <3>1, <3>2, <3>3
      <3>5. Len(a) = Len(h)
        BY <1>6, <3>4
      <3>. QED  BY <3>1, <3>2, <3>5
    <2>2. CASE Ends(e)
      <3>1. /\ Len(b) + 1 \in 1 .. 3 /\ e[2 + (Len(b) + 1)] = SysexEnd
            /\ Len(buf') + 1 = Len(h) + (Len(b) + 1)
        <4>1. 2 + (Len(b) + 1) = 3 + Len(b)
          BY <1>6
        <4>. QED  BY <1>2, <1>6, <2>1, <2>2, <4>1
      <3>2. heard'[Len(h) + (Len(b) + 1)] = e[2 + (Len(b) + 1)]
        BY <1>8, <3>1
      <3>. QED  BY <1>11, <2>2, <3>1, <3>2
    <2>3. CASE ~Ends(e)
      BY <1>2, <1>8, <1>11, <2>1, <2>3
    <2>. QED  BY <2>2, <2>3
  <1>15. /\ heard' # <<>> /\ open' \in BOOLEAN /\ (open' <=> ~Complete')
         /\ ~open' => Ends(e)
    <2>1. Len(heard') # 0
      BY <1>6, <1>8
    <2>2. heard' # <<>>
      BY <2>1, NoByte
    <2>. QED  BY <1>3, <1>11, <2>2 DEF Ends
  <1>16. ~open' /\ told'.kind = "sysex" => told'.args = buf'
    BY <1>3, <1>15
  <1>. QED
    BY <1>8, <1>10, <1>12, <1>13, <1>14, <1>15, <1>16 DEF PayloadsAsHeard

LEMMA MessageRead ==
  ASSUME NEW e \in Bytes5
  PROVE  MessageOf(e) \in Message
  <1>1. MessageLength(e[3]) \in 1 .. 3
    BY DEF MessageLength
  <1>2. e[3] \in Byte /\ e[4] \in Byte /\ e[5] \in Byte /\ 0 \in Byte
    BY DEF Bytes5, Byte
  <1>. QED  BY <1>1, <1>2 DEF MessageOf, Message

LEMMA EnqueuedFits ==
  ASSUME ParserType, NEW e \in Bytes5
  PROVE  Enqueued(e) \in Seq(Message) /\ Len(Enqueued(e)) <= BufferSize
  BY MessageRead DEF Enqueued, ParserType

LEMMA Reads ==                         \* the event that a step parses
  ASSUME ParserType, NEW behind \in Behind, ParseEvent(behind)
  PROVE  /\ EventAt(packet, pos, behind) \in Bytes5
         /\ pos < Len(packet)
  <1>1. packet \in Seq(Byte) /\ pos \in Nat /\ ~(pos >= Len(packet))
    BY DEF ParserType, ParseEvent, Parsed
  <1>2. Len(packet) \in Nat /\ pos < Len(packet)
    BY <1>1
  <1>. QED  BY <1>1, <1>2, EventRead

LEMMA ParsedEvent ==
  ASSUME ParserType, PayloadsAsHeard, NEW behind \in Behind, ParseEvent(behind)
  PROVE  ParserType' /\ PayloadsAsHeard'
  <1>. DEFINE e == EventAt(packet, pos, behind)
  <1>1. e \in Bytes5
    BY Reads
  <1>2. packet' = packet /\ pos' = pos + 4 /\ (ParseSkipped(e) \/ ParseOther(e))
    BY DEF ParseEvent
  <1>. HIDE DEF e
  <1>3. CASE ParseSkipped(e)
    BY <1>2, <1>3 DEF ParseSkipped, ParserType, PayloadsAsHeard, Complete
  <1>4. CASE ParseOther(e)
    <2>1. rx' \in Seq(Message) /\ Len(rx') <= BufferSize
      BY <1>1, <1>4, EnqueuedFits DEF ParseOther
    <2>2. CASE ParseSysex(e)
      BY <1>1, <1>2, <2>1, <2>2, KeptIsHeard DEF ParserType
    <2>3. CASE told' = ToldOf(e) /\ UNCHANGED <<open, buf, heard>>
      <3>1. told' = told \/ told'.kind # "sysex"
        BY <2>3 DEF ToldOf
      <3>2. Complete' = Complete
        BY <2>3 DEF Complete
      <3>. QED  BY <1>2, <2>1, <2>3, <3>1, <3>2 DEF ParserType, PayloadsAsHeard
    <2>. QED  BY <1>4, <2>2, <2>3 DEF ParseOther
  <1>. QED  BY <1>2, <1>3, <1>4

Fresh ==                               \* after midi_init
  rx = <<>> /\ open = FALSE /\ buf = <<>> /\ told = Nothing /\ heard = <<>>

LEMMA FreshIsWell ==
  Fresh => /\ rx \in Seq(Message) /\ Len(rx) <= BufferSize
           /\ open \in BOOLEAN /\ buf \in Seq(Byte) /\ heard \in Seq(Byte)
           /\ PayloadsAsHeard
  <1>. SUFFICES ASSUME Fresh
                PROVE  /\ rx \in Seq(Message) /\ Len(rx) <= BufferSize
                       /\ open \in BOOLEAN /\ buf \in Seq(Byte) /\ heard \in Seq(Byte)
                       /\ PayloadsAsHeard
    OBVIOUS
  <1>1. /\ rx = <<>> /\ open = FALSE /\ buf = <<>> /\ heard = <<>>
        /\ told.kind # "sysex"
    BY DEF Fresh, Nothing
  <1>2. ~Complete
    BY <1>1, NoByte DEF Complete
  <1>3. /\ <<>> \in Seq(Byte) /\ <<>> \in Seq(Message) /\ Len(<<>>) = 0
        /\ DOMAIN <<>> = {} /\ 0 <= BufferSize /\ 0 <= SysexSize
    OBVIOUS
  <1>4. open <=> heard # <<>> /\ ~Complete
    BY <1>1
  <1>5. Len(buf) = 0 /\ Len(heard) = 0 /\ DOMAIN buf = {}
    BY <1>1
  <1>6. Len(buf) < SysexSize =>
          IF Complete THEN heard[Len(buf) + 1] = SysexEnd ELSE Len(buf) = Len(heard)
    BY <1>2, <1>5
  <1>7. PayloadsAsHeard
    BY <1>1, <1>3, <1>4, <1>5, <1>6 DEF PayloadsAsHeard
  <1>8. rx \in Seq(Message) /\ Len(rx) <= BufferSize
    BY <1>1, <1>3
  <1>9. open \in BOOLEAN /\ buf \in Seq(Byte) /\ heard \in Seq(Byte)
    BY <1>1, <1>3
  <1>. QED  BY <1>7, <1>8, <1>9

LEMMA ParserInitInv == ParserInit => ParserType /\ PayloadsAsHeard
  <1>. SUFFICES ASSUME ParserInit PROVE ParserType /\ PayloadsAsHeard
    OBVIOUS
  <1>1. packet \in Seq(Byte) /\ pos \in Nat
    BY NoByte DEF ParserInit
  <1>. QED  BY <1>1, FreshIsWell DEF ParserInit, ParserType, Fresh

LEMMA ParserStep ==
  ASSUME ParserType, PayloadsAsHeard, [ParserNext]_parserVars
  PROVE  ParserType' /\ PayloadsAsHeard'
  <1>1. ASSUME NEW p \in Seq(Byte), NEW from, Arrive(p, from)
        PROVE  ParserType' /\ PayloadsAsHeard'
    BY <1>1 DEF Arrive, ParserType, PayloadsAsHeard, Complete
  <1>2. CASE ArriveMessage
    <2>1. PICK m \in Message :
            Arrive(Transmitted(<<EventOf(m)>>), [by |-> "message", what |-> m])
      BY <1>2 DEF ArriveMessage, Message
    <2>. QED  BY <1>1, <2>1, MessagePacket
  <1>3. CASE ArriveSysex
    <2>1. PICK es \in Seq(Words5) :
            Arrive(Transmitted(es), [by |-> "sysex", what |-> es])
      BY <1>3 DEF ArriveSysex, Words5
    <2>. QED  BY <1>1, <2>1, PacketBytes
  <1>4. CASE ArriveOther
    BY <1>1, <1>4 DEF ArriveOther
  <1>5. CASE Receive
    <2>1. Tail(rx) \in Seq(Message) /\ Len(Tail(rx)) <= BufferSize
      BY <1>5 DEF Receive, ParserType
    <2>. QED  BY <1>5, <2>1 DEF Receive, ParserType, PayloadsAsHeard, Complete
  <1>6. CASE Restart
    <2>1. Fresh' /\ UNCHANGED <<packet, pos>>
      BY <1>6 DEF Restart, Fresh
    <2>2. (/\ rx \in Seq(Message) /\ Len(rx) <= BufferSize
           /\ open \in BOOLEAN /\ buf \in Seq(Byte) /\ heard \in Seq(Byte)
           /\ PayloadsAsHeard)'
      BY <2>1, FreshIsWell, PTL
    <2>. QED  BY <2>1, <2>2 DEF ParserType
  <1>7. CASE UNCHANGED parserVars
    BY <1>7 DEF parserVars, ParserType, PayloadsAsHeard, Complete
  <1>. QED
    BY <1>2, <1>3, <1>4, <1>5, <1>6, <1>7, ParsedEvent DEF ParserNext

(***************************************************************************)
(* Whatever packets arrive, and whatever lies behind them: the payload     *)
(* that the parser assembles and reports is what it has heard since the    *)
(* last end marker, to the next one or to the end of the buffer, for       *)
(* buffers of any size.                                                    *)
(***************************************************************************)
THEOREM PayloadsFromHeard == ParserSpec => []PayloadsAsHeard
<1>1. ParserType /\ PayloadsAsHeard /\ [ParserNext]_parserVars
        => ParserType' /\ PayloadsAsHeard'
  BY ParserStep
<1>. QED  BY <1>1, ParserInitInv, PTL DEF ParserSpec

-----------------------------------------------------------------------------
(***************************************************************************)
(* Messages as the midi_send functions build them: of the length that      *)
(* their status has, zero where they have no data, and with the two halves *)
(* of a pitch bend apart.                                                  *)
(***************************************************************************)
Regular(m) ==
  /\ m.length = MessageLength(m.status)
  /\ m.length < 2 => m.data[1] = 0
  /\ m.length < 3 => m.data[2] = 0
  /\ MessageType(m.status) = \hE0 => m.data[1] < 128

(***************************************************************************)
(* Payloads of data bytes as midi_send_sysex cuts them up: the first event *)
(* begins with the marker, the others begin with data, and only the last   *)
(* one may end with anything but data.                                     *)
(***************************************************************************)
Fragments(es) ==
  /\ es # <<>> /\ es[1][3] = SysexStart
  /\ \A k \in 1 .. Len(es) : es[k][1] \in {4, 5} /\ es[k][2] = 0
  /\ \A k \in 2 .. Len(es) : es[k][3] < 128
  /\ \A k \in 1 .. Len(es) - 1 : es[k][5] < 128

Underway ==                            \* the packet is what was sent
  /\ sent.by = "message" =>
       sent.what \in Messages /\ packet = Transmitted(<<EventOf(sent.what)>>)
  /\ sent.by = "sysex" => sent.what \in Payloads /\ packet = Transmitted(sent.what)
  /\ pos % 4 = 0

LEMMA UnderwayStep ==
  ASSUME ParserType, Underway, [ParserNext]_parserVars
  PROVE  Underway'
  <1>1. CASE ArriveMessage
    <2>1. PICK m \in Messages :
            Arrive(Transmitted(<<EventOf(m)>>), [by |-> "message", what |-> m])
      BY <1>1 DEF ArriveMessage
    <2>. QED  BY <2>1 DEF Arrive, Underway
  <1>2. CASE ArriveSysex
    <2>1. PICK es \in Payloads :
            Arrive(Transmitted(es), [by |-> "sysex", what |-> es])
      BY <1>2 DEF ArriveSysex
    <2>. QED  BY <2>1 DEF Arrive, Underway
  <1>3. CASE ArriveOther
    <2>1. sent' = Unknown /\ pos' = 0
      BY <1>3 DEF ArriveOther, Arrive
    <2>. QED  BY <2>1 DEF Underway, Unknown
  <1>4. CASE Receive \/ Restart \/ UNCHANGED parserVars
    BY <1>4 DEF Receive, Restart, parserVars, Underway
  <1>5. ASSUME NEW behind \in Behind, ParseEvent(behind) PROVE Underway'
    <2>1. UNCHANGED <<packet, sent>> /\ pos' = pos + 4 /\ pos \in Nat
      BY <1>5 DEF ParseEvent, ParserType
    <2>2. pos' % 4 = 0
      BY <2>1 DEF Underway
    <2>. QED  BY <2>1, <2>2 DEF Underway
  <1>. QED  BY <1>1, <1>2, <1>3, <1>4, <1>5 DEF ParserNext

(* What the receiver makes of the packet of a message.                       *)
Received(m, third) ==
  IF m.length = 3 THEN [m EXCEPT !.data[2] = third] ELSE m

LEMMA MessageBack ==
  ASSUME NEW m \in Message, Regular(m), NEW behind \in Behind
  PROVE  LET e == EventAt(Transmitted(<<EventOf(m)>>), 0, behind)
         IN /\ ~Skipped(e) /\ e[3] = m.status /\ e[4] = m.data[1]
            /\ e[5] = behind[1]
            /\ MessageOf(e) = Received(m, behind[1])
  <1>. DEFINE p == Transmitted(<<EventOf(m)>>)
              e == EventAt(p, 0, behind)
              r == MessageOf(e)
  <1>1. /\ Len(p) = 4 /\ p[1] = CodeIndex(m.status) /\ p[3] = m.status
        /\ p[4] = IF m.length > 1 THEN m.data[1] ELSE 0
    BY MessagePacket
  <1>. HIDE DEF p
  <1>2. e[1] = p[1] /\ e[3] = p[3] /\ e[4] = p[4] /\ e[5] = behind[1]
    BY <1>1 DEF EventAt
  <1>. HIDE DEF e
  <1>3. /\ m.status \in Byte /\ m.length \in 1 .. 3 /\ m.data \in Byte \X Byte
        /\ m = [status |-> m.status, length |-> m.length, data |-> m.data]
        /\ m.data = <<m.data[1], m.data[2]>>
    BY DEF Message
  <1>4. e[1] \in 1 .. 15
    BY <1>1, <1>2, <1>3, CodesFit
  <1>5. e[3] = m.status /\ e[4] = m.data[1]
    BY <1>1, <1>2, <1>3 DEF Regular
  <1>6. MessageLength(e[3]) = m.length
    BY <1>5 DEF Regular
  <1>7. r = [status |-> m.status, length |-> m.length,
             data |-> <<IF m.length > 1 THEN m.data[1] ELSE 0,
                        IF m.length > 2 THEN e[5] ELSE 0>>]
    BY <1>5, <1>6 DEF MessageOf
  <1>8. ~Skipped(e)
    BY <1>4 DEF Skipped
  <1>9. CASE m.length = 3
    <2>1. r = [status |-> m.status, length |-> m.length,
               data |-> <<m.data[1], e[5]>>]
      BY <1>7, <1>9
    <2>2. [m.data EXCEPT ![2] = e[5]] = <<m.data[1], e[5]>>
      BY <1>3
    <2>3. [m EXCEPT !.data = <<m.data[1], e[5]>>] = r
      BY <1>3, <2>1
    <2>4. [m EXCEPT !.data[2] = e[5]] = r
      BY <1>3, <2>2, <2>3
    <2>. QED  BY <1>2, <1>5, <1>8, <1>9, <2>4 DEF p, e, Received
  <1>10. CASE m.length # 3
    <2>1. m.length < 3
      BY <1>3, <1>10
    <2>2. /\ (IF m.length > 1 THEN m.data[1] ELSE 0) = m.data[1]
          /\ (IF m.length > 2 THEN e[5] ELSE 0) = m.data[2]
      BY <1>3, <2>1 DEF Regular
    <2>3. r = m
      BY <1>3, <1>7, <2>2
    <2>. QED  BY <1>2, <1>5, <1>8, <1>10, <2>3 DEF p, e, Received
  <1>. QED  BY <1>9, <1>10

LEMMA ByteIsNat == \A x \in Byte : x \in Nat
  BY DEF Byte

LEMMA AtLeastTwo ==
  ASSUME NEW n \in Nat, n >= 1, n # 1
  PROVE  n >= 2 /\ 4 \in 0 .. 4 * n - 1 /\ 5 <= 4 * n
  OBVIOUS

LEMMA CalledBack ==
  ASSUME NEW m \in Message, Regular(m), NEW e \in Bytes5,
         e[3] = m.status, e[4] = m.data[1], told' = ToldOf(e)
  PROVE  Called(Received(m, e[5]))
  <1>. DEFINE g == Received(m, e[5])
  <1>1. /\ m.status \in Byte /\ m.length \in 1 .. 3 /\ m.data \in Byte \X Byte
        /\ m = [status |-> m.status, length |-> m.length, data |-> m.data]
        /\ m.data[1] \in Byte /\ m.data = <<m.data[1], m.data[2]>>
    BY DEF Message
  <1>2. g.status = m.status /\ g.data[1] = m.data[1]
    BY <1>1 DEF Received
  <1>3. m.length = 3 => g.data = <<m.data[1], e[5]>> /\ g.data[2] = e[5]
    BY <1>1 DEF Received
  <1>4. MessageType(m.status) \in {\h80, \h90, \hB0, \hE0} => m.length = 3
    <2>1. m.length = MessageLength(m.status)
      BY DEF Regular
    <2>0. m.status \in {\hF1, \hF2, \hF3} => MessageType(m.status) = \hF0
      BY DEF MessageType
    <2>2. MessageType(m.status) \in {\h80, \h90, \hB0, \hE0}
            => MessageLength(m.status) = 3
      BY <2>0 DEF MessageLength
    <2>. QED  BY <2>1, <2>2
  <1>. DEFINE type == MessageType(m.status)
              With(kind, args) ==
                told' = [kind |-> kind, channel |-> ChannelOf(m.status), args |-> args]
  <1>0. SUFFICES /\ type = \h80 => With("note_off", g.data)
                 /\ type = \h90 => With("note_on", g.data)
                 /\ type = \hB0 => With("control_change", g.data)
                 /\ type = \hC0 => With("program_change", <<g.data[1]>>)
                 /\ type = \hE0 => With("pitch_bend", <<g.data[1] + 128 * g.data[2]>>)
                 /\ type \in {\hA0, \hD0} => UNCHANGED told
    BY <1>2 DEF Called
  <1>. HIDE DEF g
  <1>. DEFINE Tell(kind, args) ==
                [kind |-> kind, channel |-> ChannelOf(m.status), args |-> args]
  <1>5. /\ type = \h80 => ToldOf(e) = Tell("note_off", <<e[4], e[5]>>)
        /\ type = \h90 => ToldOf(e) = Tell("note_on", <<e[4], e[5]>>)
        /\ type = \hB0 => ToldOf(e) = Tell("control_change", <<e[4], e[5]>>)
        /\ type = \hC0 => ToldOf(e) = Tell("program_change", <<e[4]>>)
        /\ type = \hE0 => ToldOf(e) = Tell("pitch_bend", <<Bend(e[4], e[5])>>)
        /\ type \in {\hA0, \hD0} => ToldOf(e) = told
    BY DEF ToldOf
  <1>6. type = \hE0 => Bend(e[4], e[5]) = g.data[1] + 128 * g.data[2]
    <2>. SUFFICES ASSUME type = \hE0
                  PROVE  Bend(e[4], e[5]) = g.data[1] + 128 * g.data[2]
      OBVIOUS
    <2>1. m.data[1] < 128
      BY DEF Regular
    <2>2. m.data[1] \in Nat
      BY <1>1, ByteIsNat
    <2>3. e[4] % 128 = m.data[1] /\ ~(e[4] >= 128)
      BY <2>1, <2>2
    <2>4. g.data[1] = m.data[1] /\ g.data[2] = e[5]
      BY <1>2, <1>3, <1>4
    <2>. QED  BY <2>3, <2>4 DEF Bend
  <1>7. type \in {\h80, \h90, \hB0} => g.data = <<e[4], e[5]>>
    BY <1>3, <1>4
  <1>. QED  BY <1>2, <1>5, <1>6, <1>7

LEMMA ArrivesThere ==
  ASSUME ParserType, Underway, NEW behind \in Behind, ParseEvent(behind),
         sent.by = "message", Regular(sent.what)
  PROVE  Arrives(sent.what)
  <1>. DEFINE m == sent.what
              e == EventAt(packet, pos, behind)
  <1>1. m \in Message /\ packet = Transmitted(<<EventOf(m)>>)
    BY DEF Underway, Message
  <1>2. pos = 0
    <2>1. Len(packet) = 4
      BY <1>1, MessagePacket
    <2>2. pos < 4 /\ pos \in Nat /\ pos % 4 = 0
      BY <2>1, Reads DEF ParserType, Underway
    <2>. QED  BY <2>2
  <1>3. /\ ~Skipped(e) /\ e[3] = m.status /\ e[4] = m.data[1] /\ e[5] = behind[1]
        /\ MessageOf(e) = Received(m, behind[1])
    BY <1>1, <1>2, MessageBack
  <1>4. e \in Bytes5
    BY Reads
  <1>5. ParseOther(e)
    BY <1>3 DEF ParseEvent, ParseSkipped
  <1>. HIDE DEF e, m
  <1>6. rx' = IF Len(rx) < BufferSize THEN Append(rx, Received(m, e[5])) ELSE rx
    BY <1>3, <1>5 DEF ParseOther, Enqueued
  <1>7. ASSUME m.status < SysexStart
        PROVE  Called(Received(m, e[5])) /\ UNCHANGED <<open, buf, heard>>
    <2>1. MessageType(e[3]) # \hF0
      <3>1. m.status \in Byte
        BY <1>1 DEF Message
      <3>2. m.status = MessageType(m.status) + ChannelOf(m.status)
            /\ ChannelOf(m.status) \in 0 .. 15 /\ m.status < 240
        BY <1>7, <3>1, Halves DEF SysexStart
      <3>. QED  BY <1>3, <3>2
    <2>2. told' = ToldOf(e) /\ UNCHANGED <<open, buf, heard>>
      BY <1>5, <2>1 DEF ParseOther
    <2>. QED  BY <1>1, <1>3, <1>4, <2>2, CalledBack DEF m
  <1>8. e[5] \in Stale
    BY <1>3 DEF Behind
  <1>. QED  BY <1>6, <1>7, <1>8 DEF Arrives, Received, m

-----------------------------------------------------------------------------
(***************************************************************************)
(* A packet of several events.  The parser's event at pos > 0 begins at    *)
(* byte pos of a memory of five-byte events: whichever byte of them it     *)
(* takes for the status is no status, or it takes a zero for the code.     *)
(***************************************************************************)
LEMMA NoStatus ==
  ASSUME NEW es \in Seq(Words5), Fragments(es), NEW i \in Nat,
         0 < i, i < 4 * Len(es), i % 4 = 0, NEW behind \in Behind
  PROVE  LET e == EventAt(Transmitted(es), i, behind)
         IN Skipped(e) \/ e[3] < 128
  <1>. DEFINE p == Transmitted(es)
              e == EventAt(p, i, behind)
              n == Len(es)
              k == 1 + (i + 2) \div 5
              r == (i + 2) % 5
  <1>1. n \in Nat /\ i + 4 <= 4 * n
    <2>1. n \in Nat
      OBVIOUS
    <2>. QED  BY <2>1
  <1>2. /\ Len(p) = 4 * n
        /\ \A t \in 0 .. 4 * n - 1 :
             /\ p[t + 1] = es[1 + t \div 5][1 + (t % 5)]
             /\ 1 + t \div 5 \in 1 .. n
    BY PacketBytes
  <1>. HIDE DEF p, n
  <1>3. e[1] = p[i + 1] /\ e[3] = p[i + 3]
    BY <1>1, <1>2 DEF EventAt
  <1>4. /\ e[1] = es[1 + i \div 5][1 + (i % 5)]
        /\ 1 + i \div 5 \in 1 .. n
    <2>1. i \in 0 .. 4 * n - 1
      BY <1>1
    <2>. QED  BY <1>2, <1>3, <2>1
  <1>5. e[3] = es[k][1 + r] /\ k \in 1 .. n
    <2>1. i + 2 \in 0 .. 4 * n - 1 /\ i + 2 + 1 = i + 3
      BY <1>1
    <2>. QED  BY <1>2, <1>3, <2>1
  <1>. HIDE DEF e
  <1>6. i + 2 = 5 * (k - 1) + r /\ r \in 0 .. 4 /\ k \in Nat
    <2>1. i + 2 \in Nat
      OBVIOUS
    <2>. QED  BY <2>1
  <1>. HIDE DEF k, r
  <1>7. /\ \A j \in 1 .. n : es[j][1] \in {4, 5} /\ es[j][2] = 0
        /\ \A j \in 2 .. n : es[j][3] < 128
        /\ \A j \in 1 .. n - 1 : es[j][5] < 128
    BY DEF Fragments, n
  <1>0. SUFFICES Skipped(e) \/ e[3] < 128
    BY DEF e, p
  <1>8. CASE r = 0
    BY <1>5, <1>7, <1>8
  <1>9. CASE r = 1
    BY <1>5, <1>7, <1>9
  <1>10. CASE r = 2
    <2>1. k \in 2 .. n
      BY <1>1, <1>5, <1>6, <1>10
    <2>. QED  BY <1>5, <1>7, <1>10, <2>1
  <1>11. CASE r = 3
    <2>1. i = 5 * (k - 1) + 1 /\ k - 1 \in Nat
      BY <1>5, <1>6, <1>11
    <2>2. i % 5 = 1
      BY <2>1
    <2>3. e[1] = 0
      BY <1>4, <1>7, <2>2
    <2>. QED  BY <2>3 DEF Skipped
  <1>12. CASE r = 4
    <2>1. k \in 1 .. n - 1
      BY <1>1, <1>5, <1>6, <1>12
    <2>. QED  BY <1>5, <1>7, <1>12, <2>1
  <1>. QED  BY <1>6, <1>8, <1>9, <1>10, <1>11, <1>12

LEMMA PieceThere ==
  ASSUME ParserType, Underway, NEW behind \in Behind, ParseEvent(behind),
         sent.by = "sysex", Fragments(sent.what)
  PROVE  PieceArrives(sent.what)
  <1>. DEFINE es == sent.what
              e == EventAt(packet, pos, behind)
  <1>1. es \in Seq(Words5) /\ packet = Transmitted(es)
    BY DEF Underway, Words5
  <1>2. /\ e \in Bytes5 /\ pos < Len(packet) /\ pos \in Nat /\ pos % 4 = 0
        /\ ParseSkipped(e) \/ ParseOther(e)
    BY Reads DEF ParserType, Underway, ParseEvent
  <1>3. /\ Len(packet) = 4 * Len(es)
        /\ \A t \in 0 .. 4 * Len(es) - 1 :
             packet[t + 1] = es[1 + t \div 5][1 + (t % 5)]
    BY <1>1, PacketBytes
  <1>4. CASE pos > 0
    <2>1. Skipped(e) \/ e[3] < 128
      BY <1>1, <1>2, <1>3, <1>4, NoStatus
    <2>2. UNCHANGED <<open, buf, told, heard>>
      <3>1. CASE ParseSkipped(e)
        BY <3>1 DEF ParseSkipped
      <3>2. CASE ParseOther(e)
        <4>1. e[3] < 128 /\ e[3] \in Byte
          BY <1>2, <2>1, <3>2 DEF ParseOther, Bytes5
        <4>2. MessageType(e[3]) < 128
          <5>1. \A x \in Byte : x < 128 => 16 * (x \div 16) < 128
            BY DEF Byte
          <5>2. 16 * (e[3] \div 16) < 128
            BY <4>1, <5>1
          <5>. QED  BY <5>2 DEF MessageType
        <4>3. ToldOf(e) = told
          BY <4>2 DEF ToldOf
        <4>. QED  BY <3>2, <4>2, <4>3 DEF ParseOther
      <3>. QED  BY <1>2, <3>1, <3>2
    <2>. QED  BY <1>4, <2>2 DEF PieceArrives
  <1>5. CASE pos = 0
    <2>0. /\ Len(es) \in Nat /\ Len(es) >= 1 /\ es[1][1] \in {4, 5}
          /\ es[1][3] = SysexStart
      <3>1. Len(es) \in Nat /\ Len(es) # 0
        BY <1>1 DEF Fragments
      <3>2. 1 \in 1 .. Len(es)
        BY <3>1
      <3>. QED  BY <3>1, <3>2 DEF Fragments
    <2>1. packet[1] = es[1][1] /\ packet[3] = es[1][3] /\ packet[4] = es[1][4]
      <3>1. 0 \in 0 .. 4 * Len(es) - 1 /\ 2 \in 0 .. 4 * Len(es) - 1
            /\ 3 \in 0 .. 4 * Len(es) - 1
        BY <2>0
      <3>2. packet[0 + 1] = es[1 + 0 \div 5][1 + (0 % 5)]
        BY <1>3, <3>1
      <3>3. packet[2 + 1] = es[1 + 2 \div 5][1 + (2 % 5)]
        BY <1>3, <3>1
      <3>4. packet[3 + 1] = es[1 + 3 \div 5][1 + (3 % 5)]
        BY <1>3, <3>1
      <3>. QED  BY <3>2, <3>3, <3>4
    <2>2. e[1] = packet[1] /\ e[3] = packet[3] /\ e[4] = packet[4]
      BY <1>3, <1>5, <2>0 DEF EventAt
    <2>3. e[5] \in IF Len(es) = 1 THEN Stale ELSE {es[1][5]}
      <3>1. CASE Len(es) = 1
        <4>1. e[5] = behind[1]
          BY <1>3, <1>5, <3>1 DEF EventAt
        <4>. QED  BY <3>1, <4>1 DEF Behind
      <3>2. CASE Len(es) # 1
        <4>1. 4 \in 0 .. 4 * Len(es) - 1 /\ 5 <= Len(packet)
          <5>1. Len(packet) = 4 * Len(es)
            BY <1>3
          <5>. QED  BY <2>0, <3>2, <5>1, AtLeastTwo
        <4>3. e[5] = packet[5]
          BY <1>5, <4>1 DEF EventAt
        <4>2. packet[4 + 1] = es[1 + 4 \div 5][1 + (4 % 5)]
          BY <1>3, <4>1
        <4>. QED  BY <3>2, <4>2, <4>3
      <3>. QED  BY <3>1, <3>2
    <2>4. /\ e[1] \in {4, 5} /\ e[3] = SysexStart /\ e[4] = es[1][4]
      BY <2>0, <2>1, <2>2
    <2>5. ParseSysex(e)
      <3>1. ~Skipped(e) /\ MessageType(e[3]) = \hF0
        BY <2>4 DEF Skipped, MessageType, SysexStart
      <3>. QED  BY <1>2, <3>1 DEF ParseSkipped, ParseOther
    <2>6. heard' = (IF Complete THEN <<>> ELSE heard) \o <<SysexStart, es[1][4], e[5]>>
      BY <2>4, <2>5 DEF ParseSysex
    <2>. HIDE DEF e
    <2>. QED  BY <1>5, <2>3, <2>6 DEF PieceArrives
  <1>. QED  BY <1>2, <1>4, <1>5

(***************************************************************************)
(* A message that a midi_send function puts into a packet is queued and    *)
(* called back as it was sent but for its third byte; and of a system      *)
(* exclusive payload of any number of events the receiver takes the first  *)
(* event and nothing else, not its end marker either: whatever came before *)
(* and whatever lies behind the packet.                                    *)
(***************************************************************************)
THEOREM WhatReachesTheReceiver ==
  ASSUME \A m \in Messages : Regular(m), \A es \in Payloads : Fragments(es)
  PROVE  ParserSpec => MessagesArrive
<1>. DEFINE Inv == ParserType /\ PayloadsAsHeard /\ Underway
            Good == /\ sent.by = "message" => Arrives(sent.what)
                    /\ sent.by = "sysex" => PieceArrives(sent.what)
<1>1. Inv /\ [ParserNext]_parserVars => Inv'
  BY ParserStep, UnderwayStep
<1>2. Inv /\ [ParserNext]_parserVars => [pos' > pos => Good]_parserVars
  <2>. SUFFICES ASSUME Inv, ParserNext, pos' > pos
                PROVE  Good
    OBVIOUS
  <2>1. PICK behind \in Behind : ParseEvent(behind)
    <3>1. pos' = 0 \/ pos' = pos \/ \E behind \in Behind : ParseEvent(behind)
      BY DEF ParserNext, ArriveMessage, ArriveSysex, ArriveOther, Arrive, Receive,
             Restart
    <3>2. pos \in Nat
      BY DEF ParserType
    <3>. QED  BY <3>1, <3>2
  <2>2. sent.by = "message" => Arrives(sent.what)
    <3>1. sent.by = "message" => Regular(sent.what)
      BY DEF Underway
    <3>. QED  BY <2>1, <3>1, ArrivesThere
  <2>3. sent.by = "sysex" => PieceArrives(sent.what)
    <3>1. sent.by = "sysex" => Fragments(sent.what)
      BY DEF Underway
    <3>. QED  BY <2>1, <3>1, PieceThere
  <2>. QED  BY <2>2, <2>3
<1>3. ParserInit => Inv
  BY ParserInitInv DEF ParserInit, Underway, Unknown
<1>. QED  BY <1>1, <1>2, <1>3, PTL DEF ParserSpec, MessagesArrive
=============================================================================
