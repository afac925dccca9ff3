----------------------------- MODULE SysexSender -----------------------------
(***************************************************************************)
(* midi_send_sysex of midi.c: a payload is cut into USB events by a loop   *)
(* whose three ways to fill an event decide where the end marker goes.     *)
(* Byte k of the payload is the number k (1 <= k <= length), so that order *)
(* and loss are visible; the loop never looks at the bytes.                *)
(***************************************************************************)
EXTENDS MidiCodec

CONSTANTS
  Lengths,           \* lengths of the payloads given to midi_send_sysex: a
                     \* uint16_t, as is index, which never exceeds length
  MaxEvents          \* the size of the array events

ASSUME LengthsAssumption ==
  MaxEvents \in Nat \ {0} /\ Lengths \subseteq Nat \ {0}

VARIABLES
  length, index,     \* the arguments' length, data_index
  events,            \* events[0 .. event_count - 1]
  pc                 \* "idle", "loop", "sent", "overrun"

vars == <<length, index, events, pc>>

Init == length = 0 /\ index = 0 /\ events = <<>> /\ pc = "idle"

Begin(n) ==
  /\ pc \in {"idle", "sent"}
  /\ length' = n
  /\ IF n = 1
     THEN /\ events' = <<Event(4, SysexStart, 1, SysexEnd)>>
          /\ index' = 0 /\ pc' = "sent"
     ELSE /\ events' = <<Event(4, SysexStart, 1, 2)>>
          /\ index' = 2 /\ pc' = "loop"

Remaining == (length - index) % 256            \* a uint8_t

Turn_Skips ==                          \* mutant: the index runs one ahead
  CASE Remaining >= 3 -> [event |-> Event(4, index + 1, index + 2, index + 3),
                          took |-> 4]
    [] Remaining = 2  -> [event |-> Event(4, index + 1, index + 2, SysexEnd),
                          took |-> 2]
    [] OTHER          -> [event |-> Event(4, index + 1, SysexEnd, 0), took |-> 1]

Turn ==                                \* one turn of the loop
  CASE Remaining >= 3 -> [event |-> Event(4, index + 1, index + 2, index + 3),
                          took |-> 3]
    [] Remaining = 2  -> [event |-> Event(4, index + 1, index + 2, SysexEnd),
                          took |-> 2]
    [] OTHER          -> [event |-> Event(4, index + 1, SysexEnd, 0), took |-> 1]

InLoop == pc = "loop" /\ index < length - 1

LastByte == index = length - 1

Room == Len(events) < MaxEvents

More_Never ==                          \* mutant: the index stands still
  /\ InLoop
  /\ UNCHANGED vars

More ==
  /\ InLoop /\ Room
  /\ events' = Append(events, Turn.event)
  /\ index' = index + Turn.took
  /\ UNCHANGED <<length, pc>>

Finish_Always ==                       \* mutant: a last event in any case
  /\ pc = "loop" /\ ~InLoop /\ ~(LastByte /\ ~Room)
  /\ events' = Append(events, Event(5, index + 1, SysexEnd, 0))
  /\ pc' = "sent"
  /\ UNCHANGED <<length, index>>

Finish ==                              \* the last byte, then usb_transmit
  /\ pc = "loop" /\ ~InLoop /\ (LastByte => Room)
  /\ events' = IF LastByte
               THEN Append(events, Event(5, index + 1, SysexEnd, 0))
               ELSE events
  /\ pc' = "sent"
  /\ UNCHANGED <<length, index>>

(* The code does not test for room: it writes behind the array, over other   *)
(* locals and the return address.  Nothing is known of what it does then.    *)
Overrun ==
  /\ InLoop \/ (pc = "loop" /\ LastByte)
  /\ ~Room
  /\ pc' = "overrun"
  /\ UNCHANGED <<length, index, events>>

Next == (\E n \in Lengths : Begin(n)) \/ More \/ Finish \/ Overrun

Spec == Init /\ [][Next]_vars

FairSpec == Spec /\ WF_vars(More \/ Finish \/ Overrun)

-----------------------------------------------------------------------------
(* The MIDI bytes of the events, one after the other: the start marker is at *)
(* position 0, byte n of the payload should be at position n.                *)
Position(k, i) == 3 * (k - 1) + i - 1              \* of byte i of event k

Taken == IF pc = "sent" THEN length ELSE index     \* bytes of the payload

(***************************************************************************)
(* At every turn of the loop, and when it has ended, the events carry the  *)
(* payload in order, without a gap or a repetition, and complete at the    *)
(* end, whichever of the three ways the events were filled.  Nothing but   *)
(* end markers and padding comes after it.  For payloads of up to 257      *)
(* bytes: of more, remaining does not fit its uint8_t.                     *)
(***************************************************************************)
PayloadInOrder ==
  pc # "idle" /\ length < 258 =>
    /\ Taken < 3 * Len(events)
    /\ \A k \in DOMAIN events, i \in 1 .. 3 :
         LET n == Position(k, i) IN
         events[k][2 + i] \in IF n = 0 THEN {SysexStart}
                              ELSE IF n <= Taken THEN {n} ELSE {SysexEnd, 0}

(***************************************************************************)
(* The array holds the events of exactly the payloads of up to             *)
(* 3 * MaxEvents - 1 bytes (191 in the code); every longer one, whatever   *)
(* becomes of its remainder, is written past it before anything is sent.   *)
(***************************************************************************)
EventsFit ==
  /\ Len(events) <= MaxEvents
  /\ pc = "sent" => length < 3 * MaxEvents
  /\ pc = "overrun" => length >= 3 * MaxEvents

(***************************************************************************)
(* What is sent has one end marker behind the payload and then nothing,    *)
(* unless the payload filled its events exactly (length 2, 5, 8, ...),     *)
(* when none follows: a receiver never sees one payload as two.            *)
(*                                                                         *)
(* Before that: the first event after the first one that has an end marker *)
(* is the first one for which remaining, modulo 256, is below three.  For  *)
(* up to 257 bytes it is the last one; with 258 it is the second, which    *)
(* ends the message after three bytes, and so on for longer payloads.      *)
(***************************************************************************)
FewerThanThree(k) == (length - (3 * k - 4)) % 256 < 3     \* for event k

EndComesLast ==
  /\ pc = "sent" =>
       /\ \A k \in DOMAIN events, i \in 1 .. 3 :
            Position(k, i) > length =>
              events[k][2 + i] = IF Position(k, i) = length + 1 THEN SysexEnd ELSE 0
       /\ 3 * Len(events) = length + 1 <=> length % 3 = 2
  /\ \A k \in 2 .. Len(events) :
       (\A j \in 2 .. k - 1 : ~FewerThanThree(j)) =>
         (FewerThanThree(k) <=> SysexEnd \in {events[k][4], events[k][5]})

(***************************************************************************)
(* midi_send_sysex reaches usb_transmit, or the end of its array, for      *)
(* every length.                                                           *)
(***************************************************************************)
CallReturns == (pc = "loop") ~> (pc \in {"sent", "overrun"})
=============================================================================
