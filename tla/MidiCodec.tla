------------------------------ MODULE MidiCodec ------------------------------
(***************************************************************************)
(* The pure part of midi.c: the length and code index of a MIDI message,   *)
(* its USB event, and the bytes of events in memory.                       *)
(*                                                                         *)
(* An event is the struct usb_midi_event_t as it lies in memory, five      *)
(* bytes: code_index, cable_number, midi_data[0..2].  Packets are counted  *)
(* and stepped through four bytes at a time.  A message carries the two    *)
(* data bytes that events can hold (data[2] is never used).                *)
(***************************************************************************)
EXTENDS MidiFilter, SequencesExt

SysexStart == \hF0
SysexEnd   == \hF7

MessageLength(status) ==
  CASE MessageType(status) \in {\h80, \h90, \hA0, \hB0, \hE0} -> 3
    [] MessageType(status) \in {\hC0, \hD0} -> 2
    [] status = \hF2 -> 3
    [] status \in {\hF1, \hF3} -> 2
    [] OTHER -> 1

CodeIndex(status) ==
  CASE MessageType(status) \in \h80 .. \hE0 -> status \div 16
    [] MessageType(status) = \hF0 -> 4
    [] OTHER -> 15

Event(code, d0, d1, d2) == <<code, 0, d0, d1, d2>>

EventOf_NoData(m) ==                   \* mutant: length > 2 for length > 1
  Event(CodeIndex(m.status), m.status,
        IF m.length > 2 THEN m.data[1] ELSE 0,
        IF m.length > 2 THEN m.data[2] ELSE 0)

EventOf(m) ==                          \* midi_send_message
  Event(CodeIndex(m.status), m.status,
        IF m.length > 1 THEN m.data[1] ELSE 0,
        IF m.length > 2 THEN m.data[2] ELSE 0)

(* What usb_transmit is given: of the memory of the events, 5 bytes for each, *)
(* the first 4 for each.                                                     *)
Transmitted(events) ==
  [k \in 1 .. 4 * Len(events) |-> events[1 + (k - 1) \div 5][1 + ((k - 1) % 5)]]

(* The struct overlaid on data + i; behind the packet lies whatever was there. *)
EventAt(packet, i, behind) ==
  [b \in 1 .. 5 |-> IF i + b <= Len(packet) THEN packet[i + b]
                    ELSE behind[i + b - Len(packet)]]

MessageOf(event) ==                    \* midi_process_midi_event, fields not
  LET length == MessageLength(event[3]) IN              \* assigned are zero
  [status |-> event[3], length |-> length,
   data |-> <<IF length > 1 THEN event[4] ELSE 0,
              IF length > 2 THEN event[5] ELSE 0>>]

(* An empty or oversized code index makes the parser skip the event.         *)
Skipped(event) == event[1] = 0 \/ event[1] > 15
=============================================================================
