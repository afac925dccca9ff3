------------------------------ MODULE MidiFilter ------------------------------
(***************************************************************************)
(* The pure part of midi_virtual_wire.c: which messages a connection drops *)
(* (midi_vw_should_filter_message) and how it rewrites the channel of the  *)
(* ones it lets through (the tail of midi_vw_route_message).               *)
(*                                                                         *)
(* Of a message only the status byte is kept: neither function reads the   *)
(* data bytes.  A filter is the SET of the message classes whose bit is    *)
(* set in midi_vw_filter_t, so MIDI_VW_FILTER_NONE is {} and               *)
(* MIDI_VW_FILTER_ALL is Classes.                                          *)
(***************************************************************************)
EXTENDS Integers

Byte == 0 .. 255

Classes == {"note", "control", "program", "pitchbend", "sysex", "realtime"}

AnyChannel == \hFF

MessageType(status) == 16 * (status \div 16)      \* status & 0xF0
ChannelOf(status)   == status % 16                \* status & 0x0F

ClassesOf_NoNoteOff(status) ==         \* mutant: one case label missing
  CASE MessageType(status) = \h90 -> {"note"}
    [] MessageType(status) = \hB0 -> {"control"}
    [] MessageType(status) = \hC0 -> {"program"}
    [] MessageType(status) = \hE0 -> {"pitchbend"}
    [] MessageType(status) = \hF0 -> {"sysex"}
    [] OTHER -> {}

(***************************************************************************)
(* The filter bits that the switch tests for this status byte.  The case   *)
(* of SYSTEM_EXCLUSIVE is tested on the masked type, before the default    *)
(* case looks for the real-time messages.                                  *)
(***************************************************************************)
ClassesOf(status) ==
  CASE MessageType(status) \in {\h80, \h90} -> {"note"}
    [] MessageType(status) = \hB0           -> {"control"}
    [] MessageType(status) = \hC0           -> {"program"}
    [] MessageType(status) = \hE0           -> {"pitchbend"}
    [] MessageType(status) = \hF0           -> {"sysex"}
    [] OTHER -> IF status >= \hF8 THEN {"realtime"} ELSE {}

ShouldFilter_Both(filter, sourceChannel, status) ==    \* mutant: && for ||
  /\ filter # {}
  /\ ClassesOf(status) \cap filter # {}
  /\ sourceChannel # AnyChannel => ChannelOf(status) # sourceChannel

ShouldFilter(filter, sourceChannel, status) ==
  /\ filter # {}
  /\ \/ sourceChannel # AnyChannel /\ ChannelOf(status) # sourceChannel
     \/ ClassesOf(status) \cap filter # {}

Remap_System(status, destChannel) ==   \* mutant: rewrites system messages
  IF destChannel # AnyChannel
  THEN MessageType(status) + (destChannel % 16)
  ELSE status

Remap(status, destChannel) ==
  IF destChannel # AnyChannel /\ MessageType(status) # \hF0
  THEN MessageType(status) + (destChannel % 16)
  ELSE status
=============================================================================
