------------------------------ MODULE MidiParser ------------------------------
(***************************************************************************)
(* The receiving half of midi.c: midi_process_usb_packet steps through a   *)
(* packet, midi_process_midi_event queues a message for every event, calls *)
(* the application back and puts system exclusive payloads together.       *)
(*                                                                         *)
(* No function of the program calls midi_process_usb_packet; the packets   *)
(* are what a sender could have put into usb_rx_buffer.                    *)
(***************************************************************************)
EXTENDS MidiCodec, FiniteSetsExt

CONSTANTS
  Messages,          \* messages that a peer passes to midi_send_message
  Payloads,          \* the arrays of events that midi_send_sysex transmits
  Packets,           \* other packets
  Stale,             \* bytes that may lie behind a packet
  BufferSize,        \* MIDI_BUFFER_SIZE
  SysexSize,         \* size of sysex_buffer
  MaxHeard           \* bound: no packet arrives once heard is as long
                     \* without an end marker

ASSUME ParserAssumption ==
  /\ Messages \subseteq [status : Byte, length : 1 .. 3, data : Byte \X Byte]
  /\ Payloads \subseteq Seq(Byte \X Byte \X Byte \X Byte \X Byte)
  /\ Packets \subseteq Seq(Byte) /\ Stale \subseteq Byte
  /\ BufferSize \in Nat /\ SysexSize \in Nat \ {0} /\ MaxHeard \in Nat

VARIABLES
  packet, pos,       \* the packet and the offset i of the next event
  sent,              \* what a peer made it from (history)
  rx,                \* rx_buffer
  open, buf,         \* in_sysex, sysex_buffer[0 .. sysex_length - 1]
  told,              \* the last callback
  heard              \* the bytes of the events with a system byte, from the
                     \* event behind the last end marker, or with it, on (history)

parserVars == <<packet, pos, sent, rx, open, buf, told, heard>>

Unknown == [by |-> "other"]
Nothing == [kind |-> "none"]

ParserInit ==
  /\ packet = <<>> /\ pos = 0 /\ sent = Unknown
  /\ rx = <<>> /\ open = FALSE /\ buf = <<>>
  /\ told = Nothing /\ heard = <<>>

Parsed == pos >= Len(packet)

Complete == SysexEnd \in Range(heard)

Arrive(p, from) ==
  /\ Parsed /\ (Complete \/ Len(heard) < MaxHeard)
  /\ packet' = p /\ pos' = 0 /\ sent' = from
  /\ UNCHANGED <<rx, open, buf, told, heard>>

ArriveMessage ==
  \E m \in Messages :
    Arrive(Transmitted(<<EventOf(m)>>), [by |-> "message", what |-> m])

ArriveSysex ==
  \E es \in Payloads : Arrive(Transmitted(es), [by |-> "sysex", what |-> es])

ArriveOther == \E p \in Packets : Arrive(p, Unknown)

-----------------------------------------------------------------------------
Bend(d1, d2) ==                        \* d1 | (d2 << 7)
  (d1 % 128) + 128 * (IF d1 >= 128 /\ d2 % 2 = 0 THEN d2 + 1 ELSE d2)

(* Callbacks for channel messages: kinds without a case get none.            *)
ToldOf(event) ==
  LET type == MessageType(event[3])
      Tell(kind, args) ==
        [kind |-> kind, channel |-> ChannelOf(event[3]), args |-> args]
  IN CASE type = \h80 -> Tell("note_off", <<event[4], event[5]>>)
       [] type = \h90 -> Tell("note_on", <<event[4], event[5]>>)
       [] type = \hB0 -> Tell("control_change", <<event[4], event[5]>>)
       [] type = \hC0 -> Tell("program_change", <<event[4]>>)
       [] type = \hE0 -> Tell("pitch_bend", <<Bend(event[4], event[5])>>)
       [] OTHER -> told

Enqueued(event) ==
  IF Len(rx) < BufferSize THEN Append(rx, MessageOf(event)) ELSE rx

OpenedBuf_Kept == buf                  \* mutant: sysex_length is not reset

OpenedBuf == IF open THEN buf ELSE <<>>    \* after the test of in_sysex

(* The bytes before the first end marker.                                    *)
Body(event) ==
  IF event[3] = SysexEnd THEN <<>>
  ELSE IF event[4] = SysexEnd THEN <<event[3]>>
  ELSE IF event[5] = SysexEnd THEN <<event[3], event[4]>>
  ELSE <<event[3], event[4], event[5]>>

Ends(event) == SysexEnd \in {event[3], event[4], event[5]}

Kept(event) ==                         \* what does not fit is dropped
  LET whole == OpenedBuf \o Body(event)
  IN SubSeq(whole, 1, Min({Len(whole), SysexSize}))

ParseSysex(event) ==
  /\ open' = ~Ends(event)
  /\ buf' = Kept(event)
  /\ told' = IF Ends(event) THEN [kind |-> "sysex", args |-> buf'] ELSE told
  /\ heard' = (IF Complete THEN <<>> ELSE heard)
                \o <<event[3], event[4], event[5]>>

ParseSkipped(event) ==
  /\ Skipped(event)
  /\ UNCHANGED <<rx, open, buf, told, heard>>

ParseOther(event) ==
  /\ ~Skipped(event)
  /\ rx' = Enqueued(event)
  /\ IF MessageType(event[3]) = \hF0
     THEN ParseSysex(event)
     ELSE told' = ToldOf(event) /\ UNCHANGED <<open, buf, heard>>

ParseEvent(behind) ==
  /\ ~Parsed
  /\ LET event == EventAt(packet, pos, behind) IN
       ParseSkipped(event) \/ ParseOther(event)
  /\ pos' = pos + 4
  /\ UNCHANGED <<packet, sent>>

Receive ==                             \* midi_receive_message
  /\ Parsed /\ rx # <<>>
  /\ rx' = Tail(rx)
  /\ UNCHANGED <<packet, pos, sent, open, buf, told, heard>>

Restart ==                             \* midi_deinit, midi_init
  /\ Parsed
  /\ rx' = <<>> /\ open' = FALSE /\ buf' = <<>>
  /\ told' = Nothing /\ heard' = <<>>
  /\ UNCHANGED <<packet, pos, sent>>

Behind == [1 .. 4 -> Stale]            \* an event begins inside the packet

ParserNext ==
  \/ ArriveMessage \/ ArriveSysex \/ ArriveOther
  \/ \E behind \in Behind : ParseEvent(behind)
  \/ Receive \/ Restart

ParserSpec == ParserInit /\ [][ParserNext]_parserVars
-----------------------------------------------------------------------------
(***************************************************************************)
(* A payload under assembly, or reported, is what was heard since the last *)
(* end marker, up to the next one or to the end of sysex_buffer: nothing   *)
(* of an earlier payload that was ended, nothing lost or repeated in       *)
(* between, whatever packets are cut off, skipped or read past.            *)
(*                                                                         *)
(* What was heard is not what was sent.  Only events that begin with a     *)
(* system byte are heard, so the events that continue a payload are lost   *)
(* (chat.txt:149 promises "Full System Exclusive message support with      *)
(* proper fragmentation"); real-time bytes are heard as payload; and a new *)
(* F0 while a payload is open is heard as a part of it: payloads run       *)
(* together until some event carries an end marker.                        *)
(***************************************************************************)
PayloadsAsHeard ==
  /\ open <=> heard # <<>> /\ ~Complete
  /\ Len(buf) <= SysexSize /\ Len(buf) <= Len(heard)
  /\ \A k \in DOMAIN buf : buf[k] = heard[k] /\ buf[k] # SysexEnd
  /\ Len(buf) < SysexSize =>
       IF Complete THEN heard[Len(buf) + 1] = SysexEnd ELSE Len(buf) = Len(heard)
  /\ ~open /\ told.kind = "sysex" => told.args = buf

(***************************************************************************)
(* What reaches the receiver of a packet that a peer has sent, also when   *)
(* other packets, complete or not, came before.  Of a message: all but its *)
(* third byte, because an event has five bytes in memory and four in a     *)
(* packet; what is queued and called back has the byte behind the packet   *)
(* there.  A full buffer keeps what it has.                                *)
(***************************************************************************)
Called(m) ==
  LET type == MessageType(m.status)
      With(kind, args) ==
        told' = [kind |-> kind, channel |-> ChannelOf(m.status), args |-> args]
  IN /\ type = \h80 => With("note_off", m.data)
     /\ type = \h90 => With("note_on", m.data)
     /\ type = \hB0 => With("control_change", m.data)
     /\ type = \hC0 => With("program_change", <<m.data[1]>>)
     /\ type = \hE0 => With("pitch_bend", <<m.data[1] + 128 * m.data[2]>>)
     /\ type \in {\hA0, \hD0} => UNCHANGED told

Arrives(m) ==
  \E third \in Stale :
    LET got == IF m.length = 3 THEN [m EXCEPT !.data[2] = third] ELSE m IN
      /\ rx' = IF Len(rx) < BufferSize THEN Append(rx, got) ELSE rx
      /\ m.status < SysexStart => Called(got) /\ UNCHANGED <<open, buf, heard>>

(***************************************************************************)
(* Of a payload: the start marker and the first two bytes (one, if there   *)
(* is a single event, and the byte behind the packet).  The parser steps   *)
(* by four through structs of five bytes, so it meets no other event where *)
(* it begins, but every fifth, which begins with data: all the others are  *)
(* skipped or queued as messages of one byte; its end marker is not met.   *)
(***************************************************************************)
PieceArrives(es) ==
  IF pos = 0
  THEN \E third \in IF Len(es) = 1 THEN Stale ELSE {es[1][5]} :
         heard' = (IF Complete THEN <<>> ELSE heard)
                    \o <<SysexStart, es[1][4], third>>
  ELSE UNCHANGED <<open, buf, told, heard>>

MessagesArrive ==
  [][pos' > pos =>
       /\ sent.by = "message" => Arrives(sent.what)
       /\ sent.by = "sysex" => PieceArrives(sent.what)]_parserVars
=============================================================================
