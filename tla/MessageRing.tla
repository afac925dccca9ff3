----------------------------- MODULE MessageRing -----------------------------
(***************************************************************************)
(* The ring buffer behind every queue of the program: the rx and tx        *)
(* buffers of a virtual-wire port (midi_vw_buffer_put and _get) and, with  *)
(* the same code under another name, the event buffers of midi.c           *)
(* (midi_buffer_put and _get).  Size is far below 2^16, so the uint16_t    *)
(* fields never overflow and are naturals here.                            *)
(***************************************************************************)
EXTENDS Naturals, Sequences

CONSTANTS
  Size,              \* MIDI_VW_MESSAGE_BUFFER_SIZE, MIDI_BUFFER_SIZE
  Message, Zero      \* messages, and the all-zero one that memset leaves

ASSUME SizeAssumption == Size \in Nat \ {0}
ASSUME ZeroAssumption == Zero \in Message

VARIABLES messages, head, tail, count,
          out                          \* the reader's copy of the last message

vars == <<messages, head, tail, count, out>>

Slot == 0 .. Size - 1

Init ==
  /\ messages = [s \in Slot |-> Zero]
  /\ head = 0 /\ tail = 0 /\ count = 0
  /\ out = Zero

IsEmpty == count = 0
IsFull_Late == count > Size             \* mutant: one too many

IsFull  == count >= Size

Put(m) ==
  /\ ~IsFull
  /\ messages' = [messages EXCEPT ![head] = m]
  /\ head' = (head + 1) % Size
  /\ count' = count + 1
  /\ UNCHANGED <<tail, out>>

Get_NoCount ==                         \* mutant: the slot stays taken
  /\ ~IsEmpty
  /\ out' = messages[tail]
  /\ tail' = (tail + 1) % Size
  /\ UNCHANGED <<messages, head, count>>

Get ==
  /\ ~IsEmpty
  /\ out' = messages[tail]
  /\ tail' = (tail + 1) % Size
  /\ count' = count - 1
  /\ UNCHANGED <<messages, head>>

Clear ==                               \* memset of the port around the buffer
  /\ messages' = [s \in Slot |-> Zero]
  /\ head' = 0 /\ tail' = 0 /\ count' = 0
  /\ UNCHANGED out

Next == (\E m \in Message : Put(m)) \/ Get \/ Clear

Spec == Init /\ [][Next]_vars

-----------------------------------------------------------------------------
TypeOK ==
  /\ messages \in [Slot -> Message]
  /\ head \in Slot /\ tail \in Slot /\ count \in 0 .. Size
  /\ out \in Message

(***************************************************************************)
(* head, tail and count agree: the slot to write next is count slots after *)
(* the slot to read next, also when the buffer is full or has wrapped, so  *)
(* a write never hits a message that is still to be read.                  *)
(***************************************************************************)
IndicesAgree == head = (tail + count) % Size

(* The messages in the buffer, oldest first.                                 *)
Contents == [k \in 1 .. count |-> messages[(tail + (k - 1)) % Size]]

Fifo == INSTANCE BoundedFifo WITH queue <- Contents

(***************************************************************************)
(* The ring buffer is a bounded queue: nothing is overwritten, lost,       *)
(* duplicated or reordered, whatever mixture of puts and gets.             *)
(***************************************************************************)
IsFifo == Fifo!Spec
=============================================================================
