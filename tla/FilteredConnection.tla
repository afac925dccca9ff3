------------------------- MODULE FilteredConnection -------------------------
(***************************************************************************)
(* A message in front of a connection: the filter gains bits, the message  *)
(* changes, and it passes the connection when the connection lets it.      *)
(***************************************************************************)
EXTENDS MidiFilter

CONSTANT Channels                  \* values of source_channel and dest_channel

ASSUME ChannelsAssumption == Channels \subseteq Byte

VARIABLES filter, sch, dch, status

filterVars == <<filter, sch, dch, status>>

FilterInit ==
  /\ filter = {} /\ status = 0
  /\ sch \in Channels /\ dch \in Channels

SetBit(class) == filter' = filter \cup {class} /\ UNCHANGED <<sch, dch, status>>

OtherMessage ==
  /\ status < 255 /\ status' = status + 1
  /\ UNCHANGED <<filter, sch, dch>>

Pass ==
  /\ ~ShouldFilter(filter, sch, status)
  /\ status' = Remap(status, dch)
  /\ UNCHANGED <<filter, sch, dch>>

FilterNext == (\E class \in Classes : SetBit(class)) \/ OtherMessage \/ Pass

FilterSpec == FilterInit /\ [][FilterNext]_filterVars

-----------------------------------------------------------------------------
(***************************************************************************)
(* The status bytes that each filter bit drops.  The code looks at the     *)
(* upper half of the byte, so all system messages go by the bit of system  *)
(* exclusive ones, real-time messages too, and MIDI_VW_FILTER_REALTIME     *)
(* names nothing.                                                          *)
(***************************************************************************)
Named(class) ==
  CASE class = "note"      -> \h80 .. \h9F
    [] class = "control"   -> \hB0 .. \hBF
    [] class = "program"   -> \hC0 .. \hCF
    [] class = "pitchbend" -> \hE0 .. \hEF
    [] class = "sysex"     -> \hF0 .. \hFF
    [] class = "realtime"  -> {}

(***************************************************************************)
(* On a connection from any channel, or from the channel that the lower    *)
(* half of the status byte gives, a message is dropped exactly when a bit  *)
(* that names it is set.                                                   *)
(***************************************************************************)
DropsWhatItNames ==
  sch \in {AnyChannel, ChannelOf(status)} =>
    (ShouldFilter(filter, sch, status) <=> \E c \in filter : status \in Named(c))

(***************************************************************************)
(* A filter bit that is set on a connection takes away the messages that   *)
(* it names, and lets nothing through that was dropped before.  But the    *)
(* first bit, whatever it names, also switches the test of the channel on: *)
(* a connection from one channel, which carried every channel as long as   *)
(* it had no filter, then loses the messages of all others, the clock and  *)
(* other system messages among them (their number counts as a channel).    *)
(***************************************************************************)
BitsOnlyTakeAway ==
  [][\A class \in Classes : SetBit(class) =>
       LET before == ShouldFilter(filter, sch, status)
           after  == ShouldFilter(filter', sch, status)
       IN after <=> \/ before
                    \/ status \in Named(class)
                    \/ filter = {} /\ sch # AnyChannel /\ ChannelOf(status) # sch
    ]_filterVars

(***************************************************************************)
(* A connection moves a message to its destination channel, of which only  *)
(* the lower half counts (dest_channel is a full byte), and changes        *)
(* neither its kind nor a system message: a second connection with the     *)
(* same filter, from any channel, lets it pass again.                      *)
(***************************************************************************)
PassedStaysPassed ==
  [][Pass => /\ MessageType(status') = MessageType(status)
             /\ MessageType(status) # \hF0 /\ dch # AnyChannel
                  => ChannelOf(status') = dch % 16
             /\ status >= \hF0 => status' = status
             /\ ~ShouldFilter(filter, AnyChannel, status')]_filterVars
=============================================================================
