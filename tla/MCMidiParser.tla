---------------------------- MODULE MCMidiParser ----------------------------
(* Messages of every kind, payloads that end in each of the ways they can,   *)
(* and packets of up to two events, some of them cut off.                    *)
EXTENDS MidiParser

SomeMessages ==
  {[status |-> s, length |-> MessageLength(s),
    data |-> <<IF MessageLength(s) > 1 THEN 1 ELSE 0,
               IF MessageLength(s) > 2 THEN 2 ELSE 0>>] :
     s \in {\h82, \h9F, \hA3, \hB0, \hC5, \hD1, \hE1, \hF1, \hF8}}

(* Byte n of the payload is the number n; the last event has code 5 if it    *)
(* holds the last byte alone.                                                *)
PayloadOf(length) ==
  LET byte(n) == CASE n = 0 -> SysexStart
                   [] n \in 1 .. length -> n
                   [] n = length + 1 -> SysexEnd
                   [] OTHER -> 0
      count == (length + 3) \div 3
  IN [k \in 1 .. count |->
        Event(IF k = count /\ length % 3 = 0 THEN 5 ELSE 4,
              byte(3 * k - 3), byte(3 * k - 2), byte(3 * k - 1))]

SomePayloads == {PayloadOf(n) : n \in {1, 3, 18}}

Starts == {<<4, 0, SysexStart, 1>>, <<0, 0, SysexStart, 1>>}

Others == {<<4, 0, 1, SysexEnd>>, <<4, 0, SysexEnd, 0>>}

SomePackets ==
  Others \cup {e \o f : e \in Starts, f \in Starts \cup Others}
    \cup {<<4, 0, SysexStart>>, <<4, 0>>}
=============================================================================
