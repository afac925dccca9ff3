---------------------------- MODULE MCSysexSender ----------------------------
(* Payload lengths: for each turn of the loop before the array is full there *)
(* is one with which the remainder of that turn has wrapped.                 *)
EXTENDS SysexSender

CallerLengths == 1 .. 450 \cup {65535}
=============================================================================
