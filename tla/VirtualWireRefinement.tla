------------------------ MODULE VirtualWireRefinement ------------------------
(***************************************************************************)
(* The engine's tables implement a PatchBay, as long as no id counter      *)
(* wraps: a route call in progress is a broadcast whose pending wires are  *)
(* the ones the loop has not reached, and an unregister call in progress   *)
(* is a departure.                                                         *)
(***************************************************************************)
EXTENDS VirtualWireProperties

Wire(c) == [src |-> c.src, dst |-> c.dst, sch |-> c.sch, dch |-> c.dch,
            filter |-> c.filter, enabled |-> c.enabled]

WiresFrom(i) == {Wire(conns[k]) : k \in {l \in DOMAIN conns : l >= i}}

JobOf ==
  CASE call.op = "unregister" -> [kind |-> "leave", id |-> call.id]
    [] call.op = "route" ->
         [kind |-> "send", msg |-> call.msg,
          pending |-> {w \in WiresFrom(call.i) : w.enabled /\ w.src = call.src}]
    [] OTHER -> [kind |-> "none"]

InboxOf == [d \in PortIds |-> ports[PortOf(d)].tx]

SinksOf == {ports[k].id : k \in {l \in DOMAIN ports : ports[l].output}}

\* connect_all_to_all plugs its wires one by one: that call is no job.
Patch == INSTANCE PatchBay WITH
  Capacity <- BufferSize, Messages <- Statuses,
  Channels <- SourceChannels \cup DestChannels \cup {AnyChannel},
  Filters <- Filters \cup {{}},
  on <- running, sinks <- SinksOf, inbox <- InboxOf,
  wires <- WiresFrom(1), job <- JobOf

(***************************************************************************)
(* Every behaviour of the engine is one of the patch bay: a broadcast      *)
(* serves each enabled connection of its source exactly once and reaches   *)
(* nobody else, a departure takes no other device's connections, messages  *)
(* are lost only when filtered, vetoed or undeliverable.                   *)
(***************************************************************************)
ImplementsPatchBay == Patch!Spec
=============================================================================
