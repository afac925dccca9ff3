------------------------------- MODULE PatchBay -------------------------------
(***************************************************************************)
(* What the virtual-wire engine promises, without its tables: devices with *)
(* an inbox, wires between them, and messages that are broadcast over      *)
(* their source's wires.  A broadcast serves every enabled wire of its     *)
(* source once, in any order; a wire may lose the message only because its *)
(* filter (or the user's) rejects it or its far end cannot take it.  A     *)
(* device that leaves takes none but its own wires along, but may leave    *)
(* some of them dangling.                                                  *)
(***************************************************************************)
EXTENDS MidiFilter, Sequences

CONSTANTS Ids, Capacity, Channels, Filters, Vetoes, Messages

VARIABLES
  on,                \* may messages be injected?
  sinks,             \* the devices that are outputs
  inbox,             \* for each registered device, what it was sent
  wires,             \* records [src, dst, sch, dch, filter, enabled]
  job                \* the departure or the broadcast in progress

vars == <<on, sinks, inbox, wires, job>>

Devices == DOMAIN inbox

NoJob == [kind |-> "none"]

Ends(w, id) == w.src = id \/ w.dst = id

Init ==
  /\ on = FALSE /\ sinks = {} /\ inbox = <<>> /\ wires = {}
  /\ job = NoJob

Clear == on' = FALSE /\ sinks' = {} /\ inbox' = <<>> /\ wires' = {} /\ job' = NoJob

Reset == job = NoJob /\ Clear

Switch == job = NoJob /\ on' \in BOOLEAN /\ UNCHANGED <<sinks, inbox, wires, job>>

(* A device joins under an id that is free and on which no wire ends.        *)
Join ==
  /\ job = NoJob
  /\ \E id \in Ids \ Devices :
       /\ \A w \in wires : ~Ends(w, id)
       /\ inbox' = [d \in Devices \cup {id} |-> IF d = id THEN <<>> ELSE inbox[d]]
       /\ sinks' \in {sinks, sinks \cup {id}}
  /\ UNCHANGED <<on, wires, job>>

BeginLeave ==
  /\ job = NoJob
  /\ \E id \in Devices : job' = [kind |-> "leave", id |-> id]
  /\ UNCHANGED <<on, sinks, inbox, wires>>

Leave ==
  /\ job.kind = "leave"
  /\ inbox' = [d \in Devices \ {job.id} |-> inbox[d]]
  /\ sinks' = sinks \ {job.id}
  /\ job' = NoJob
  /\ UNCHANGED <<on, wires>>

Plug ==
  /\ job = NoJob
  /\ \E src, dst \in Devices, sch, dch \in Channels, f \in Filters :
       /\ \A w \in wires : <<w.src, w.dst, w.sch, w.dch>> # <<src, dst, sch, dch>>
       /\ wires' = wires \cup {[src |-> src, dst |-> dst, sch |-> sch,
                                dch |-> dch, filter |-> f, enabled |-> TRUE]}
  /\ UNCHANGED <<on, sinks, inbox, job>>

Unplug ==
  /\ job.kind \in {"none", "leave"}
  /\ \E w \in wires :
       /\ job.kind = "leave" => Ends(w, job.id)
       /\ wires' = wires \ {w}
  /\ UNCHANGED <<on, sinks, inbox, job>>

UnplugAll == job = NoJob /\ wires' = {} /\ UNCHANGED <<on, sinks, inbox, job>>

Enable ==
  /\ job = NoJob
  /\ \E w \in wires, b \in BOOLEAN :
       wires' = (wires \ {w}) \cup {[w EXCEPT !.enabled = b]}
  /\ UNCHANGED <<on, sinks, inbox, job>>

CanTake(d) == d \in sinks /\ Len(inbox[d]) < Capacity

Put(d, msg) == inbox' = [inbox EXCEPT ![d] = Append(@, msg)]

SendTo ==
  /\ job = NoJob
  /\ \E d \in Devices, msg \in Messages : CanTake(d) /\ Put(d, msg)
  /\ UNCHANGED <<on, sinks, wires, job>>

Broadcast ==
  /\ job = NoJob /\ on
  /\ \E src \in Ids, msg \in Messages :
       job' = [kind |-> "send", msg |-> msg,
               pending |-> {w \in wires : w.enabled /\ w.src = src}]
  /\ UNCHANGED <<on, sinks, inbox, wires>>

Serve(w) == job' = [job EXCEPT !.pending = @ \ {w}]

Rejects(w) == ShouldFilter(w.filter, w.sch, job.msg) \/ TRUE \in Vetoes

Deliver ==
  /\ job.kind = "send"
  /\ \E w \in job.pending :
       /\ ~ShouldFilter(w.filter, w.sch, job.msg)
       /\ CanTake(w.dst) /\ Put(w.dst, Remap(job.msg, w.dch))
       /\ Serve(w)
  /\ UNCHANGED <<on, sinks, wires>>

Lose ==
  /\ job.kind = "send"
  /\ \E w \in job.pending : (Rejects(w) \/ ~CanTake(w.dst)) /\ Serve(w)
  /\ UNCHANGED <<on, sinks, inbox, wires>>

Done ==
  /\ job.kind = "send" /\ job.pending = {}
  /\ job' = NoJob
  /\ UNCHANGED <<on, sinks, inbox, wires>>

Next ==
  \/ Reset \/ Switch \/ Join \/ BeginLeave \/ Leave
  \/ Plug \/ Unplug \/ UnplugAll \/ Enable
  \/ SendTo \/ Broadcast \/ Deliver \/ Lose \/ Done

Spec == Init /\ [][Next]_vars
=============================================================================
