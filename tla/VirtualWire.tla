----------------------------- MODULE VirtualWire -----------------------------
(***************************************************************************)
(* The virtual-wire engine of midi_virtual_wire.c: a table of devices, a   *)
(* table of connections, and the loops that route a message from a device  *)
(* along its connections into the tx buffers of other devices.             *)
(*                                                                         *)
(* Tables are sequences (slot i of the C arrays is element i+1) and ring   *)
(* buffers are the queues they implement (MessageRing).  The program is    *)
(* single threaded, so an API call that does not loop is one step.  A call *)
(* that loops over a table is one step per iteration, with the loop's      *)
(* locals in the variable call; no other call runs until it returns.  The  *)
(* calls that return an error without changing state are not steps.        *)
(*                                                                         *)
(* Left out: device names, timestamps, overrun counters (never read by the *)
(* engine), and the 32-bit wrap of the statistics.                         *)
(***************************************************************************)
EXTENDS MidiFilter, Sequences

CONSTANTS
  MaxDevices,        \* MIDI_VW_MAX_DEVICES
  MaxConnections,    \* MIDI_VW_MAX_CONNECTIONS
  BufferSize,        \* MIDI_VW_MESSAGE_BUFFER_SIZE
  IdMod,             \* number of device (connection) ids: 256 for a uint8_t
  \* Arguments that callers pass:
  Roles,             \* <<is_input, is_output>> given to register_device
  SourceChannels, DestChannels, Filters,          \* for create_connection
  Switchings,        \* Boolean arguments of enable_connection
  DeviceStates,      \* arguments of set_device_state
  Statuses,          \* status bytes of the messages sent or injected
  Vetoes,            \* may the filter callback refuse (TRUE), or pass (FALSE)?
  \* Bounds of the model:
  Wraps,             \* FALSE: stop issuing ids before the counters wrap
  MaxMessages        \* no inject once total_messages reaches this bound

ASSUME SizesAssumption ==
  /\ MaxDevices \in Nat /\ MaxConnections \in Nat /\ BufferSize \in Nat
  /\ IdMod \in Nat /\ IdMod > 1
  /\ MaxMessages \in Nat

ASSUME ArgumentsAssumption ==
  /\ Roles \subseteq BOOLEAN \X BOOLEAN
  /\ SourceChannels \subseteq Byte /\ DestChannels \subseteq Byte
  /\ Filters \subseteq SUBSET Classes
  /\ Switchings \subseteq BOOLEAN /\ Vetoes \subseteq BOOLEAN
  /\ Statuses \subseteq Byte
  /\ Wraps \in BOOLEAN

VARIABLES
  initialized, running,
  ports,             \* the registered devices, in slot order
  conns,             \* the connections, in slot order
  nextDev, nextConn, \* the id counters
  wrapped,           \* history: has either counter wrapped since init?
  stats,             \* total_messages, total_errors, total_filtered
  call               \* the looping API call in progress, or Idle

vars == <<initialized, running, ports, conns, nextDev, nextConn, wrapped,
          stats, call>>

Ids == 0 .. IdMod - 1

AnyState == DeviceStates \cup {"connected"}

Device ==
  [id : Ids, input : BOOLEAN, output : BOOLEAN, active : BOOLEAN,
   state : AnyState, rx : Seq(Byte), tx : Seq(Byte),
   sent : Nat, received : Nat]

Connection ==
  [id : Ids, src : Ids, dst : Ids, sch : Byte, dch : Byte,
   filter : SUBSET Classes, enabled : BOOLEAN, routed : Nat, filtered : Nat]

Idle == [op |-> "idle"]

Call ==
  {Idle}
  \cup [op : {"unregister"}, id : Ids, slot : Nat \ {0}, i : Nat \ {0},
        before : Seq(Connection)]                \* before: history
  \cup [op : {"connectall"}, i : Nat \ {0}, j : Nat \ {0}]
  \cup [op : {"route"}, src : Ids, msg : Byte, i : Nat \ {0}, from : Nat]
  \cup [op : {"process"}, i : Nat \ {0}]

FlagsOK ==
  /\ initialized \in BOOLEAN /\ running \in BOOLEAN
  /\ wrapped \in [dev : BOOLEAN, conn : BOOLEAN]
PortsOK == ports \in Seq(Device) /\ Len(ports) <= MaxDevices
ConnsOK == conns \in Seq(Connection) /\ Len(conns) <= MaxConnections
CountersOK ==
  /\ nextDev \in Ids /\ nextConn \in Ids
  /\ stats \in [messages : Nat, errors : Nat, filtered : Nat]
CallOK ==
  /\ call \in Call
  /\ call.op = "unregister" => call.slot \in DOMAIN ports
  /\ call.op = "connectall" => call.j \in 1 .. Len(ports) \cup {1}

TypeOK == FlagsOK /\ PortsOK /\ ConnsOK /\ CountersOK /\ CallOK

-----------------------------------------------------------------------------
(* Tables.                                                                   *)

IsFirst(table, id, k) ==              \* the slot find_device/_connection return
  /\ k \in DOMAIN table
  /\ table[k].id = id
  /\ \A j \in DOMAIN table : j < k => table[j].id # id

Known(id) == \E k \in DOMAIN ports : ports[k].id = id

Without_OneLate(table, k) ==          \* mutant: keeps the slot, drops the next
  [j \in 1 .. Len(table) - 1 |-> IF j <= k THEN table[j] ELSE table[j + 1]]

Without(table, k) ==                  \* the loop that shifts the later slots down
  [j \in 1 .. Len(table) - 1 |-> IF j < k THEN table[j] ELSE table[j + 1]]

Touches_Source(c, id) == c.src = id   \* mutant: forgets the destination

Touches(c, id) == c.src = id \/ c.dst = id

SameRoute_Swapped(c, src, dst, sch, dch) ==        \* mutant: ends swapped
  c.src = dst /\ c.dst = src /\ c.sch = sch /\ c.dch = dch

SameRoute(c, src, dst, sch, dch) ==
  c.src = src /\ c.dst = dst /\ c.sch = sch /\ c.dch = dch

-----------------------------------------------------------------------------
(* Life cycle.                                                               *)

Init ==
  /\ initialized = FALSE /\ running = FALSE
  /\ ports = <<>> /\ conns = <<>>
  /\ nextDev = 0 /\ nextConn = 0
  /\ wrapped = [dev |-> FALSE, conn |-> FALSE]
  /\ stats = [messages |-> 0, errors |-> 0, filtered |-> 0]
  /\ call = Idle

Clear(first) ==
  /\ running' = FALSE
  /\ ports' = <<>> /\ conns' = <<>>
  /\ nextDev' = first /\ nextConn' = first
  /\ wrapped' = [dev |-> FALSE, conn |-> FALSE]
  /\ stats' = [messages |-> 0, errors |-> 0, filtered |-> 0]
  /\ UNCHANGED call

VwInit ==
  /\ call = Idle /\ ~initialized
  /\ initialized' = TRUE
  /\ Clear(1)

Deinit ==
  /\ call = Idle /\ initialized
  /\ initialized' = FALSE
  /\ Clear(0)

Start ==
  /\ call = Idle /\ initialized
  /\ running' = TRUE
  /\ UNCHANGED <<initialized, ports, conns, nextDev, nextConn, wrapped, stats,
                 call>>

Stop ==
  /\ call = Idle /\ initialized
  /\ running' = FALSE
  /\ UNCHANGED <<initialized, ports, conns, nextDev, nextConn, wrapped, stats,
                 call>>

-----------------------------------------------------------------------------
(* Devices.                                                                  *)

NewDevice_SlotId(input, output) ==     \* mutant: the id is the slot
  [id |-> Len(ports) + 1, input |-> input, output |-> output,
   active |-> TRUE, state |-> "connected",
   rx |-> <<>>, tx |-> <<>>, sent |-> 0, received |-> 0]

NewDevice(input, output) ==
  [id |-> nextDev, input |-> input, output |-> output,
   active |-> TRUE, state |-> "connected",
   rx |-> <<>>, tx |-> <<>>, sent |-> 0, received |-> 0]

Register(input, output) ==
  /\ call = Idle /\ initialized
  /\ Len(ports) < MaxDevices
  /\ Wraps \/ nextDev + 1 < IdMod
  /\ ports' = Append(ports, NewDevice(input, output))
  /\ nextDev' = (nextDev + 1) % IdMod
  /\ wrapped' = [wrapped EXCEPT !.dev = @ \/ nextDev' = 0]
  /\ UNCHANGED <<initialized, running, conns, nextConn, stats, call>>

UnregisterCall(id) ==
  /\ call = Idle /\ initialized
  /\ \E k \in DOMAIN ports :
       /\ IsFirst(ports, id, k)
       /\ call' = [op |-> "unregister", id |-> id, slot |-> k, i |-> 1,
                   before |-> conns]
  /\ UNCHANGED <<initialized, running, ports, conns, nextDev, nextConn,
                 wrapped, stats>>

(***************************************************************************)
(* The loop removes by connection id, and i moves on although removal has  *)
(* moved the next connection into slot i.                                  *)
(***************************************************************************)
UnregisterRemove ==
  /\ call.op = "unregister"
  /\ call.i \in DOMAIN conns
  /\ Touches(conns[call.i], call.id)
  /\ \E k \in DOMAIN conns :
       /\ IsFirst(conns, conns[call.i].id, k)
       /\ conns' = Without(conns, k)
  /\ call' = [call EXCEPT !.i = @ + 1]
  /\ UNCHANGED <<initialized, running, ports, nextDev, nextConn, wrapped, stats>>

UnregisterKeep_Stuck ==                \* mutant: advances only on removal
  /\ call.op = "unregister"
  /\ call.i \in DOMAIN conns
  /\ ~Touches(conns[call.i], call.id)
  /\ UNCHANGED vars

UnregisterKeep ==
  /\ call.op = "unregister"
  /\ call.i \in DOMAIN conns
  /\ ~Touches(conns[call.i], call.id)
  /\ call' = [call EXCEPT !.i = @ + 1]
  /\ UNCHANGED <<initialized, running, ports, conns, nextDev, nextConn,
                 wrapped, stats>>

UnregisterReturn ==
  /\ call.op = "unregister"
  /\ call.i > Len(conns)
  /\ ports' = Without(ports, call.slot)
  /\ call' = Idle
  /\ UNCHANGED <<initialized, running, conns, nextDev, nextConn, wrapped, stats>>

SetDeviceState(id, state) ==
  /\ call = Idle /\ initialized
  /\ \E k \in DOMAIN ports :
       /\ IsFirst(ports, id, k)
       /\ ports' = [ports EXCEPT ![k] = [@ EXCEPT !.state = state]]
  /\ UNCHANGED <<initialized, running, conns, nextDev, nextConn, wrapped,
                 stats, call>>

-----------------------------------------------------------------------------
(* Connections.                                                              *)

CanCreate_Twice(src, dst, sch, dch) ==     \* mutant: no search for the route
  Len(conns) < MaxConnections /\ Known(src) /\ Known(dst)

CanCreate(src, dst, sch, dch) ==
  /\ Len(conns) < MaxConnections
  /\ Known(src) /\ Known(dst)
  /\ \A k \in DOMAIN conns : ~SameRoute(conns[k], src, dst, sch, dch)

NewConnection_SlotId(src, dst, sch, dch, filter) ==  \* mutant: the id is the slot
  [id |-> Len(conns) + 1, src |-> src, dst |-> dst, sch |-> sch, dch |-> dch,
   filter |-> filter, enabled |-> TRUE, routed |-> 0, filtered |-> 0]

NewConnection(src, dst, sch, dch, filter) ==
  [id |-> nextConn, src |-> src, dst |-> dst, sch |-> sch, dch |-> dch,
   filter |-> filter, enabled |-> TRUE, routed |-> 0, filtered |-> 0]

Create_NoWrap(src, dst, sch, dch, filter) ==         \* mutant: ids without end
  /\ conns' = Append(conns, NewConnection(src, dst, sch, dch, filter))
  /\ nextConn' = nextConn + 1
  /\ UNCHANGED wrapped

Create(src, dst, sch, dch, filter) ==
  /\ conns' = Append(conns, NewConnection(src, dst, sch, dch, filter))
  /\ nextConn' = (nextConn + 1) % IdMod
  /\ wrapped' = [wrapped EXCEPT !.conn = @ \/ nextConn' = 0]

CreateConnection(src, dst, sch, dch, filter) ==
  /\ call = Idle /\ initialized
  /\ Wraps \/ nextConn + 1 < IdMod
  /\ CanCreate(src, dst, sch, dch)
  /\ Create(src, dst, sch, dch, filter)
  /\ UNCHANGED <<initialized, running, ports, nextDev, stats, call>>

RemoveConnection(id) ==
  /\ call = Idle /\ initialized
  /\ \E k \in DOMAIN conns :
       /\ IsFirst(conns, id, k)
       /\ conns' = Without(conns, k)
  /\ UNCHANGED <<initialized, running, ports, nextDev, nextConn, wrapped,
                 stats, call>>

EnableConnection(id, enabled) ==
  /\ call = Idle /\ initialized
  /\ \E k \in DOMAIN conns :
       /\ IsFirst(conns, id, k)
       /\ conns' = [conns EXCEPT ![k] = [@ EXCEPT !.enabled = enabled]]
  /\ UNCHANGED <<initialized, running, ports, nextDev, nextConn, wrapped,
                 stats, call>>

DisconnectAll ==
  /\ call = Idle /\ initialized
  /\ conns' = <<>>
  /\ UNCHANGED <<initialized, running, ports, nextDev, nextConn, wrapped,
                 stats, call>>

ConnectAllCall ==
  /\ call = Idle /\ initialized
  /\ Wraps \/ nextConn + MaxConnections - Len(conns) < IdMod
  /\ call' = [op |-> "connectall", i |-> 1, j |-> 1]
  /\ UNCHANGED <<initialized, running, ports, conns, nextDev, nextConn,
                 wrapped, stats>>

(***************************************************************************)
(* One pair (i, j) of the nested loops.  The result of create_connection   *)
(* is ignored: a pair already connected, or a full table, is passed over.  *)
(***************************************************************************)
PairWanted(i, j) == i # j /\ ports[i].input /\ ports[j].output

NextPair_Short ==                      \* mutant: misses the last j
  call' = IF call.j < Len(ports) - 1
          THEN [call EXCEPT !.j = @ + 1]
          ELSE [call EXCEPT !.i = @ + 1, !.j = 1]

NextPair ==
  call' = IF call.j < Len(ports)
          THEN [call EXCEPT !.j = @ + 1]
          ELSE [call EXCEPT !.i = @ + 1, !.j = 1]

ConnectAllPair ==
  /\ call.op = "connectall"
  /\ call.i \in DOMAIN ports
  /\ IF /\ PairWanted(call.i, call.j)
        /\ CanCreate(ports[call.i].id, ports[call.j].id, AnyChannel, AnyChannel)
     THEN Create(ports[call.i].id, ports[call.j].id, AnyChannel, AnyChannel, {})
     ELSE UNCHANGED <<conns, nextConn, wrapped>>
  /\ NextPair
  /\ UNCHANGED <<initialized, running, ports, nextDev, stats>>

ConnectAllReturn ==
  /\ call.op = "connectall"
  /\ call.i > Len(ports)
  /\ call' = Idle
  /\ UNCHANGED <<initialized, running, ports, conns, nextDev, nextConn,
                 wrapped, stats>>

-----------------------------------------------------------------------------
(* Messages.                                                                 *)

Queued_Overwrites(p, msg) ==           \* mutant: the oldest is overwritten
  [p EXCEPT !.tx = Append(IF @ = <<>> THEN @ ELSE Tail(@), msg), !.sent = @ + 1]

Queued_InRx(p, msg) ==                 \* mutant: the wrong buffer
  [p EXCEPT !.rx = Append(@, msg), !.sent = @ + 1]

Queued(p, msg) == [p EXCEPT !.tx = Append(@, msg), !.sent = @ + 1]

Fetched_FromTx(p) ==                   \* mutant: the wrong buffer
  [p EXCEPT !.tx = IF @ = <<>> THEN <<>> ELSE Tail(@)]

Fetched(p) == [p EXCEPT !.rx = IF @ = <<>> THEN <<>> ELSE Tail(@)]

Drained(p) == [p EXCEPT !.rx = Tail(@), !.received = @ + 1]

CountRouted(c)   == [c EXCEPT !.routed = @ + 1]
CountFiltered(c) == [c EXCEPT !.filtered = @ + 1]

CanSend_ToAny(k) == Len(ports[k].tx) < BufferSize  \* mutant: no output check

CanSend(k) == ports[k].output /\ Len(ports[k].tx) < BufferSize

Queue(k, msg) == ports' = [ports EXCEPT ![k] = Queued(@, msg)]

SendMessage(id, msg) ==
  /\ call = Idle /\ initialized
  /\ \E k \in DOMAIN ports :
       IsFirst(ports, id, k) /\ CanSend(k) /\ Queue(k, msg)
  /\ UNCHANGED <<initialized, running, conns, nextDev, nextConn, wrapped,
                 stats, call>>

ReceiveMessage(id) ==
  /\ call = Idle /\ initialized
  /\ \E k \in DOMAIN ports :
       /\ IsFirst(ports, id, k)
       /\ ports' = [ports EXCEPT ![k] = Fetched(@)]
  /\ UNCHANGED <<initialized, running, conns, nextDev, nextConn, wrapped,
                 stats, call>>

(***************************************************************************)
(* route_message; from is 0 for inject_message, else the slot that         *)
(* process_messages is draining.  The source id is not checked.            *)
(***************************************************************************)
RouteCall(src, msg, from) ==
  /\ stats' = [stats EXCEPT !.messages = @ + 1]
  /\ call' = [op |-> "route", src |-> src, msg |-> msg, i |-> 1, from |-> from]

InjectMessage(src, msg) ==
  /\ call = Idle /\ initialized /\ running
  /\ stats.messages < MaxMessages
  /\ RouteCall(src, msg, 0)
  /\ UNCHANGED <<initialized, running, ports, conns, nextDev, nextConn, wrapped>>

Serves_Disabled(c, src) == c.src = src \* mutant: enabled is ignored

Serves(c, src) == c.enabled /\ c.src = src

Passes(c, msg) == ~ShouldFilter(c.filter, c.sch, msg)

Routing == call.op = "route" /\ call.i \in DOMAIN conns

RouteSkip ==
  /\ Routing
  /\ ~Serves(conns[call.i], call.src)
  /\ call' = [call EXCEPT !.i = @ + 1]
  /\ UNCHANGED <<initialized, running, ports, conns, nextDev, nextConn,
                 wrapped, stats>>

RouteFiltered ==
  /\ Routing
  /\ Serves(conns[call.i], call.src)
  /\ Passes(conns[call.i], call.msg) => TRUE \in Vetoes
  /\ conns' = [conns EXCEPT ![call.i] = CountFiltered(@)]
  /\ stats' = [stats EXCEPT !.filtered = @ + 1]
  /\ call' = [call EXCEPT !.i = @ + 1]
  /\ UNCHANGED <<initialized, running, ports, nextDev, nextConn, wrapped>>

Forwards ==
  /\ Routing
  /\ Serves(conns[call.i], call.src)
  /\ Passes(conns[call.i], call.msg) /\ FALSE \in Vetoes

CanDeliver(k) == ports[k].active /\ CanSend(k)

RouteUndeliverable ==
  /\ Forwards
  /\ \A k \in DOMAIN ports :
       IsFirst(ports, conns[call.i].dst, k) => ~CanDeliver(k)
  /\ stats' = [stats EXCEPT !.errors = @ + 1]
  /\ call' = [call EXCEPT !.i = @ + 1]
  /\ UNCHANGED <<initialized, running, ports, conns, nextDev, nextConn, wrapped>>

RouteDeliver ==
  /\ Forwards
  /\ \E k \in DOMAIN ports :
       /\ IsFirst(ports, conns[call.i].dst, k)
       /\ CanDeliver(k)
       /\ Queue(k, Remap(call.msg, conns[call.i].dch))
  /\ conns' = [conns EXCEPT ![call.i] = CountRouted(@)]
  /\ call' = [call EXCEPT !.i = @ + 1]
  /\ UNCHANGED <<initialized, running, nextDev, nextConn, wrapped, stats>>

RouteReturn ==
  /\ call.op = "route"
  /\ call.i > Len(conns)
  /\ call' = IF call.from = 0 THEN Idle ELSE [op |-> "process", i |-> call.from]
  /\ UNCHANGED <<initialized, running, ports, conns, nextDev, nextConn,
                 wrapped, stats>>

ProcessCall ==
  /\ call = Idle /\ initialized /\ running
  /\ call' = [op |-> "process", i |-> 1]
  /\ UNCHANGED <<initialized, running, ports, conns, nextDev, nextConn,
                 wrapped, stats>>

ProcessPort ==                        \* one turn of the for or the while loop
  /\ call.op = "process"
  /\ call.i \in DOMAIN ports
  /\ LET p == ports[call.i] IN
     IF p.active /\ p.input /\ p.rx # <<>>
     THEN /\ ports' = [ports EXCEPT ![call.i] = Drained(@)]
          /\ RouteCall(p.id, Head(p.rx), call.i)
     ELSE /\ call' = [call EXCEPT !.i = @ + 1]
          /\ UNCHANGED <<ports, stats>>
  /\ UNCHANGED <<initialized, running, conns, nextDev, nextConn, wrapped>>

ProcessReturn ==
  /\ call.op = "process"
  /\ call.i > Len(ports)
  /\ call' = Idle
  /\ UNCHANGED <<initialized, running, ports, conns, nextDev, nextConn,
                 wrapped, stats>>

ResetStatistics_NotWires ==            \* mutant: connections keep their counts
  /\ call = Idle /\ initialized
  /\ stats' = [messages |-> 0, errors |-> 0, filtered |-> 0]
  /\ ports' = [k \in DOMAIN ports |->
                 [ports[k] EXCEPT !.sent = 0, !.received = 0]]
  /\ UNCHANGED <<initialized, running, conns, nextDev, nextConn, wrapped, call>>

ResetStatistics ==
  /\ call = Idle /\ initialized
  /\ stats' = [messages |-> 0, errors |-> 0, filtered |-> 0]
  /\ ports' = [k \in DOMAIN ports |->
                 [ports[k] EXCEPT !.sent = 0, !.received = 0]]
  /\ conns' = [k \in DOMAIN conns |->
                 [conns[k] EXCEPT !.routed = 0, !.filtered = 0]]
  /\ UNCHANGED <<initialized, running, nextDev, nextConn, wrapped, call>>

-----------------------------------------------------------------------------
Continue ==                           \* the next step of the call in progress
  \/ UnregisterRemove \/ UnregisterKeep \/ UnregisterReturn
  \/ ConnectAllPair \/ ConnectAllReturn
  \/ RouteSkip \/ RouteFiltered \/ RouteUndeliverable \/ RouteDeliver
  \/ RouteReturn
  \/ ProcessPort \/ ProcessReturn

Next ==
  \/ VwInit \/ Deinit \/ Start \/ Stop
  \/ \E role \in Roles : Register(role[1], role[2])
  \/ \E id \in Ids : UnregisterCall(id)
  \/ \E id \in Ids, s \in DeviceStates : SetDeviceState(id, s)
  \/ \E src, dst \in Ids, sch \in SourceChannels, dch \in DestChannels,
        f \in Filters : CreateConnection(src, dst, sch, dch, f)
  \/ \E id \in Ids : RemoveConnection(id)
  \/ \E id \in Ids, b \in Switchings : EnableConnection(id, b)
  \/ DisconnectAll \/ ConnectAllCall
  \/ \E id \in Ids, msg \in Statuses : SendMessage(id, msg)
  \/ \E id \in Ids : ReceiveMessage(id)
  \/ \E src \in Ids, msg \in Statuses : InjectMessage(src, msg)
  \/ ProcessCall
  \/ ResetStatistics
  \/ Continue

Spec == Init /\ [][Next]_vars

(***************************************************************************)
(* The program is one thread and a call in progress keeps the processor.   *)
(***************************************************************************)
FairSpec == Spec /\ WF_vars(Continue)
=============================================================================
