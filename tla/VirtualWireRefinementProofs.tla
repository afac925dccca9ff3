--------------------- MODULE VirtualWireRefinementProofs ---------------------
(***************************************************************************)
(* What the message buffers hold, and that the engine implements the patch *)
(* bay.  The inductive invariant of the buffers says of each device:       *)
(* nothing to receive, at least messages_sent messages to transmit, no     *)
(* more than fit, and none unless it is an output.  It is inductive        *)
(* because nothing ever fills an rx buffer, so that the draining branch of *)
(* process_messages never runs.                                            *)
(*                                                                         *)
(* The refinement takes the steps one by one: each maps to an action of    *)
(* the patch bay or to a stutter, as long as the ids have not wrapped.     *)
(***************************************************************************)
EXTENDS VirtualWireRefinement, VirtualWireTableProofs

USE SizesAssumption, ArgumentsAssumption

Good(p) ==
  /\ p.active = TRUE
  /\ p.rx = <<>> /\ p.received = 0
  /\ p.sent <= Len(p.tx)
  /\ Len(p.tx) <= BufferSize
  /\ p.tx # <<>> => p.output

AllGood == \A k \in DOMAIN ports : Good(ports[k])

(* The edits that the calls make keep a good device good.                    *)
LEMMA GoodEdits ==
  ASSUME NEW p \in Device, Good(p)
  PROVE  /\ \A s : Good([p EXCEPT !.state = s])
         /\ \A msg \in Byte :
              p.output /\ Len(p.tx) < BufferSize => Good(Queued(p, msg))
         /\ Good(Fetched(p))
         /\ Good([p EXCEPT !.sent = 0, !.received = 0])
  <1>0. p.tx \in Seq(Byte) /\ p.sent \in Nat /\ Len(p.tx) \in Nat
    BY DEF Device
  <1>1. \A s : Good([p EXCEPT !.state = s])
    BY DEF Good, Device
  <1>2. ASSUME NEW msg \in Byte, p.output, Len(p.tx) < BufferSize
        PROVE  Good(Queued(p, msg))
    <2>. DEFINE q == Queued(p, msg)
    <2>1. /\ q.tx = Append(p.tx, msg) /\ q.sent = p.sent + 1
          /\ q.rx = p.rx /\ q.received = p.received
          /\ q.output = p.output /\ q.active = p.active
      BY DEF Queued, Device
    <2>2. Len(Append(p.tx, msg)) = Len(p.tx) + 1
      BY <1>0
    <2>. HIDE DEF q
    <2>. QED  BY <1>0, <1>2, <2>1, <2>2 DEF Good, q
  <1>3. Good(Fetched(p))
    <2>1. /\ Fetched(p).rx = <<>> /\ Fetched(p).tx = p.tx
          /\ Fetched(p).sent = p.sent /\ Fetched(p).received = p.received
          /\ Fetched(p).output = p.output /\ Fetched(p).active = p.active
      BY DEF Fetched, Good, Device
    <2>. QED  BY <2>1 DEF Good
  <1>4. Good([p EXCEPT !.sent = 0, !.received = 0])
    <2>. DEFINE q == [p EXCEPT !.sent = 0, !.received = 0]
    <2>1. /\ q.tx = p.tx /\ q.sent = 0
          /\ q.rx = p.rx /\ q.received = 0
          /\ q.output = p.output /\ q.active = p.active
      BY DEF Device
    <2>. HIDE DEF q
    <2>. QED  BY <1>0, <2>1 DEF Good, q
  <1>. QED  BY <1>1, <1>2, <1>3, <1>4

LEMMA GoodAfterEdit ==
  ASSUME PortsOK, AllGood, NEW k \in DOMAIN ports, NEW e, Good(e),
         ports' = [ports EXCEPT ![k] = e]
  PROVE  AllGood'
  <1>1. ASSUME NEW l \in DOMAIN ports' PROVE Good(ports'[l])
    <2>1. l \in DOMAIN ports /\ (ports'[l] = e \/ ports'[l] = ports[l])
      OBVIOUS
    <2>. QED  BY <2>1 DEF AllGood
  <1>. QED  BY <1>1 DEF AllGood, Good

LEMMA GoodStep ==
  ASSUME TypeOK, AllGood, [Next]_vars
  PROVE  AllGood'
<1>0. ports \in Seq(Device) /\ PortsOK
  BY DEF TypeOK, PortsOK
<1>s. ports' = ports => AllGood'
  BY DEF AllGood, Good
<1>1. CASE VwInit \/ Deinit
  BY <1>1 DEF VwInit, Deinit, Clear, AllGood
<1>2. ASSUME NEW role \in Roles, Register(role[1], role[2]) PROVE AllGood'
  <2>. DEFINE e == NewDevice(role[1], role[2])
  <2>1. e \in Device
    <3>1. role[1] \in BOOLEAN /\ role[2] \in BOOLEAN
      OBVIOUS
    <3>. QED  BY <3>1, NewDeviceType DEF TypeOK
  <2>2. Good(e)
    BY DEF NewDevice, Good
  <2>3. ports' = Append(ports, e)
    BY <1>2 DEF Register
  <2>. HIDE DEF e
  <2>4. ASSUME NEW k \in DOMAIN ports'
        PROVE  ports'[k] = e \/ (k \in DOMAIN ports /\ ports'[k] = ports[k])
    BY <1>0, <2>1, <2>3, AppendEntry
  <2>5. ASSUME NEW k \in DOMAIN ports' PROVE Good(ports'[k])
    BY <2>2, <2>4 DEF AllGood
  <2>. QED  BY <2>5 DEF AllGood, Good
<1>3. CASE UnregisterReturn
  <2>1. call.slot \in DOMAIN ports /\ ports' = Without(ports, call.slot)
    BY <1>3 DEF UnregisterReturn, TypeOK, CallOK
  <2>2. ASSUME NEW k \in DOMAIN ports'
        PROVE  k \in DOMAIN ports /\ k + 1 \in DOMAIN ports
               /\ ports'[k] = IF k < call.slot THEN ports[k] ELSE ports[k + 1]
    BY <1>0, <2>1, WithoutEntry
  <2>3. ASSUME NEW k \in DOMAIN ports' PROVE Good(ports'[k])
    BY <2>2 DEF AllGood
  <2>. QED  BY <2>3 DEF AllGood, Good
<1>4. ASSUME NEW id \in Ids, NEW s \in DeviceStates, SetDeviceState(id, s)
      PROVE  AllGood'
  <2>1. PICK k \in DOMAIN ports : ports' = [ports EXCEPT ![k] = [@ EXCEPT !.state = s]]
    BY <1>4 DEF SetDeviceState
  <2>2. ports[k] \in Device /\ Good(ports[k])
    BY <1>0 DEF AllGood
  <2>. QED  BY <1>0, <2>1, <2>2, GoodEdits, GoodAfterEdit
<1>5. ASSUME NEW id \in Ids, NEW msg \in Statuses, SendMessage(id, msg)
      PROVE  AllGood'
  <2>1. PICK k \in DOMAIN ports :
          CanSend(k) /\ ports' = [ports EXCEPT ![k] = Queued(@, msg)]
    BY <1>5 DEF SendMessage, Queue
  <2>2. ports[k] \in Device /\ Good(ports[k])
    BY <1>0 DEF AllGood
  <2>3. Good(Queued(ports[k], msg))
    BY <2>1, <2>2, GoodEdits DEF CanSend
  <2>. QED  BY <1>0, <2>1, <2>3, GoodAfterEdit
<1>6. ASSUME NEW id \in Ids, ReceiveMessage(id) PROVE AllGood'
  <2>1. PICK k \in DOMAIN ports : ports' = [ports EXCEPT ![k] = Fetched(@)]
    BY <1>6 DEF ReceiveMessage
  <2>2. ports[k] \in Device /\ Good(ports[k])
    BY <1>0 DEF AllGood
  <2>3. Good(Fetched(ports[k]))
    BY <2>2, GoodEdits
  <2>. QED  BY <1>0, <2>1, <2>3, GoodAfterEdit
<1>7. CASE ResetStatistics
  <2>1. ASSUME NEW k \in DOMAIN ports
        PROVE  Good([ports[k] EXCEPT !.sent = 0, !.received = 0])
    <3>1. ports[k] \in Device /\ Good(ports[k])
      BY <1>0 DEF AllGood
    <3>. QED  BY <3>1, GoodEdits
  <2>2. ASSUME NEW k \in DOMAIN ports' PROVE Good(ports'[k])
    BY <1>7, <2>1 DEF ResetStatistics
  <2>. QED  BY <2>2 DEF AllGood, Good
<1>8. CASE RouteDeliver
  <2>1. PICK k \in DOMAIN ports :
          /\ CanSend(k)
          /\ ports' = [ports EXCEPT ![k] = Queued(@, Remap(call.msg, conns[call.i].dch))]
    BY <1>8 DEF RouteDeliver, CanDeliver, Queue
  <2>2. ports[k] \in Device /\ Good(ports[k])
    BY <1>0 DEF AllGood
  <2>3. Remap(call.msg, conns[call.i].dch) \in Byte
    <3>1. call.msg \in Byte /\ conns[call.i] \in Connection
      BY <1>8 DEF RouteDeliver, Forwards, Routing, TypeOK, CallOK, Call, Idle, ConnsOK
    <3>. QED  BY <3>1, RemapByte DEF Connection
  <2>4. Good(Queued(ports[k], Remap(call.msg, conns[call.i].dch)))
    BY <2>1, <2>2, <2>3, GoodEdits DEF CanSend
  <2>. QED  BY <1>0, <2>1, <2>4, GoodAfterEdit
<1>9. CASE ProcessPort
  <2>1. ports[call.i].rx = <<>>
    BY <1>9 DEF ProcessPort, AllGood, Good
  <2>. QED  BY <1>9, <1>s, <2>1 DEF ProcessPort
<1>10. CASE ports' = ports
  BY <1>10, <1>s
<1>. QED
  BY <1>1, <1>2, <1>3, <1>4, <1>5, <1>6, <1>7, <1>8, <1>9, <1>10
     DEF Next, Continue, vars, Start, Stop, UnregisterCall, UnregisterRemove,
         UnregisterKeep, CreateConnection, RemoveConnection, EnableConnection,
         DisconnectAll, ConnectAllCall, ConnectAllPair, ConnectAllReturn,
         InjectMessage, RouteSkip, RouteFiltered, RouteUndeliverable,
         RouteReturn, ProcessCall, ProcessReturn

(***************************************************************************)
(* midi_vw_receive_message never has a message to give, every message      *)
(* counted as sent is still in a tx buffer, and tx buffers hold at most    *)
(* their capacity, and nothing for a device that is not an output.         *)
(***************************************************************************)
THEOREM Buffers == Spec => [](NothingToReceive /\ SentStillQueued /\ OnlyOutputsQueue)
<1>1. Init => AllGood
  BY DEF Init, AllGood
<1>2. TypeOK /\ AllGood /\ [Next]_vars => AllGood'
  BY GoodStep
<1>3. AllGood => NothingToReceive /\ SentStillQueued /\ OnlyOutputsQueue
  BY DEF AllGood, Good, NothingToReceive, SentStillQueued, OnlyOutputsQueue
<1>. QED  BY <1>1, <1>2, <1>3, TypeCorrect, PTL DEF Spec

(***************************************************************************)
(* Separately: what was sent is never taken out of a tx buffer.            *)
(***************************************************************************)
THEOREM SentStays == Spec => []SentStillQueued
  BY Buffers, PTL

(***************************************************************************)
(* And midi_vw_receive_message never finds anything.                       *)
(***************************************************************************)
THEOREM NothingArrives == Spec => []NothingToReceive
  BY Buffers, PTL
-----------------------------------------------------------------------------
(* Buffers over a step.                                                      *)

LEMMA PrefixGrows ==
  ASSUME NEW q \in Seq(Byte)
  PROVE  IsPrefix(q, q) /\ \A msg \in Byte : IsPrefix(q, Append(q, msg))
  BY DEF IsPrefix

LEMMA KeptAfterEdit ==
  ASSUME ports \in Seq(Device), NEW k \in DOMAIN ports, NEW e,
         ports' = [ports EXCEPT ![k] = e], IsPrefix(ports[k].tx, e.tx)
  PROVE  \A l \in DOMAIN ports : IsPrefix(ports[l].tx, ports'[l].tx)
  <1>1. ASSUME NEW l \in DOMAIN ports PROVE IsPrefix(ports[l].tx, ports[l].tx)
    <2>1. ports[l] \in Device
      OBVIOUS
    <2>2. ports[l].tx \in Seq(Byte)
      BY <2>1 DEF Device
    <2>. QED  BY <2>2, PrefixGrows
  <1>2. \A l \in DOMAIN ports : ports'[l] = IF l = k THEN e ELSE ports[l]
    OBVIOUS
  <1>. QED  BY <1>1, <1>2

(* Unless slots come or go, every slot keeps what is queued in it.           *)
LEMMA SlotsKeepQueues ==
  ASSUME TypeOK, AllGood, [Next]_vars
  PROVE  \/ \A k \in DOMAIN ports : IsPrefix(ports[k].tx, ports'[k].tx)
         \/ \E role \in Roles : Register(role[1], role[2])
         \/ UnregisterReturn \/ VwInit \/ Deinit
<1>. DEFINE Kept == \A k \in DOMAIN ports : IsPrefix(ports[k].tx, ports'[k].tx)
<1>0. /\ ports \in Seq(Device)
      /\ \A k \in DOMAIN ports : ports[k] \in Device /\ ports[k].tx \in Seq(Byte)
  <2>1. ports \in Seq(Device) /\ \A k \in DOMAIN ports : ports[k] \in Device
    BY DEF TypeOK, PortsOK
  <2>. QED  BY <2>1 DEF Device
<1>s. ports' = ports => Kept
  BY <1>0, PrefixGrows
<1>1. ASSUME NEW id \in Ids, NEW s \in DeviceStates, SetDeviceState(id, s)
      PROVE  Kept
  <2>1. PICK k \in DOMAIN ports : ports' = [ports EXCEPT ![k] = [@ EXCEPT !.state = s]]
    BY <1>1 DEF SetDeviceState
  <2>2. \A p \in Device : [p EXCEPT !.state = s].tx = p.tx
    BY DEF Device
  <2>3. IsPrefix(ports[k].tx, [ports[k] EXCEPT !.state = s].tx)
    BY <1>0, <2>2, PrefixGrows
  <2>. QED  BY <1>0, <2>1, <2>3, KeptAfterEdit
<1>2. ASSUME NEW k \in DOMAIN ports, NEW msg \in Byte,
             ports' = [ports EXCEPT ![k] = Queued(@, msg)]
      PROVE  Kept
  <2>1. Queued(ports[k], msg).tx = Append(ports[k].tx, msg)
    BY <1>0 DEF Queued, Device
  <2>2. IsPrefix(ports[k].tx, Queued(ports[k], msg).tx)
    BY <1>0, <2>1, PrefixGrows
  <2>. QED  BY <1>0, <1>2, <2>2, KeptAfterEdit
<1>3. ASSUME NEW id \in Ids, NEW msg \in Statuses, SendMessage(id, msg)
      PROVE  Kept
  BY <1>2, <1>3 DEF SendMessage, Queue
<1>4. ASSUME RouteDeliver PROVE Kept
  <2>1. Remap(call.msg, conns[call.i].dch) \in Byte
    <3>1. call.msg \in Byte /\ conns[call.i] \in Connection
      BY <1>4 DEF RouteDeliver, Forwards, Routing, TypeOK, CallOK, Call, Idle, ConnsOK
    <3>. QED  BY <3>1, RemapByte DEF Connection
  <2>. QED  BY <1>2, <1>4, <2>1 DEF RouteDeliver, Queue
<1>5. ASSUME NEW id \in Ids, ReceiveMessage(id) PROVE Kept
  <2>1. PICK k \in DOMAIN ports : ports' = [ports EXCEPT ![k] = Fetched(@)]
    BY <1>5 DEF ReceiveMessage
  <2>2. Fetched(ports[k]).tx = ports[k].tx
    BY <1>0 DEF Fetched, Device
  <2>3. IsPrefix(ports[k].tx, Fetched(ports[k]).tx)
    BY <1>0, <2>2, PrefixGrows
  <2>. QED  BY <1>0, <2>1, <2>3, KeptAfterEdit
<1>6. ASSUME ResetStatistics PROVE Kept
  <2>1. \A p \in Device : [p EXCEPT !.sent = 0, !.received = 0].tx = p.tx
    BY DEF Device
  <2>2. \A k \in DOMAIN ports : ports'[k].tx = ports[k].tx
    BY <1>0, <1>6, <2>1 DEF ResetStatistics
  <2>. QED  BY <1>0, <2>2, PrefixGrows
<1>7. ASSUME ProcessPort PROVE Kept
  BY <1>7, <1>s DEF ProcessPort, AllGood, Good
<1>. QED
  BY <1>s, <1>1, <1>3, <1>4, <1>5, <1>6, <1>7
     DEF Next, Continue, vars, Start, Stop, UnregisterCall, UnregisterRemove,
         UnregisterKeep, CreateConnection, RemoveConnection, EnableConnection,
         DisconnectAll, ConnectAllCall, ConnectAllPair, ConnectAllReturn,
         InjectMessage, RouteSkip, RouteFiltered, RouteUndeliverable,
         RouteReturn, ProcessCall, ProcessReturn

(***************************************************************************)
(* No call takes a message out of the buffer of a device that stays, or    *)
(* lets it see another device's: slots that move keep their own.           *)
(***************************************************************************)
THEOREM QueuesStay == Spec => QueuesSurvive
<1>. DEFINE A == ~wrapped.dev /\ initialized' =>
                   \A k \in DOMAIN ports, l \in DOMAIN ports' :
                     ports[k].id = ports'[l].id => IsPrefix(ports[k].tx, ports'[l].tx)
<1>1. IdentityInv /\ AllGood /\ [Next]_vars => A
  <2>. SUFFICES ASSUME IdentityInv, AllGood, [Next]_vars, ~wrapped.dev,
                       NEW k \in DOMAIN ports, NEW l \in DOMAIN ports',
                       ports[k].id = ports'[l].id
                PROVE  IsPrefix(ports[k].tx, ports'[l].tx)
    OBVIOUS
  <2>0. /\ TypeOK /\ ports \in Seq(Device) /\ nextDev \in Ids
        /\ \A i, j \in DOMAIN ports : ports[i].id = ports[j].id => i = j
        /\ \A i \in DOMAIN ports : ports[i].id < nextDev
        /\ ports[k] \in Device
    BY DEF IdentityInv, TypeOK, PortsOK, CountersOK, DeviceIdsUnique
  <2>1. IsPrefix(ports[k].tx, ports[k].tx)
    BY <2>0, PrefixGrows DEF Device
  <2>2. ASSUME NEW role \in Roles, Register(role[1], role[2])
        PROVE  IsPrefix(ports[k].tx, ports'[l].tx)
    <3>. DEFINE e == NewDevice(role[1], role[2])
    <3>1. e \in Device /\ e.id = nextDev
      <4>1. role[1] \in BOOLEAN /\ role[2] \in BOOLEAN
        OBVIOUS
      <4>. QED  BY <2>0, <4>1, NewDeviceType DEF TypeOK, NewDevice
    <3>2. ports' = Append(ports, e)
      BY <2>2 DEF Register
    <3>. HIDE DEF e
    <3>3. ports'[l] = e \/ (l \in DOMAIN ports /\ ports'[l] = ports[l])
      BY <2>0, <3>1, <3>2, AppendEntry
    <3>4. ports[k].id # nextDev
      <4>1. ports[k].id \in Ids /\ nextDev \in Ids
        BY <2>0 DEF Device
      <4>2. ports[k].id < nextDev
        BY <2>0
      <4>. QED  BY <4>1, <4>2 DEF Ids
    <3>. QED  BY <2>0, <2>1, <3>1, <3>3, <3>4
  <2>3. ASSUME UnregisterReturn PROVE IsPrefix(ports[k].tx, ports'[l].tx)
    <3>1. call.slot \in DOMAIN ports /\ ports' = Without(ports, call.slot)
      BY <2>0, <2>3 DEF UnregisterReturn, TypeOK, CallOK
    <3>2. Origin(call.slot, l) \in DOMAIN ports
          /\ ports'[l] = ports[Origin(call.slot, l)]
      BY <2>0, <3>1, WithoutSlots
    <3>. QED  BY <2>0, <2>1, <3>2
  <2>4. ASSUME VwInit \/ Deinit PROVE FALSE
    BY <2>4 DEF VwInit, Deinit, Clear
  <2>5. ASSUME \A i \in DOMAIN ports : IsPrefix(ports[i].tx, ports'[i].tx)
        PROVE  IsPrefix(ports[k].tx, ports'[l].tx)
    <3>1. CASE SameDevices
      BY <2>0, <2>5, <3>1 DEF SameDevices
    <3>2. CASE ~SameDevices
      <4>1. AddedDevice \/ RemovedDevice
        BY <2>0, <3>2, Shapes DEF DeviceShape
      <4>2. CASE AddedDevice
        <5>1. PICK input \in BOOLEAN, output \in BOOLEAN :
                ports' = Append(ports, NewDevice(input, output))
          BY <4>2 DEF AddedDevice
        <5>. DEFINE e == NewDevice(input, output)
        <5>2. e \in Device /\ e.id = nextDev
          BY <2>0, NewDeviceType DEF TypeOK, NewDevice
        <5>. HIDE DEF e
        <5>3. ports'[l] = e \/ (l \in DOMAIN ports /\ ports'[l] = ports[l])
          BY <2>0, <5>1, <5>2, AppendEntry DEF e
        <5>4. ports[k].id # nextDev
          <6>1. ports[k].id \in Ids /\ nextDev \in Ids
            BY <2>0 DEF Device
          <6>2. ports[k].id < nextDev
            BY <2>0
          <6>. QED  BY <6>1, <6>2 DEF Ids
        <5>. QED  BY <2>0, <2>1, <5>2, <5>3, <5>4
      <4>3. CASE RemovedDevice
        <5>1. PICK r \in DOMAIN ports : ports' = Without(ports, r)
          BY <4>3 DEF RemovedDevice
        <5>2. Origin(r, l) \in DOMAIN ports /\ ports'[l] = ports[Origin(r, l)]
          BY <2>0, <5>1, WithoutSlots
        <5>. QED  BY <2>0, <2>1, <5>2
      <4>. QED  BY <4>1, <4>2, <4>3
    <3>. QED  BY <3>1, <3>2
  <2>. QED  BY <2>0, <2>2, <2>3, <2>4, <2>5, SlotsKeepQueues DEF IdentityInv
<1>2. IdentityInv /\ AllGood /\ [Next]_vars => [A]_vars
  BY <1>1
<1>3. Spec => []AllGood
  <2>1. Init => AllGood
    BY DEF Init, AllGood
  <2>2. TypeOK /\ AllGood /\ [Next]_vars => AllGood'
    BY GoodStep
  <2>. QED  BY <2>1, <2>2, TypeCorrect, PTL DEF Spec
<1>. QED
  BY <1>2, <1>3, TypeCorrect, Identities, PTL DEF Spec, IdentityInv, QueuesSurvive

-----------------------------------------------------------------------------
(* What the two tables stand for in the patch bay.                           *)

Distinct(t) == \A k, l \in DOMAIN t : t[k].id = t[l].id => k = l

InboxIn(t) ==
  [d \in {t[k].id : k \in DOMAIN t} |-> t[CHOOSE k \in DOMAIN t : t[k].id = d].tx]

SinksIn(t) == {t[k].id : k \in {l \in DOMAIN t : t[l].output}}

LEMMA InboxAt ==
  ASSUME NEW t, Distinct(t)
  PROVE  /\ DOMAIN InboxIn(t) = {t[k].id : k \in DOMAIN t}
         /\ \A k \in DOMAIN t :
              t[k].id \in DOMAIN InboxIn(t) /\ InboxIn(t)[t[k].id] = t[k].tx
  <1>1. ASSUME NEW k \in DOMAIN t
        PROVE  (CHOOSE l \in DOMAIN t : t[l].id = t[k].id) = k
    BY DEF Distinct
  <1>. QED  BY <1>1 DEF InboxIn

(* Two functions with one domain and equal values there.                     *)
LEMMA InboxIs ==
  ASSUME NEW t, Distinct(t), NEW f, f = [d \in DOMAIN f |-> f[d]],
         DOMAIN f = {t[k].id : k \in DOMAIN t},
         \A k \in DOMAIN t : f[t[k].id] = t[k].tx
  PROVE  InboxIn(t) = f
  <1>1. InboxIn(t) = [d \in DOMAIN InboxIn(t) |-> InboxIn(t)[d]]
    BY DEF InboxIn
  <1>2. ASSUME NEW d \in DOMAIN f PROVE InboxIn(t)[d] = f[d]
    <2>1. PICK k \in DOMAIN t : d = t[k].id
      OBVIOUS
    <2>2. InboxIn(t)[t[k].id] = t[k].tx
      BY InboxAt
    <2>. QED  BY <2>1, <2>2
  <1>3. DOMAIN InboxIn(t) = DOMAIN f
    BY InboxAt
  <1>. QED  BY <1>1, <1>2, <1>3

LEMMA InboxSame ==
  ASSUME NEW t, NEW u, Distinct(t), DOMAIN u = DOMAIN t,
         \A k \in DOMAIN t : /\ u[k].id = t[k].id /\ u[k].tx = t[k].tx
                             /\ u[k].output = t[k].output
  PROVE  InboxIn(u) = InboxIn(t) /\ SinksIn(u) = SinksIn(t)
  <1>1. Distinct(u)
    BY DEF Distinct
  <1>2. {u[k].id : k \in DOMAIN u} = {t[k].id : k \in DOMAIN t}
    OBVIOUS
  <1>3. InboxIn(u) = InboxIn(t)
    <2>1. InboxIn(t) = [d \in DOMAIN InboxIn(t) |-> InboxIn(t)[d]]
      BY DEF InboxIn
    <2>2. DOMAIN InboxIn(t) = {u[k].id : k \in DOMAIN u}
      BY <1>2, InboxAt
    <2>3. \A k \in DOMAIN t : InboxIn(t)[t[k].id] = t[k].tx
      BY InboxAt
    <2>4. \A k \in DOMAIN u : InboxIn(t)[u[k].id] = u[k].tx
      BY <2>3
    <2>. DEFINE f == InboxIn(t)
    <2>5. f = [d \in DOMAIN f |-> f[d]] /\ DOMAIN f = {u[k].id : k \in DOMAIN u}
          /\ \A k \in DOMAIN u : f[u[k].id] = u[k].tx
      BY <2>1, <2>2, <2>4
    <2>. HIDE DEF f
    <2>6. InboxIn(u) = f
      BY <1>1, <2>5, InboxIs
    <2>. QED  BY <2>6 DEF f
  <1>. QED  BY <1>3 DEF SinksIn

LEMMA InboxEdit ==
  ASSUME NEW t, NEW u, Distinct(t), NEW k \in DOMAIN t, NEW e,
         DOMAIN u = DOMAIN t, \A l \in DOMAIN t : u[l] = IF l = k THEN e ELSE t[l],
         e.id = t[k].id, e.output = t[k].output
  PROVE  /\ InboxIn(u) = [InboxIn(t) EXCEPT ![t[k].id] = e.tx]
         /\ SinksIn(u) = SinksIn(t)
  <1>0. /\ DOMAIN u = DOMAIN t
        /\ \A l \in DOMAIN t : u[l] = IF l = k THEN e ELSE t[l]
    OBVIOUS
  <1>. DEFINE f == [InboxIn(t) EXCEPT ![t[k].id] = e.tx]
  <1>1. Distinct(u)
    BY <1>0 DEF Distinct
  <1>2. {u[l].id : l \in DOMAIN u} = {t[l].id : l \in DOMAIN t}
    BY <1>0
  <1>3. f = [d \in DOMAIN f |-> f[d]] /\ DOMAIN f = {t[l].id : l \in DOMAIN t}
    BY InboxAt
  <1>4. ASSUME NEW l \in DOMAIN t PROVE f[t[l].id] = u[l].tx
    <2>1. InboxIn(t)[t[l].id] = t[l].tx /\ t[l].id \in DOMAIN InboxIn(t)
          /\ t[k].id \in DOMAIN InboxIn(t)
      BY InboxAt
    <2>2. l # k => t[l].id # t[k].id
      BY DEF Distinct
    <2>. QED  BY <1>0, <2>1, <2>2
  <1>5. \A l \in DOMAIN u : f[u[l].id] = u[l].tx
    BY <1>0, <1>4
  <1>. HIDE DEF f
  <1>6. InboxIn(u) = f
    <2>1. DOMAIN f = {u[l].id : l \in DOMAIN u}
      BY <1>2, <1>3
    <2>. QED  BY <1>1, <1>3, <1>5, <2>1, InboxIs
  <1>7. \A l \in DOMAIN t : u[l].id = t[l].id /\ u[l].output = t[l].output
    BY <1>0
  <1>8. SinksIn(u) = SinksIn(t)
    BY <1>0, <1>7 DEF SinksIn
  <1>. QED  BY <1>6, <1>8 DEF f

LEMMA InboxAppend ==
  ASSUME NEW t \in Seq(Device), NEW e \in Device, Distinct(Append(t, e))
  PROVE  /\ \A k \in DOMAIN t : t[k].id # e.id
         /\ InboxIn(Append(t, e)) =
              [d \in DOMAIN InboxIn(t) \cup {e.id} |->
                 IF d = e.id THEN e.tx ELSE InboxIn(t)[d]]
         /\ SinksIn(Append(t, e)) = SinksIn(t) \cup (IF e.output THEN {e.id} ELSE {})
  <1>. DEFINE u == Append(t, e)
              n == Len(t) + 1
              f == [d \in DOMAIN InboxIn(t) \cup {e.id} |->
                      IF d = e.id THEN e.tx ELSE InboxIn(t)[d]]
  <1>0. /\ n \in DOMAIN u /\ n \notin DOMAIN t /\ DOMAIN u = DOMAIN t \cup {n}
        /\ u[n] = e /\ \A k \in DOMAIN t : u[k] = t[k]
    OBVIOUS
  <1>. HIDE DEF n
  <1>1. Distinct(u)
    OBVIOUS
  <1>. HIDE DEF u
  <1>2. \A k \in DOMAIN t : t[k].id # e.id
    BY <1>0, <1>1 DEF Distinct
  <1>3. Distinct(t)
    BY <1>0, <1>1 DEF Distinct
  <1>4. f = [d \in DOMAIN f |-> f[d]] /\ DOMAIN f = DOMAIN InboxIn(t) \cup {e.id}
    OBVIOUS
  <1>5. DOMAIN f = {u[k].id : k \in DOMAIN u}
    <2>1. DOMAIN InboxIn(t) = {t[k].id : k \in DOMAIN t}
      BY <1>3, InboxAt
    <2>. QED  BY <1>0, <1>4, <2>1
  <1>6. \A k \in DOMAIN u : f[u[k].id] = u[k].tx
    <2>1. \A k \in DOMAIN t : InboxIn(t)[t[k].id] = t[k].tx
                              /\ t[k].id \in DOMAIN InboxIn(t)
      BY <1>3, InboxAt
    <2>2. f[e.id] = e.tx
      OBVIOUS
    <2>3. \A k \in DOMAIN t : f[t[k].id] = t[k].tx
      BY <1>2, <2>1
    <2>. QED  BY <1>0, <2>2, <2>3
  <1>7. SinksIn(u) = SinksIn(t) \cup (IF e.output THEN {e.id} ELSE {})
    BY <1>0 DEF SinksIn
  <1>. HIDE DEF f
  <1>8. InboxIn(u) = f
    BY <1>1, <1>4, <1>5, <1>6, InboxIs
  <1>. QED  BY <1>2, <1>7, <1>8 DEF u, f

LEMMA InboxWithout ==
  ASSUME NEW t \in Seq(Device), Distinct(t), NEW r \in DOMAIN t
  PROVE  /\ InboxIn(Without(t, r)) =
              [d \in DOMAIN InboxIn(t) \ {t[r].id} |-> InboxIn(t)[d]]
         /\ SinksIn(Without(t, r)) = SinksIn(t) \ {t[r].id}
  <1>. DEFINE u == Without(t, r)
              f == [d \in DOMAIN InboxIn(t) \ {t[r].id} |-> InboxIn(t)[d]]
  <1>0. /\ \A k \in DOMAIN u : Origin(r, k) \in DOMAIN t \ {r} /\ u[k] = t[Origin(r, k)]
        /\ \A l \in DOMAIN t \ {r} : \E k \in DOMAIN u : Origin(r, k) = l
    BY WithoutSlots
  <1>1. Distinct(u)
    <2>1. \A k, l \in DOMAIN u : Origin(r, k) = Origin(r, l) => k = l
      BY WithoutEntry DEF Origin
    <2>. HIDE DEF u
    <2>. QED  BY <1>0, <2>1 DEF Distinct
  <1>. HIDE DEF u
  <1>2. f = [d \in DOMAIN f |-> f[d]] /\ DOMAIN f = DOMAIN InboxIn(t) \ {t[r].id}
    OBVIOUS
  <1>3. {u[k].id : k \in DOMAIN u} = {t[k].id : k \in DOMAIN t} \ {t[r].id}
    <2>1. \A l \in DOMAIN t : t[l].id = t[r].id <=> l = r
      BY DEF Distinct
    <2>. QED  BY <1>0, <2>1
  <1>4. ASSUME NEW k \in DOMAIN u PROVE f[u[k].id] = u[k].tx
    <2>1. \A l \in DOMAIN t : InboxIn(t)[t[l].id] = t[l].tx
                              /\ t[l].id \in DOMAIN InboxIn(t)
      BY InboxAt
    <2>2. u[k].id # t[r].id
      BY <1>0 DEF Distinct
    <2>. QED  BY <1>0, <2>1, <2>2
  <1>5. SinksIn(u) = SinksIn(t) \ {t[r].id}
    BY <1>0 DEF SinksIn, Distinct
  <1>. HIDE DEF f
  <1>6. InboxIn(u) = f
    <2>1. DOMAIN f = {u[k].id : k \in DOMAIN u}
      BY <1>2, <1>3, InboxAt
    <2>. QED  BY <1>1, <1>2, <1>4, <2>1, InboxIs
  <1>. QED  BY <1>5, <1>6 DEF u, f

(* Connections stand for wires, each for one of its own.                     *)

Apart(t) == \A k, l \in DOMAIN t : Route(t[k]) = Route(t[l]) => k = l

WiresIn(t, i) == {Wire(t[k]) : k \in {l \in DOMAIN t : l >= i}}

LEMMA WireOfRoute ==
  ASSUME NEW c, NEW d, Wire(c) = Wire(d)
  PROVE  Route(c) = Route(d)
  <1>1. /\ Wire(c).src = Wire(d).src /\ Wire(c).dst = Wire(d).dst
        /\ Wire(c).sch = Wire(d).sch /\ Wire(c).dch = Wire(d).dch
    OBVIOUS
  <1>. QED  BY <1>1 DEF Wire, Route

LEMMA WiresSame ==
  ASSUME NEW t, NEW u, NEW i, DOMAIN u = DOMAIN t,
         \A k \in DOMAIN t : Wire(u[k]) = Wire(t[k])
  PROVE  WiresIn(u, i) = WiresIn(t, i)
  BY DEF WiresIn

LEMMA WiresNext ==
  ASSUME NEW t \in Seq(Connection), Apart(t), NEW i \in DOMAIN t
  PROVE  WiresIn(t, i + 1) = WiresIn(t, i) \ {Wire(t[i])} /\ Wire(t[i]) \in WiresIn(t, i)
  <1>1. \A k \in DOMAIN t : Wire(t[k]) = Wire(t[i]) => k = i
    BY WireOfRoute DEF Apart
  <1>2. \A k \in DOMAIN t : k >= i + 1 <=> k >= i /\ k # i
    OBVIOUS
  <1>3. i >= i
    OBVIOUS
  <1>. QED  BY <1>1, <1>2, <1>3 DEF WiresIn

LEMMA WiresAppend ==
  ASSUME NEW t \in Seq(Connection), NEW c \in Connection
  PROVE  WiresIn(Append(t, c), 1) = WiresIn(t, 1) \cup {Wire(c)}
  <1>. DEFINE u == Append(t, c)
              n == Len(t) + 1
  <1>1. /\ n \in DOMAIN u /\ DOMAIN u = DOMAIN t \cup {n}
        /\ u[n] = c /\ \A k \in DOMAIN t : u[k] = t[k]
        /\ \A k \in DOMAIN u : k >= 1
    OBVIOUS
  <1>. HIDE DEF u, n
  <1>. QED  BY <1>1 DEF WiresIn, u

LEMMA WiresWithout ==
  ASSUME NEW t \in Seq(Connection), Apart(t), NEW r \in DOMAIN t
  PROVE  /\ WiresIn(Without(t, r), 1) = WiresIn(t, 1) \ {Wire(t[r])}
         /\ Wire(t[r]) \in WiresIn(t, 1)
  <1>. DEFINE u == Without(t, r)
  <1>0. /\ \A k \in DOMAIN u : Origin(r, k) \in DOMAIN t \ {r} /\ u[k] = t[Origin(r, k)]
        /\ \A l \in DOMAIN t \ {r} : \E k \in DOMAIN u : Origin(r, k) = l
    BY WithoutSlots
  <1>2. (\A k \in DOMAIN u : k >= 1) /\ (\A k \in DOMAIN t : k >= 1)
    BY WithoutEntry
  <1>. HIDE DEF u
  <1>1. \A k \in DOMAIN t : Wire(t[k]) = Wire(t[r]) => k = r
    BY WireOfRoute DEF Apart
  <1>. QED  BY <1>0, <1>1, <1>2 DEF WiresIn, u

LEMMA WiresEdit ==
  ASSUME NEW t, Apart(t), NEW u, NEW k \in DOMAIN t, k >= 1, NEW c,
         DOMAIN u = DOMAIN t, \A l \in DOMAIN t : u[l] = IF l = k THEN c ELSE t[l]
  PROVE  /\ WiresIn(u, 1) = (WiresIn(t, 1) \ {Wire(t[k])}) \cup {Wire(c)}
         /\ Wire(t[k]) \in WiresIn(t, 1)
  <1>1. \A l \in DOMAIN t : Wire(t[l]) = Wire(t[k]) => l = k
    BY WireOfRoute DEF Apart
  <1>. QED  BY <1>1 DEF WiresIn

-----------------------------------------------------------------------------
(***************************************************************************)
(* What the refinement rests on beside identities and buffers.  Ids do not *)
(* wrap, also not in the middle of connect_all_to_all, and the slot that   *)
(* unregister_device found still holds the departing device.               *)
(***************************************************************************)
Unwrapped == ~wrapped.dev /\ ~wrapped.conn

ConnectRoom ==
  call.op = "connectall" => nextConn + MaxConnections - Len(conns) < IdMod

Departing == call.op = "unregister" => ports[call.slot].id = call.id

RefinementInv == IdentityInv /\ AllGood /\ Unwrapped /\ Departing

LEMMA Smaller ==
  ASSUME NEW n \in Ids, n + 1 < IdMod
  PROVE  (n + 1) % IdMod = n + 1 /\ n + 1 # 0
  BY DEF Ids

LEMMA UnwrappedStep ==
  ASSUME Wraps = FALSE, TypeOK, Unwrapped, ConnectRoom, [Next]_vars
  PROVE  Unwrapped' /\ ConnectRoom'
<1>0. /\ nextDev \in Ids /\ nextConn \in Ids /\ conns \in Seq(Connection)
      /\ Len(conns) \in Nat /\ nextConn \in Int
      /\ wrapped \in [dev : BOOLEAN, conn : BOOLEAN]
  BY DEF TypeOK, CountersOK, ConnsOK, FlagsOK, Ids
<1>w. wrapped' = wrapped => Unwrapped'
  BY DEF Unwrapped
<1>c. call'.op # "connectall" => ConnectRoom'
  BY DEF ConnectRoom
<1>i. call = Idle => call.op # "connectall"
  BY DEF Idle
<1>1. CASE VwInit \/ Deinit
  BY <1>1, <1>c, <1>i DEF VwInit, Deinit, Clear, Unwrapped
<1>2. ASSUME NEW role \in Roles, Register(role[1], role[2])
      PROVE  Unwrapped' /\ ConnectRoom'
  <2>1. nextDev' # 0
    BY <1>0, <1>2, Smaller DEF Register
  <2>. QED  BY <1>0, <1>2, <1>c, <1>i, <2>1 DEF Register, Unwrapped
<1>3. ASSUME NEW src \in Ids, NEW dst \in Ids, NEW sch \in SourceChannels,
             NEW dch \in DestChannels, NEW f \in Filters,
             CreateConnection(src, dst, sch, dch, f)
      PROVE  Unwrapped' /\ ConnectRoom'
  <2>1. nextConn' # 0
    BY <1>0, <1>3, Smaller DEF CreateConnection, Create
  <2>. QED
    BY <1>0, <1>3, <1>c, <1>i, <2>1 DEF CreateConnection, Create, Unwrapped
<1>4. CASE ConnectAllCall
  <2>1. Unwrapped'
    BY <1>4, <1>w DEF ConnectAllCall
  <2>2. ConnectRoom'
    BY <1>4 DEF ConnectAllCall, ConnectRoom
  <2>. QED  BY <2>1, <2>2
<1>5. CASE ConnectAllPair
  <2>1. CASE UNCHANGED <<conns, nextConn, wrapped>>
    <3>1. call.op = "connectall"
      BY <1>5 DEF ConnectAllPair
    <3>. QED  BY <2>1, <3>1, <1>w DEF ConnectRoom
  <2>2. ASSUME NEW src \in Ids, NEW dst \in Ids,
               CanCreate(src, dst, AnyChannel, AnyChannel),
               Create(src, dst, AnyChannel, AnyChannel, {})
        PROVE  Unwrapped' /\ ConnectRoom'
    <3>1. call.op = "connectall" /\ Len(conns) < MaxConnections
      BY <1>5, <2>2 DEF ConnectAllPair, CanCreate
    <3>2. nextConn + 1 < IdMod
      BY <1>0, <3>1 DEF ConnectRoom
    <3>3. nextConn' = nextConn + 1 /\ nextConn' # 0
      BY <1>0, <2>2, <3>2, Smaller DEF Create
    <3>4. Len(conns') = Len(conns) + 1
      <4>1. NewConnection(src, dst, AnyChannel, AnyChannel, {}) \in Connection
        <5>1. AnyChannel \in Byte /\ {} \in SUBSET Classes
          BY DEF AnyChannel, Byte
        <5>. QED  BY <5>1, NewConnectionType DEF TypeOK
      <4>. QED  BY <1>0, <2>2, <4>1, AppendEntry DEF Create
    <3>5. Unwrapped'
      BY <1>0, <2>2, <3>3 DEF Create, Unwrapped
    <3>6. ConnectRoom'
      BY <1>0, <3>1, <3>3, <3>4 DEF ConnectRoom
    <3>. QED  BY <3>5, <3>6
  <2>3. ASSUME NEW k \in DOMAIN ports PROVE ports[k].id \in Ids
    <3>1. ports[k] \in Device
      BY DEF TypeOK, PortsOK
    <3>. QED  BY <3>1 DEF Device
  <2>. QED  BY <1>5, <2>1, <2>2, <2>3 DEF ConnectAllPair, CanCreate, Known
<1>6. CASE ResetStatistics
  BY <1>6, <1>w, <1>c, <1>i DEF ResetStatistics
<1>7. CASE ProcessPort
  BY <1>7, <1>w, <1>c DEF ProcessPort, RouteCall, TypeOK, CallOK, Call, Idle
<1>8. CASE UNCHANGED vars
  BY <1>8, <1>w DEF vars, ConnectRoom
<1>9. CASE Start \/ Stop \/ DisconnectAll \/ ProcessCall
  BY <1>9, <1>w, <1>c, <1>i DEF Start, Stop, DisconnectAll, ProcessCall
<1>10. ASSUME NEW id \in Ids,
              \/ UnregisterCall(id) \/ RemoveConnection(id) \/ ReceiveMessage(id)
              \/ \E s : SetDeviceState(id, s)
              \/ \E b : EnableConnection(id, b)
              \/ \E msg : SendMessage(id, msg)
              \/ \E msg : InjectMessage(id, msg)
       PROVE  Unwrapped' /\ ConnectRoom'
  BY <1>10, <1>w, <1>c, <1>i
     DEF UnregisterCall, RemoveConnection, ReceiveMessage, SetDeviceState,
         EnableConnection, SendMessage, InjectMessage, RouteCall
<1>11. CASE \/ UnregisterRemove \/ UnregisterKeep \/ UnregisterReturn
            \/ ConnectAllReturn \/ RouteSkip \/ RouteFiltered \/ RouteUndeliverable
            \/ RouteDeliver \/ RouteReturn \/ ProcessReturn
  <2>1. wrapped' = wrapped
    BY <1>11
       DEF UnregisterRemove, UnregisterKeep, UnregisterReturn, ConnectAllReturn,
           RouteSkip, RouteFiltered, RouteUndeliverable, RouteDeliver, Forwards,
           Routing, RouteReturn, ProcessReturn
  <2>2. CASE UnregisterReturn \/ ConnectAllReturn \/ RouteReturn \/ ProcessReturn
    BY <2>1, <2>2, <1>w, <1>c
       DEF UnregisterReturn, ConnectAllReturn, RouteReturn, ProcessReturn, Idle
  <2>3. CASE ~(UnregisterReturn \/ ConnectAllReturn \/ RouteReturn \/ ProcessReturn)
    <3>1. call.op \in {"unregister", "route"} /\ call' = [call EXCEPT !.i = @ + 1]
      BY <1>11, <2>3
         DEF UnregisterRemove, UnregisterKeep, RouteSkip, RouteFiltered,
             RouteUndeliverable, RouteDeliver, Forwards, Routing
    <3>2. call \in Call
      BY DEF TypeOK, CallOK
    <3>3. call'.op \in {"unregister", "route"}
      BY <3>1, <3>2, Advance
    <3>. QED  BY <2>1, <3>3, <1>w, <1>c
  <2>. QED  BY <2>2, <2>3
<1>. QED
  BY <1>1, <1>2, <1>3, <1>4, <1>5, <1>6, <1>7, <1>8, <1>9, <1>10, <1>11
     DEF Next, Continue

LEMMA DepartingStep ==
  ASSUME TypeOK, Departing, [Next]_vars
  PROVE  Departing'
<1>. SUFFICES ASSUME call'.op = "unregister"
              PROVE  ports'[call'.slot].id = call'.id
  BY DEF Departing
<1>1. ASSUME NEW id \in Ids, UnregisterCall(id) PROVE ports'[call'.slot].id = call'.id
  BY <1>1 DEF UnregisterCall, IsFirst
<1>2. CASE UnregisterRemove \/ UnregisterKeep
  <2>1. /\ call.op = "unregister" /\ call' = [call EXCEPT !.i = @ + 1]
        /\ ports' = ports
    BY <1>2 DEF UnregisterRemove, UnregisterKeep
  <2>2. call \in Call
    BY DEF TypeOK, CallOK
  <2>3. call'.slot = call.slot /\ call'.id = call.id
    BY <2>1, <2>2, Advance
  <2>. QED  BY <2>1, <2>3 DEF Departing
<1>3. CASE UNCHANGED vars
  BY <1>3 DEF vars, Departing
<1>. QED  BY <1>1, <1>2, <1>3, UnregisterSteps

LEMMA RestInvariant == Spec => [](IdentityInv /\ AllGood /\ Departing)
<1>1. Init => AllGood /\ Departing
  BY DEF Init, AllGood, Departing, Idle
<1>2. TypeOK /\ AllGood /\ Departing /\ [Next]_vars => (AllGood /\ Departing)'
  BY GoodStep, DepartingStep
<1>. QED  BY <1>1, <1>2, TypeCorrect, Identities, PTL DEF Spec, IdentityInv

LEMMA UnwrappedInvariant ==
  ASSUME Wraps = FALSE
  PROVE  Spec => []Unwrapped
<1>1. Init => Unwrapped /\ ConnectRoom
  BY DEF Init, Unwrapped, ConnectRoom, Idle
<1>2. TypeOK /\ Unwrapped /\ ConnectRoom /\ [Next]_vars => (Unwrapped /\ ConnectRoom)'
  BY UnwrappedStep
<1>. QED  BY <1>1, <1>2, TypeCorrect, PTL DEF Spec

-----------------------------------------------------------------------------
(* The state functions of the refinement, step by step.                      *)

LEMMA StandsFor ==
  /\ InboxOf = InboxIn(ports) /\ SinksOf = SinksIn(ports)
  /\ InboxOf' = InboxIn(ports') /\ SinksOf' = SinksIn(ports')
  BY DEF InboxOf, InboxIn, SinksOf, SinksIn, PortIds, PortOf

LEMMA WiresStandFor ==
  /\ WiresFrom(1) = WiresIn(conns, 1)
  /\ WiresFrom(1)' = WiresIn(conns', 1)
  BY DEF WiresFrom, WiresIn, Wire

LEMMA NoJobNow ==
  ASSUME call.op \in {"idle", "connectall", "process"}
  PROVE  JobOf = [kind |-> "none"]
  BY DEF JobOf

LEMMA NoJobThen ==
  ASSUME call'.op \in {"idle", "connectall", "process"}
  PROVE  JobOf' = [kind |-> "none"]
  BY DEF JobOf

LEMMA PatchInit == Init => Patch!Init
<1>. SUFFICES ASSUME Init PROVE Patch!Init
  OBVIOUS
<1>1. InboxOf = <<>> /\ SinksOf = {}
  BY DEF Init, InboxOf, SinksOf, PortIds
<1>2. WiresFrom(1) = {}
  BY DEF Init, WiresFrom
<1>3. JobOf = [kind |-> "none"]
  BY NoJobNow DEF Init, Idle
<1>. QED  BY <1>1, <1>2, <1>3 DEF Init, Patch!Init, Patch!NoJob

(* Steps that change nothing the patch bay shows.                            *)
LEMMA Unseen ==
  ASSUME running' = running, SinksOf' = SinksOf, InboxOf' = InboxOf,
         WiresFrom(1)' = WiresFrom(1), JobOf' = JobOf
  PROVE  UNCHANGED Patch!vars
  BY DEF Patch!vars

LEMMA SameTables ==
  /\ ports' = ports => InboxOf' = InboxOf /\ SinksOf' = SinksOf
  /\ conns' = conns => WiresFrom(1)' = WiresFrom(1)
  /\ call' = call /\ conns' = conns => JobOf' = JobOf
<1>1. ports' = ports => InboxOf' = InboxOf /\ SinksOf' = SinksOf
  BY StandsFor
<1>2. conns' = conns => WiresFrom(1)' = WiresFrom(1)
  BY WiresStandFor
<1>3. call' = call /\ conns' = conns => JobOf' = JobOf
  BY DEF JobOf, WiresFrom, Wire
<1>. QED  BY <1>1, <1>2, <1>3

LEMMA TablesNow ==
  ASSUME RefinementInv
  PROVE  /\ TypeOK /\ Distinct(ports) /\ Apart(conns)
         /\ ports \in Seq(Device) /\ conns \in Seq(Connection)
         /\ DOMAIN InboxOf = {ports[k].id : k \in DOMAIN ports}
         /\ \A k \in DOMAIN ports : /\ ports[k].id \in DOMAIN InboxOf
                                    /\ InboxOf[ports[k].id] = ports[k].tx
                                    /\ ports[k].id \in SinksOf <=> ports[k].output
         /\ \A k, l \in DOMAIN conns : conns[k].id = conns[l].id => k = l
<1>1. TypeOK /\ ports \in Seq(Device) /\ conns \in Seq(Connection)
  BY DEF RefinementInv, IdentityInv, TypeOK, PortsOK, ConnsOK
<1>2. Distinct(ports)
  BY DEF RefinementInv, IdentityInv, Unwrapped, DeviceIdsUnique, Distinct
<1>3. Apart(conns)
  BY DEF RefinementInv, IdentityInv, RoutesUnique, Apart
<1>4. \A k, l \in DOMAIN conns : conns[k].id = conns[l].id => k = l
  BY DEF RefinementInv, IdentityInv, Unwrapped, ConnectionIdsUnique
<1>5. DOMAIN InboxOf = {ports[k].id : k \in DOMAIN ports}
  BY <1>2, InboxAt, StandsFor
<1>6. ASSUME NEW k \in DOMAIN ports
      PROVE  /\ ports[k].id \in DOMAIN InboxOf
             /\ InboxOf[ports[k].id] = ports[k].tx
             /\ ports[k].id \in SinksOf <=> ports[k].output
  <2>1. ports[k].id \in DOMAIN InboxOf /\ InboxOf[ports[k].id] = ports[k].tx
    BY <1>2, InboxAt, StandsFor
  <2>2. ports[k].id \in SinksIn(ports) <=> ports[k].output
    BY <1>2 DEF SinksIn, Distinct
  <2>. QED  BY <2>1, <2>2, StandsFor
<1>. QED  BY <1>1, <1>2, <1>3, <1>4, <1>5, <1>6

(* The calls that do not loop.                                               *)
LEMMA LifeCycleSteps ==
  ASSUME RefinementInv, VwInit \/ Deinit \/ Start \/ Stop
  PROVE  [Patch!Next]_(Patch!vars)
<1>0. JobOf = [kind |-> "none"] /\ JobOf' = [kind |-> "none"]
  <2>1. call = Idle /\ call' = Idle
    BY DEF VwInit, Deinit, Clear, Start, Stop
  <2>. QED  BY <2>1, NoJobNow, NoJobThen DEF Idle
<1>1. CASE VwInit \/ Deinit
  <2>1. ports' = <<>> /\ conns' = <<>> /\ running' = FALSE
    BY <1>1 DEF VwInit, Deinit, Clear
  <2>2. InboxOf' = <<>> /\ SinksOf' = {} /\ WiresFrom(1)' = {}
    BY <2>1 DEF InboxOf, SinksOf, PortIds, WiresFrom
  <2>. QED  BY <1>0, <2>1, <2>2 DEF Patch!Next, Patch!Reset, Patch!Clear, Patch!NoJob
<1>2. CASE Start \/ Stop
  <2>1. ports' = ports /\ conns' = conns /\ running' \in BOOLEAN
    BY <1>2 DEF Start, Stop
  <2>. QED  BY <1>0, <2>1, SameTables DEF Patch!Next, Patch!Switch, Patch!NoJob
<1>. QED  BY <1>1, <1>2

LEMMA RegisterStep ==
  ASSUME RefinementInv, RefinementInv', NEW role \in Roles, Register(role[1], role[2])
  PROVE  [Patch!Next]_(Patch!vars)
<1>. DEFINE e == NewDevice(role[1], role[2])
<1>0. JobOf = [kind |-> "none"] /\ JobOf' = [kind |-> "none"]
  <2>1. call = Idle /\ call' = Idle
    BY DEF Register
  <2>. QED  BY <2>1, NoJobNow, NoJobThen DEF Idle
<1>1. e \in Device /\ e.id = nextDev /\ e.tx = <<>>
  <2>1. role[1] \in BOOLEAN /\ role[2] \in BOOLEAN
    OBVIOUS
  <2>2. CountersOK
    BY TablesNow DEF TypeOK
  <2>. QED  BY <2>1, <2>2, NewDeviceType DEF NewDevice
<1>2. ports' = Append(ports, e) /\ conns' = conns /\ running' = running
  BY DEF Register
<1>. HIDE DEF e
<1>3. Distinct(Append(ports, e))
  BY <1>2 DEF RefinementInv, IdentityInv, Unwrapped, DeviceIdsUnique, Distinct
<1>4. /\ \A k \in DOMAIN ports : ports[k].id # nextDev
      /\ InboxOf' = [d \in DOMAIN InboxOf \cup {nextDev} |->
                       IF d = nextDev THEN <<>> ELSE InboxOf[d]]
      /\ SinksOf' = SinksOf \cup (IF e.output THEN {nextDev} ELSE {})
  <2>1. ports \in Seq(Device)
    BY TablesNow
  <2>2. /\ \A k \in DOMAIN ports : ports[k].id # e.id
        /\ InboxIn(Append(ports, e)) =
              [d \in DOMAIN InboxIn(ports) \cup {e.id} |->
                 IF d = e.id THEN e.tx ELSE InboxIn(ports)[d]]
        /\ SinksIn(Append(ports, e)) =
              SinksIn(ports) \cup (IF e.output THEN {e.id} ELSE {})
    BY <1>1, <1>3, <2>1, InboxAppend
  <2>3. InboxOf' = InboxIn(Append(ports, e)) /\ SinksOf' = SinksIn(Append(ports, e))
    BY <1>2, StandsFor
  <2>. QED  BY <1>1, <2>2, <2>3, StandsFor
<1>5. nextDev \in Ids \ DOMAIN InboxOf
  <2>1. nextDev \in Ids
    BY TablesNow DEF TypeOK, CountersOK
  <2>. QED  BY <1>4, <2>1, TablesNow
<1>6. ASSUME NEW w \in WiresFrom(1) PROVE w.src # nextDev /\ w.dst # nextDev
  <2>1. PICK k \in DOMAIN conns : w = Wire(conns[k])
    BY DEF WiresFrom
  <2>2. conns[k].src < nextDev /\ conns[k].dst < nextDev
    BY DEF RefinementInv, IdentityInv, Unwrapped, WireEndsIssued
  <2>3. conns[k] \in Connection
    BY TablesNow
  <2>4. conns[k].src \in Nat /\ conns[k].dst \in Nat /\ nextDev \in Nat
    BY <1>5, <2>3 DEF Connection, Ids
  <2>5. w.src = conns[k].src /\ w.dst = conns[k].dst
    BY <2>1 DEF Wire
  <2>. QED  BY <2>2, <2>4, <2>5
<1>7. SinksOf' \in {SinksOf, SinksOf \cup {nextDev}}
  BY <1>4
<1>8. WiresFrom(1)' = WiresFrom(1)
  BY <1>2, SameTables
<1>9. Patch!Join
  BY <1>0, <1>2, <1>4, <1>5, <1>6, <1>7, <1>8
     DEF Patch!Join, Patch!NoJob, Patch!Devices, Patch!Ends
<1>. QED  BY <1>9 DEF Patch!Next

(* A new connection, by create_connection or by connect_all_to_all.          *)
LEMMA NewWire ==
  ASSUME RefinementInv, NEW src \in Ids, NEW dst \in Ids,
         NEW sch \in SourceChannels \cup {AnyChannel},
         NEW dch \in DestChannels \cup {AnyChannel},
         NEW f \in Filters \cup {{}},
         CanCreate(src, dst, sch, dch), Create(src, dst, sch, dch, f),
         call.op \in {"idle", "connectall"}, call'.op \in {"idle", "connectall"},
         ports' = ports, running' = running
  PROVE  Patch!Plug
<1>. DEFINE c == NewConnection(src, dst, sch, dch, f)
<1>0. JobOf = [kind |-> "none"] /\ JobOf' = [kind |-> "none"]
  BY NoJobNow, NoJobThen
<1>1. c \in Connection
  <2>1. sch \in Byte /\ dch \in Byte /\ f \in SUBSET Classes
    BY DEF AnyChannel, Byte
  <2>2. CountersOK
    BY TablesNow DEF TypeOK
  <2>. QED  BY <2>1, <2>2, NewConnectionType
<1>2. Wire(c) = [src |-> src, dst |-> dst, sch |-> sch, dch |-> dch,
                 filter |-> f, enabled |-> TRUE]
  BY DEF NewConnection, Wire
<1>3. conns' = Append(conns, c)
  BY DEF Create
<1>. HIDE DEF c
<1>4. WiresFrom(1)' = WiresFrom(1) \cup {Wire(c)}
  <2>1. conns \in Seq(Connection)
    BY TablesNow
  <2>2. WiresIn(Append(conns, c), 1) = WiresIn(conns, 1) \cup {Wire(c)}
    BY <1>1, <2>1, WiresAppend
  <2>. QED  BY <1>3, <2>2, WiresStandFor
<1>5. src \in DOMAIN InboxOf /\ dst \in DOMAIN InboxOf
  BY TablesNow DEF CanCreate, Known
<1>6. ASSUME NEW w \in WiresFrom(1)
      PROVE  <<w.src, w.dst, w.sch, w.dch>> # <<src, dst, sch, dch>>
  <2>1. PICK k \in DOMAIN conns : w = Wire(conns[k])
    BY DEF WiresFrom
  <2>2. ~SameRoute(conns[k], src, dst, sch, dch)
    BY DEF CanCreate
  <2>3. /\ w.src = conns[k].src /\ w.dst = conns[k].dst
        /\ w.sch = conns[k].sch /\ w.dch = conns[k].dch
    BY <2>1 DEF Wire
  <2>. QED  BY <2>2, <2>3 DEF SameRoute
<1>7. InboxOf' = InboxOf /\ SinksOf' = SinksOf
  BY SameTables
<1>. QED
  BY <1>0, <1>2, <1>4, <1>5, <1>6, <1>7 DEF Patch!Plug, Patch!NoJob, Patch!Devices

(* A connection that goes, by remove_connection or unregister_device.        *)
LEMMA WireGone ==
  ASSUME RefinementInv, NEW k \in DOMAIN conns, conns' = Without(conns, k),
         JobOf' = JobOf, JobOf.kind \in {"none", "leave"},
         JobOf.kind = "leave" => Touches(conns[k], JobOf.id),
         ports' = ports, running' = running
  PROVE  Patch!Unplug
<1>1. /\ WiresFrom(1)' = WiresFrom(1) \ {Wire(conns[k])}
      /\ Wire(conns[k]) \in WiresFrom(1)
  <2>1. conns \in Seq(Connection) /\ Apart(conns)
    BY TablesNow
  <2>2. /\ WiresIn(Without(conns, k), 1) = WiresIn(conns, 1) \ {Wire(conns[k])}
        /\ Wire(conns[k]) \in WiresIn(conns, 1)
    BY <2>1, WiresWithout
  <2>. QED  BY <2>2, WiresStandFor
<1>2. InboxOf' = InboxOf /\ SinksOf' = SinksOf
  BY SameTables
<1>3. \A id : Touches(conns[k], id) => Patch!Ends(Wire(conns[k]), id)
  BY DEF Touches, Wire, Patch!Ends
<1>. QED  BY <1>1, <1>2, <1>3 DEF Patch!Unplug

LEMMA ConnectionSteps ==
  ASSUME RefinementInv,
         \/ \E src, dst \in Ids, sch \in SourceChannels, dch \in DestChannels,
               f \in Filters : CreateConnection(src, dst, sch, dch, f)
         \/ \E id \in Ids : RemoveConnection(id)
         \/ \E id \in Ids, b \in Switchings : EnableConnection(id, b)
         \/ DisconnectAll \/ ConnectAllCall \/ ConnectAllPair \/ ConnectAllReturn
  PROVE  [Patch!Next]_(Patch!vars)
<1>i. Idle.op = "idle"
  BY DEF Idle
<1>1. ASSUME NEW src \in Ids, NEW dst \in Ids, NEW sch \in SourceChannels,
             NEW dch \in DestChannels, NEW f \in Filters,
             CreateConnection(src, dst, sch, dch, f)
      PROVE  Patch!Plug
  BY <1>1, <1>i, NewWire DEF CreateConnection
<1>2. ASSUME NEW id \in Ids, RemoveConnection(id) PROVE Patch!Unplug
  <2>1. PICK k \in DOMAIN conns : conns' = Without(conns, k)
    BY <1>2 DEF RemoveConnection
  <2>2. JobOf = [kind |-> "none"] /\ JobOf' = JobOf
    <3>1. call.op = "idle" /\ call'.op = "idle"
      BY <1>2, <1>i DEF RemoveConnection
    <3>. QED  BY <3>1, NoJobNow, NoJobThen
  <2>. QED  BY <1>2, <2>1, <2>2, WireGone DEF RemoveConnection
<1>3. ASSUME NEW id \in Ids, NEW b \in Switchings, EnableConnection(id, b)
      PROVE  Patch!Enable
  <2>1. PICK k \in DOMAIN conns :
          conns' = [conns EXCEPT ![k] = [@ EXCEPT !.enabled = b]]
    BY <1>3 DEF EnableConnection
  <2>. DEFINE c == [conns[k] EXCEPT !.enabled = b]
  <2>2. conns[k] \in Connection /\ k >= 1
    BY TablesNow
  <2>3. Wire(c) = [Wire(conns[k]) EXCEPT !.enabled = b]
    BY <2>2 DEF Connection, Wire
  <2>4. DOMAIN conns' = DOMAIN conns
        /\ \A l \in DOMAIN conns : conns'[l] = IF l = k THEN c ELSE conns[l]
    BY <2>1, TablesNow
  <2>. HIDE DEF c
  <2>5. /\ WiresFrom(1)' = (WiresFrom(1) \ {Wire(conns[k])}) \cup {Wire(c)}
        /\ Wire(conns[k]) \in WiresFrom(1)
    <3>1. Apart(conns)
      BY TablesNow
    <3>2. /\ WiresIn(conns', 1) = (WiresIn(conns, 1) \ {Wire(conns[k])}) \cup {Wire(c)}
          /\ Wire(conns[k]) \in WiresIn(conns, 1)
      BY <2>2, <2>4, <3>1, WiresEdit
    <3>. QED  BY <3>2, WiresStandFor
  <2>6. b \in BOOLEAN
    OBVIOUS
  <2>7. JobOf = [kind |-> "none"] /\ JobOf' = JobOf
    <3>1. call.op = "idle" /\ call'.op = "idle"
      BY <1>3, <1>i DEF EnableConnection
    <3>. QED  BY <3>1, NoJobNow, NoJobThen
  <2>8. running' = running /\ InboxOf' = InboxOf /\ SinksOf' = SinksOf
    BY <1>3, SameTables DEF EnableConnection
  <2>. QED
    BY <2>3, <2>5, <2>6, <2>7, <2>8 DEF Patch!Enable, Patch!NoJob
<1>4. ASSUME DisconnectAll PROVE Patch!UnplugAll
  <2>1. JobOf = [kind |-> "none"] /\ JobOf' = JobOf
    <3>1. call.op = "idle" /\ call'.op = "idle"
      BY <1>4, <1>i DEF DisconnectAll
    <3>. QED  BY <3>1, NoJobNow, NoJobThen
  <2>2. WiresFrom(1)' = {}
    BY <1>4 DEF DisconnectAll, WiresFrom
  <2>. QED
    BY <1>4, <2>1, <2>2, SameTables DEF DisconnectAll, Patch!UnplugAll, Patch!NoJob
<1>5. ASSUME ConnectAllCall \/ ConnectAllReturn PROVE UNCHANGED Patch!vars
  <2>1. call.op \in {"idle", "connectall"} /\ call'.op \in {"idle", "connectall"}
    BY <1>5, <1>i DEF ConnectAllCall, ConnectAllReturn
  <2>2. JobOf' = JobOf
    BY <2>1, NoJobNow, NoJobThen
  <2>3. ports' = ports /\ conns' = conns /\ running' = running
    BY <1>5 DEF ConnectAllCall, ConnectAllReturn
  <2>. QED  BY <2>2, <2>3, SameTables, Unseen
<1>6. ASSUME ConnectAllPair PROVE Patch!Plug \/ UNCHANGED Patch!vars
  <2>1. call.op = "connectall" /\ ports' = ports /\ running' = running
    BY <1>6 DEF ConnectAllPair
  <2>2. call'.op = "connectall"
    BY <1>6, TablesNow DEF ConnectAllPair, NextPair, TypeOK, CallOK, Call, Idle
  <2>3. CASE UNCHANGED <<conns, nextConn, wrapped>>
    <3>1. JobOf' = JobOf
      BY <2>1, <2>2, NoJobNow, NoJobThen
    <3>. QED  BY <2>1, <2>3, <3>1, SameTables, Unseen
  <2>4. ASSUME NEW src \in Ids, NEW dst \in Ids,
               CanCreate(src, dst, AnyChannel, AnyChannel),
               Create(src, dst, AnyChannel, AnyChannel, {})
        PROVE  Patch!Plug
    BY <2>1, <2>2, <2>4, NewWire
  <2>5. ASSUME NEW k \in DOMAIN ports PROVE ports[k].id \in Ids
    <3>1. ports[k] \in Device
      BY TablesNow
    <3>. QED  BY <3>1 DEF Device
  <2>. QED  BY <1>6, <2>3, <2>4, <2>5 DEF ConnectAllPair, CanCreate, Known
<1>. QED  BY <1>1, <1>2, <1>3, <1>4, <1>5, <1>6 DEF Patch!Next

(* unregister_device.                                                        *)
LEMMA DepartureSteps ==
  ASSUME RefinementInv,
         \/ \E id \in Ids : UnregisterCall(id)
         \/ UnregisterRemove \/ UnregisterKeep \/ UnregisterReturn
  PROVE  [Patch!Next]_(Patch!vars)
<1>0. call.op = "unregister" => JobOf = [kind |-> "leave", id |-> call.id]
  BY DEF JobOf
<1>1. ASSUME NEW id \in Ids, UnregisterCall(id) PROVE Patch!BeginLeave
  <2>1. JobOf = [kind |-> "none"]
    BY <1>1, NoJobNow DEF UnregisterCall, Idle
  <2>2. call'.op = "unregister" /\ call'.id = id
    BY <1>1 DEF UnregisterCall
  <2>3. JobOf' = [kind |-> "leave", id |-> id]
    BY <2>2 DEF JobOf
  <2>4. id \in DOMAIN InboxOf
    BY <1>1, TablesNow DEF UnregisterCall, IsFirst
  <2>5. UNCHANGED <<running, SinksOf, InboxOf, WiresFrom(1)>>
    BY <1>1, SameTables DEF UnregisterCall
  <2>. QED
    BY <2>1, <2>3, <2>4, <2>5 DEF Patch!BeginLeave, Patch!NoJob, Patch!Devices
<1>2. ASSUME UnregisterRemove \/ UnregisterKeep
      PROVE  /\ JobOf' = JobOf /\ JobOf = [kind |-> "leave", id |-> call.id]
             /\ ports' = ports /\ running' = running
  <2>1. /\ call.op = "unregister" /\ call' = [call EXCEPT !.i = @ + 1]
        /\ ports' = ports /\ running' = running
    BY <1>2 DEF UnregisterRemove, UnregisterKeep
  <2>2. call'.op = "unregister" /\ call'.id = call.id
    BY <2>1, TablesNow, Advance DEF TypeOK, CallOK
  <2>3. JobOf' = [kind |-> "leave", id |-> call.id]
    BY <2>2 DEF JobOf
  <2>. QED  BY <1>0, <2>1, <2>3
<1>3. ASSUME UnregisterRemove PROVE Patch!Unplug
  <2>1. PICK k \in DOMAIN conns :
          IsFirst(conns, conns[call.i].id, k) /\ conns' = Without(conns, k)
    BY <1>3 DEF UnregisterRemove
  <2>2. k = call.i
    BY <1>3, <2>1, TablesNow DEF UnregisterRemove, IsFirst
  <2>3. Touches(conns[k], call.id)
    BY <1>3, <2>2 DEF UnregisterRemove
  <2>. QED  BY <1>2, <1>3, <2>1, <2>3, WireGone
<1>4. ASSUME UnregisterKeep PROVE UNCHANGED Patch!vars
  <2>1. conns' = conns
    BY <1>4 DEF UnregisterKeep
  <2>. QED  BY <1>2, <1>4, <2>1, SameTables, Unseen
<1>5. ASSUME UnregisterReturn PROVE Patch!Leave
  <2>1. /\ call.op = "unregister" /\ call.slot \in DOMAIN ports
        /\ ports' = Without(ports, call.slot)
    BY <1>5, TablesNow DEF UnregisterReturn, TypeOK, CallOK
  <2>2. JobOf = [kind |-> "leave", id |-> ports[call.slot].id]
    BY <1>0, <2>1 DEF RefinementInv, Departing
  <2>3. JobOf' = [kind |-> "none"]
    BY <1>5, NoJobThen DEF UnregisterReturn, Idle
  <2>4. ports \in Seq(Device) /\ Distinct(ports)
    BY TablesNow
  <2>5. /\ InboxIn(Without(ports, call.slot)) =
              [d \in DOMAIN InboxIn(ports) \ {ports[call.slot].id} |-> InboxIn(ports)[d]]
        /\ SinksIn(Without(ports, call.slot)) = SinksIn(ports) \ {ports[call.slot].id}
    BY <2>1, <2>4, InboxWithout
  <2>6. /\ InboxOf' = [d \in DOMAIN InboxOf \ {ports[call.slot].id} |-> InboxOf[d]]
        /\ SinksOf' = SinksOf \ {ports[call.slot].id}
    BY <2>1, <2>5, StandsFor
  <2>7. running' = running /\ WiresFrom(1)' = WiresFrom(1)
    BY <1>5, SameTables DEF UnregisterReturn
  <2>. QED
    BY <2>2, <2>3, <2>6, <2>7 DEF Patch!Leave, Patch!NoJob, Patch!Devices
<1>. QED  BY <1>1, <1>3, <1>4, <1>5 DEF Patch!Next

(* A message appended to the tx buffer of the device in slot k.              *)
LEMMA QueuedInbox ==
  ASSUME RefinementInv, NEW k \in DOMAIN ports, NEW msg,
         IsFirst(ports, ports[k].id, k), CanSend(k), Queue(k, msg)
  PROVE  /\ Patch!CanTake(ports[k].id)
         /\ Patch!Put(ports[k].id, msg)
         /\ SinksOf' = SinksOf /\ ports[k].id \in DOMAIN InboxOf
<1>0. ports[k] \in Device /\ ports \in Seq(Device) /\ Distinct(ports)
  BY TablesNow
<1>. DEFINE e == Queued(ports[k], msg)
<1>1. e.id = ports[k].id /\ e.output = ports[k].output /\ e.tx = Append(ports[k].tx, msg)
  BY <1>0 DEF Queued, Device
<1>2. /\ DOMAIN ports' = DOMAIN ports
      /\ \A l \in DOMAIN ports : ports'[l] = IF l = k THEN e ELSE ports[l]
  BY <1>0 DEF Queue
<1>. HIDE DEF e
<1>3. /\ InboxIn(ports') = [InboxIn(ports) EXCEPT ![ports[k].id] = e.tx]
      /\ SinksIn(ports') = SinksIn(ports)
  <2>. DEFINE u == ports'
  <2>1. DOMAIN u = DOMAIN ports
        /\ \A l \in DOMAIN ports : u[l] = IF l = k THEN e ELSE ports[l]
    BY <1>2
  <2>. HIDE DEF u
  <2>2. /\ InboxIn(u) = [InboxIn(ports) EXCEPT ![ports[k].id] = e.tx]
        /\ SinksIn(u) = SinksIn(ports)
    <3>1. Distinct(ports) /\ e.id = ports[k].id /\ e.output = ports[k].output
      BY <1>0, <1>1
    <3>. QED  BY <2>1, <3>1, InboxEdit
  <2>. QED  BY <2>2 DEF u
<1>4. /\ ports[k].id \in DOMAIN InboxOf /\ InboxOf[ports[k].id] = ports[k].tx
      /\ ports[k].id \in SinksOf
  BY TablesNow DEF CanSend
<1>5. Patch!Put(ports[k].id, msg)
  BY <1>1, <1>3, <1>4, StandsFor DEF Patch!Put
<1>6. Patch!CanTake(ports[k].id)
  BY <1>4 DEF CanSend, Patch!CanTake
<1>. QED  BY <1>3, <1>4, <1>5, <1>6, StandsFor

(* Edits that leave ids, roles and tx buffers as they are.                   *)
LEMMA ContentsSteps ==
  ASSUME RefinementInv,
         \/ \E id \in Ids, st \in DeviceStates : SetDeviceState(id, st)
         \/ \E id \in Ids : ReceiveMessage(id)
         \/ ResetStatistics
         \/ ProcessCall \/ ProcessPort \/ ProcessReturn
  PROVE  UNCHANGED Patch!vars
<1>i. Idle.op = "idle"
  BY DEF Idle
<1>0. /\ ports \in Seq(Device) /\ Distinct(ports)
      /\ \A k \in DOMAIN ports : ports[k] \in Device
  BY TablesNow
<1>1. ASSUME DOMAIN ports' = DOMAIN ports, conns' = conns, running' = running,
             JobOf' = JobOf,
             \A k \in DOMAIN ports : /\ ports'[k].id = ports[k].id
                                     /\ ports'[k].tx = ports[k].tx
                                     /\ ports'[k].output = ports[k].output
      PROVE  UNCHANGED Patch!vars
  <2>. DEFINE u == ports'
  <2>1. /\ DOMAIN u = DOMAIN ports
        /\ \A k \in DOMAIN ports : /\ u[k].id = ports[k].id /\ u[k].tx = ports[k].tx
                                   /\ u[k].output = ports[k].output
    BY <1>1
  <2>. HIDE DEF u
  <2>2. InboxIn(u) = InboxIn(ports) /\ SinksIn(u) = SinksIn(ports)
    BY <1>0, <2>1, InboxSame
  <2>3. InboxOf' = InboxOf /\ SinksOf' = SinksOf
    BY <2>2, StandsFor DEF u
  <2>. QED  BY <1>1, <2>3, SameTables, Unseen
<1>2. ASSUME NEW id \in Ids, NEW st \in DeviceStates, SetDeviceState(id, st)
      PROVE  UNCHANGED Patch!vars
  <2>1. PICK k \in DOMAIN ports : ports' = [ports EXCEPT ![k] = [@ EXCEPT !.state = st]]
    BY <1>2 DEF SetDeviceState
  <2>2. \A p \in Device : LET e == [p EXCEPT !.state = st]
                          IN  e.id = p.id /\ e.tx = p.tx /\ e.output = p.output
    BY DEF Device
  <2>3. JobOf' = JobOf /\ conns' = conns /\ running' = running
    BY <1>2, SameTables DEF SetDeviceState
  <2>4. DOMAIN ports' = DOMAIN ports
    BY <2>1
  <2>5. ASSUME NEW l \in DOMAIN ports
        PROVE  /\ ports'[l].id = ports[l].id /\ ports'[l].tx = ports[l].tx
               /\ ports'[l].output = ports[l].output
    BY <1>0, <2>1, <2>2
  <2>. QED  BY <1>1, <2>3, <2>4, <2>5
<1>3. ASSUME NEW id \in Ids, ReceiveMessage(id) PROVE UNCHANGED Patch!vars
  <2>1. PICK k \in DOMAIN ports : ports' = [ports EXCEPT ![k] = Fetched(@)]
    BY <1>3 DEF ReceiveMessage
  <2>2. \A p \in Device : /\ Fetched(p).id = p.id /\ Fetched(p).tx = p.tx
                          /\ Fetched(p).output = p.output
    BY DEF Device, Fetched
  <2>3. JobOf' = JobOf /\ conns' = conns /\ running' = running
    BY <1>3, SameTables DEF ReceiveMessage
  <2>4. DOMAIN ports' = DOMAIN ports
    BY <2>1
  <2>5. ASSUME NEW l \in DOMAIN ports
        PROVE  /\ ports'[l].id = ports[l].id /\ ports'[l].tx = ports[l].tx
               /\ ports'[l].output = ports[l].output
    BY <1>0, <2>1, <2>2
  <2>. QED  BY <1>1, <2>3, <2>4, <2>5
<1>4. ASSUME ResetStatistics PROVE UNCHANGED Patch!vars
  <2>1. \A p \in Device : LET e == [p EXCEPT !.sent = 0, !.received = 0]
                          IN  e.id = p.id /\ e.tx = p.tx /\ e.output = p.output
    BY DEF Device
  <2>2. \A k \in DOMAIN ports : /\ ports'[k].id = ports[k].id
                               /\ ports'[k].tx = ports[k].tx
                               /\ ports'[k].output = ports[k].output
    BY <1>0, <1>4, <2>1 DEF ResetStatistics
  <2>3. JobOf = [kind |-> "none"] /\ JobOf' = JobOf
    <3>1. call.op = "idle" /\ call'.op = "idle"
      BY <1>4, <1>i DEF ResetStatistics
    <3>. QED  BY <3>1, NoJobNow, NoJobThen
  <2>4. WiresFrom(1)' = WiresFrom(1)
    <3>1. \A c \in Connection : Wire([c EXCEPT !.routed = 0, !.filtered = 0]) = Wire(c)
      BY DEF Connection, Wire
    <3>2. \A k \in DOMAIN conns : conns[k] \in Connection
      BY TablesNow
    <3>. DEFINE u == [k \in DOMAIN conns |-> [conns[k] EXCEPT !.routed = 0, !.filtered = 0]]
    <3>3. DOMAIN u = DOMAIN conns /\ \A k \in DOMAIN conns : Wire(u[k]) = Wire(conns[k])
      BY <3>1, <3>2
    <3>. HIDE DEF u
    <3>4. WiresIn(u, 1) = WiresIn(conns, 1)
      BY <3>3, WiresSame
    <3>5. conns' = u
      BY <1>4 DEF ResetStatistics, u
    <3>. QED  BY <3>4, <3>5, WiresStandFor
  <2>5. InboxOf' = InboxOf /\ SinksOf' = SinksOf
    <3>. DEFINE u == ports'
    <3>1. /\ DOMAIN u = DOMAIN ports
          /\ \A k \in DOMAIN ports : /\ u[k].id = ports[k].id /\ u[k].tx = ports[k].tx
                                     /\ u[k].output = ports[k].output
      BY <1>4, <2>2 DEF ResetStatistics
    <3>. HIDE DEF u
    <3>2. InboxIn(u) = InboxIn(ports) /\ SinksIn(u) = SinksIn(ports)
      BY <1>0, <3>1, InboxSame
    <3>. QED  BY <3>2, StandsFor DEF u
  <2>6. running' = running
    BY <1>4 DEF ResetStatistics
  <2>. QED  BY <2>3, <2>4, <2>5, <2>6, Unseen
<1>5. ASSUME ProcessCall \/ ProcessPort \/ ProcessReturn PROVE UNCHANGED Patch!vars
  <2>1. ProcessPort => /\ ports' = ports /\ call' = [call EXCEPT !.i = @ + 1]
                       /\ call.op = "process" /\ running' = running /\ conns' = conns
    BY DEF ProcessPort, RefinementInv, AllGood, Good
  <2>2. ProcessPort => call'.op = "process"
    <3>1. call \in Call
      BY TablesNow DEF TypeOK, CallOK
    <3>. QED  BY <2>1, <3>1 DEF Call, Idle
  <2>3. call.op \in {"idle", "process"} /\ call'.op \in {"idle", "process"}
    BY <1>5, <1>i, <2>1, <2>2 DEF ProcessCall, ProcessReturn
  <2>4. JobOf' = JobOf
    BY <2>3, NoJobNow, NoJobThen
  <2>5. ports' = ports /\ conns' = conns /\ running' = running
    BY <1>5, <2>1 DEF ProcessCall, ProcessReturn
  <2>. QED  BY <2>4, <2>5, SameTables, Unseen
<1>. QED  BY <1>2, <1>3, <1>4, <1>5

(***************************************************************************)
(* One turn of route_message: the wire it has looked at is no longer       *)
(* pending, if it was.                                                     *)
(***************************************************************************)
LEMMA RouteTurn ==
  ASSUME RefinementInv, Routing, call' = [call EXCEPT !.i = @ + 1],
         DOMAIN conns' = DOMAIN conns,
         \A k \in DOMAIN conns : Wire(conns'[k]) = Wire(conns[k])
  PROVE  /\ JobOf.kind = "send" /\ JobOf.msg = call.msg
         /\ WiresFrom(1)' = WiresFrom(1)
         /\ ~Serves(conns[call.i], call.src) => JobOf' = JobOf
         /\ Serves(conns[call.i], call.src) =>
              /\ Wire(conns[call.i]) \in JobOf.pending
              /\ Patch!Serve(Wire(conns[call.i]))
<1>. DEFINE w == Wire(conns[call.i])
            Left(W) == {x \in W : x.enabled /\ x.src = call.src}
            Job(W) == [kind |-> "send", msg |-> call.msg, pending |-> Left(W)]
            t == conns
            u == conns'
<1>0. /\ call.op = "route" /\ call.i \in DOMAIN conns /\ call \in Call
      /\ conns \in Seq(Connection) /\ Apart(conns)
  BY TablesNow DEF Routing, TypeOK, CallOK
<1>1. /\ call'.op = "route" /\ call'.i = call.i + 1
      /\ call'.src = call.src /\ call'.msg = call.msg
  BY <1>0, Advance
<1>2. /\ WiresIn(conns, call.i + 1) = WiresIn(conns, call.i) \ {w}
      /\ w \in WiresIn(conns, call.i)
  BY <1>0, WiresNext
<1>3. DOMAIN u = DOMAIN t /\ \A k \in DOMAIN t : Wire(u[k]) = Wire(t[k])
  OBVIOUS
<1>4. \A i : WiresIn(u, i) = WiresIn(t, i)
  <2>. HIDE DEF t, u
  <2>. QED  BY <1>3, WiresSame
<1>5. JobOf = Job(WiresIn(conns, call.i))
  BY <1>0 DEF JobOf, WiresFrom, WiresIn
<1>6. JobOf' = Job(WiresIn(conns', call.i + 1))
  <2>1. JobOf' = [kind |-> "send", msg |-> call'.msg,
                  pending |-> {x \in WiresIn(conns', call'.i) :
                                 x.enabled /\ x.src = call'.src}]
    BY <1>1 DEF JobOf, WiresFrom, WiresIn, Wire
  <2>. QED  BY <1>1, <2>1
<1>7. JobOf' = Job(WiresIn(conns, call.i) \ {w})
  BY <1>2, <1>4, <1>6
<1>8. WiresFrom(1)' = WiresFrom(1)
  BY <1>4, WiresStandFor
<1>9. w.enabled = conns[call.i].enabled /\ w.src = conns[call.i].src
  BY DEF Wire
<1>. HIDE DEF w, t, u
<1>10. ASSUME ~Serves(conns[call.i], call.src) PROVE JobOf' = JobOf
  <2>1. ~(w.enabled /\ w.src = call.src)
    BY <1>9, <1>10 DEF Serves
  <2>2. Left(WiresIn(conns, call.i) \ {w}) = Left(WiresIn(conns, call.i))
    BY <2>1
  <2>. QED  BY <1>5, <1>7, <2>2
<1>11. ASSUME Serves(conns[call.i], call.src)
       PROVE  w \in JobOf.pending /\ Patch!Serve(w)
  <2>1. w.enabled /\ w.src = call.src
    BY <1>9, <1>11 DEF Serves
  <2>2. Left(WiresIn(conns, call.i) \ {w}) = Left(WiresIn(conns, call.i)) \ {w}
    OBVIOUS
  <2>3. w \in Left(WiresIn(conns, call.i))
    BY <1>2, <2>1
  <2>. DEFINE A == Left(WiresIn(conns, call.i))
              B == A \ {w}
  <2>5. /\ JobOf = [kind |-> "send", msg |-> call.msg, pending |-> A]
        /\ JobOf' = [kind |-> "send", msg |-> call.msg, pending |-> B]
    BY <1>5, <1>7, <2>2
  <2>6. JobOf' = [JobOf EXCEPT !.pending = @ \ {w}]
    <3>1. JobOf.pending \ {w} = B
      <4>. HIDE DEF A
      <4>. QED  BY <2>5
    <3>. HIDE DEF A, B, Left
    <3>2. JobOf' = [JobOf EXCEPT !.pending = B]
      BY <2>5
    <3>. QED  BY <3>1, <3>2
  <2>7. w \in JobOf.pending
    BY <2>3, <2>5 DEF A
  <2>. QED  BY <2>6, <2>7 DEF Patch!Serve
<1>. QED  BY <1>5, <1>8, <1>10, <1>11 DEF w

(* The filter and the channel mapping of the patch bay are the engine's.     *)
LEMMA SameFilter ==
  /\ \A f, ch, msg : Patch!ShouldFilter(f, ch, msg) <=> ShouldFilter(f, ch, msg)
  /\ \A msg, ch : Patch!Remap(msg, ch) = Remap(msg, ch)
<1>1. \A f, ch, msg : Patch!ShouldFilter(f, ch, msg) <=> ShouldFilter(f, ch, msg)
  BY DEF Patch!ShouldFilter, ShouldFilter, Patch!AnyChannel, AnyChannel,
     Patch!ChannelOf, ChannelOf, Patch!ClassesOf, ClassesOf,
     Patch!MessageType, MessageType
<1>2. \A msg, ch : Patch!Remap(msg, ch) = Remap(msg, ch)
  BY DEF Patch!Remap, Remap, Patch!AnyChannel, AnyChannel,
     Patch!ChannelOf, ChannelOf, Patch!MessageType, MessageType
<1>. QED  BY <1>1, <1>2

LEMMA MessageSteps ==
  ASSUME RefinementInv,
         \/ \E id \in Ids, msg \in Statuses : SendMessage(id, msg)
         \/ \E src \in Ids, msg \in Statuses : InjectMessage(src, msg)
         \/ RouteSkip \/ RouteFiltered \/ RouteUndeliverable \/ RouteDeliver
         \/ RouteReturn
  PROVE  [Patch!Next]_(Patch!vars)
<1>i. Idle.op = "idle"
  BY DEF Idle
<1>0. conns \in Seq(Connection) /\ \A k \in DOMAIN conns : conns[k] \in Connection
  BY TablesNow
<1>w. \A c \in Connection : /\ Wire(CountFiltered(c)) = Wire(c)
                            /\ Wire(CountRouted(c)) = Wire(c)
  BY DEF Connection, Wire, CountFiltered, CountRouted
<1>r. Routing => /\ Wire(conns[call.i]).filter = conns[call.i].filter
                 /\ Wire(conns[call.i]).sch = conns[call.i].sch
                 /\ Wire(conns[call.i]).dch = conns[call.i].dch
                 /\ Wire(conns[call.i]).dst = conns[call.i].dst
  BY DEF Wire
<1>1. ASSUME NEW id \in Ids, NEW msg \in Statuses, SendMessage(id, msg)
      PROVE  Patch!SendTo
  <2>1. PICK k \in DOMAIN ports : IsFirst(ports, id, k) /\ CanSend(k) /\ Queue(k, msg)
    BY <1>1 DEF SendMessage
  <2>2. IsFirst(ports, ports[k].id, k)
    BY <2>1 DEF IsFirst
  <2>3. /\ Patch!CanTake(ports[k].id) /\ Patch!Put(ports[k].id, msg)
        /\ SinksOf' = SinksOf /\ ports[k].id \in DOMAIN InboxOf
    BY <2>1, <2>2, QueuedInbox
  <2>4. JobOf = [kind |-> "none"] /\ JobOf' = JobOf
    <3>1. call.op = "idle" /\ call'.op = "idle"
      BY <1>1, <1>i DEF SendMessage
    <3>. QED  BY <3>1, NoJobNow, NoJobThen
  <2>5. running' = running /\ WiresFrom(1)' = WiresFrom(1)
    BY <1>1, SameTables DEF SendMessage
  <2>. QED
    BY <2>3, <2>4, <2>5 DEF Patch!SendTo, Patch!NoJob, Patch!Devices
<1>2. ASSUME NEW src \in Ids, NEW msg \in Statuses, InjectMessage(src, msg)
      PROVE  Patch!Broadcast
  <2>1. JobOf = [kind |-> "none"]
    BY <1>2, <1>i, NoJobNow DEF InjectMessage
  <2>2. call'.op = "route" /\ call'.i = 1 /\ call'.src = src /\ call'.msg = msg
    BY <1>2 DEF InjectMessage, RouteCall
  <2>3. conns' = conns /\ ports' = ports /\ running' = running /\ running
    BY <1>2 DEF InjectMessage
  <2>4. JobOf' = [kind |-> "send", msg |-> msg,
                  pending |-> {w \in WiresFrom(1) : w.enabled /\ w.src = src}]
    BY <2>2, <2>3 DEF JobOf, WiresFrom, Wire
  <2>. QED  BY <2>1, <2>3, <2>4, SameTables DEF Patch!Broadcast, Patch!NoJob
<1>3. ASSUME RouteSkip PROVE UNCHANGED Patch!vars
  <2>1. /\ Routing /\ call' = [call EXCEPT !.i = @ + 1] /\ conns' = conns
        /\ ports' = ports /\ running' = running
        /\ ~Serves(conns[call.i], call.src)
    BY <1>3 DEF RouteSkip
  <2>2. JobOf' = JobOf
    BY <2>1, RouteTurn
  <2>. QED  BY <2>1, <2>2, SameTables, Unseen
<1>4. ASSUME RouteFiltered PROVE Patch!Lose
  <2>1. /\ Routing /\ call' = [call EXCEPT !.i = @ + 1]
        /\ ports' = ports /\ running' = running
        /\ Serves(conns[call.i], call.src)
        /\ Passes(conns[call.i], call.msg) => TRUE \in Vetoes
        /\ conns' = [conns EXCEPT ![call.i] = CountFiltered(@)]
    BY <1>4 DEF RouteFiltered
  <2>2. /\ DOMAIN conns' = DOMAIN conns
        /\ \A k \in DOMAIN conns : Wire(conns'[k]) = Wire(conns[k])
    BY <1>0, <1>w, <2>1 DEF Routing
  <2>3. /\ JobOf.kind = "send" /\ JobOf.msg = call.msg /\ WiresFrom(1)' = WiresFrom(1)
        /\ Wire(conns[call.i]) \in JobOf.pending /\ Patch!Serve(Wire(conns[call.i]))
    BY <2>1, <2>2, RouteTurn
  <2>4. Patch!Rejects(Wire(conns[call.i]))
    BY <1>r, <2>1, <2>3, SameFilter DEF Passes, Patch!Rejects
  <2>. QED  BY <2>1, <2>3, <2>4, SameTables DEF Patch!Lose
<1>5. ASSUME RouteUndeliverable PROVE Patch!Lose
  <2>1. /\ Routing /\ call' = [call EXCEPT !.i = @ + 1] /\ conns' = conns
        /\ ports' = ports /\ running' = running
        /\ Serves(conns[call.i], call.src)
        /\ \A k \in DOMAIN ports :
              IsFirst(ports, conns[call.i].dst, k) => ~CanDeliver(k)
    BY <1>5 DEF RouteUndeliverable, Forwards
  <2>2. /\ JobOf.kind = "send" /\ JobOf.msg = call.msg
        /\ Wire(conns[call.i]) \in JobOf.pending /\ Patch!Serve(Wire(conns[call.i]))
    BY <2>1, RouteTurn
  <2>3. ~Patch!CanTake(conns[call.i].dst)
    <3>. SUFFICES ASSUME conns[call.i].dst \in SinksOf,
                         Len(InboxOf[conns[call.i].dst]) < BufferSize
                  PROVE  FALSE
      BY DEF Patch!CanTake
    <3>1. PICK k \in DOMAIN ports : conns[call.i].dst = ports[k].id /\ ports[k].output
      BY DEF SinksOf
    <3>2. IsFirst(ports, conns[call.i].dst, k)
      BY <3>1, TablesNow DEF IsFirst, Distinct
    <3>3. InboxOf[conns[call.i].dst] = ports[k].tx
      BY <3>1, TablesNow
    <3>4. ports[k].active
      BY DEF RefinementInv, AllGood, Good
    <3>. QED  BY <2>1, <3>1, <3>2, <3>3, <3>4 DEF CanDeliver, CanSend
  <2>. QED  BY <1>r, <2>1, <2>2, <2>3, SameTables DEF Patch!Lose
<1>6. ASSUME RouteDeliver PROVE Patch!Deliver
  <2>1. /\ Routing /\ call' = [call EXCEPT !.i = @ + 1] /\ running' = running
        /\ Serves(conns[call.i], call.src) /\ Passes(conns[call.i], call.msg)
        /\ conns' = [conns EXCEPT ![call.i] = CountRouted(@)]
    BY <1>6 DEF RouteDeliver, Forwards
  <2>. DEFINE msg == Remap(call.msg, conns[call.i].dch)
  <2>2. PICK k \in DOMAIN ports :
          /\ IsFirst(ports, conns[call.i].dst, k) /\ CanSend(k) /\ Queue(k, msg)
    BY <1>6 DEF RouteDeliver, CanDeliver
  <2>3. ports[k].id = conns[call.i].dst /\ IsFirst(ports, ports[k].id, k)
    BY <2>2 DEF IsFirst
  <2>4. /\ Patch!CanTake(ports[k].id) /\ Patch!Put(ports[k].id, msg)
        /\ SinksOf' = SinksOf
    <3>. HIDE DEF msg
    <3>. QED  BY <2>2, <2>3, QueuedInbox
  <2>5. /\ DOMAIN conns' = DOMAIN conns
        /\ \A l \in DOMAIN conns : Wire(conns'[l]) = Wire(conns[l])
    BY <1>0, <1>w, <2>1 DEF Routing
  <2>6. /\ JobOf.kind = "send" /\ JobOf.msg = call.msg /\ WiresFrom(1)' = WiresFrom(1)
        /\ Wire(conns[call.i]) \in JobOf.pending /\ Patch!Serve(Wire(conns[call.i]))
    BY <2>1, <2>5, RouteTurn
  <2>. QED
    BY <1>r, <2>1, <2>3, <2>4, <2>6, SameFilter DEF Patch!Deliver, Passes
<1>7. ASSUME RouteReturn PROVE Patch!Done
  <2>1. /\ call.op = "route" /\ call.i > Len(conns) /\ conns' = conns
        /\ ports' = ports /\ running' = running
    BY <1>7 DEF RouteReturn
  <2>2. JobOf' = [kind |-> "none"]
    BY <1>7, <1>i, NoJobThen DEF RouteReturn
  <2>3. WiresFrom(call.i) = {}
    <3>1. call.i \in Nat
      BY <2>1, TablesNow DEF TypeOK, CallOK, Call, Idle
    <3>. QED  BY <1>0, <2>1, <3>1 DEF WiresFrom
  <2>4. JobOf.kind = "send" /\ JobOf.pending = {}
    BY <2>1, <2>3 DEF JobOf
  <2>. QED  BY <2>1, <2>2, <2>4, SameTables DEF Patch!Done, Patch!NoJob
<1>. QED  BY <1>1, <1>2, <1>3, <1>4, <1>5, <1>6, <1>7 DEF Patch!Next

LEMMA PatchStep ==
  ASSUME RefinementInv, RefinementInv', [Next]_vars
  PROVE  [Patch!Next]_(Patch!vars)
<1>1. UNCHANGED vars => UNCHANGED Patch!vars
  <2>1. UNCHANGED vars => ports' = ports /\ conns' = conns /\ call' = call
                          /\ running' = running
    BY DEF vars
  <2>. QED  BY <2>1, SameTables, Unseen
<1>. QED
  BY <1>1, LifeCycleSteps, RegisterStep, ConnectionSteps, DepartureSteps,
     ContentsSteps, MessageSteps DEF Next, Continue

(***************************************************************************)
(* For tables, buffers and ids of any size: until an id counter wraps,     *)
(* every step of the engine is a step of the patch bay, or changes nothing *)
(* that the patch bay shows.                                               *)
(***************************************************************************)
THEOREM StepsImplement ==
  Spec => [][Unwrapped /\ Unwrapped' => Patch!Next \/ UNCHANGED Patch!vars]_vars
<1>1. /\ IdentityInv /\ AllGood /\ Departing
      /\ (IdentityInv /\ AllGood /\ Departing)'
      /\ [Next]_vars
      => [Unwrapped /\ Unwrapped' => Patch!Next \/ UNCHANGED Patch!vars]_vars
  BY PatchStep DEF RefinementInv
<1>. QED  BY <1>1, RestInvariant, PTL DEF Spec

(***************************************************************************)
(* So the engine implements the patch bay in the behaviours in which no id *)
(* is issued past the last one, where no counter ever wraps, not even in   *)
(* the middle of connect_all_to_all.                                       *)
(***************************************************************************)
THEOREM Refinement ==
  ASSUME Wraps = FALSE
  PROVE  Spec => ImplementsPatchBay
<1>1. RefinementInv /\ RefinementInv' /\ [Next]_vars => [Patch!Next]_(Patch!vars)
  BY PatchStep
<1>. QED
  BY <1>1, PatchInit, RestInvariant, UnwrappedInvariant, PTL
     DEF Spec, RefinementInv, ImplementsPatchBay, Patch!Spec
=============================================================================
