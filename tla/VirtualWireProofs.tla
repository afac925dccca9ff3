-------------------------- MODULE VirtualWireProofs --------------------------
EXTENDS VirtualWireProperties, TLAPS

(* The shift loops keep the other entries, in order.                         *)
LEMMA WithoutEntry ==
  ASSUME NEW S, NEW t \in Seq(S), NEW k \in DOMAIN t
  PROVE  /\ Without(t, k) \in Seq(S)
         /\ Len(Without(t, k)) = Len(t) - 1
         /\ \A j \in DOMAIN Without(t, k) :
              Without(t, k)[j] = IF j < k THEN t[j] ELSE t[j + 1]
  <1>1. Len(t) \in Nat /\ k \in 1 .. Len(t)
    OBVIOUS
  <1>2. Without(t, k) \in [1 .. Len(t) - 1 -> S]
    BY <1>1 DEF Without
  <1>3. Len(t) - 1 \in Nat
    BY <1>1
  <1>. QED  BY <1>1, <1>2, <1>3 DEF Without

(* Its slots are the other slots of the table, in their order.               *)
Origin(r, k) == IF k < r THEN k ELSE k + 1

LEMMA WithoutSlots ==
  ASSUME NEW S, NEW t \in Seq(S), NEW r \in DOMAIN t
  PROVE  /\ \A k \in DOMAIN Without(t, r) :
              /\ Origin(r, k) \in DOMAIN t \ {r}
              /\ Without(t, r)[k] = t[Origin(r, k)]
         /\ \A l \in DOMAIN t \ {r} :
              \E k \in DOMAIN Without(t, r) : Origin(r, k) = l
         /\ \A k, l \in DOMAIN Without(t, r) :
              k < l => Origin(r, k) < Origin(r, l)
  <1>. DEFINE u == Without(t, r)
  <1>1. /\ DOMAIN u = 1 .. Len(t) - 1 /\ Len(t) \in Nat
        /\ \A k \in DOMAIN u : u[k] = t[Origin(r, k)]
    BY WithoutEntry DEF Origin
  <1>. HIDE DEF u
  <1>2. \A k \in DOMAIN u : Origin(r, k) \in DOMAIN t \ {r}
    BY <1>1 DEF Origin
  <1>3. ASSUME NEW l \in DOMAIN t \ {r} PROVE \E k \in DOMAIN u : Origin(r, k) = l
    <2>1. CASE l < r
      BY <1>1, <2>1 DEF Origin
    <2>2. CASE l > r
      <3>1. l - 1 \in DOMAIN u /\ Origin(r, l - 1) = l
        BY <1>1, <2>2 DEF Origin
      <3>. QED  BY <3>1
    <2>. QED  BY <2>1, <2>2
  <1>4. \A k, l \in DOMAIN u : k < l => Origin(r, k) < Origin(r, l)
    BY <1>1 DEF Origin
  <1>. QED  BY <1>1, <1>2, <1>3, <1>4 DEF u

LEMMA AppendEntry ==
  ASSUME NEW S, NEW t \in Seq(S), NEW e \in S
  PROVE  /\ Append(t, e) \in Seq(S)
         /\ Len(Append(t, e)) = Len(t) + 1
         /\ \A j \in DOMAIN Append(t, e) :
              Append(t, e)[j] = IF j <= Len(t) THEN t[j] ELSE e
  OBVIOUS

LEMMA UpdateEntry ==
  ASSUME NEW S, NEW t \in Seq(S), NEW u, NEW k \in DOMAIN t, NEW e \in S,
         u = [t EXCEPT ![k] = e]
  PROVE  /\ u \in Seq(S) /\ Len(u) = Len(t)
         /\ \A j \in DOMAIN t : u[j] = IF j = k THEN e ELSE t[j]
  OBVIOUS

LEMMA RemapByte ==
  ASSUME NEW status \in Byte, NEW dch \in Byte
  PROVE  Remap(status, dch) \in Byte
  BY DEF Remap, MessageType, ChannelOf, AnyChannel, Byte


-----------------------------------------------------------------------------
(* Edits of one entry.                                                       *)

USE SizesAssumption, ArgumentsAssumption

LEMMA DeviceEdits ==
  ASSUME NEW p \in Device
  PROVE  /\ \A s \in AnyState : [p EXCEPT !.state = s] \in Device
         /\ \A msg \in Byte : Queued(p, msg) \in Device
         /\ Fetched(p) \in Device
         /\ p.rx # <<>> => Drained(p) \in Device
         /\ [p EXCEPT !.sent = 0, !.received = 0] \in Device
  <1>. p.rx \in Seq(Byte) /\ p.tx \in Seq(Byte)
    BY DEF Device
  <1>1. \A s \in AnyState : [p EXCEPT !.state = s] \in Device
    BY DEF Device
  <1>2. ASSUME NEW msg \in Byte PROVE Queued(p, msg) \in Device
    <2>1. Append(p.tx, msg) \in Seq(Byte)
      BY AppendEntry
    <2>2. \A q \in Seq(Byte), n \in Nat :
            [p EXCEPT !.tx = q, !.sent = n] \in Device
      BY DEF Device
    <2>3. p.sent + 1 \in Nat
      BY DEF Device
    <2>. QED  BY <2>1, <2>2, <2>3 DEF Queued
  <1>3. Fetched(p) \in Device
    <2>. DEFINE q == IF p.rx = <<>> THEN <<>> ELSE Tail(p.rx)
    <2>1. q \in Seq(Byte)
      OBVIOUS
    <2>2. Fetched(p) = [p EXCEPT !.rx = q]
      BY DEF Fetched
    <2>. HIDE DEF q
    <2>. QED  BY <2>1, <2>2 DEF Device
  <1>4. ASSUME p.rx # <<>> PROVE Drained(p) \in Device
    <2>1. Tail(p.rx) \in Seq(Byte)
      BY <1>4
    <2>2. \A q \in Seq(Byte), n \in Nat :
            [p EXCEPT !.rx = q, !.received = n] \in Device
      BY DEF Device
    <2>3. p.received + 1 \in Nat
      BY DEF Device
    <2>. QED  BY <2>1, <2>2, <2>3 DEF Drained
  <1>5. [p EXCEPT !.sent = 0, !.received = 0] \in Device
    BY DEF Device
  <1>. QED  BY <1>1, <1>2, <1>3, <1>4, <1>5

LEMMA ConnectionEdits ==
  ASSUME NEW c \in Connection
  PROVE  /\ \A b \in BOOLEAN : [c EXCEPT !.enabled = b] \in Connection
         /\ CountFiltered(c) \in Connection
         /\ CountRouted(c) \in Connection
         /\ [c EXCEPT !.routed = 0, !.filtered = 0] \in Connection
  <1>1. \A b \in BOOLEAN : [c EXCEPT !.enabled = b] \in Connection
    BY DEF Connection
  <1>2. CountFiltered(c) \in Connection
    BY DEF Connection, CountFiltered
  <1>3. CountRouted(c) \in Connection
    BY DEF Connection, CountRouted
  <1>4. [c EXCEPT !.routed = 0, !.filtered = 0] \in Connection
    BY DEF Connection
  <1>. QED  BY <1>1, <1>2, <1>3, <1>4

LEMMA NewDeviceType ==
  ASSUME CountersOK, NEW input \in BOOLEAN, NEW output \in BOOLEAN
  PROVE  NewDevice(input, output) \in Device
  BY DEF CountersOK, NewDevice, Device, AnyState

LEMMA NewConnectionType ==
  ASSUME CountersOK, NEW src \in Ids, NEW dst \in Ids, NEW sch \in Byte,
         NEW dch \in Byte, NEW f \in SUBSET Classes
  PROVE  NewConnection(src, dst, sch, dch, f) \in Connection
  BY DEF CountersOK, NewConnection, Connection

LEMMA MapTable ==
  ASSUME NEW S, NEW t \in Seq(S), NEW u, DOMAIN u = DOMAIN t,
         u = [k \in DOMAIN u |-> u[k]], \A k \in DOMAIN t : u[k] \in S
  PROVE  u \in Seq(S) /\ Len(u) = Len(t)
  <1>1. u \in [1 .. Len(t) -> S] /\ Len(t) \in Nat
    OBVIOUS
  <1>. QED  BY <1>1

-----------------------------------------------------------------------------
(* Type correctness.                                                         *)

LEMMA TypeStep ==
  ASSUME TypeOK, [Next]_vars
  PROVE  TypeOK'
<1>. USE DEF TypeOK
<1>1. CASE VwInit
  <2>1. FlagsOK'  BY <1>1 DEF FlagsOK, VwInit, Clear, Ids
  <2>2. PortsOK'  BY <1>1 DEF PortsOK, VwInit, Clear, Ids
  <2>3. ConnsOK'  BY <1>1 DEF ConnsOK, VwInit, Clear, Ids
  <2>4. CountersOK'  BY <1>1 DEF CountersOK, VwInit, Clear, Ids
  <2>5. CallOK'  BY <1>1 DEF CallOK, Call, VwInit, Clear, Ids, Idle
  <2>. QED  BY <2>1, <2>2, <2>3, <2>4, <2>5
<1>2. CASE Deinit
  <2>1. FlagsOK'  BY <1>2 DEF FlagsOK, Deinit, Clear, Ids
  <2>2. PortsOK'  BY <1>2 DEF PortsOK, Deinit, Clear, Ids
  <2>3. ConnsOK'  BY <1>2 DEF ConnsOK, Deinit, Clear, Ids
  <2>4. CountersOK'  BY <1>2 DEF CountersOK, Deinit, Clear, Ids
  <2>5. CallOK'  BY <1>2 DEF CallOK, Call, Deinit, Clear, Ids, Idle
  <2>. QED  BY <2>1, <2>2, <2>3, <2>4, <2>5
<1>3. CASE Start
  <2>1. FlagsOK'  BY <1>3 DEF FlagsOK, Start
  <2>2. PortsOK'  BY <1>3 DEF PortsOK, Start
  <2>3. ConnsOK'  BY <1>3 DEF ConnsOK, Start
  <2>4. CountersOK'  BY <1>3 DEF CountersOK, Start
  <2>5. CallOK'  BY <1>3 DEF CallOK, Call, Start, Idle
  <2>. QED  BY <2>1, <2>2, <2>3, <2>4, <2>5
<1>4. CASE Stop
  <2>1. FlagsOK'  BY <1>4 DEF FlagsOK, Stop
  <2>2. PortsOK'  BY <1>4 DEF PortsOK, Stop
  <2>3. ConnsOK'  BY <1>4 DEF ConnsOK, Stop
  <2>4. CountersOK'  BY <1>4 DEF CountersOK, Stop
  <2>5. CallOK'  BY <1>4 DEF CallOK, Call, Stop, Idle
  <2>. QED  BY <2>1, <2>2, <2>3, <2>4, <2>5
<1>5. ASSUME NEW role \in Roles, Register(role[1], role[2]) PROVE TypeOK'
  <2>1. FlagsOK'  BY <1>5 DEF FlagsOK, Register, Ids
  <2>2. PortsOK'
    <3>1. NewDevice(role[1], role[2]) \in Device
      BY NewDeviceType
    <3>. QED  BY <1>5, <3>1, AppendEntry DEF PortsOK, Register
  <2>3. ConnsOK'  BY <1>5 DEF ConnsOK, Register, Ids
  <2>4. CountersOK'  BY <1>5 DEF CountersOK, Register, Ids
  <2>5. CallOK'  BY <1>5 DEF CallOK, Call, Register, Ids, Idle
  <2>. QED  BY <2>1, <2>2, <2>3, <2>4, <2>5
<1>6. ASSUME NEW id \in Ids, UnregisterCall(id) PROVE TypeOK'
  <2>1. FlagsOK'  BY <1>6 DEF FlagsOK, UnregisterCall, IsFirst, Call
  <2>2. PortsOK'  BY <1>6 DEF PortsOK, UnregisterCall, IsFirst, Call
  <2>3. ConnsOK'  BY <1>6 DEF ConnsOK, UnregisterCall, IsFirst, Call
  <2>4. CountersOK'  BY <1>6 DEF CountersOK, UnregisterCall, IsFirst, Call
  <2>5. CallOK'
    <3>1. PICK k \in DOMAIN ports :
            call' = [op |-> "unregister", id |-> id, slot |-> k, i |-> 1,
                     before |-> conns]
      BY <1>6 DEF UnregisterCall
    <3>2. k \in Nat \ {0} /\ conns \in Seq(Connection) /\ ports' = ports
      BY <1>6 DEF PortsOK, ConnsOK, UnregisterCall
    <3>. QED  BY <3>1, <3>2 DEF CallOK, Call
  <2>. QED  BY <2>1, <2>2, <2>3, <2>4, <2>5
<1>7. ASSUME NEW id \in Ids, NEW s \in DeviceStates, SetDeviceState(id, s)
      PROVE  TypeOK'
  <2>1. FlagsOK'  BY <1>7 DEF FlagsOK, SetDeviceState, IsFirst, Device, AnyState
  <2>2. PortsOK'
    <3>1. PICK k \in DOMAIN ports :
            ports' = [ports EXCEPT ![k] = [@ EXCEPT !.state = s]]
      BY <1>7 DEF SetDeviceState
    <3>. DEFINE e == [ports[k] EXCEPT !.state = s]
    <3>2. ports[k] \in Device
      BY DEF PortsOK
    <3>3. e \in Device
      BY <3>2, DeviceEdits DEF AnyState
    <3>4. ports' = [ports EXCEPT ![k] = e]
      BY <3>1
    <3>. HIDE DEF e
    <3>. QED  BY <3>3, <3>4, UpdateEntry DEF PortsOK
  <2>3. ConnsOK'  BY <1>7 DEF ConnsOK, SetDeviceState, IsFirst, Device, AnyState
  <2>4. CountersOK'  BY <1>7 DEF CountersOK, SetDeviceState, IsFirst, Device, AnyState
  <2>5. CallOK'  BY <1>7 DEF CallOK, Call, SetDeviceState, IsFirst, Device, AnyState, Idle
  <2>. QED  BY <2>1, <2>2, <2>3, <2>4, <2>5
<1>8. ASSUME NEW src \in Ids, NEW dst \in Ids, NEW sch \in SourceChannels,
             NEW dch \in DestChannels, NEW f \in Filters,
             CreateConnection(src, dst, sch, dch, f)
      PROVE  TypeOK'
  <2>1. FlagsOK'  BY <1>8 DEF FlagsOK, CreateConnection, CanCreate, Create, Connection, Ids
  <2>2. PortsOK'  BY <1>8 DEF PortsOK, CreateConnection, CanCreate, Create, Connection, Ids
  <2>3. ConnsOK'
    <3>1. NewConnection(src, dst, sch, dch, f) \in Connection
      BY NewConnectionType
    <3>. QED
      BY <1>8, <3>1, AppendEntry DEF ConnsOK, CreateConnection, CanCreate, Create
  <2>4. CountersOK'  BY <1>8 DEF CountersOK, CreateConnection, CanCreate, Create, Connection, Ids
  <2>5. CallOK'  BY <1>8 DEF CallOK, Call, CreateConnection, CanCreate, Create, Connection, Ids, Idle
  <2>. QED  BY <2>1, <2>2, <2>3, <2>4, <2>5
<1>9. ASSUME NEW id \in Ids, RemoveConnection(id) PROVE TypeOK'
  <2>1. FlagsOK'  BY <1>9, WithoutEntry DEF FlagsOK, RemoveConnection, IsFirst
  <2>2. PortsOK'  BY <1>9, WithoutEntry DEF PortsOK, RemoveConnection, IsFirst
  <2>3. ConnsOK'  BY <1>9, WithoutEntry DEF ConnsOK, RemoveConnection, IsFirst
  <2>4. CountersOK'  BY <1>9, WithoutEntry DEF CountersOK, RemoveConnection, IsFirst
  <2>5. CallOK'  BY <1>9, WithoutEntry DEF CallOK, Call, RemoveConnection, IsFirst, Idle
  <2>. QED  BY <2>1, <2>2, <2>3, <2>4, <2>5
<1>10. ASSUME NEW id \in Ids, NEW b \in Switchings, EnableConnection(id, b)
       PROVE  TypeOK'
  <2>1. FlagsOK'  BY <1>10 DEF FlagsOK, EnableConnection, IsFirst, Connection
  <2>2. PortsOK'  BY <1>10 DEF PortsOK, EnableConnection, IsFirst, Connection
  <2>3. ConnsOK'
    <3>1. PICK k \in DOMAIN conns :
            conns' = [conns EXCEPT ![k] = [@ EXCEPT !.enabled = b]]
      BY <1>10 DEF EnableConnection
    <3>. DEFINE e == [conns[k] EXCEPT !.enabled = b]
    <3>2. conns[k] \in Connection
      BY DEF ConnsOK
    <3>3. e \in Connection
      BY <3>2, ConnectionEdits
    <3>4. conns' = [conns EXCEPT ![k] = e]
      BY <3>1
    <3>. HIDE DEF e
    <3>. QED  BY <3>3, <3>4, UpdateEntry DEF ConnsOK
  <2>4. CountersOK'  BY <1>10 DEF CountersOK, EnableConnection, IsFirst, Connection
  <2>5. CallOK'  BY <1>10 DEF CallOK, Call, EnableConnection, IsFirst, Connection, Idle
  <2>. QED  BY <2>1, <2>2, <2>3, <2>4, <2>5
<1>11. CASE DisconnectAll
  <2>1. FlagsOK'  BY <1>11 DEF FlagsOK, DisconnectAll
  <2>2. PortsOK'  BY <1>11 DEF PortsOK, DisconnectAll
  <2>3. ConnsOK'  BY <1>11 DEF ConnsOK, DisconnectAll
  <2>4. CountersOK'  BY <1>11 DEF CountersOK, DisconnectAll
  <2>5. CallOK'  BY <1>11 DEF CallOK, Call, DisconnectAll, Idle
  <2>. QED  BY <2>1, <2>2, <2>3, <2>4, <2>5
<1>12. CASE ConnectAllCall
  <2>1. FlagsOK'  BY <1>12 DEF FlagsOK, ConnectAllCall, Call
  <2>2. PortsOK'  BY <1>12 DEF PortsOK, ConnectAllCall, Call
  <2>3. ConnsOK'  BY <1>12 DEF ConnsOK, ConnectAllCall, Call
  <2>4. CountersOK'  BY <1>12 DEF CountersOK, ConnectAllCall, Call
  <2>5. CallOK'  BY <1>12 DEF CallOK, ConnectAllCall, Call, Idle
  <2>. QED  BY <2>1, <2>2, <2>3, <2>4, <2>5
<1>13. ASSUME NEW id \in Ids, NEW msg \in Statuses, SendMessage(id, msg)
       PROVE  TypeOK'
  <2>1. FlagsOK'  BY <1>13 DEF FlagsOK, SendMessage, Queue, IsFirst, Device
  <2>2. PortsOK'
    <3>1. PICK k \in DOMAIN ports : ports' = [ports EXCEPT ![k] = Queued(@, msg)]
      BY <1>13 DEF SendMessage, Queue
    <3>2. ports[k] \in Device
      BY DEF PortsOK
    <3>3. Queued(ports[k], msg) \in Device
      BY <3>2, DeviceEdits
    <3>. QED  BY <3>1, <3>3, UpdateEntry DEF PortsOK
  <2>3. ConnsOK'  BY <1>13 DEF ConnsOK, SendMessage, Queue, IsFirst, Device
  <2>4. CountersOK'  BY <1>13 DEF CountersOK, SendMessage, Queue, IsFirst, Device
  <2>5. CallOK'  BY <1>13 DEF CallOK, Call, SendMessage, Queue, IsFirst, Device, Idle
  <2>. QED  BY <2>1, <2>2, <2>3, <2>4, <2>5
<1>14. ASSUME NEW id \in Ids, ReceiveMessage(id) PROVE TypeOK'
  <2>1. FlagsOK'  BY <1>14 DEF FlagsOK, ReceiveMessage, IsFirst, Device
  <2>2. PortsOK'
    <3>1. PICK k \in DOMAIN ports : ports' = [ports EXCEPT ![k] = Fetched(@)]
      BY <1>14 DEF ReceiveMessage
    <3>2. ports[k] \in Device
      BY DEF PortsOK
    <3>3. Fetched(ports[k]) \in Device
      BY <3>2, DeviceEdits
    <3>. QED  BY <3>1, <3>3, UpdateEntry DEF PortsOK
  <2>3. ConnsOK'  BY <1>14 DEF ConnsOK, ReceiveMessage, IsFirst, Device
  <2>4. CountersOK'  BY <1>14 DEF CountersOK, ReceiveMessage, IsFirst, Device
  <2>5. CallOK'  BY <1>14 DEF CallOK, Call, ReceiveMessage, IsFirst, Device, Idle
  <2>. QED  BY <2>1, <2>2, <2>3, <2>4, <2>5
<1>15. ASSUME NEW src \in Ids, NEW msg \in Statuses, InjectMessage(src, msg)
       PROVE  TypeOK'
  <2>1. FlagsOK'  BY <1>15 DEF FlagsOK, InjectMessage, RouteCall, Call
  <2>2. PortsOK'  BY <1>15 DEF PortsOK, InjectMessage, RouteCall, Call
  <2>3. ConnsOK'  BY <1>15 DEF ConnsOK, InjectMessage, RouteCall, Call
  <2>4. CountersOK'  BY <1>15 DEF CountersOK, InjectMessage, RouteCall, Call
  <2>5. CallOK'  BY <1>15 DEF CallOK, InjectMessage, RouteCall, Call, Idle
  <2>. QED  BY <2>1, <2>2, <2>3, <2>4, <2>5
<1>16. CASE ProcessCall
  <2>1. FlagsOK'  BY <1>16 DEF FlagsOK, ProcessCall, Call
  <2>2. PortsOK'  BY <1>16 DEF PortsOK, ProcessCall, Call
  <2>3. ConnsOK'  BY <1>16 DEF ConnsOK, ProcessCall, Call
  <2>4. CountersOK'  BY <1>16 DEF CountersOK, ProcessCall, Call
  <2>5. CallOK'  BY <1>16 DEF CallOK, ProcessCall, Call, Idle
  <2>. QED  BY <2>1, <2>2, <2>3, <2>4, <2>5
<1>17. CASE ResetStatistics
  <2>1. FlagsOK'  BY <1>17 DEF FlagsOK, ResetStatistics, Device, Connection
  <2>2. PortsOK'
    <3>1. ASSUME NEW k \in DOMAIN ports
          PROVE  [ports[k] EXCEPT !.sent = 0, !.received = 0] \in Device
      <4>1. ports[k] \in Device
        BY DEF PortsOK
      <4>. QED  BY <4>1, DeviceEdits
    <3>2. /\ DOMAIN ports' = DOMAIN ports
          /\ ports' = [k \in DOMAIN ports' |-> ports'[k]]
          /\ \A k \in DOMAIN ports : ports'[k] \in Device
      BY <1>17, <3>1 DEF ResetStatistics
    <3>. QED  BY <3>2, MapTable DEF PortsOK
  <2>3. ConnsOK'
    <3>1. ASSUME NEW k \in DOMAIN conns
          PROVE  [conns[k] EXCEPT !.routed = 0, !.filtered = 0] \in Connection
      <4>1. conns[k] \in Connection
        BY DEF ConnsOK
      <4>. QED  BY <4>1, ConnectionEdits
    <3>2. /\ DOMAIN conns' = DOMAIN conns
          /\ conns' = [k \in DOMAIN conns' |-> conns'[k]]
          /\ \A k \in DOMAIN conns : conns'[k] \in Connection
      BY <1>17, <3>1 DEF ResetStatistics
    <3>. QED  BY <3>2, MapTable DEF ConnsOK
  <2>4. CountersOK'  BY <1>17 DEF CountersOK, ResetStatistics, Device, Connection
  <2>5. CallOK'
    <3>1. call' = Idle
      BY <1>17 DEF ResetStatistics
    <3>. QED  BY <3>1 DEF CallOK, Call, Idle
  <2>. QED  BY <2>1, <2>2, <2>3, <2>4, <2>5
<1>18. CASE UnregisterRemove
  <2>1. FlagsOK'  BY <1>18, WithoutEntry DEF FlagsOK, UnregisterRemove, IsFirst, Call, Idle
  <2>2. PortsOK'  BY <1>18, WithoutEntry DEF PortsOK, UnregisterRemove, IsFirst, Call, Idle
  <2>3. ConnsOK'  BY <1>18, WithoutEntry DEF ConnsOK, UnregisterRemove, IsFirst, Call, Idle
  <2>4. CountersOK'  BY <1>18, WithoutEntry DEF CountersOK, UnregisterRemove, IsFirst, Call, Idle
  <2>5. CallOK'
    <3>1. call.op = "unregister" /\ ports' = ports
      BY <1>18 DEF UnregisterRemove
    <3>2. call' = [call EXCEPT !.i = @ + 1]
      BY <1>18 DEF UnregisterRemove
    <3>. QED  BY <3>1, <3>2 DEF CallOK, Call, Idle
  <2>. QED  BY <2>1, <2>2, <2>3, <2>4, <2>5
<1>19. CASE UnregisterKeep
  <2>1. FlagsOK'  BY <1>19 DEF FlagsOK, UnregisterKeep, Call, Idle
  <2>2. PortsOK'  BY <1>19 DEF PortsOK, UnregisterKeep, Call, Idle
  <2>3. ConnsOK'  BY <1>19 DEF ConnsOK, UnregisterKeep, Call, Idle
  <2>4. CountersOK'  BY <1>19 DEF CountersOK, UnregisterKeep, Call, Idle
  <2>5. CallOK'  BY <1>19 DEF CallOK, UnregisterKeep, Call, Idle
  <2>. QED  BY <2>1, <2>2, <2>3, <2>4, <2>5
<1>20. CASE UnregisterReturn
  <2>1. FlagsOK'  BY <1>20, WithoutEntry DEF FlagsOK, UnregisterReturn, Call, Idle
  <2>2. PortsOK'
    <3>1. call.slot \in DOMAIN ports
      BY <1>20 DEF UnregisterReturn, CallOK
    <3>. QED  BY <1>20, <3>1, WithoutEntry DEF PortsOK, UnregisterReturn
  <2>3. ConnsOK'  BY <1>20, WithoutEntry DEF ConnsOK, UnregisterReturn, Call, Idle
  <2>4. CountersOK'  BY <1>20, WithoutEntry DEF CountersOK, UnregisterReturn, Call, Idle
  <2>5. CallOK'  BY <1>20, WithoutEntry DEF CallOK, UnregisterReturn, Call, Idle
  <2>. QED  BY <2>1, <2>2, <2>3, <2>4, <2>5
<1>21. CASE ConnectAllPair
  <2>1. FlagsOK'  BY <1>21 DEF FlagsOK, ConnectAllPair, Create, NextPair, Call, Idle
  <2>2. PortsOK'  BY <1>21 DEF PortsOK, ConnectAllPair, Create, NextPair, Call, Idle
  <2>3. ConnsOK'
    <3>1. CASE UNCHANGED conns
      BY <3>1 DEF ConnsOK
    <3>. DEFINE src == ports[call.i].id
                dst == ports[call.j].id
    <3>2. CASE CanCreate(src, dst, AnyChannel, AnyChannel)
               /\ Create(src, dst, AnyChannel, AnyChannel, {})
      <4>0. ASSUME NEW k \in DOMAIN ports PROVE ports[k].id \in Ids
        <5>1. ports[k] \in Device
          BY DEF PortsOK
        <5>. QED  BY <5>1 DEF Device
      <4>1. src \in Ids /\ dst \in Ids
        BY <3>2, <4>0 DEF CanCreate, Known
      <4>2. AnyChannel \in Byte /\ {} \in SUBSET Classes
        BY DEF AnyChannel, Byte
      <4>3. NewConnection(src, dst, AnyChannel, AnyChannel, {}) \in Connection
        <5>. HIDE DEF src, dst
        <5>. QED  BY <4>1, <4>2, NewConnectionType
      <4>. QED
        BY <3>2, <4>3, AppendEntry DEF ConnsOK, CanCreate, Create
    <3>. QED  BY <1>21, <3>1, <3>2 DEF ConnectAllPair
  <2>4. CountersOK'
    <3>1. nextConn' \in {nextConn, (nextConn + 1) % IdMod}
      BY <1>21 DEF ConnectAllPair, Create
    <3>2. nextConn' \in Ids
      BY <3>1 DEF CountersOK, Ids
    <3>. QED  BY <1>21, <3>2 DEF CountersOK, ConnectAllPair
  <2>5. CallOK'
    <3>1. /\ call \in [op : {"connectall"}, i : Nat \ {0}, j : Nat \ {0}]
          /\ call.j \in 1 .. Len(ports) \cup {1}
          /\ ports' = ports
      BY <1>21 DEF ConnectAllPair, CallOK, Call, Idle
    <3>2. call'.j \in 1 .. Len(ports) \cup {1}
      BY <1>21, <3>1 DEF ConnectAllPair, NextPair, PortsOK
    <3>. DEFINE C == [op : {"connectall"}, i : Nat \ {0}, j : Nat \ {0}]
    <3>3. call' \in C
      <4>1. [call EXCEPT !.j = @ + 1] \in C
        BY <3>1
      <4>2. [call EXCEPT !.i = @ + 1, !.j = 1] \in C
        <5>1. \A c \in C, n, m \in Nat \ {0} : [c EXCEPT !.i = n, !.j = m] \in C
          OBVIOUS
        <5>2. call.i + 1 \in Nat \ {0} /\ 1 \in Nat \ {0} /\ call \in C
          BY <3>1
        <5>. HIDE DEF C
        <5>. QED  BY <5>1, <5>2
      <4>. QED  BY <1>21, <4>1, <4>2 DEF ConnectAllPair, NextPair
    <3>. QED  BY <3>1, <3>2, <3>3 DEF CallOK, Call
  <2>. QED  BY <2>1, <2>2, <2>3, <2>4, <2>5
<1>22. CASE ConnectAllReturn
  <2>1. FlagsOK'  BY <1>22 DEF FlagsOK, ConnectAllReturn, Call
  <2>2. PortsOK'  BY <1>22 DEF PortsOK, ConnectAllReturn, Call
  <2>3. ConnsOK'  BY <1>22 DEF ConnsOK, ConnectAllReturn, Call
  <2>4. CountersOK'  BY <1>22 DEF CountersOK, ConnectAllReturn, Call
  <2>5. CallOK'  BY <1>22 DEF CallOK, ConnectAllReturn, Call, Idle
  <2>. QED  BY <2>1, <2>2, <2>3, <2>4, <2>5
<1>23. CASE RouteSkip
  <2>1. FlagsOK'  BY <1>23 DEF FlagsOK, RouteSkip, Routing, Call, Idle
  <2>2. PortsOK'  BY <1>23 DEF PortsOK, RouteSkip, Routing, Call, Idle
  <2>3. ConnsOK'  BY <1>23 DEF ConnsOK, RouteSkip, Routing, Call, Idle
  <2>4. CountersOK'  BY <1>23 DEF CountersOK, RouteSkip, Routing, Call, Idle
  <2>5. CallOK'  BY <1>23 DEF CallOK, RouteSkip, Routing, Call, Idle
  <2>. QED  BY <2>1, <2>2, <2>3, <2>4, <2>5
<1>24. CASE RouteFiltered
  <2>1. FlagsOK'  BY <1>24 DEF FlagsOK, RouteFiltered, Routing, Connection, Call, Idle
  <2>2. PortsOK'  BY <1>24 DEF PortsOK, RouteFiltered, Routing, Connection, Call, Idle
  <2>3. ConnsOK'
    <3>1. PICK k \in DOMAIN conns : conns' = [conns EXCEPT ![k] = CountFiltered(@)]
      BY <1>24 DEF RouteFiltered, Routing
    <3>2. conns[k] \in Connection
      BY DEF ConnsOK
    <3>3. CountFiltered(conns[k]) \in Connection
      BY <3>2, ConnectionEdits
    <3>. QED  BY <3>1, <3>3, UpdateEntry DEF ConnsOK
  <2>4. CountersOK'  BY <1>24 DEF CountersOK, RouteFiltered, Routing, Connection, Call, Idle
  <2>5. CallOK'  BY <1>24 DEF CallOK, RouteFiltered, Routing, Connection, Call, Idle
  <2>. QED  BY <2>1, <2>2, <2>3, <2>4, <2>5
<1>25. CASE RouteUndeliverable
  <2>1. FlagsOK'  BY <1>25 DEF FlagsOK, RouteUndeliverable, Forwards, Routing, Call, Idle
  <2>2. PortsOK'  BY <1>25 DEF PortsOK, RouteUndeliverable, Forwards, Routing, Call, Idle
  <2>3. ConnsOK'  BY <1>25 DEF ConnsOK, RouteUndeliverable, Forwards, Routing, Call, Idle
  <2>4. CountersOK'  BY <1>25 DEF CountersOK, RouteUndeliverable, Forwards, Routing, Call, Idle
  <2>5. CallOK'  BY <1>25 DEF CallOK, RouteUndeliverable, Forwards, Routing, Call, Idle
  <2>. QED  BY <2>1, <2>2, <2>3, <2>4, <2>5
<1>26. CASE RouteDeliver
  <2>1. FlagsOK'  BY <1>26, RemapByte DEF FlagsOK, RouteDeliver, Forwards, Routing, Queue, IsFirst, Device, Connection, Call, Idle
  <2>2. PortsOK'
    <3>1. PICK k \in DOMAIN ports :
            Queue(k, Remap(call.msg, conns[call.i].dch))
      BY <1>26 DEF RouteDeliver
    <3>2. Remap(call.msg, conns[call.i].dch) \in Byte
      <4>1. call.msg \in Byte /\ conns[call.i] \in Connection
        BY <1>26 DEF RouteDeliver, Forwards, Routing, CallOK, Call, Idle, ConnsOK
      <4>. QED  BY <4>1, RemapByte DEF Connection
    <3>3. ports[k] \in Device
      BY DEF PortsOK
    <3>4. Queued(ports[k], Remap(call.msg, conns[call.i].dch)) \in Device
      BY <3>2, <3>3, DeviceEdits
    <3>. QED  BY <3>1, <3>4, UpdateEntry DEF PortsOK, Queue
  <2>3. ConnsOK'
    <3>1. PICK k \in DOMAIN conns : conns' = [conns EXCEPT ![k] = CountRouted(@)]
      BY <1>26 DEF RouteDeliver, Forwards, Routing
    <3>2. conns[k] \in Connection
      BY DEF ConnsOK
    <3>3. CountRouted(conns[k]) \in Connection
      BY <3>2, ConnectionEdits
    <3>. QED  BY <3>1, <3>3, UpdateEntry DEF ConnsOK
  <2>4. CountersOK'  BY <1>26, RemapByte DEF CountersOK, RouteDeliver, Forwards, Routing, Queue, IsFirst, Device, Connection, Call, Idle
  <2>5. CallOK'  BY <1>26, RemapByte DEF CallOK, RouteDeliver, Forwards, Routing, Queue, IsFirst, Device, Connection, Call, Idle
  <2>. QED  BY <2>1, <2>2, <2>3, <2>4, <2>5
<1>27. CASE RouteReturn
  <2>1. FlagsOK'  BY <1>27 DEF FlagsOK, RouteReturn, Call, Idle
  <2>2. PortsOK'  BY <1>27 DEF PortsOK, RouteReturn, Call, Idle
  <2>3. ConnsOK'  BY <1>27 DEF ConnsOK, RouteReturn, Call, Idle
  <2>4. CountersOK'  BY <1>27 DEF CountersOK, RouteReturn, Call, Idle
  <2>5. CallOK'  BY <1>27 DEF CallOK, RouteReturn, Call, Idle
  <2>. QED  BY <2>1, <2>2, <2>3, <2>4, <2>5
<1>28. CASE ProcessPort
  <2>1. FlagsOK'  BY <1>28 DEF FlagsOK, ProcessPort, RouteCall, Device, Call, Idle
  <2>2. PortsOK'
    <3>1. call.i \in DOMAIN ports /\ ports[call.i] \in Device
      BY <1>28 DEF ProcessPort, PortsOK
    <3>2. \/ ports' = ports
          \/ /\ ports[call.i].rx # <<>>
             /\ ports' = [ports EXCEPT ![call.i] = Drained(@)]
      BY <1>28 DEF ProcessPort
    <3>3. CASE ports' = ports
      BY <3>3 DEF PortsOK
    <3>4. CASE /\ ports[call.i].rx # <<>>
               /\ ports' = [ports EXCEPT ![call.i] = Drained(@)]
      <4>1. Drained(ports[call.i]) \in Device
        BY <3>1, <3>4, DeviceEdits
      <4>. QED  BY <3>1, <3>4, <4>1, UpdateEntry DEF PortsOK
    <3>. QED  BY <3>2, <3>3, <3>4
  <2>3. ConnsOK'  BY <1>28 DEF ConnsOK, ProcessPort, RouteCall, Device, Call, Idle
  <2>4. CountersOK'  BY <1>28 DEF CountersOK, ProcessPort, RouteCall, Device, Call, Idle
  <2>5. CallOK'
    <3>1. call \in [op : {"process"}, i : Nat \ {0}]
      BY <1>28 DEF ProcessPort, CallOK, Call, Idle
    <3>2. ports[call.i] \in Device
      BY <1>28 DEF ProcessPort, PortsOK
    <3>. DEFINE p == ports[call.i]
    <3>3. CASE p.rx # <<>> /\ RouteCall(p.id, Head(p.rx), call.i)
      BY <3>1, <3>2, <3>3 DEF RouteCall, Device, CallOK, Call
    <3>4. CASE call' = [call EXCEPT !.i = @ + 1]
      BY <3>1, <3>4 DEF CallOK, Call
    <3>. QED  BY <1>28, <3>3, <3>4 DEF ProcessPort
  <2>. QED  BY <2>1, <2>2, <2>3, <2>4, <2>5
<1>29. CASE ProcessReturn
  <2>1. FlagsOK'  BY <1>29 DEF FlagsOK, ProcessReturn, Call
  <2>2. PortsOK'  BY <1>29 DEF PortsOK, ProcessReturn, Call
  <2>3. ConnsOK'  BY <1>29 DEF ConnsOK, ProcessReturn, Call
  <2>4. CountersOK'  BY <1>29 DEF CountersOK, ProcessReturn, Call
  <2>5. CallOK'  BY <1>29 DEF CallOK, ProcessReturn, Call, Idle
  <2>. QED  BY <2>1, <2>2, <2>3, <2>4, <2>5
<1>30. CASE UNCHANGED vars
  <2>1. FlagsOK'  BY <1>30 DEF FlagsOK, vars
  <2>2. PortsOK'  BY <1>30 DEF PortsOK, vars
  <2>3. ConnsOK'  BY <1>30 DEF ConnsOK, vars
  <2>4. CountersOK'  BY <1>30 DEF CountersOK, vars
  <2>5. CallOK'  BY <1>30 DEF CallOK, Call, vars, Idle
  <2>. QED  BY <2>1, <2>2, <2>3, <2>4, <2>5
<1>. QED
  BY <1>1, <1>2, <1>3, <1>4, <1>5, <1>6, <1>7, <1>8, <1>9, <1>10, <1>11,
     <1>12, <1>13, <1>14, <1>15, <1>16, <1>17, <1>18, <1>19, <1>20, <1>21,
     <1>22, <1>23, <1>24, <1>25, <1>26, <1>27, <1>28, <1>29, <1>30
     DEF Next, Continue

(***************************************************************************)
(* Every call keeps the state well typed and the tables, the buffers'      *)
(* bytes and the id counters within their bounds.                          *)
(***************************************************************************)
THEOREM TypeCorrect == Spec => []TypeOK
<1>1. Init => TypeOK
  <2>. SUFFICES ASSUME Init PROVE TypeOK
    OBVIOUS
  <2>. USE DEF Init
  <2>1. FlagsOK     BY DEF FlagsOK
  <2>2. PortsOK     BY DEF PortsOK
  <2>3. ConnsOK     BY DEF ConnsOK
  <2>4. CountersOK  BY DEF CountersOK, Ids
  <2>5. CallOK      BY DEF CallOK, Call, Idle
  <2>. QED  BY <2>1, <2>2, <2>3, <2>4, <2>5 DEF TypeOK
<1>2. TypeOK /\ [Next]_vars => TypeOK'
  BY TypeStep
<1>. QED  BY <1>1, <1>2, PTL DEF Spec
=============================================================================
