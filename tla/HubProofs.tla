------------------------------ MODULE HubProofs ------------------------------
(***************************************************************************)
(* The hub uses the engine as its interface allows, of all the devices it  *)
(* finds it connects one, and its shutdown skips every other device: for   *)
(* any sizes, any scan and any messages.                                   *)
(***************************************************************************)
EXTENDS Hub, VirtualWireProofs, FiniteSetTheorems

USE SizesAssumption, ArgumentsAssumption

Slot == [usb : Nat, vw : Ids, midi : BOOLEAN]

LEMMA Passed ==
  /\ <<TRUE, TRUE>> \in Roles /\ {} \in Filters /\ Incoming \subseteq Statuses
  /\ AnyChannel \in SourceChannels /\ AnyChannel \in DestChannels
  BY HubAssumption

LEMMA IdsExist == 0 \in Ids
  BY SizesAssumption DEF Ids

LEMMA EntryType ==
  ASSUME NEW u \in Nat, NEW v \in Ids, NEW m \in BOOLEAN
  PROVE  Entry(u, v, m) \in Slot /\ Entry(u, v, m).midi = m
  BY DEF Entry, Slot

LEMMA QueueEdits ==
  ASSUME NEW q \in Seq(Incoming)
  PROVE  <<>> \in Seq(Incoming) /\ (q # <<>> => Tail(q) \in Seq(Incoming))
  OBVIOUS

-----------------------------------------------------------------------------
(***************************************************************************)
(* The invariant.  One MIDI device, because who holds the driver is in the *)
(* table or on its way there; no connection, because while a device is on  *)
(* its way no other is in the table; and the engine's one device is the    *)
(* hub's, except while it is being connected or disconnected.              *)
(***************************************************************************)
Connecting == {"begin", "register", "wire"}

AppOK ==
  /\ table \in Seq(Slot) /\ subject \in Slot
  /\ idx \in Nat \ {0} /\ scanned \in Nat /\ rx \in Seq(Incoming)

Holder ==
  /\ \A k, l \in MidiSlots : k = l
  /\ MidiSlots # {} => midi.initialized
  /\ pc \in Connecting => midi.initialized /\ MidiSlots = {}
  /\ pc \in Connecting \cup {"init"} => subject.midi

Unwired ==
  /\ conns = <<>>
  /\ \A k \in DOMAIN ports : ports[k].tx = <<>> /\ ports[k].rx = <<>>

Owned ==
  /\ Len(ports) <= 1
  /\ ports # <<>> =>
       IF pc = "wire"
       THEN ports[1].id = subject.vw
       ELSE MidiSlots # {} /\ \A k \in MidiSlots : table[k].vw = ports[1].id

Unplugging ==
  /\ call.op # "connectall"
  /\ call.op = "unregister" => pc = "unplug"
  /\ pc = "unplug" =>
       /\ slot \in DOMAIN table
       /\ call.op # "unregister" /\ slot \in MidiSlots => ports = <<>>

HubInv == TypeOK /\ AppOK /\ Holder /\ Unwired /\ Owned /\ Unplugging

LEMMA HubInitInv == HubInit => HubInv /\ Init
  <1>. SUFFICES ASSUME HubInit PROVE HubInv
    BY DEF HubInit
  <1>. USE DEF HubInit, Init
  <1>1. TypeOK
    <2>1. FlagsOK     BY DEF FlagsOK
    <2>2. PortsOK     BY DEF PortsOK
    <2>3. ConnsOK     BY DEF ConnsOK
    <2>4. CountersOK  BY DEF CountersOK, Ids
    <2>5. CallOK      BY DEF CallOK, Call, Idle
    <2>. QED  BY <2>1, <2>2, <2>3, <2>4, <2>5 DEF TypeOK
  <1>2. AppOK
    <2>1. FALSE \in BOOLEAN /\ 0 \in Nat
      OBVIOUS
    <2>2. NoEntry \in Slot
      BY <2>1, EntryType, IdsExist DEF NoEntry
    <2>. QED  BY <2>2 DEF AppOK
  <1>3. MidiSlots = {}
    BY DEF MidiSlots
  <1>4. Holder /\ Unwired /\ Owned /\ Unplugging
    BY <1>3 DEF Holder, Unwired, Owned, Unplugging, Idle, Connecting
  <1>. QED  BY <1>1, <1>2, <1>4 DEF HubInv

-----------------------------------------------------------------------------
(* The hub's steps are the engine's, or leave it alone.                      *)

LEMMA KnownIds ==
  ASSUME TypeOK, NEW id, Known(id)
  PROVE  id \in Ids
  <1>1. PICK k \in DOMAIN ports : ports[k].id = id
    BY DEF Known
  <1>2. ports[k] \in Device
    BY DEF TypeOK, PortsOK
  <1>. QED  BY <1>1, <1>2 DEF Device

LEMMA HubEngineStep ==
  ASSUME HubInv, [HubNext]_hubVars
  PROVE  [Next]_vars
  <1>0. TypeOK /\ AppOK
    BY DEF HubInv
  <1>1. CASE UNCHANGED vars
    BY <1>1
  <1>2. CASE VwInit \/ Start \/ ProcessCall \/ Deinit \/ Continue
    BY <1>2 DEF Next
  <1>3. CASE Register(TRUE, TRUE)
    BY <1>3, Passed DEF Next
  <1>4. ASSUME NEW src, NEW dst, Wire(src, dst) PROVE [Next]_vars
    <2>1. CASE CanCreate(src, dst, AnyChannel, AnyChannel)
      <3>1. src \in Ids /\ dst \in Ids
        BY <1>0, <2>1, KnownIds DEF CanCreate
      <3>. QED  BY <1>4, <2>1, <3>1, Passed DEF Wire, Next
    <2>. QED  BY <1>4, <2>1 DEF Wire
  <1>5. ASSUME NEW id, ReceiveMessage(id) PROVE [Next]_vars
    <2>1. id \in Ids
      BY <1>0, <1>5, KnownIds DEF ReceiveMessage, IsFirst, Known
    <2>. QED  BY <1>5, <2>1 DEF Next
  <1>6. ASSUME NEW id, UnregisterCall(id) PROVE [Next]_vars
    <2>1. id \in Ids
      BY <1>0, <1>6, KnownIds DEF UnregisterCall, IsFirst, Known
    <2>. QED  BY <1>6, <2>1 DEF Next
  <1>7. ASSUME NEW k \in DOMAIN table, NEW msg \in Incoming,
               InjectMessage(table[k].vw, msg)
        PROVE  [Next]_vars
    <2>1. table[k] \in Slot
      BY <1>0 DEF AppOK
    <2>2. table[k].vw \in Ids /\ msg \in Statuses
      BY <2>1, Passed DEF Slot
    <2>. QED  BY <1>7, <2>2 DEF Next
  <1>8. CASE Boot \/ BootStart \/ EndTurn \/ CleanupEnd \/ EngineStep
    BY <1>2, <1>8 DEF Boot, BootStart, EndTurn, CleanupEnd, EngineStep
  <1>9. CASE \/ Turn \/ LeaveLoop \/ ScanNothing \/ (\E m \in Kinds : ScanFinds(m))
             \/ InitDevice \/ StartDevice \/ CountDevice \/ PassOver \/ Unplug
             \/ Signal \/ UNCHANGED hubVars
    BY <1>1, <1>9 DEF Turn, LeaveLoop, ScanNothing, ScanFinds, InitDevice,
       StartDevice, CountDevice, PassOver, Unplug, Signal, hubVars
  <1>10. CASE RegisterDevice
    BY <1>1, <1>3, <1>10 DEF RegisterDevice
  <1>11. CASE WireDevice
    BY <1>1, <1>4, <1>11 DEF WireDevice
  <1>12. CASE DrainDriver
    <2>1. CASE rx # <<>>
      <3>1. Head(rx) \in Incoming
        BY <1>0, <2>1 DEF AppOK
      <3>. QED  BY <1>7, <1>12, <2>1, <3>1 DEF DrainDriver
    <2>. QED  BY <1>1, <1>12, <2>1 DEF DrainDriver
  <1>13. CASE DeliverToDriver
    BY <1>1, <1>5, <1>13 DEF DeliverToDriver
  <1>14. CASE CleanupDevice
    BY <1>1, <1>6, <1>14 DEF CleanupDevice
  <1>15. ASSUME NEW msg \in Incoming, Arrive(msg) PROVE [Next]_vars
    <2>1. CASE Reaches(msg)
      <3>1. PICK k \in DOMAIN table : MidiSlots = {k}
        BY <2>1 DEF Reaches, MidiSlots, HubInv, Holder
      <3>2. k =< k
        BY <1>0 DEF AppOK
      <3>3. Min(MidiSlots) = k
        BY <3>1, <3>2 DEF Min
      <3>. QED  BY <1>7, <1>15, <2>1, <3>3 DEF Arrive
    <2>. QED  BY <1>1, <1>15, <2>1 DEF Arrive
  <1>. QED
    BY <1>8, <1>9, <1>10, <1>11, <1>12, <1>13, <1>14, <1>15
       DEF HubNext, HubStep, Run
-----------------------------------------------------------------------------
(* What the engine does, called by the hub.                                  *)

LEMMA NoWireToServe ==
  ASSUME HubInv
  PROVE  ~Routing /\ ~UnregisterRemove /\ ~UnregisterKeep
         /\ ~ConnectAllPair /\ ~ConnectAllReturn
  BY DEF HubInv, Unwired, Unplugging, Routing, UnregisterRemove, UnregisterKeep,
         ConnectAllPair, ConnectAllReturn

Harmless ==                            \* tables as before, no such call pending
  /\ UNCHANGED <<ports, conns>>
  /\ call'.op \in {"idle", "process", "route"} /\ call.op # "unregister"

LEMMA ContinueEffect ==
  ASSUME HubInv, Continue
  PROVE  UnregisterReturn \/ Harmless
  <1>1. CASE RouteReturn
    BY <1>1 DEF RouteReturn, Harmless, Idle
  <1>2. CASE ProcessPort
    <2>1. ports[call.i].rx = <<>>
      BY <1>2 DEF ProcessPort, HubInv, Unwired
    <2>2. call' = [call EXCEPT !.i = @ + 1]
      BY <1>2, <2>1 DEF ProcessPort
    <2>3. call \in [op : {"process"}, i : Nat \ {0}]
      BY <1>2 DEF ProcessPort, HubInv, TypeOK, CallOK, Call, Idle
    <2>4. call'.op = "process"
      BY <2>2, <2>3
    <2>. QED  BY <1>2, <2>1, <2>4 DEF ProcessPort, Harmless
  <1>3. CASE ProcessReturn
    BY <1>3 DEF ProcessReturn, Harmless, Idle
  <1>. QED
    BY <1>1, <1>2, <1>3, NoWireToServe
       DEF Continue, RouteSkip, RouteFiltered, RouteUndeliverable, RouteDeliver,
           Forwards

LEMMA UnregisterEmpties ==
  ASSUME HubInv, UnregisterReturn
  PROVE  ports' = <<>> /\ UNCHANGED conns /\ call' = Idle /\ call.op = "unregister"
  <1>1. ports \in Seq(Device) /\ call.slot \in DOMAIN ports /\ Len(ports) <= 1
    BY DEF HubInv, TypeOK, PortsOK, CallOK, Owned, UnregisterReturn
  <1>2. ports' \in Seq(Device) /\ Len(ports') = Len(ports) - 1
    BY <1>1, WithoutEntry DEF UnregisterReturn
  <1>. QED  BY <1>1, <1>2 DEF UnregisterReturn

-----------------------------------------------------------------------------
(* The invariant is kept.                                                    *)

(* The hub goes from one place to another with the tables as they were.      *)
Ordinary == Labels \ (Connecting \cup {"init", "unplug"})

LEMMA StayKeeps ==
  ASSUME HubInv, TypeOK', AppOK', UNCHANGED <<ports, conns, table, subject, slot>>,
         midi'.initialized = midi.initialized,
         call' = call \/ Harmless,
         \/ pc' = pc
         \/ pc' \in Ordinary /\ pc \notin {"wire", "unplug"}
  PROVE  HubInv'
  <1>1. MidiSlots' = MidiSlots
    BY DEF MidiSlots
  <1>2. Holder'
    BY <1>1 DEF HubInv, Holder, Ordinary
  <1>3. Unwired'
    BY DEF HubInv, Unwired
  <1>4. Owned'
    BY <1>1 DEF HubInv, Owned, Ordinary, Connecting
  <1>5. Unplugging'
    <2>1. CASE call' = call
      BY <1>1, <2>1 DEF HubInv, Unplugging, Ordinary
    <2>2. CASE Harmless
      BY <1>1, <2>2 DEF HubInv, Unplugging, Ordinary, Harmless
    <2>. QED  BY <2>1, <2>2
  <1>. QED  BY <1>2, <1>3, <1>4, <1>5 DEF HubInv

LEMMA CallKinds ==
  ASSUME HubInv, VwInit \/ Deinit
  PROVE  /\ ports' = <<>> /\ conns' = <<>> /\ call' = Idle
         /\ call.op = "idle"
  BY DEF VwInit, Deinit, Clear, Idle

LEMMA ClearedKeeps ==
  ASSUME HubInv, TypeOK', AppOK', VwInit \/ Deinit,
         UNCHANGED <<table, subject, slot>>, midi'.initialized = midi.initialized,
         pc' \in Ordinary
  PROVE  HubInv'
  <1>1. MidiSlots' = MidiSlots
    BY DEF MidiSlots
  <1>2. ports' = <<>> /\ conns' = <<>> /\ call' = Idle
    BY CallKinds
  <1>. QED
    BY <1>1, <1>2 DEF HubInv, Holder, Unwired, Owned, Unplugging, Ordinary,
       Connecting, Idle

(* One step of the engine, between two of the hub.                           *)
LEMMA EngineKeeps ==
  ASSUME HubInv, TypeOK', EngineStep
  PROVE  HubInv'
  <1>1. /\ UNCHANGED <<table, subject, slot>> /\ pc' = pc /\ midi' = midi
        /\ MidiSlots' = MidiSlots
    BY DEF EngineStep, appVars, deviceVars, driverVars, MidiSlots
  <1>2. AppOK'
    BY DEF HubInv, AppOK, EngineStep, appVars, deviceVars, loopVars
  <1>3. CASE Harmless
    BY <1>1, <1>2, <1>3, StayKeeps DEF Harmless
  <1>4. CASE UnregisterReturn
    <2>1. ports' = <<>> /\ UNCHANGED conns /\ call' = Idle
      BY <1>4, UnregisterEmpties
    <2>. QED
      BY <1>1, <1>2, <2>1 DEF HubInv, Holder, Unwired, Owned, Unplugging, Idle
  <1>. QED  BY <1>3, <1>4, ContinueEffect DEF EngineStep

-----------------------------------------------------------------------------
(* Connecting a device.                                                      *)

LEMMA AppendedSlots ==
  ASSUME AppOK, NEW e \in Slot, table' = Append(table, e)
  PROVE  /\ table' \in Seq(Slot)
         /\ \A k : k \in MidiSlots' <=>
              k \in MidiSlots \/ (k = Len(table) + 1 /\ e.midi)
         /\ \A k \in MidiSlots : table'[k] = table[k]
         /\ table'[Len(table) + 1] = e
  BY AppendEntry DEF AppOK, MidiSlots

LEMMA ScanKeeps ==
  ASSUME HubInv, TypeOK', NEW isMidi \in BOOLEAN, ScanFinds(isMidi)
  PROVE  HubInv'
  <1>. DEFINE device == Entry(scanned', 0, isMidi)
  <1>1. scanned' \in Nat /\ device \in Slot /\ device.midi = isMidi
    <2>1. scanned' \in Nat
      BY DEF ScanFinds, HubInv, AppOK
    <2>. QED  BY <2>1, EntryType, IdsExist
  <1>2. /\ UNCHANGED <<ports, conns, call, slot, midi, rx>>
        /\ pc = "scan" /\ idx' = 1
    BY DEF ScanFinds, vars, driverVars, Goto, deviceVars
  <1>3. CASE pc' = "drain" /\ UNCHANGED <<table, subject>>
    <2>1. AppOK'
      BY <1>1, <1>2, <1>3 DEF HubInv, AppOK
    <2>. QED  BY <1>2, <1>3, <2>1, StayKeeps DEF Ordinary, Labels, Connecting
  <1>4. CASE pc' = "init" /\ isMidi /\ subject' = device /\ UNCHANGED table
    <2>. HIDE DEF device
    <2>1. AppOK'
      BY <1>1, <1>2, <1>4 DEF HubInv, AppOK
    <2>2. MidiSlots' = MidiSlots
      BY <1>4 DEF MidiSlots
    <2>. QED
      BY <1>1, <1>2, <1>4, <2>1, <2>2
         DEF HubInv, Holder, Unwired, Owned, Unplugging, Connecting
  <1>5. CASE pc' = "drain" /\ ~isMidi /\ table' = Append(table, device)
             /\ UNCHANGED subject
    <2>. HIDE DEF device
    <2>1. /\ table' \in Seq(Slot) /\ MidiSlots' = MidiSlots
          /\ \A k \in MidiSlots : table'[k] = table[k]
      BY <1>1, <1>5, AppendedSlots DEF HubInv
    <2>2. AppOK'
      BY <1>1, <1>2, <1>5, <2>1 DEF HubInv, AppOK
    <2>. QED
      BY <1>2, <1>5, <2>1, <2>2
         DEF HubInv, Holder, Unwired, Owned, Unplugging, Connecting
  <1>. QED
    BY <1>3, <1>4, <1>5 DEF ScanFinds, Goto, deviceVars

LEMMA InitKeeps ==
  ASSUME HubInv, TypeOK', InitDevice
  PROVE  HubInv'
  <1>1. /\ UNCHANGED <<ports, conns, call, table, subject, slot, scanned>>
        /\ pc = "init" /\ idx' = 1 /\ MidiSlots' = MidiSlots
    BY DEF InitDevice, vars, deviceVars, loopVars, Goto, MidiSlots
  <1>2. CASE pc' = "drain" /\ UNCHANGED <<rx, midi>>
    <2>1. AppOK'
      BY <1>1, <1>2 DEF HubInv, AppOK
    <2>. QED  BY <1>1, <1>2, <2>1, StayKeeps DEF Ordinary, Labels, Connecting
  <1>3. CASE pc' = "begin" /\ rx' = <<>> /\ ~midi.initialized /\ Driver!MidiInit
    <2>1. AppOK'
      BY <1>1, <1>3 DEF HubInv, AppOK
    <2>2. midi'.initialized
      BY <1>3 DEF Driver!MidiInit, Driver!On
    <2>. QED
      BY <1>1, <1>3, <2>1, <2>2
         DEF HubInv, Holder, Unwired, Owned, Unplugging, Connecting
  <1>. QED  BY <1>2, <1>3 DEF InitDevice, Goto, driverVars

LEMMA StartKeeps ==
  ASSUME HubInv, TypeOK', StartDevice
  PROVE  HubInv'
  <1>1. /\ UNCHANGED <<ports, conns, call, table, subject, slot, scanned, rx>>
        /\ pc = "begin" /\ pc' = "register" /\ idx' = 1 /\ MidiSlots' = MidiSlots
    BY DEF StartDevice, vars, deviceVars, loopVars, Goto, MidiSlots
  <1>2. AppOK'
    BY <1>1 DEF HubInv, AppOK
  <1>3. midi'.initialized
    BY DEF StartDevice, Driver!MidiStart, Driver!Started, Driver!Crash
  <1>. QED
    BY <1>1, <1>2, <1>3
       DEF HubInv, Holder, Unwired, Owned, Unplugging, Connecting

LEMMA RegisterKeeps ==
  ASSUME HubInv, TypeOK', RegisterDevice
  PROVE  HubInv'
  <1>1. /\ UNCHANGED <<table, slot, scanned>> /\ pc = "register" /\ idx' = 1
        /\ call = Idle /\ MidiSlots' = MidiSlots
    BY DEF RegisterDevice, loopVars, Goto, MidiSlots
  <1>2. /\ ports = <<>> /\ conns = <<>> /\ MidiSlots = {} /\ midi.initialized
        /\ subject \in Slot /\ subject.midi /\ nextDev \in Ids
    BY <1>1 DEF HubInv, Holder, Owned, Unwired, Connecting, AppOK, TypeOK, CountersOK
  <1>3. CASE /\ Register(TRUE, TRUE) /\ pc' = "wire"
             /\ subject' = [subject EXCEPT !.vw = nextDev]
             /\ UNCHANGED <<rx, midi>>
    <2>1. subject' \in Slot /\ subject'.midi /\ subject'.vw = nextDev
      BY <1>2, <1>3 DEF Slot
    <2>2. NewDevice(TRUE, TRUE) \in Device
      BY NewDeviceType DEF HubInv, TypeOK
    <2>3. /\ ports' = <<NewDevice(TRUE, TRUE)>> /\ conns' = <<>> /\ call' = Idle
      BY <1>1, <1>2, <1>3, <2>2 DEF Register
    <2>4. Unwired'
      BY <2>3 DEF Unwired, NewDevice
    <2>5. Len(ports') <= 1 /\ ports'[1].id = nextDev
      BY <2>3 DEF NewDevice
    <2>6. AppOK'
      BY <1>1, <1>3, <2>1 DEF HubInv, AppOK
    <2>. QED
      BY <1>1, <1>2, <1>3, <2>1, <2>3, <2>4, <2>5, <2>6
         DEF HubInv, Holder, Owned, Unplugging, Connecting, Idle
  <1>4. CASE /\ rx' = <<>> /\ pc' = "drain" /\ UNCHANGED <<vars, subject>>
    <2>1. AppOK'
      BY <1>1, <1>4 DEF HubInv, AppOK
    <2>2. ports' = <<>> /\ conns' = <<>> /\ call' = Idle
      BY <1>1, <1>2, <1>4 DEF vars
    <2>. QED
      BY <1>1, <1>2, <1>4, <2>1, <2>2
         DEF HubInv, Holder, Unwired, Owned, Unplugging, Connecting, Idle
  <1>. QED  BY <1>3, <1>4 DEF RegisterDevice, Goto, driverVars

LEMMA NoPeer ==                        \* there is no other device to wire to
  ASSUME HubInv, WireDevice
  PROVE  UNCHANGED vars
  <1>1. pc = "wire" /\ idx <= 2 * Len(table)
    BY DEF WireDevice
  <1>2. (idx + 1) \div 2 \in DOMAIN table
    <2>1. idx \in Nat \ {0} /\ Len(table) \in Nat /\ DOMAIN table = 1 .. Len(table)
      BY DEF HubInv, AppOK
    <2>. QED  BY <1>1, <2>1
  <1>3. ~table[(idx + 1) \div 2].midi
    BY <1>1, <1>2 DEF HubInv, Holder, Connecting, MidiSlots
  <1>. QED  BY <1>3 DEF WireDevice

LEMMA WireKeeps ==
  ASSUME HubInv, TypeOK', WireDevice
  PROVE  HubInv'
  <1>1. /\ UNCHANGED <<vars, table, subject, slot, scanned, rx, midi>>
        /\ pc' = pc /\ idx' = idx + 1
    BY NoPeer DEF WireDevice, deviceVars, loopVars, driverVars, Goto
  <1>2. AppOK'
    BY <1>1 DEF HubInv, AppOK
  <1>. QED  BY <1>1, <1>2, StayKeeps DEF vars

LEMMA CountKeeps ==
  ASSUME HubInv, TypeOK', CountDevice
  PROVE  HubInv'
  <1>1. /\ UNCHANGED <<ports, conns, call, subject, slot, scanned, rx, midi>>
        /\ table' = Append(table, subject)
        /\ pc = "wire" /\ pc' = "drain" /\ idx' = 1
    BY DEF CountDevice, vars, loopVars, driverVars, Goto
  <1>2. AppOK /\ subject \in Slot /\ subject.midi /\ MidiSlots = {}
        /\ midi.initialized
    BY <1>1 DEF HubInv, AppOK, Holder, Connecting
  <1>3. /\ table' \in Seq(Slot) /\ MidiSlots' = {Len(table) + 1}
        /\ table'[Len(table) + 1] = subject
    BY <1>1, <1>2, AppendedSlots
  <1>4. AppOK'
    BY <1>1, <1>2, <1>3 DEF AppOK
  <1>. QED
    BY <1>1, <1>2, <1>3, <1>4
       DEF HubInv, Holder, Unwired, Owned, Unplugging, Connecting

-----------------------------------------------------------------------------
(* Disconnecting one.                                                        *)

LEMMA CleanupKeeps ==
  ASSUME HubInv, TypeOK', CleanupDevice
  PROVE  HubInv'
  <1>1. /\ UNCHANGED <<table, subject, scanned, rx, midi, ports, conns>>
        /\ pc = "cleanup" /\ pc' = "unplug" /\ idx' = idx /\ call = Idle
        /\ MidiSlots' = MidiSlots
    BY DEF CleanupDevice, loopVars, driverVars, Goto, vars, UnregisterCall, MidiSlots
  <1>2. AppOK'
    BY <1>1 DEF HubInv, AppOK
  <1>3. /\ slot' \in DOMAIN table
        /\ IF table[slot'].midi /\ Known(table[slot'].vw)
           THEN UnregisterCall(table[slot'].vw)
           ELSE UNCHANGED vars
    BY DEF CleanupDevice
  <1>4. Unplugging'
    <2>1. CASE UnregisterCall(table[slot'].vw)
      <3>1. call'.op = "unregister"
        BY <2>1 DEF UnregisterCall
      <3>. QED  BY <1>1, <1>3, <3>1 DEF Unplugging
    <2>2. CASE UNCHANGED vars /\ ~(table[slot'].midi /\ Known(table[slot'].vw))
      <3>1. ASSUME slot' \in MidiSlots PROVE ports = <<>>
        <4>1. ~Known(table[slot'].vw)
          BY <2>2, <3>1 DEF MidiSlots
        <4>2. ports # <<>> => table[slot'].vw = ports[1].id
          BY <1>1, <3>1 DEF HubInv, Owned
        <4>3. ports # <<>> => 1 \in DOMAIN ports
          BY DEF HubInv, TypeOK, PortsOK
        <4>. QED  BY <4>1, <4>2, <4>3 DEF Known
      <3>2. call' = Idle
        BY <1>1, <2>2 DEF vars
      <3>. QED  BY <1>1, <1>3, <3>1, <3>2 DEF Unplugging, Idle
    <2>. QED  BY <1>3, <2>1, <2>2
  <1>. QED
    BY <1>1, <1>2, <1>4 DEF HubInv, Holder, Unwired, Owned, Connecting

(* What is left of the MIDI slots when one slot is taken out.                *)
LEMMA ShiftedSlots ==
  ASSUME AppOK, slot \in DOMAIN table, table' = Without(table, slot)
  PROVE  /\ table' \in Seq(Slot)
         /\ \A k \in MidiSlots' : \E j \in MidiSlots \ {slot} :
              /\ table'[k] = table[j]
              /\ j = IF k < slot THEN k ELSE k + 1
         /\ \A j \in MidiSlots \ {slot} :
              (IF j < slot THEN j ELSE j - 1) \in MidiSlots'
  <1>1. table \in Seq(Slot) /\ slot \in 1 .. Len(table) /\ Len(table) \in Nat
        /\ DOMAIN table = 1 .. Len(table)
    BY DEF AppOK
  <1>2. /\ table' \in Seq(Slot) /\ DOMAIN table' = 1 .. Len(table) - 1
        /\ \A k \in DOMAIN table' :
             table'[k] = IF k < slot THEN table[k] ELSE table[k + 1]
    BY <1>1, WithoutEntry
  <1>3. ASSUME NEW k \in MidiSlots'
        PROVE  \E j \in MidiSlots \ {slot} :
                 /\ table'[k] = table[j]
                 /\ j = IF k < slot THEN k ELSE k + 1
    <2>. DEFINE j == IF k < slot THEN k ELSE k + 1
    <2>1. k \in 1 .. Len(table) - 1 /\ table'[k].midi
      BY <1>2 DEF MidiSlots
    <2>2. j \in 1 .. Len(table) /\ j # slot
      BY <1>1, <2>1
    <2>3. table'[k] = table[j]
      BY <1>2, <2>1
    <2>4. j \in MidiSlots
      BY <1>1, <2>1, <2>2, <2>3 DEF MidiSlots
    <2>. QED  BY <2>2, <2>3, <2>4
  <1>4. ASSUME NEW j \in MidiSlots \ {slot}
        PROVE  (IF j < slot THEN j ELSE j - 1) \in MidiSlots'
    <2>. DEFINE k == IF j < slot THEN j ELSE j - 1
    <2>1. j \in 1 .. Len(table) /\ j # slot /\ table[j].midi
      BY <1>1 DEF MidiSlots
    <2>2. k \in 1 .. Len(table) - 1
      BY <1>1, <2>1
    <2>3. table'[k] = table[j]
      BY <1>1, <1>2, <2>1, <2>2
    <2>. QED  BY <1>2, <2>1, <2>2, <2>3 DEF MidiSlots
  <1>. QED  BY <1>2, <1>3, <1>4

LEMMA UnplugKeeps ==
  ASSUME HubInv, TypeOK', Unplug
  PROVE  HubInv'
  <1>1. /\ UNCHANGED <<ports, conns, call, subject, slot, scanned>>
        /\ table' = Without(table, slot) /\ call = Idle
        /\ pc = "unplug" /\ pc' = "cleanup" /\ idx' = idx + 1
    BY DEF Unplug, vars, loopVars, Goto
  <1>2. /\ AppOK /\ slot \in DOMAIN table
        /\ slot \in MidiSlots => ports = <<>>
    BY <1>1 DEF HubInv, Unplugging, Idle
  <1>3. rx' \in Seq(Incoming)
    <2>1. rx' = <<>> \/ rx' = rx
      BY DEF Unplug, Released
    <2>. QED  BY <1>2, <2>1, QueueEdits DEF AppOK
  <1>4. slot \notin MidiSlots => midi' = midi
    BY <1>2 DEF Unplug, Released, driverVars, MidiSlots
  <1>5. AppOK'
    BY <1>1, <1>2, <1>3, ShiftedSlots DEF AppOK
  <1>6. CASE slot \in MidiSlots
    <2>1. MidiSlots' = {}
      BY <1>1, <1>2, <1>6, ShiftedSlots DEF HubInv, Holder
    <2>. QED
      BY <1>1, <1>2, <1>5, <1>6, <2>1
         DEF HubInv, Holder, Unwired, Owned, Unplugging, Connecting, Idle
  <1>7. CASE slot \notin MidiSlots
    <2>1. \A k \in MidiSlots' : \E j \in MidiSlots :
            table'[k] = table[j] /\ j = IF k < slot THEN k ELSE k + 1
      BY <1>1, <1>2, ShiftedSlots
    <2>2. MidiSlots # {} => MidiSlots' # {}
      BY <1>1, <1>2, <1>7, ShiftedSlots
    <2>3. \A k, l \in MidiSlots' : k = l
      <3>1. \A k \in MidiSlots' : k \in Nat
        BY <1>5 DEF MidiSlots, AppOK
      <3>2. slot \in Nat
        BY <1>2 DEF AppOK
      <3>. QED  BY <2>1, <3>1, <3>2 DEF HubInv, Holder
    <2>4. Holder'
      BY <1>1, <1>4, <1>7, <2>1, <2>3 DEF HubInv, Holder, Connecting
    <2>5. Owned'
      BY <1>1, <2>1, <2>2 DEF HubInv, Owned
    <2>. QED
      BY <1>1, <1>5, <2>4, <2>5 DEF HubInv, Unwired, Unplugging, Idle
  <1>. QED  BY <1>6, <1>7

-----------------------------------------------------------------------------
(* The loop.                                                                 *)

LEMMA LoopKeeps ==
  ASSUME HubInv, TypeOK',
         \/ Boot \/ BootStart \/ Turn \/ LeaveLoop \/ ScanNothing
         \/ DrainDriver \/ DeliverToDriver \/ PassOver \/ EndTurn \/ CleanupEnd
         \/ Signal \/ (\E msg \in Incoming : Arrive(msg))
  PROVE  HubInv'
  <1>0. AppOK /\ Len(table) \in Nat
    BY DEF HubInv, AppOK
  <1>. USE DEF Goto
  <1>1. CASE Boot
    BY <1>0, <1>1, ClearedKeeps
       DEF Boot, deviceVars, loopVars, driverVars, AppOK, Ordinary, Labels, Connecting
  <1>2. CASE CleanupEnd
    BY <1>0, <1>2, ClearedKeeps
       DEF CleanupEnd, deviceVars, loopVars, driverVars, AppOK, Ordinary, Labels,
           Connecting
  <1>3. CASE BootStart
    <2>1. AppOK'
      BY <1>0, <1>3 DEF BootStart, deviceVars, loopVars, AppOK
    <2>. QED
      BY <1>3, <2>1, StayKeeps
         DEF BootStart, Start, deviceVars, driverVars, Ordinary, Labels, Connecting
  <1>4. CASE Turn \/ LeaveLoop \/ ScanNothing \/ PassOver
    <2>1. AppOK' /\ UNCHANGED <<vars, table, subject, slot, midi>>
      BY <1>0, <1>4 DEF Turn, LeaveLoop, ScanNothing, PassOver, deviceVars, loopVars,
         driverVars, AppOK
    <2>2. pc' \in Ordinary /\ pc \notin {"wire", "unplug"}
      BY <1>4 DEF Turn, LeaveLoop, ScanNothing, PassOver, Ordinary, Labels, Connecting
    <2>. QED  BY <2>1, <2>2, StayKeeps DEF vars
  <1>5. CASE Signal
    <2>1. AppOK' /\ UNCHANGED <<vars, table, subject, slot, midi, pc>>
      BY <1>0, <1>5 DEF Signal, deviceVars, driverVars, AppOK
    <2>. QED  BY <2>1, StayKeeps DEF vars
  <1>6. CASE EndTurn
    <2>1. AppOK'
      BY <1>0, <1>6 DEF EndTurn, deviceVars, loopVars, AppOK
    <2>2. Harmless
      BY <1>6 DEF EndTurn, ProcessCall, Harmless, Idle
    <2>. QED
      BY <1>6, <2>1, <2>2, StayKeeps
         DEF EndTurn, Harmless, deviceVars, driverVars, Ordinary, Labels, Connecting
  <1>7. ASSUME NEW id, NEW msg, InjectMessage(id, msg) PROVE Harmless
    BY <1>7 DEF InjectMessage, RouteCall, Harmless, Idle
  <1>8. CASE DrainDriver
    <2>1. UNCHANGED <<table, subject, slot, midi, scanned>> /\ pc = "drain"
      BY <1>8 DEF DrainDriver, deviceVars, loopVars, driverVars
    <2>2. UNCHANGED vars \/ Harmless
      BY <1>7, <1>8 DEF DrainDriver
    <2>3. /\ pc' \in {"drain", "deliver"} /\ idx' = idx
          /\ rx' = rx \/ (rx # <<>> /\ rx' = Tail(rx))
      BY <1>8 DEF DrainDriver
    <2>4. AppOK'
      BY <1>0, <2>1, <2>3, QueueEdits DEF AppOK
    <2>. QED
      BY <2>1, <2>2, <2>3, <2>4, StayKeeps
         DEF vars, Harmless, Ordinary, Labels, Connecting
  <1>9. CASE DeliverToDriver
    <2>1. ~Pending(table[idx].vw)
      BY DEF Pending, HubInv, Unwired
    <2>2. /\ UNCHANGED <<vars, table, subject, slot, midi, scanned, rx>>
          /\ pc = "deliver" /\ pc' = "drain" /\ idx' = idx + 1
      BY <1>9, <2>1 DEF DeliverToDriver, deviceVars, loopVars, driverVars
    <2>3. AppOK'
      BY <1>0, <2>2 DEF AppOK
    <2>. QED
      BY <2>2, <2>3, StayKeeps DEF vars, Ordinary, Labels, Connecting
  <1>10. ASSUME NEW msg \in Incoming, Arrive(msg) PROVE HubInv'
    <2>1. UNCHANGED <<table, subject, slot, midi, scanned, pc, idx>>
      BY <1>10 DEF Arrive, appVars, deviceVars, loopVars, driverVars
    <2>2. UNCHANGED vars \/ Harmless
      BY <1>7, <1>10 DEF Arrive
    <2>3. rx' \in Seq(Incoming)
      BY <1>0, <1>10 DEF Arrive, AppOK
    <2>4. AppOK'
      BY <1>0, <2>1, <2>3 DEF AppOK
    <2>. QED  BY <2>1, <2>2, <2>4, StayKeeps DEF vars, Harmless
  <1>. QED
    BY <1>1, <1>2, <1>3, <1>4, <1>5, <1>6, <1>8, <1>9, <1>10

LEMMA HubInvStep ==
  ASSUME HubInv, [HubNext]_hubVars
  PROVE  HubInv'
  <1>1. TypeOK'
    BY HubEngineStep, TypeStep DEF HubInv
  <1>2. CASE UNCHANGED hubVars
    <2>1. AppOK' /\ UNCHANGED <<vars, table, subject, slot, midi, pc>>
      BY <1>2 DEF hubVars, appVars, deviceVars, loopVars, driverVars, HubInv, AppOK
    <2>. QED  BY <1>1, <2>1, StayKeeps DEF vars
  <1>3. \A isMidi \in Kinds : isMidi \in BOOLEAN
    BY HubAssumption
  <1>. QED
    BY <1>1, <1>2, <1>3, LoopKeeps, EngineKeeps, ScanKeeps, InitKeeps, StartKeeps,
       RegisterKeeps, WireKeeps, CountKeeps, CleanupKeeps, UnplugKeeps
       DEF HubNext, HubStep, Run

-----------------------------------------------------------------------------
(***************************************************************************)
(* Every step of the hub is a step that the engine's specification allows, *)
(* or none of the engine's: what holds of the engine under any caller      *)
(* holds in the hub.                                                       *)
(***************************************************************************)
THEOREM HubUsesEngine == HubSpec => Spec
<1>1. HubInv /\ [HubNext]_hubVars => HubInv'
  BY HubInvStep
<1>2. HubInv /\ [HubNext]_hubVars => [Next]_vars
  BY HubEngineStep
<1>. QED  BY <1>1, <1>2, HubInitInv, PTL DEF HubSpec, Spec

(***************************************************************************)
(* However many devices are found and whatever they send, the hub and the  *)
(* engine hold one MIDI device at most, no connection and no message to    *)
(* deliver.                                                                *)
(***************************************************************************)
THEOREM HubConnectsOne == HubSpec => []OneMidiDevice
<1>1. HubInv /\ [HubNext]_hubVars => HubInv'
  BY HubInvStep
<1>2. HubInv => OneMidiDevice
  BY DEF HubInv, Holder, Owned, Unwired, OneMidiDevice
<1>. QED  BY <1>1, <1>2, HubInitInv, PTL DEF HubSpec

-----------------------------------------------------------------------------
(***************************************************************************)
(* The driver and the engine follow the hub's table as long as the program *)
(* has not crashed: the driver is off unless a device is on its way in or  *)
(* in the table, and the engine has that device until it is unregistered.  *)
(***************************************************************************)
DriverFollows ==
  /\ usbOn = midi.initialized
  /\ MidiSlots # {} \/ pc \in {"register", "wire"} => midi = Driver!Started
  /\ pc = "begin" => midi = Driver!On
  /\ MidiSlots = {} /\ pc \notin Connecting => midi = Driver!Off

EngineFollows ==
  /\ pc = "wire" => ports # <<>>
  /\ call.op = "unregister" => slot \in MidiSlots
  /\ MidiSlots # {} =>
       /\ pc # "boot"
       /\ pc \notin {"unplug", "stopped"} => ports # <<>>
       /\ pc = "unplug" /\ (slot \notin MidiSlots \/ call.op = "unregister")
            => ports # <<>>

Follows == ~crashed => DriverFollows /\ EngineFollows

LEMMA DriverFlags ==
  /\ Driver!Off.initialized = FALSE /\ Driver!Off.started = FALSE
  /\ Driver!On.initialized = TRUE /\ Driver!On.started = FALSE
  /\ Driver!Started.initialized = TRUE /\ Driver!Started.started = TRUE
  BY DEF Driver!Off, Driver!On, Driver!Started

LEMMA FollowsInit == HubInit => Follows
  <1>. SUFFICES ASSUME HubInit PROVE DriverFollows /\ EngineFollows
    BY DEF Follows
  <1>1. MidiSlots = {} /\ pc = "boot"
    BY DEF HubInit, MidiSlots
  <1>2. midi = Driver!Off /\ usbOn = FALSE
    BY DEF HubInit, Driver!DriverInit, Driver!Init
  <1>3. usbOn = midi.initialized
    BY <1>2, DriverFlags, Zenon
  <1>4. call.op = "idle"
    BY DEF HubInit, Init, Idle
  <1>. QED  BY <1>1, <1>2, <1>3, <1>4 DEF DriverFollows, EngineFollows, Connecting

LEMMA FollowsStay ==                   \* a step that moves between two places
  ASSUME HubInv, Follows, MidiSlots' = MidiSlots,
         UNCHANGED <<slot, midi, usbOn, crashed>>,
         ports' = ports, call'.op = "unregister" => call.op = "unregister",
         \/ pc' = pc
         \/ /\ pc' \notin Connecting \cup {"unplug", "boot"}
            /\ pc \notin Connecting \cup {"unplug", "stopped"}
  PROVE  Follows'
  <1>. SUFFICES ASSUME ~crashed PROVE DriverFollows' /\ EngineFollows'
    BY DEF Follows
  <1>2. DriverFollows /\ EngineFollows
    BY DEF Follows
  <1>3. DriverFollows'
    BY <1>2 DEF DriverFollows, Connecting
  <1>. QED  BY <1>2, <1>3 DEF EngineFollows, Connecting

LEMMA FollowsEngine ==
  ASSUME HubInv, Follows, EngineStep
  PROVE  Follows'
  <1>1. /\ UNCHANGED <<slot, midi, usbOn, crashed>> /\ pc' = pc
        /\ MidiSlots' = MidiSlots
    BY DEF EngineStep, appVars, deviceVars, driverVars, MidiSlots
  <1>2. CASE Harmless
    BY <1>1, <1>2, FollowsStay DEF Harmless
  <1>3. CASE UnregisterReturn
    <2>1. /\ ports' = <<>> /\ call' = Idle /\ call.op = "unregister"
          /\ pc = "unplug"
      BY <1>3, UnregisterEmpties DEF HubInv, Unplugging
    <2>. QED
      BY <1>1, <2>1
         DEF Follows, DriverFollows, EngineFollows, Connecting, Idle
  <1>. QED  BY <1>2, <1>3, ContinueEffect DEF EngineStep

LEMMA FollowsLoop ==
  ASSUME HubInv, Follows,
         \/ BootStart \/ Turn \/ LeaveLoop \/ ScanNothing
         \/ DrainDriver \/ DeliverToDriver \/ PassOver \/ EndTurn
         \/ WireDevice \/ Signal \/ (\E msg \in Incoming : Arrive(msg))
  PROVE  Follows'
  <1>. USE DEF Goto
  <1>1. CASE Turn \/ LeaveLoop \/ ScanNothing \/ PassOver
    <2>1. UNCHANGED <<ports, call, table, slot, midi, usbOn, crashed>>
      BY <1>1 DEF Turn, LeaveLoop, ScanNothing, PassOver, vars, deviceVars, driverVars
    <2>2. pc \in {"loop", "scan", "drain"} /\ pc' \in {"cleanup", "scan", "drain"}
      BY <1>1 DEF Turn, LeaveLoop, ScanNothing, PassOver
    <2>. QED  BY <2>1, <2>2, FollowsStay DEF MidiSlots, Connecting
  <1>2. CASE Signal
    <2>1. UNCHANGED <<ports, call, table, slot, midi, usbOn, crashed, pc>>
      BY <1>2 DEF Signal, vars, deviceVars, driverVars
    <2>. QED  BY <2>1, FollowsStay DEF MidiSlots
  <1>3. CASE BootStart \/ EndTurn
    <2>1. UNCHANGED <<ports, table, slot, midi, usbOn, crashed>>
          /\ call'.op # "unregister"
      BY <1>3 DEF BootStart, Start, EndTurn, ProcessCall, deviceVars, driverVars, Idle
    <2>2. pc \in {"start", "drain"} /\ pc' = "loop"
      BY <1>3 DEF BootStart, EndTurn
    <2>. QED  BY <2>1, <2>2, FollowsStay DEF MidiSlots, Connecting
  <1>4. ASSUME NEW id, NEW msg, InjectMessage(id, msg)
        PROVE  ports' = ports /\ call'.op = "route"
    BY <1>4 DEF InjectMessage, RouteCall
  <1>5. CASE DrainDriver
    <2>1. UNCHANGED <<table, slot, midi, usbOn, crashed>> /\ pc = "drain"
          /\ pc' \in {"drain", "deliver"}
      BY <1>5 DEF DrainDriver, deviceVars, driverVars
    <2>2. ports' = ports /\ (call' = call \/ call'.op = "route")
      BY <1>4, <1>5 DEF DrainDriver, vars
    <2>. QED  BY <2>1, <2>2, FollowsStay DEF MidiSlots, Connecting
  <1>6. CASE DeliverToDriver
    <2>1. ~Pending(table[idx].vw)
      BY DEF Pending, HubInv, Unwired
    <2>2. UNCHANGED <<ports, call, table, slot, midi, usbOn, crashed>>
          /\ pc = "deliver" /\ pc' = "drain"
      BY <1>6, <2>1 DEF DeliverToDriver, vars, deviceVars, driverVars
    <2>. QED  BY <2>2, FollowsStay DEF MidiSlots, Connecting
  <1>7. CASE WireDevice
    <2>1. UNCHANGED <<ports, call, table, slot, midi, usbOn, crashed>> /\ pc' = pc
      BY <1>7, NoPeer DEF WireDevice, vars, deviceVars, driverVars
    <2>. QED  BY <2>1, FollowsStay DEF MidiSlots
  <1>8. ASSUME NEW msg \in Incoming, Arrive(msg) PROVE Follows'
    <2>1. UNCHANGED <<table, slot, midi, usbOn, crashed, pc>>
      BY <1>8 DEF Arrive, appVars, deviceVars, driverVars
    <2>2. ports' = ports /\ (call' = call \/ call'.op = "route")
      BY <1>4, <1>8 DEF Arrive, vars
    <2>. QED  BY <2>1, <2>2, FollowsStay DEF MidiSlots
  <1>. QED  BY <1>1, <1>2, <1>3, <1>5, <1>6, <1>7, <1>8

LEMMA UnpluggedSlots ==
  ASSUME HubInv, Unplug
  PROVE  /\ slot \in MidiSlots => MidiSlots' = {}
         /\ slot \notin MidiSlots => (MidiSlots' = {} <=> MidiSlots = {})
  <1>1. AppOK /\ slot \in DOMAIN table /\ table' = Without(table, slot)
    BY DEF HubInv, Unplug, Unplugging
  <1>. QED  BY <1>1, ShiftedSlots DEF HubInv, Holder

(* What the hub's calls do to the driver.                                    *)
LEMMA DriverCalls ==
  ASSUME Follows, ~crashed
  PROVE  /\ Driver!MidiInit => usbOn' = TRUE /\ midi' = Driver!On
         /\ Driver!MidiStart =>
              crashed' = TRUE \/ (usbOn' = usbOn /\ midi' = Driver!Started)
         /\ Driver!MidiDeinit =>
              crashed' = TRUE \/ (usbOn' = FALSE /\ midi' = Driver!Off)
  BY DEF Driver!MidiInit, Driver!MidiStart, Driver!UsbStart, Driver!MidiDeinit,
         Driver!UsbDeinit, Driver!Crash

LEMMA FollowsOff ==                    \* nothing in the table, the driver off
  ASSUME MidiSlots' = {}, pc' \notin Connecting, usbOn' = FALSE,
         midi' = Driver!Off, call'.op # "unregister"
  PROVE  Follows'
  <1>1. usbOn' = midi'.initialized
    BY DriverFlags, Zenon
  <1>. QED  BY <1>1 DEF Follows, DriverFollows, EngineFollows, Connecting

LEMMA FollowsClear ==
  ASSUME HubInv, Follows, ~crashed, Boot \/ CleanupEnd
  PROVE  Follows'
  <1>1. /\ UNCHANGED <<table, slot, midi, usbOn, crashed>> /\ call' = Idle
        /\ MidiSlots' = MidiSlots
    BY DEF Boot, CleanupEnd, VwInit, Deinit, Clear, deviceVars, driverVars, MidiSlots
  <1>2. pc \in {"boot", "cleanup"} /\ pc' \in {"start", "stopped"}
        /\ (pc' = "start" => pc = "boot")
    BY DEF Boot, CleanupEnd, Goto
  <1>. QED
    BY <1>1, <1>2 DEF Follows, DriverFollows, EngineFollows, Connecting, Idle

LEMMA FollowsScan ==
  ASSUME HubInv, Follows, NEW isMidi \in BOOLEAN, ScanFinds(isMidi)
  PROVE  Follows'
  <1>. DEFINE device == Entry(scanned', 0, isMidi)
  <1>1. device \in Slot /\ device.midi = isMidi
    <2>1. scanned' \in Nat
      BY DEF ScanFinds, HubInv, AppOK
    <2>. QED  BY <2>1, EntryType, IdsExist
  <1>2. /\ UNCHANGED <<ports, call, slot, midi, usbOn, crashed>>
        /\ pc = "scan" /\ pc' \in {"drain", "init"}
        /\ table' = table \/ (~isMidi /\ table' = Append(table, device))
    BY DEF ScanFinds, vars, driverVars, Goto, deviceVars
  <1>. HIDE DEF device
  <1>3. MidiSlots' = MidiSlots
    <2>1. CASE table' = table
      BY <2>1 DEF MidiSlots
    <2>2. CASE ~isMidi /\ table' = Append(table, device)
      BY <1>1, <2>2, AppendedSlots DEF HubInv
    <2>. QED  BY <1>2, <2>1, <2>2
  <1>. QED  BY <1>2, <1>3, FollowsStay DEF Connecting

LEMMA FollowsConnect ==
  ASSUME HubInv, Follows, ~crashed, HubInv',
         InitDevice \/ StartDevice \/ RegisterDevice \/ CountDevice
  PROVE  Follows'
  <1>. USE DEF Goto
  <1>0. DriverFollows /\ EngineFollows
    BY DEF Follows
  <1>1. CASE InitDevice
    <2>1. /\ UNCHANGED <<ports, call, table, slot>> /\ pc = "init"
          /\ MidiSlots' = MidiSlots
      BY <1>1 DEF InitDevice, vars, deviceVars, MidiSlots
    <2>2. CASE pc' = "drain" /\ UNCHANGED driverVars
      BY <2>1, <2>2, FollowsStay DEF driverVars, Connecting
    <2>3. CASE pc' = "begin" /\ ~midi.initialized /\ Driver!MidiInit
      <3>1. MidiSlots = {}
        BY <2>3 DEF HubInv, Holder
      <3>2. usbOn' = TRUE /\ midi' = Driver!On
        BY <2>3, DriverCalls
      <3>3. usbOn' = midi'.initialized
        BY <3>2, DriverFlags, Zenon
      <3>4. call'.op # "unregister"
        BY <2>1 DEF HubInv, Unplugging
      <3>. QED
        BY <2>1, <2>3, <3>1, <3>2, <3>3, <3>4
           DEF Follows, DriverFollows, EngineFollows, Connecting
    <2>. QED  BY <1>1, <2>2, <2>3 DEF InitDevice
  <1>2. CASE StartDevice
    <2>1. /\ UNCHANGED <<ports, call, table, slot>> /\ pc = "begin"
          /\ pc' = "register" /\ MidiSlots' = MidiSlots /\ MidiSlots = {}
      BY <1>2 DEF StartDevice, vars, deviceVars, MidiSlots, HubInv, Holder, Connecting
    <2>2. crashed' = TRUE \/ (usbOn' = usbOn /\ midi' = Driver!Started)
      BY <1>2, DriverCalls DEF StartDevice
    <2>3. usbOn = TRUE
      BY <1>0, <2>1, DriverFlags DEF DriverFollows
    <2>4. midi' = Driver!Started /\ usbOn' = usbOn => usbOn' = midi'.initialized
      BY <2>3, DriverFlags, Zenon
    <2>5. call'.op # "unregister"
      BY <2>1 DEF HubInv, Unplugging
    <2>. QED
      BY <2>1, <2>2, <2>4, <2>5 DEF Follows, DriverFollows, EngineFollows, Connecting
  <1>3. CASE RegisterDevice
    <2>1. /\ table' = table /\ slot' = slot /\ pc = "register" /\ call = Idle
          /\ MidiSlots' = MidiSlots /\ MidiSlots = {}
      BY <1>3 DEF RegisterDevice, MidiSlots, HubInv, Holder, Connecting
    <2>2. CASE Register(TRUE, TRUE) /\ pc' = "wire" /\ UNCHANGED driverVars
      <3>1. ports' # <<>> /\ call' = Idle
        <4>1. NewDevice(TRUE, TRUE) \in Device /\ ports \in Seq(Device)
          BY NewDeviceType DEF HubInv, TypeOK, PortsOK
        <4>2. ports' = Append(ports, NewDevice(TRUE, TRUE)) /\ call' = Idle
          BY <2>1, <2>2 DEF Register
        <4>3. Len(ports') = Len(ports) + 1 /\ Len(ports) \in Nat
          BY <4>1, <4>2, AppendEntry
        <4>4. Len(ports') # 0
          BY <4>3
        <4>. QED  BY <4>2, <4>4
      <3>. QED
        BY <1>0, <2>1, <2>2, <3>1
           DEF Follows, DriverFollows, EngineFollows, Connecting, driverVars, Idle
    <2>3. CASE Driver!MidiDeinit /\ pc' = "drain" /\ UNCHANGED vars
      <3>1. crashed' = TRUE \/ (usbOn' = FALSE /\ midi' = Driver!Off)
        BY <2>3, DriverCalls
      <3>2. CASE crashed' = TRUE
        BY <3>2 DEF Follows
      <3>3. CASE usbOn' = FALSE /\ midi' = Driver!Off
        <4>1. call'.op # "unregister"
          BY <2>1, <2>3 DEF vars, Idle
        <4>. QED  BY <2>1, <2>3, <3>3, <4>1, FollowsOff DEF Connecting
      <3>. QED  BY <3>1, <3>2, <3>3
    <2>. QED  BY <1>3, <2>2, <2>3 DEF RegisterDevice
  <1>4. CASE CountDevice
    <2>1. /\ UNCHANGED <<ports, call, subject, slot, midi, usbOn, crashed>>
          /\ table' = Append(table, subject) /\ pc = "wire" /\ pc' = "drain"
          /\ call = Idle
      BY <1>4 DEF CountDevice, vars, driverVars
    <2>2. AppOK /\ subject \in Slot /\ subject.midi
      BY <2>1 DEF HubInv, AppOK, Holder, Connecting
    <2>3. MidiSlots' # {}
      BY <2>1, <2>2, AppendedSlots
    <2>. QED
      BY <1>0, <2>1, <2>3 DEF Follows, DriverFollows, EngineFollows, Connecting, Idle
  <1>. QED  BY <1>1, <1>2, <1>3, <1>4

LEMMA FollowsCleanup ==
  ASSUME HubInv, Follows, ~crashed, CleanupDevice \/ Unplug
  PROVE  Follows'
  <1>0. DriverFollows /\ EngineFollows
    BY DEF Follows
  <1>1. CASE CleanupDevice
    <2>1. /\ UNCHANGED <<ports, table, midi, usbOn, crashed>> /\ MidiSlots' = MidiSlots
          /\ pc = "cleanup" /\ pc' = "unplug" /\ call = Idle
      BY <1>1 DEF CleanupDevice, driverVars, vars, UnregisterCall, MidiSlots, Goto
    <2>2. call'.op = "unregister" => slot' \in MidiSlots
      <3>1. slot' \in DOMAIN table /\ (table[slot'].midi \/ UNCHANGED vars)
        BY <1>1 DEF CleanupDevice
      <3>. QED  BY <2>1, <3>1 DEF MidiSlots, vars, Idle
    <2>. QED
      BY <1>0, <2>1, <2>2 DEF Follows, DriverFollows, EngineFollows, Connecting
  <1>2. CASE Unplug
    <2>1. /\ UNCHANGED <<vars, slot>> /\ pc = "unplug" /\ pc' = "cleanup"
          /\ call = Idle /\ slot \in DOMAIN table
      BY <1>2 DEF Unplug, Goto, HubInv, Unplugging
    <2>2. call'.op # "unregister"
      BY <2>1 DEF vars, Idle
    <2>3. CASE slot \in MidiSlots
      <3>1. midi.initialized /\ MidiSlots' = {}
        BY <1>2, <2>3, UnpluggedSlots DEF HubInv, Holder
      <3>2. Driver!MidiDeinit
        BY <1>2, <2>3, <3>1 DEF Unplug, Released, MidiSlots
      <3>3. crashed' = TRUE \/ (usbOn' = FALSE /\ midi' = Driver!Off)
        BY <3>2, DriverCalls
      <3>4. CASE crashed' = TRUE
        BY <3>4 DEF Follows
      <3>5. CASE usbOn' = FALSE /\ midi' = Driver!Off
        BY <2>1, <2>2, <3>1, <3>5, FollowsOff DEF Connecting
      <3>. QED  BY <3>3, <3>4, <3>5
    <2>4. CASE slot \notin MidiSlots
      <3>1. UNCHANGED <<midi, usbOn, crashed, ports>>
        BY <1>2, <2>1, <2>4 DEF Unplug, Released, MidiSlots, driverVars, vars
      <3>2. MidiSlots' = {} <=> MidiSlots = {}
        BY <1>2, <2>4, UnpluggedSlots
      <3>. QED
        BY <1>0, <2>1, <2>2, <2>4, <3>1, <3>2
           DEF Follows, DriverFollows, EngineFollows, Connecting
    <2>. QED  BY <2>3, <2>4
  <1>. QED  BY <1>1, <1>2

LEMMA FollowsStep ==
  ASSUME HubInv, Follows, [HubNext]_hubVars
  PROVE  Follows'
  <1>1. CASE UNCHANGED hubVars
    <2>1. UNCHANGED <<ports, call, table, slot, midi, usbOn, crashed, pc>>
      BY <1>1 DEF hubVars, vars, appVars, deviceVars, driverVars
    <2>. QED  BY <2>1, FollowsStay DEF MidiSlots
  <1>2. \A isMidi \in Kinds : isMidi \in BOOLEAN
    BY HubAssumption
  <1>3. HubInv'
    BY HubInvStep
  <1>. QED
    BY <1>1, <1>2, <1>3, FollowsEngine, FollowsLoop, FollowsClear, FollowsScan,
       FollowsConnect, FollowsCleanup DEF HubNext, HubStep, Run

LEMMA FollowsImplies ==
  ASSUME HubInv, Follows
  PROVE  TablesAgree
  <1>. SUFFICES ASSUME pc \in Between, call = Idle, ~crashed
                PROVE  /\ PortIds = {table[k].vw : k \in MidiSlots}
                       /\ Len(ports) = Cardinality(MidiSlots)
                       /\ midi = (IF MidiSlots = {} THEN Driver!Off ELSE Driver!Started)
                       /\ usbOn = midi.initialized
    BY DEF TablesAgree
  <1>1. /\ pc \notin Connecting \cup {"boot", "unplug", "stopped"}
        /\ DriverFollows /\ EngineFollows /\ Owned
        /\ ports \in Seq(Device) /\ Len(ports) <= 1
    BY DEF Between, Connecting, Follows, HubInv, Owned, TypeOK, PortsOK
  <1>2. CASE MidiSlots = {}
    <2>1. ports = <<>> /\ Len(ports) = 0
      BY <1>1, <1>2 DEF Owned, Connecting
    <2>2. Cardinality(MidiSlots) = 0 /\ PortIds = {}
      BY <1>2, <2>1, FS_EmptySet DEF PortIds
    <2>. QED  BY <1>1, <1>2, <2>1, <2>2 DEF DriverFollows
  <1>3. CASE MidiSlots # {}
    <2>1. PICK k : MidiSlots = {k}
      BY <1>3 DEF HubInv, Holder
    <2>2. ports # <<>> /\ table[k].vw = ports[1].id
      BY <1>1, <1>3, <2>1 DEF EngineFollows, Owned, Connecting
    <2>3. Len(ports) = 1 /\ DOMAIN ports = {1}
      <3>1. Len(ports) \in Nat /\ DOMAIN ports = 1 .. Len(ports) /\ Len(ports) # 0
        BY <1>1, <2>2
      <3>2. Len(ports) = 1
        BY <1>1, <3>1
      <3>. QED  BY <3>1, <3>2
    <2>4. PortIds = {ports[1].id}
      BY <2>3 DEF PortIds
    <2>5. Cardinality(MidiSlots) = 1
      BY <2>1, FS_Singleton
    <2>. QED  BY <1>1, <1>3, <2>1, <2>2, <2>3, <2>4, <2>5 DEF DriverFollows
  <1>. QED  BY <1>2, <1>3

(***************************************************************************)
(* Between two dealings with a device the hub's table, the engine's table  *)
(* and the driver agree, for any sizes and any scan: also after a device   *)
(* was refused, and in the course of the cleanup.                          *)
(***************************************************************************)
THEOREM HubTablesAgree == HubSpec => []TablesAgree
<1>1. HubInv /\ Follows /\ [HubNext]_hubVars => HubInv' /\ Follows'
  BY HubInvStep, FollowsStep
<1>2. HubInv /\ Follows => TablesAgree
  BY FollowsImplies
<1>3. HubInit => HubInv /\ Follows
  BY HubInitInv, FollowsInit
<1>. QED  BY <1>1, <1>2, <1>3, PTL DEF HubSpec

-----------------------------------------------------------------------------
(***************************************************************************)
(* What the engine counts.  The queue is cleared by midi_init and by a     *)
(* failed registration; the first finds it empty, because nothing arrives  *)
(* while the driver is off, and the second does not happen, because the    *)
(* engine has no other device.                                             *)
(***************************************************************************)
Leaving == {"cleanup", "unplug", "stopped"}

Counted ==
  /\ injected \in [handled : Nat, queued : Nat]
  /\ ~crashed /\ pc = "boot" => rx = <<>> /\ injected.handled + injected.queued = 0
  /\ ~crashed /\ pc \notin Leaving /\ ~midi.initialized => rx = <<>>
  /\ ~crashed /\ pc \notin Leaving \cup {"boot"} =>
       stats.messages + Len(rx) = injected.handled + injected.queued

LEMMA CountedInit == HubInit => Counted
  BY DEF HubInit, Counted, Leaving

LEMMA CountedStay ==
  ASSUME Counted, injected' = injected,
         \/ pc' \in Leaving
         \/ /\ stats' = stats /\ rx' = rx /\ crashed' = crashed
            /\ midi.initialized => midi'.initialized
            /\ pc' = pc \/ (pc \notin Leaving \cup {"boot"} /\ pc' # "boot")
  PROVE  Counted'
  BY DEF Counted, Leaving

LEMMA EngineCounts ==
  ASSUME HubInv, Continue
  PROVE  stats' = stats
  <1>1. CASE ProcessPort
    <2>1. ports[call.i].rx = <<>>
      BY <1>1 DEF ProcessPort, HubInv, Unwired
    <2>. QED  BY <1>1, <2>1 DEF ProcessPort
  <1>2. CASE UnregisterReturn \/ RouteReturn \/ ProcessReturn
    BY <1>2 DEF UnregisterReturn, RouteReturn, ProcessReturn
  <1>. QED
    BY <1>1, <1>2, NoWireToServe
       DEF Continue, RouteSkip, RouteFiltered, RouteUndeliverable, RouteDeliver,
           Forwards

LEMMA InjectCounts ==
  ASSUME HubInv, NEW id, NEW msg, InjectMessage(id, msg)
  PROVE  stats'.messages = stats.messages + 1 /\ stats.messages \in Nat
  BY DEF HubInv, TypeOK, CountersOK, InjectMessage, RouteCall

LEMMA BothSidesGain ==
  ASSUME NEW a \in Nat, NEW b \in Nat, NEW c \in Nat, NEW d \in Nat,
         NEW x \in Nat, NEW y \in Nat, a + b = c + d
  PROVE  (a + x) + (b + y) = (c + x) + (d + y)
  OBVIOUS

LEMMA CountedArrive ==
  ASSUME HubInv, Follows, Counted, ~crashed, NEW msg \in Incoming, Arrive(msg)
  PROVE  Counted'
  <1>1. /\ UNCHANGED <<pc, midi, crashed>>
        /\ injected' = [handled |-> injected.handled + (IF Reaches(msg) THEN 1 ELSE 0),
                        queued |-> injected.queued + (IF Fits THEN 1 ELSE 0)]
        /\ rx' = IF Fits THEN Append(rx, msg) ELSE rx
    BY DEF Arrive, appVars, driverVars
  <1>2. midi.initialized /\ pc # "boot"
    <2>1. midi = Driver!On \/ midi = Driver!Started
      BY DriverFlags DEF Arrive, Follows, DriverFollows, Connecting
    <2>2. midi = Driver!Started
      BY <2>1, DriverFlags DEF Arrive
    <2>3. MidiSlots # {} \/ pc \in Connecting
      BY <2>2, DriverFlags DEF Follows, DriverFollows
    <2>. QED
      BY <2>2, <2>3, DriverFlags DEF Follows, EngineFollows, Connecting
  <1>3. Len(rx) \in Nat /\ Len(rx') = Len(rx) + (IF Fits THEN 1 ELSE 0)
    BY <1>1 DEF HubInv, AppOK
  <1>4. /\ stats'.messages = stats.messages + (IF Reaches(msg) THEN 1 ELSE 0)
        /\ stats.messages \in Nat
    BY InjectCounts DEF Arrive, vars, HubInv, TypeOK, CountersOK
  <1>5. injected' \in [handled : Nat, queued : Nat]
        /\ injected.handled \in Nat /\ injected.queued \in Nat
    BY <1>1 DEF Counted
  <1>6. /\ injected'.handled = injected.handled + (IF Reaches(msg) THEN 1 ELSE 0)
        /\ injected'.queued = injected.queued + (IF Fits THEN 1 ELSE 0)
    BY <1>1
  <1>. DEFINE h == IF Reaches(msg) THEN 1 ELSE 0
              q == IF Fits THEN 1 ELSE 0
              a == stats.messages
              b == Len(rx)
              c == injected.handled
              d == injected.queued
  <1>7. /\ h \in Nat /\ q \in Nat
        /\ a \in Nat /\ b \in Nat /\ c \in Nat /\ d \in Nat
    BY <1>3, <1>4, <1>5
  <1>8. /\ stats'.messages = a + h /\ Len(rx') = b + q
        /\ injected'.handled = c + h
        /\ injected'.queued = d + q
    BY <1>3, <1>4, <1>6
  <1>9. pc \notin Leaving =>
          stats'.messages + Len(rx') = injected'.handled + injected'.queued
    <2>1. pc \notin Leaving => a + b = c + d
      BY <1>2 DEF Counted
    <2>. HIDE DEF a, b, c, d, h, q
    <2>2. a + b = c + d => (a + h) + (b + q) = (c + h) + (d + q)
      BY <1>7, BothSidesGain
    <2>. QED  BY <1>8, <2>1, <2>2
  <1>10. pc' = pc /\ midi'.initialized
    BY <1>1, <1>2
  <1>. QED
    BY <1>2, <1>5, <1>9, <1>10 DEF Counted

LEMMA CountedStep ==
  ASSUME MaxDevices > 0, HubInv, Follows, Counted, [HubNext]_hubVars
  PROVE  Counted'
  <1>. USE DEF Goto
  <1>1. CASE Boot
    <2>1. /\ UNCHANGED <<rx, injected, midi, crashed>> /\ stats'.messages = 0
          /\ pc = "boot" /\ pc' = "start"
      BY <1>1 DEF Boot, VwInit, Clear, driverVars, history
    <2>. QED  BY <2>1 DEF Counted, Leaving
  <1>2. CASE \/ BootStart \/ Turn \/ ScanNothing \/ (\E m \in Kinds : ScanFinds(m))
             \/ CountDevice \/ PassOver \/ EndTurn \/ WireDevice
    <2>1. /\ UNCHANGED <<stats, rx, injected, midi, crashed>>
          /\ pc \notin Leaving \cup {"boot"} /\ pc' # "boot"
      BY <1>2, NoPeer DEF BootStart, Start, Turn, ScanNothing, ScanFinds, CountDevice, PassOver,
         EndTurn, ProcessCall, WireDevice, vars, driverVars, history, Leaving
    <2>. QED  BY <2>1, CountedStay
  <1>3. CASE LeaveLoop \/ CleanupDevice \/ Unplug \/ CleanupEnd
    <2>1. injected' = injected /\ pc' \in Leaving
      BY <1>3 DEF LeaveLoop, CleanupDevice, Unplug, CleanupEnd, history, Leaving
    <2>. QED  BY <2>1, CountedStay
  <1>4. CASE Signal \/ EngineStep \/ UNCHANGED hubVars
    <2>1. UNCHANGED <<stats, rx, injected, midi, crashed, pc>>
      BY <1>4, EngineCounts DEF Signal, EngineStep, hubVars, appVars, vars,
         driverVars, history
    <2>. QED  BY <2>1, CountedStay
  <1>5. CASE InitDevice /\ ~crashed
    <2>1. /\ UNCHANGED <<stats, injected>> /\ pc = "init" /\ pc' \in {"drain", "begin"}
      BY <1>5 DEF InitDevice, vars, history
    <2>2. CASE UNCHANGED <<rx, driverVars>>
      BY <2>1, <2>2, CountedStay DEF driverVars, Leaving
    <2>3. CASE rx' = <<>> /\ ~midi.initialized /\ Driver!MidiInit
      <3>1. rx = <<>>
        BY <1>5, <2>1, <2>3 DEF Counted, Leaving
      <3>2. crashed' = crashed
        BY <2>3 DEF Driver!MidiInit
      <3>. QED  BY <2>1, <2>3, <3>1, <3>2, CountedStay DEF Leaving
    <2>. QED  BY <1>5, <2>2, <2>3 DEF InitDevice
  <1>6. CASE StartDevice /\ ~crashed
    <2>1. /\ UNCHANGED <<stats, rx, injected>> /\ pc = "begin" /\ pc' = "register"
      BY <1>6 DEF StartDevice, vars, history
    <2>2. crashed' = TRUE \/ (crashed' = crashed /\ midi'.initialized)
      BY <1>6, DriverFlags DEF StartDevice, Driver!MidiStart, Driver!Crash
    <2>. QED  BY <2>1, <2>2, CountedStay DEF Counted, Leaving
  <1>7. CASE RegisterDevice
    <2>1. pc = "register" /\ pc' # "boot" /\ injected' = injected
      BY <1>7 DEF RegisterDevice, history
    <2>2. ports = <<>> /\ Len(ports) = 0
      BY <2>1 DEF HubInv, Holder, Owned, Connecting
    <2>3. Register(TRUE, TRUE) /\ UNCHANGED <<rx, midi, crashed>>
      BY <1>7, <2>2 DEF RegisterDevice, driverVars
    <2>. QED  BY <2>1, <2>3, CountedStay DEF Register, Leaving
  <1>8. CASE DrainDriver
    <2>1. /\ UNCHANGED <<injected, midi, crashed>>
          /\ pc = "drain" /\ pc' \in {"drain", "deliver"}
      BY <1>8 DEF DrainDriver, driverVars, history
    <2>2. CASE rx = <<>>
      <3>1. UNCHANGED <<stats, rx>>
        BY <1>8, <2>2 DEF DrainDriver, vars
      <3>. QED  BY <2>1, <3>1, CountedStay DEF Leaving
    <2>3. CASE rx # <<>>
      <3>1. stats'.messages = stats.messages + 1 /\ stats.messages \in Nat
        BY <1>8, <2>3, InjectCounts DEF DrainDriver
      <3>2. Len(rx') = Len(rx) - 1 /\ Len(rx) \in Nat
        BY <1>8, <2>3 DEF DrainDriver, HubInv, AppOK
      <3>3. ~midi.initialized => crashed
        BY <2>1, <2>3 DEF Counted, Leaving
      <3>4. stats'.messages + Len(rx') = stats.messages + Len(rx)
        BY <3>1, <3>2
      <3>. QED  BY <2>1, <3>3, <3>4 DEF Counted, Leaving
    <2>. QED  BY <2>2, <2>3
  <1>9. CASE DeliverToDriver
    <2>1. ~Pending(table[idx].vw)
      BY DEF Pending, HubInv, Unwired
    <2>2. /\ UNCHANGED <<stats, rx, injected, midi, crashed>>
          /\ pc = "deliver" /\ pc' = "drain"
      BY <1>9, <2>1 DEF DeliverToDriver, vars, driverVars, history
    <2>. QED  BY <2>2, CountedStay DEF Leaving
  <1>. QED
    BY <1>1, <1>2, <1>3, <1>4, <1>5, <1>6, <1>7, <1>8, <1>9, CountedArrive
       DEF HubNext, HubStep, Run

(***************************************************************************)
(* The engine counts every message once for the queue and once for the     *)
(* handler, in every order of arrivals, draining and scans, as long as the *)
(* engine has room for one device.                                         *)
(***************************************************************************)
THEOREM HubInjectsTwice ==
  ASSUME MaxDevices > 0
  PROVE  HubSpec => []EachPathInjects
<1>1. HubInv /\ Follows /\ Counted /\ [HubNext]_hubVars
        => HubInv' /\ Follows' /\ Counted'
  BY HubInvStep, FollowsStep, CountedStep
<1>2. Counted => EachPathInjects
  BY DEF Counted, EachPathInjects, Leaving
<1>3. HubInit => HubInv /\ Follows /\ Counted
  BY HubInitInv, FollowsInit, CountedInit
<1>. QED  BY <1>1, <1>2, <1>3, PTL DEF HubSpec

-----------------------------------------------------------------------------
(***************************************************************************)
(* What the cleanup leaves.  The usb ids in the table increase, because    *)
(* the scan counts up; so the search by usb id finds the slot the loop is  *)
(* at.  After n devices the first n slots hold every second device of the  *)
(* table as it was, and the others moved by n.                             *)
(***************************************************************************)
Increasing(t) == \A k, l \in DOMAIN t : k < l => t[k].usb < t[l].usb

Below(t, n) == \A k \in DOMAIN t : t[k].usb < n

Halved(t, w, n) ==
  /\ Len(t) + n = Len(w) /\ n <= Len(t) + 1
  /\ \A k \in DOMAIN t : t[k] = IF k <= n THEN w[2 * k] ELSE w[k + n]

Skipping ==
  /\ Increasing(table) /\ Below(table, scanned + 1)
  /\ pc \in Connecting \cup {"init"} => subject.usb = scanned /\ Below(table, scanned)
  /\ left \in Seq(Slot)
  /\ pc \in {"cleanup", "unplug"} => Halved(table, left, idx - 1)
  /\ pc = "unplug" => slot = idx
  /\ pc = "stopped" =>
       ~crashed /\ table = [k \in 1 .. Len(left) \div 2 |-> left[2 * k]]

LEMMA SkippingInit == HubInit => Skipping
  BY DEF HubInit, Skipping, Increasing, Below, Connecting

LEMMA IncreasingAppend ==
  ASSUME NEW t \in Seq(Slot), NEW e \in Slot, Increasing(t), Below(t, e.usb)
  PROVE  Increasing(Append(t, e)) /\ Below(Append(t, e), e.usb + 1)
  <1>. DEFINE u == Append(t, e)
  <1>1. /\ DOMAIN u = 1 .. Len(t) + 1 /\ u[Len(t) + 1] = e /\ Len(t) \in Nat
        /\ DOMAIN t = 1 .. Len(t)
        /\ \A k \in 1 .. Len(t) : u[k] = t[k] /\ t[k].usb \in Nat
        /\ e.usb \in Nat
    <2>1. \A k \in 1 .. Len(t) : t[k] \in Slot
      OBVIOUS
    <2>2. \A r \in Slot : r.usb \in Nat
      BY DEF Slot
    <2>. QED  BY <2>1, <2>2, AppendEntry
  <1>. HIDE DEF u
  <1>2. ASSUME NEW k \in DOMAIN u, NEW l \in DOMAIN u, k < l
        PROVE  u[k].usb < u[l].usb
    <2>1. k \in 1 .. Len(t)
      BY <1>1, <1>2
    <2>2. CASE l \in 1 .. Len(t)
      BY <1>1, <1>2, <2>1, <2>2 DEF Increasing
    <2>3. CASE l = Len(t) + 1
      BY <1>1, <2>1, <2>3 DEF Below
    <2>. QED  BY <1>1, <2>2, <2>3
  <1>3. ASSUME NEW k \in DOMAIN u PROVE u[k].usb < e.usb + 1
    <2>1. CASE k \in 1 .. Len(t)
      BY <1>1, <2>1 DEF Below
    <2>2. CASE k = Len(t) + 1
      BY <1>1, <2>2
    <2>. QED  BY <1>1, <2>1, <2>2
  <1>4. Increasing(u) /\ Below(u, e.usb + 1)
    BY <1>2, <1>3 DEF Increasing, Below
  <1>. QED  BY <1>4 DEF u

LEMMA IncreasingWithout ==
  ASSUME NEW t \in Seq(Slot), NEW i \in DOMAIN t, NEW n, Increasing(t), Below(t, n)
  PROVE  Increasing(Without(t, i)) /\ Below(Without(t, i), n)
  <1>. DEFINE u == Without(t, i)
  <1>1. /\ i \in 1 .. Len(t) /\ DOMAIN t = 1 .. Len(t) /\ Len(t) \in Nat
        /\ DOMAIN u = 1 .. Len(t) - 1
        /\ \A k \in DOMAIN u : u[k] = IF k < i THEN t[k] ELSE t[k + 1]
    BY WithoutEntry
  <1>. HIDE DEF u
  <1>2. ASSUME NEW k \in DOMAIN u, NEW l \in DOMAIN u, k < l
        PROVE  u[k].usb < u[l].usb
    <2>. DEFINE a == IF k < i THEN k ELSE k + 1
                b == IF l < i THEN l ELSE l + 1
    <2>1. a \in DOMAIN t /\ b \in DOMAIN t /\ a < b
      BY <1>1, <1>2
    <2>2. u[k] = t[a] /\ u[l] = t[b]
      BY <1>1
    <2>. QED  BY <2>1, <2>2 DEF Increasing
  <1>3. ASSUME NEW k \in DOMAIN u PROVE u[k].usb < n
    <2>. DEFINE a == IF k < i THEN k ELSE k + 1
    <2>1. a \in DOMAIN t
      BY <1>1
    <2>2. u[k] = t[a]
      BY <1>1
    <2>. QED  BY <2>1, <2>2 DEF Below
  <1>4. Increasing(u) /\ Below(u, n)
    BY <1>2, <1>3 DEF Increasing, Below
  <1>. QED  BY <1>4 DEF u

LEMMA HalvedStart ==
  ASSUME NEW t \in Seq(Slot)
  PROVE  Halved(t, t, 0)
  BY DEF Halved

LEMMA HalvedStep ==
  ASSUME NEW t \in Seq(Slot), NEW w \in Seq(Slot), NEW i \in DOMAIN t,
         Halved(t, w, i - 1)
  PROVE  Halved(Without(t, i), w, i)
  <1>. DEFINE u == Without(t, i)
  <1>1. /\ i \in 1 .. Len(t) /\ DOMAIN t = 1 .. Len(t) /\ Len(t) \in Nat
        /\ u \in Seq(Slot) /\ DOMAIN u = 1 .. Len(t) - 1
        /\ \A k \in DOMAIN u : u[k] = IF k < i THEN t[k] ELSE t[k + 1]
        /\ Len(u) = Len(t) - 1
    BY WithoutEntry
  <1>. HIDE DEF u
  <1>3. ASSUME NEW k \in DOMAIN u
        PROVE  u[k] = IF k <= i THEN w[2 * k] ELSE w[k + i]
    <2>1. k \in 1 .. Len(t) /\ k + 1 \in 1 .. Len(t)
      BY <1>1
    <2>2. CASE k < i
      BY <1>1, <2>1, <2>2 DEF Halved
    <2>3. CASE k >= i
      <3>1. u[k] = t[k + 1]
        BY <1>1, <2>3
      <3>2. ~(k + 1 <= i - 1)
        BY <1>1, <2>1, <2>3
      <3>3. t[k + 1] = w[k + 1 + (i - 1)]
        BY <1>1, <2>1, <3>2 DEF Halved
      <3>4. k + 1 + (i - 1) = k + i /\ (k <= i => 2 * k = k + i)
        <4>1. k \in Nat /\ i \in Nat
          BY <1>1
        <4>. QED  BY <2>3, <4>1
      <3>. QED  BY <3>1, <3>3, <3>4
    <2>. QED  BY <1>1, <2>1, <2>2, <2>3
  <1>4. Len(u) + i = Len(w) /\ i <= Len(u) + 1
    BY <1>1 DEF Halved
  <1>5. Halved(u, w, i)
    BY <1>3, <1>4 DEF Halved
  <1>. QED  BY <1>5 DEF u

LEMMA Half ==
  ASSUME NEW a \in Nat
  PROVE  (2 * a) \div 2 = a /\ (2 * a + 1) \div 2 = a
  OBVIOUS

LEMMA HalvedEnd ==
  ASSUME NEW t \in Seq(Slot), NEW w \in Seq(Slot), NEW n \in Nat,
         Halved(t, w, n), n + 1 > Len(t)
  PROVE  t = [k \in 1 .. Len(w) \div 2 |-> w[2 * k]]
  <1>1. Len(t) \in Nat /\ Len(w) \in Nat /\ DOMAIN t = 1 .. Len(t)
        /\ t = [k \in 1 .. Len(t) |-> t[k]]
    OBVIOUS
  <1>2. Len(w) = 2 * Len(t) \/ Len(w) = 2 * Len(t) + 1
    <2>1. Len(t) + n = Len(w) /\ (n = Len(t) \/ n = Len(t) + 1)
      BY <1>1 DEF Halved
    <2>. QED  BY <1>1, <2>1
  <1>4. Len(t) = Len(w) \div 2
    BY <1>1, <1>2, Half
  <1>3. \A k \in 1 .. Len(t) : t[k] = w[2 * k]
    BY <1>1 DEF Halved
  <1>. QED  BY <1>1, <1>3, <1>4

LEMMA SkippingStay ==
  ASSUME Skipping, UNCHANGED <<table, left, scanned>>,
         \/ pc' = pc /\ UNCHANGED <<idx, slot, subject, crashed>>
         \/ pc' \in {"start", "loop", "scan", "drain", "deliver"}
         \/ /\ pc \in Connecting \cup {"init"} /\ pc' \in Connecting
            /\ subject'.usb = subject.usb
  PROVE  Skipping'
  BY DEF Skipping, Connecting

LEMMA SkippingPlain ==
  ASSUME Skipping,
         \/ EngineStep \/ Signal \/ (\E msg \in Incoming : Arrive(msg))
         \/ Boot \/ BootStart \/ Turn \/ ScanNothing
         \/ DrainDriver \/ DeliverToDriver \/ PassOver \/ EndTurn
         \/ UNCHANGED hubVars
  PROVE  Skipping'
  <1>1. UNCHANGED <<table, left, scanned>>
    BY DEF EngineStep, Signal, Arrive, Boot, BootStart, Turn, ScanNothing, DrainDriver,
       DeliverToDriver, PassOver, EndTurn, hubVars, appVars, deviceVars, loopVars,
       history
  <1>2. CASE \/ EngineStep \/ Signal \/ (\E msg \in Incoming : Arrive(msg))
             \/ UNCHANGED hubVars
    <2>1. UNCHANGED <<pc, idx, slot, subject, crashed>>
      BY <1>2 DEF EngineStep, Signal, Arrive, hubVars, appVars, deviceVars, driverVars
    <2>. QED  BY <1>1, <2>1, SkippingStay
  <1>3. CASE \/ Boot \/ BootStart \/ Turn \/ ScanNothing
             \/ DrainDriver \/ DeliverToDriver \/ PassOver \/ EndTurn
    <2>1. pc' \in {"start", "loop", "scan", "drain", "deliver"}
      BY <1>3 DEF Boot, BootStart, Turn, ScanNothing, DrainDriver, DeliverToDriver,
         PassOver, EndTurn, Goto
    <2>. QED  BY <1>1, <2>1, SkippingStay
  <1>. QED  BY <1>2, <1>3

LEMMA SkippingConnect ==
  ASSUME HubInv, Skipping,
         \/ InitDevice \/ StartDevice \/ RegisterDevice \/ WireDevice \/ CountDevice
  PROVE  Skipping'
  <1>. USE DEF Goto
  <1>1. CASE InitDevice \/ StartDevice \/ WireDevice
    <2>1. UNCHANGED <<table, left, scanned, subject>>
      BY <1>1 DEF InitDevice, StartDevice, WireDevice, deviceVars, loopVars, history
    <2>2. \/ pc' = "drain"
          \/ pc \in Connecting \cup {"init"} /\ pc' \in Connecting
      BY <1>1 DEF InitDevice, StartDevice, WireDevice, Connecting
    <2>. QED  BY <2>1, <2>2, SkippingStay
  <1>2. CASE RegisterDevice
    <2>1. UNCHANGED <<table, left, scanned>> /\ pc = "register"
      BY <1>2 DEF RegisterDevice, loopVars, history
    <2>2. subject \in Slot
      BY DEF HubInv, AppOK
    <2>3. pc' = "drain" \/ (pc' = "wire" /\ subject'.usb = subject.usb)
      BY <1>2, <2>2 DEF RegisterDevice, Slot
    <2>. QED  BY <2>1, <2>3, SkippingStay DEF Connecting
  <1>3. CASE CountDevice
    <2>1. /\ UNCHANGED <<left, scanned>> /\ table' = Append(table, subject)
          /\ pc = "wire" /\ pc' = "drain"
      BY <1>3 DEF CountDevice, loopVars, history
    <2>2. /\ subject \in Slot /\ table \in Seq(Slot) /\ Increasing(table)
          /\ subject.usb = scanned /\ Below(table, scanned)
      BY <2>1 DEF HubInv, AppOK, Skipping, Connecting
    <2>3. Increasing(Append(table, subject))
          /\ Below(Append(table, subject), scanned + 1)
      BY <2>2, IncreasingAppend
    <2>. QED  BY <2>1, <2>3 DEF Skipping, Connecting
  <1>. QED  BY <1>1, <1>2, <1>3

LEMMA SkippingScan ==
  ASSUME HubInv, Skipping, NEW isMidi \in BOOLEAN, ScanFinds(isMidi)
  PROVE  Skipping'
  <1>. DEFINE device == Entry(scanned', 0, isMidi)
  <1>1. /\ scanned' = scanned + 1 /\ scanned \in Nat /\ left' = left
        /\ table \in Seq(Slot)
    BY DEF ScanFinds, history, HubInv, AppOK
  <1>2. device \in Slot /\ device.usb = scanned'
    BY <1>1, EntryType, IdsExist DEF Entry
  <1>3. Increasing(table) /\ Below(table, scanned') /\ left \in Seq(Slot)
    BY <1>1 DEF Skipping
  <1>4. Below(table, scanned' + 1)
    <2>1. \A k \in DOMAIN table : table[k].usb \in Nat
      <3>1. \A r \in Slot : r.usb \in Nat
        BY DEF Slot
      <3>. QED  BY <1>1, <3>1
    <2>. QED  BY <1>1, <1>3, <2>1 DEF Below
  <1>5. \/ pc' = "drain" /\ table' = table
        \/ pc' = "init" /\ table' = table /\ subject' = device
        \/ pc' = "drain" /\ table' = Append(table, device)
    BY DEF ScanFinds, Goto, deviceVars
  <1>. HIDE DEF device
  <1>6. Increasing(Append(table, device))
        /\ Below(Append(table, device), scanned' + 1)
    BY <1>1, <1>2, <1>3, IncreasingAppend
  <1>7. CASE pc' = "drain" /\ table' = Append(table, device)
    BY <1>1, <1>3, <1>6, <1>7 DEF Skipping, Connecting
  <1>8. CASE table' = table /\ (pc' = "drain" \/ (pc' = "init" /\ subject' = device))
    BY <1>1, <1>2, <1>3, <1>4, <1>8 DEF Skipping, Connecting
  <1>. QED  BY <1>5, <1>7, <1>8

LEMMA SkippingCleanup ==
  ASSUME HubInv, Skipping, ~crashed,
         LeaveLoop \/ CleanupDevice \/ Unplug \/ CleanupEnd
  PROVE  Skipping'
  <1>0. /\ table \in Seq(Slot) /\ left \in Seq(Slot) /\ idx \in Nat \ {0}
        /\ Increasing(table) /\ Below(table, scanned + 1)
    BY DEF HubInv, AppOK, Skipping
  <1>. USE DEF Goto
  <1>1. CASE LeaveLoop
    <2>1. /\ UNCHANGED <<table, scanned>> /\ left' = table
          /\ pc' = "cleanup" /\ idx' - 1 = 0
      BY <1>1 DEF LeaveLoop, deviceVars, loopVars
    <2>. QED  BY <1>0, <2>1, HalvedStart DEF Skipping, Connecting
  <1>2. CASE CleanupDevice
    <2>1. /\ UNCHANGED <<table, scanned, left, idx>> /\ idx \in DOMAIN table
          /\ pc = "cleanup" /\ pc' = "unplug"
          /\ slot' \in DOMAIN table /\ table[slot'].usb = table[idx].usb
      BY <1>2 DEF CleanupDevice, loopVars, history
    <2>2. slot' = idx
      <3>1. slot' \in Nat /\ idx \in Nat /\ table[slot'].usb \in Nat
        <4>1. \A r \in Slot : r.usb \in Nat
          BY DEF Slot
        <4>. QED  BY <1>0, <2>1, <4>1
      <3>2. ~(slot' < idx) /\ ~(idx < slot')
        BY <1>0, <2>1, <3>1 DEF Increasing
      <3>. QED  BY <3>1, <3>2
    <2>. QED  BY <2>1, <2>2 DEF Skipping, Connecting
  <1>3. CASE Unplug
    <2>1. /\ UNCHANGED <<scanned, left>> /\ idx' - 1 = idx
          /\ table' = Without(table, slot) /\ pc = "unplug" /\ pc' = "cleanup"
      BY <1>0, <1>3 DEF Unplug, loopVars, history
    <2>2. slot = idx /\ idx \in DOMAIN table /\ Halved(table, left, idx - 1)
      BY <2>1 DEF HubInv, Unplugging, Skipping
    <2>3. Increasing(Without(table, idx)) /\ Below(Without(table, idx), scanned + 1)
      BY <1>0, <2>2, IncreasingWithout
    <2>4. Halved(Without(table, idx), left, idx)
      BY <1>0, <2>2, HalvedStep
    <2>. QED  BY <1>0, <2>1, <2>2, <2>3, <2>4 DEF Skipping, Connecting
  <1>4. CASE CleanupEnd
    <2>1. /\ UNCHANGED <<table, scanned, left, crashed>> /\ idx > Len(table)
          /\ pc = "cleanup" /\ pc' = "stopped"
      BY <1>4 DEF CleanupEnd, deviceVars, loopVars, driverVars, history
    <2>2. idx - 1 \in Nat /\ (idx - 1) + 1 > Len(table) /\ Halved(table, left, idx - 1)
      BY <1>0, <2>1 DEF Skipping
    <2>3. table = [k \in 1 .. Len(left) \div 2 |-> left[2 * k]]
      BY <1>0, <2>2, HalvedEnd
    <2>. QED  BY <2>1, <2>3 DEF Skipping, Connecting
  <1>. QED  BY <1>1, <1>2, <1>3, <1>4

LEMMA SkippingStep ==
  ASSUME HubInv, Skipping, [HubNext]_hubVars
  PROVE  Skipping'
  <1>1. \A isMidi \in Kinds : isMidi \in BOOLEAN
    BY HubAssumption
  <1>. QED
    BY <1>1, SkippingPlain, SkippingConnect, SkippingScan, SkippingCleanup
       DEF HubNext, HubStep, Run

(***************************************************************************)
(* cleanup_system disconnects every second device and no other, however    *)
(* many devices of whatever kind are in the table when the signal comes:   *)
(* the program stops with the devices of the even slots still in it, and   *)
(* with the driver on if the MIDI device is one of them.                   *)
(***************************************************************************)
THEOREM HubShutdownSkips == HubSpec => []ShutdownSkips
<1>1. HubInv /\ Follows /\ Skipping /\ [HubNext]_hubVars
        => HubInv' /\ Follows' /\ Skipping'
  BY HubInvStep, FollowsStep, SkippingStep
<1>2. HubInv /\ Follows /\ Skipping => ShutdownSkips
  <2>. SUFFICES ASSUME HubInv, Follows, Skipping, pc = "stopped"
                PROVE  midi.initialized <=> MidiSlots # {}
    BY DEF ShutdownSkips, Skipping
  <2>1. DriverFollows
    BY DEF Follows, Skipping
  <2>. QED  BY <2>1, DriverFlags DEF DriverFollows, Connecting
<1>3. HubInit => HubInv /\ Follows /\ Skipping
  BY HubInitInv, FollowsInit, SkippingInit
<1>. QED  BY <1>1, <1>2, <1>3, PTL DEF HubSpec
=============================================================================
