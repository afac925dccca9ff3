---------------------------------- MODULE Hub ----------------------------------
(***************************************************************************)
(* The application of main.c: a loop that scans for devices, drains the    *)
(* MIDI driver into the virtual-wire engine and lets the engine process,   *)
(* until a signal asks it to stop.  The engine is VirtualWire, the driver  *)
(* MidiDriver; this module adds the hub's own table, the order of its      *)
(* calls, and what it does with their results.                             *)
(*                                                                         *)
(* One step is a call of the hub to one of the two, or a turn of a loop    *)
(* without such a call.  A call of the engine that loops runs to its end   *)
(* before the hub goes on.  The signal may come between any two steps.     *)
(*                                                                         *)
(* The messages of a device reach the hub on two paths, as midi.h has it:  *)
(* midi_process_midi_event queues each message and, for five kinds, calls  *)
(* a handler of the hub.  Arrive is that.  Nothing in the repository calls *)
(* midi_process_usb_packet: that the driver hands over what arrives, and   *)
(* does so between two steps, is an assumption; Incoming = {} is the       *)
(* program without it.                                                     *)
(*                                                                         *)
(* Left out: names, vendor and product ids but for is_midi_device,         *)
(* printing.  is_connected is TRUE in every slot below device_count.       *)
(***************************************************************************)
EXTENDS VirtualWireProperties

CONSTANTS
  MaxUsbDevices,     \* MAX_USB_MIDI_DEVICES
  ScanEvery,         \* turns of the main loop from scan to scan
  Found,             \* devices that the simulated scan finds, one per scan
  Kinds,             \* what is_midi_device says of them
  RxSize,            \* MIDI_BUFFER_SIZE
  Incoming,          \* status bytes of the messages that devices send
  MaxArrivals,       \* bound: messages that devices send
  MaxEndpoints, MaxPacket, Outcomes                \* of MidiDriver

ASSUME HubAssumption ==
  /\ MaxUsbDevices \in Nat /\ Found \in Nat
  /\ ScanEvery \in Nat \ {0} /\ RxSize \in Nat
  /\ Kinds \subseteq BOOLEAN /\ Incoming \subseteq Byte
  /\ MaxArrivals \in Nat /\ 2 * MaxArrivals <= MaxMessages
  /\ Vetoes = {FALSE}                            \* vw_filter_callback
  \* What the hub passes to the engine:
  /\ <<TRUE, TRUE>> \in Roles /\ {} \in Filters /\ Incoming \subseteq Statuses
  /\ AnyChannel \in SourceChannels \cap DestChannels

VARIABLES
  pc, idx,           \* where main is, and the index of the loop it is in
  table,             \* main_app.devices[0 .. device_count - 1]
  subject,           \* the device being connected
  slot,              \* of the device being disconnected
  tick, scanned,     \* loop_counter % ScanEvery, simulated_devices
  shutdown,          \* shutdown_requested
  rx,                \* midi_device.rx_buffer
  \* MidiDriver: midi_device's flags, and usb_device
  midi, usbOn, busState, eps, flight, cut, crashed, answer,
  \* History:
  arrived,           \* messages that arrived
  injected,          \* of these, how many a handler injected, the queue took
  left               \* the table when the main loop was left

Driver == INSTANCE MidiDriver
            WITH initialized <- usbOn, state <- busState,
                 Numbers <- {}, Sizes <- {}, BusStates <- {}

deviceVars == <<table, subject, slot>>
loopVars == <<tick, scanned, shutdown>>
appVars == <<pc, idx, deviceVars, loopVars>>
driverVars == <<midi, usbOn, busState, eps, flight, cut, crashed, answer>>
history == <<arrived, injected, left>>
hubVars == <<vars, appVars, rx, driverVars, history>>

Entry(usb, vw, isMidi) == [usb |-> usb, vw |-> vw, midi |-> isMidi]

NoEntry == Entry(0, 0, FALSE)

Labels == {"boot", "start", "loop", "scan", "init", "begin", "register",
           "wire", "drain", "deliver", "cleanup", "unplug", "stopped"}

MidiSlots == {k \in DOMAIN table : table[k].midi}

HubInit ==
  /\ Init /\ Driver!DriverInit
  /\ pc = "boot" /\ idx = 1 /\ table = <<>> /\ subject = NoEntry /\ slot = 1
  /\ tick = 0 /\ scanned = 0 /\ shutdown = FALSE /\ rx = <<>>
  /\ arrived = 0 /\ injected = [handled |-> 0, queued |-> 0] /\ left = <<>>

Goto(label, i) == pc' = label /\ idx' = i

-----------------------------------------------------------------------------
(* initialize_system, and the head of the main loop.                         *)

Boot ==
  /\ pc = "boot" /\ VwInit /\ Goto("start", 1)
  /\ UNCHANGED <<deviceVars, loopVars, rx, driverVars, history>>

BootStart ==
  /\ pc = "start" /\ Start /\ Goto("loop", 1)
  /\ UNCHANGED <<deviceVars, loopVars, rx, driverVars, history>>

Turn ==
  /\ pc = "loop" /\ call = Idle /\ ~shutdown
  /\ tick' = (tick + 1) % ScanEvery
  /\ Goto(IF tick' = 0 THEN "scan" ELSE "drain", 1)
  /\ UNCHANGED <<vars, deviceVars, scanned, shutdown, rx, driverVars, history>>

LeaveLoop ==
  /\ pc = "loop" /\ call = Idle /\ shutdown
  /\ Goto("cleanup", 1)
  /\ left' = table
  /\ UNCHANGED <<vars, deviceVars, loopVars, rx, driverVars,
                 arrived, injected>>

-----------------------------------------------------------------------------
(* scan_for_usb_devices and handle_usb_device_connected.                     *)

ScanNothing ==
  /\ pc = "scan" /\ scanned = Found
  /\ Goto("drain", 1)
  /\ UNCHANGED <<vars, deviceVars, loopVars, rx, driverVars, history>>

(* A device that is no MIDI device takes a slot; a full table takes nobody.  *)
ScanFinds(isMidi) ==
  /\ pc = "scan" /\ scanned < Found
  /\ scanned' = scanned + 1
  /\ LET device == Entry(scanned', 0, isMidi) IN
     IF Len(table) >= MaxUsbDevices
     THEN Goto("drain", 1) /\ UNCHANGED deviceVars
     ELSE IF isMidi
     THEN Goto("init", 1) /\ subject' = device /\ UNCHANGED <<table, slot>>
     ELSE /\ Goto("drain", 1) /\ table' = Append(table, device)
          /\ UNCHANGED <<subject, slot>>
  /\ UNCHANGED <<vars, tick, shutdown, rx, driverVars, history>>

InitDevice_GoesOn ==                   \* mutant: midi_init's result not tested
  /\ pc = "init"
  /\ IF midi.initialized \/ usbOn
     THEN Goto("register", 1) /\ UNCHANGED <<rx, driverVars>>
     ELSE Goto("begin", 1) /\ rx' = <<>> /\ Driver!MidiInit
  /\ UNCHANGED <<vars, deviceVars, loopVars, history>>

InitDevice_Counts ==                   \* mutant: device_count++ after failure
  /\ pc = "init"
  /\ IF midi.initialized \/ usbOn
     THEN /\ Goto("drain", 1) /\ table' = Append(table, subject)
          /\ UNCHANGED <<rx, driverVars>>
     ELSE Goto("begin", 1) /\ rx' = <<>> /\ Driver!MidiInit /\ UNCHANGED table
  /\ UNCHANGED <<vars, subject, slot, loopVars, history>>

(* midi_init: refused while another device holds the driver.                 *)
InitDevice ==
  /\ pc = "init"
  /\ IF midi.initialized \/ usbOn
     THEN Goto("drain", 1) /\ UNCHANGED <<rx, driverVars>>
     ELSE Goto("begin", 1) /\ rx' = <<>> /\ Driver!MidiInit
  /\ UNCHANGED <<vars, deviceVars, loopVars, history>>

(* midi_start.  It fails only if usb_start does: not initialized, which      *)
(* midi_init has just done, or usb_hw_start refuses, and the stub for that   *)
(* cannot.  So the branch of main.c for a failed start (midi_deinit, return) *)
(* is left out: no step could take it.                                       *)
StartDevice ==
  /\ pc = "begin" /\ Driver!MidiStart /\ Goto("register", 1)
  /\ UNCHANGED <<vars, deviceVars, loopVars, rx, history>>

(* midi_vw_register_device; if the engine is full, midi_stop, midi_deinit.   *)
RegisterDevice ==
  /\ pc = "register" /\ call = Idle
  /\ IF Len(ports) < MaxDevices
     THEN /\ Register(TRUE, TRUE) /\ Goto("wire", 1)
          /\ subject' = [subject EXCEPT !.vw = nextDev]
          /\ UNCHANGED <<rx, driverVars>>
     ELSE /\ Driver!MidiDeinit /\ rx' = <<>> /\ Goto("drain", 1)
          /\ UNCHANGED <<vars, subject>>
  /\ UNCHANGED <<table, slot, loopVars, history>>

(* The loop over the devices connected before, two connections for each.     *)
Wire(src, dst) ==                      \* the result is ignored
  IF CanCreate(src, dst, AnyChannel, AnyChannel)
  THEN CreateConnection(src, dst, AnyChannel, AnyChannel, {})
  ELSE UNCHANGED vars

WireDevice ==
  /\ pc = "wire" /\ call = Idle /\ idx <= 2 * Len(table)
  /\ LET peer == table[(idx + 1) \div 2] IN
     IF peer.midi
     THEN IF idx % 2 = 1
          THEN Wire(subject.vw, peer.vw)
          ELSE Wire(peer.vw, subject.vw)
     ELSE UNCHANGED vars
  /\ Goto("wire", idx + 1)
  /\ UNCHANGED <<deviceVars, loopVars, rx, driverVars, history>>

CountDevice ==                         \* device_count++
  /\ pc = "wire" /\ call = Idle /\ idx > 2 * Len(table)
  /\ table' = Append(table, subject)
  /\ Goto("drain", 1)
  /\ UNCHANGED <<vars, subject, slot, loopVars, rx, driverVars, history>>

-----------------------------------------------------------------------------
(* process_midi_messages, then midi_vw_process_messages.                     *)

DrainDriver_Discards ==                \* mutant: received and not injected
  /\ pc = "drain" /\ call = Idle /\ idx \in DOMAIN table /\ table[idx].midi
  /\ IF rx # <<>>
     THEN rx' = Tail(rx) /\ UNCHANGED <<pc, idx>>
     ELSE Goto("deliver", idx) /\ UNCHANGED rx
  /\ UNCHANGED <<vars, deviceVars, loopVars, driverVars, history>>

DrainDriver ==                         \* while (midi_has_pending_messages())
  /\ pc = "drain" /\ call = Idle /\ idx \in DOMAIN table /\ table[idx].midi
  /\ IF rx # <<>>
     THEN /\ InjectMessage(table[idx].vw, Head(rx)) /\ rx' = Tail(rx)
          /\ UNCHANGED <<pc, idx>>
     ELSE Goto("deliver", idx) /\ UNCHANGED <<vars, rx>>
  /\ UNCHANGED <<deviceVars, loopVars, driverVars, history>>

Pending(id) == \E k \in DOMAIN ports : IsFirst(ports, id, k) /\ ports[k].rx # <<>>

DeliverToDriver ==                     \* while (midi_vw_has_pending_messages(id))
  /\ pc = "deliver" /\ call = Idle
  /\ IF Pending(table[idx].vw)
     THEN /\ ReceiveMessage(table[idx].vw) /\ Driver!SendMessage
          /\ UNCHANGED <<pc, idx>>
     ELSE Goto("drain", idx + 1) /\ UNCHANGED <<vars, driverVars>>
  /\ UNCHANGED <<deviceVars, loopVars, rx, history>>

PassOver_Breaks ==                     \* mutant: break instead of continue
  /\ pc = "drain" /\ idx \in DOMAIN table /\ ~table[idx].midi
  /\ Goto("drain", Len(table) + 1)
  /\ UNCHANGED <<vars, deviceVars, loopVars, rx, driverVars, history>>

PassOver_Stuck ==                      \* mutant: the index is not advanced
  /\ pc = "drain" /\ idx \in DOMAIN table /\ ~table[idx].midi
  /\ UNCHANGED hubVars

PassOver ==                            \* not a MIDI device
  /\ pc = "drain" /\ idx \in DOMAIN table /\ ~table[idx].midi
  /\ Goto("drain", idx + 1)
  /\ UNCHANGED <<vars, deviceVars, loopVars, rx, driverVars, history>>

EndTurn ==
  /\ pc = "drain" /\ idx > Len(table)
  /\ ProcessCall /\ Goto("loop", 1)
  /\ UNCHANGED <<deviceVars, loopVars, rx, driverVars, history>>

-----------------------------------------------------------------------------
(* cleanup_system and handle_usb_device_disconnected.                        *)

(* The loop searches by usb id what it has in its hands, and keeps the slot. *)
CleanupDevice ==
  /\ pc = "cleanup" /\ call = Idle /\ idx \in DOMAIN table
  /\ \E k \in DOMAIN table :
       /\ table[k].usb = table[idx].usb
       /\ \A j \in DOMAIN table : table[j].usb = table[idx].usb => k <= j
       /\ slot' = k
       /\ IF table[k].midi /\ Known(table[k].vw)
          THEN UnregisterCall(table[k].vw)
          ELSE UNCHANGED vars
  /\ Goto("unplug", idx)
  /\ UNCHANGED <<table, subject, loopVars, rx, driverVars, history>>

Released ==                            \* midi_stop, midi_deinit
  IF table[slot].midi /\ midi.initialized
  THEN Driver!MidiDeinit /\ rx' = <<>>
  ELSE UNCHANGED <<rx, driverVars>>

Unplug_Again ==                        \* mutant: the index stays for the next
  /\ pc = "unplug" /\ call = Idle
  /\ Released
  /\ table' = Without(table, slot)
  /\ Goto("cleanup", idx)
  /\ UNCHANGED <<vars, slot, subject, loopVars, history>>

Unplug ==                              \* the table is shifted, and i++ on top
  /\ pc = "unplug" /\ call = Idle
  /\ Released
  /\ table' = Without(table, slot)
  /\ Goto("cleanup", idx + 1)
  /\ UNCHANGED <<vars, slot, subject, loopVars, history>>

CleanupEnd ==                          \* midi_vw_deinit
  /\ pc = "cleanup" /\ idx > Len(table)
  /\ Deinit /\ Goto("stopped", 1)
  /\ UNCHANGED <<deviceVars, loopVars, rx, driverVars, history>>

-----------------------------------------------------------------------------
(* The outside: the signal, and messages of the device.                      *)

Signal ==
  /\ pc # "stopped" /\ ~shutdown
  /\ shutdown' = TRUE
  /\ UNCHANGED <<vars, pc, idx, deviceVars, tick, scanned, rx, driverVars,
                 history>>

HasHandler(msg) == MessageType(msg) \in {\h80, \h90, \hB0, \hC0, \hE0}

Reaches(msg) == HasHandler(msg) /\ MidiSlots # {}

Fits == Len(rx) < RxSize

(* Queued, then handled; the handlers inject on behalf of the first MIDI     *)
(* device in the table.                                                      *)
Arrive(msg) ==
  /\ midi.started /\ pc # "stopped" /\ call = Idle /\ arrived < MaxArrivals
  /\ rx' = IF Fits THEN Append(rx, msg) ELSE rx
  /\ IF Reaches(msg)
     THEN InjectMessage(table[Min(MidiSlots)].vw, msg)
     ELSE UNCHANGED vars
  /\ arrived' = arrived + 1
  /\ injected' =
       [handled |-> injected.handled + (IF Reaches(msg) THEN 1 ELSE 0),
        queued |-> injected.queued + (IF Fits THEN 1 ELSE 0)]
  /\ UNCHANGED <<appVars, driverVars, left>>

-----------------------------------------------------------------------------
HubStep ==
  \/ Boot \/ BootStart \/ Turn \/ LeaveLoop
  \/ ScanNothing \/ (\E isMidi \in Kinds : ScanFinds(isMidi))
  \/ InitDevice \/ StartDevice \/ RegisterDevice \/ WireDevice \/ CountDevice
  \/ DrainDriver \/ DeliverToDriver \/ PassOver \/ EndTurn
  \/ CleanupDevice \/ Unplug \/ CleanupEnd

EngineStep == Continue /\ UNCHANGED <<appVars, rx, driverVars, history>>

Run == ~crashed /\ (HubStep \/ EngineStep)

HubNext ==
  \/ Run
  \/ ~crashed /\ (Signal \/ \E msg \in Incoming : Arrive(msg))

HubSpec == HubInit /\ [][HubNext]_hubVars

(* One thread, which runs; nothing says that a signal or a message comes.    *)
HubFairSpec == HubSpec /\ WF_hubVars(Run)

-----------------------------------------------------------------------------
(***************************************************************************)
(* Between two dealings with a device, the hub's table, the engine's table *)
(* and the driver agree: the MIDI devices of one are the devices of the    *)
(* other, and the driver is started if and only if there is one.  A device *)
(* whose connection failed half way has left nothing behind.               *)
(***************************************************************************)
Between == {"loop", "scan", "drain", "deliver", "cleanup"}

TablesAgree ==
  pc \in Between /\ call = Idle /\ ~crashed =>
    /\ PortIds = {table[k].vw : k \in MidiSlots}
    /\ Len(ports) = Cardinality(MidiSlots)
    /\ midi = (IF MidiSlots = {} THEN Driver!Off ELSE Driver!Started)
    /\ usbOn = midi.initialized

(***************************************************************************)
(* README.md:8 announces connections between all MIDI devices.  There is   *)
(* one driver for all of them and midi_init refuses to be called twice, so *)
(* the hub never holds a second MIDI device, no connection ever exists,    *)
(* and no message is ever queued for a device, however many are found.     *)
(***************************************************************************)
OneMidiDevice ==
  /\ \A k, l \in MidiSlots : k = l
  /\ Len(ports) <= 1 /\ conns = <<>>
  /\ \A k \in DOMAIN ports : ports[k].tx = <<>> /\ ports[k].rx = <<>>

(***************************************************************************)
(* Messages are counted by the engine once for the queue and once more for *)
(* the handler: what a handler sees is injected twice, unless it arrives   *)
(* before the device is in the table or when the queue is full.  None is   *)
(* injected a third time and none that was queued is forgotten.            *)
(***************************************************************************)
EachPathInjects ==
  pc \notin {"boot", "cleanup", "unplug", "stopped"} /\ ~crashed =>
    stats.messages + Len(rx) = injected.handled + injected.queued

(***************************************************************************)
(* cleanup_system walks the table that the disconnect handler shifts: it   *)
(* disconnects the devices in the first, third, ... slot.  The others are  *)
(* still in the table when the program ends, and the driver is still on if *)
(* the MIDI device is one of them.                                         *)
(***************************************************************************)
ShutdownSkips ==
  pc = "stopped" =>
    /\ table = [k \in 1 .. Len(left) \div 2 |-> left[2 * k]]
    /\ midi.initialized <=> MidiSlots # {}

(***************************************************************************)
(* The scan, connect, drain and cleanup loops end: after a signal the      *)
(* program stops, unless the driver's dangling pointer kills it first.     *)
(***************************************************************************)
ShutdownCompletes == shutdown ~> (pc = "stopped" \/ crashed)

(***************************************************************************)
(* A message in the driver's queue is taken out by the main loop, unless   *)
(* the program is being stopped.                                           *)
(***************************************************************************)
QueueDrained == (rx # <<>>) ~> (rx = <<>> \/ shutdown \/ crashed)
=============================================================================
