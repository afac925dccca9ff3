# Verification of the MIDI virtual wire hub

TLA+ specifications, TLC models and TLAPS proofs for the C program in `src/`: a
hub that accepts USB MIDI devices and routes every message of a device to the
others over "virtual wires".

## 1. The system

One process, one thread. `main.c` runs a loop every 10 ms: scan for devices,
move messages between the MIDI driver and the routing engine, let the engine
process. Nothing is persisted. The only asynchronous event is a signal that
sets `shutdown_requested`; on a target the USB interrupt would be a second one,
but its handler is a stub.

| Part | Source | State | Operations | Talks to |
|---|---|---|---|---|
| Virtual-wire engine | `midi_virtual_wire.c/.h` | tables of devices (`ports`) and connections, id counters, statistics, running flag | init, deinit, start, stop; register, unregister, set state; create, remove, enable, connect all, disconnect all; send, receive, inject, process; reset statistics | calls back `device_callback`, `message_callback`, `filter_callback` |
| Filter and channel mapping | `midi_virtual_wire.c` 562-593, 633-638 | none | pure functions of a connection and a status byte | called from the routing loop |
| Message ring buffers | `midi_virtual_wire.c` 505-540, `midi.c` 454-488 | array, head, tail, count | put, get, clear | inside every port and the MIDI driver |
| MIDI class driver | `midi.c/.h` | started flag, rx/tx buffers, sysex assembly | init, deinit, start, stop; send note, control, ..., sysex; receive; parse a USB packet | calls the USB driver, is called back by it, calls back the application |
| USB device driver | `usb.c/.h` | device state, 16 endpoints with direction, enabled, transfer-complete | init, deinit, start, stop; configure, enable, disable, stall; transmit, receive; completion, setup and state handlers for an interrupt | calls back setup, transfer and state callbacks |
| Hub application | `main.c`, `config.h` | up to 8 hub devices, loop counter, shutdown flag | scan, connect, disconnect, process, print status, clean up | drives the MIDI driver and the engine |
| USB standard requests | `usb_descriptors.c` | the address, and the USB driver's state and endpoints, which it sets | GET_DESCRIPTOR, SET_ADDRESS, SET_CONFIGURATION, GET_STATUS, features | answers through the USB driver; not in the Makefile, `usb.c` 309-314 is a stub in its place |
| Descriptors, examples, smoke test | `usb_midi_descriptors.c`, `*_example.c`, `test_main.c` | constant tables, callers | | |

What is hard in this code is not parallelism but state that outlives the call
that made it: tables that are shifted while a loop walks them, ids that are
recycled, connections that survive their device, buffers that only fill, flags
of an endpoint that survive a stop, one driver that all devices share, requests
that take effect and are never answered, and a pointer to a dead stack frame.
`PROJECT.json` lists each such hazard at its line with the properties that
watch it.

What makes each part correct:

- *Engine.* Ids name one slot; a connection names devices that exist or existed;
  removing while iterating removes nothing of others; what a device was sent
  stays queued in order until it is fetched; the counters agree with what
  happened; every call returns.
- *Filter and mapping.* A class is dropped if and only if its bit is set; another
  bit never lets more through; mapping a channel changes nothing else.
- *Rings.* A bounded first-in first-out queue.
- *MIDI driver.* What is sent can be parsed back; a payload is cut and put
  together without loss; driver and device agree on whether they are on; buffers
  do not overflow.
- *USB driver.* One transfer per endpoint; an endpoint is busy exactly as long as
  the hardware owns it.
- *Standard requests.* A request that is answered has its effect, and one that
  has an effect is answered; a configured device has its endpoints open as its
  descriptor says.
- *Hub.* Each connected device is in the engine exactly once and vice versa, also
  after a connection that failed half way; a message is counted once on each path
  it takes, and does not wait for ever; the program stops when it is told to, and
  disconnects everybody first.

Not all of these hold; section 3 says which do not, and what holds instead.

## 2. Modules

| Module | Models | State | One action is |
|---|---|---|---|
| `MidiFilter` | `midi_vw_should_filter_message`, channel rewriting | none | (operators only) |
| `VirtualWire` | `midi_virtual_wire.c` | `ports`, `conns`, id counters, `stats`, flags, and `call`, the locals of a looping call | a call without a loop, or one iteration of a loop |
| `VirtualWireProperties` | what the engine keeps true | none | (properties only) |
| `PatchBay` | abstract specification: inboxes, wires as a set, broadcasts served in any order | `inbox`, `wires`, `sinks`, `job` | joining, leaving, wiring, or serving one wire of a broadcast |
| `VirtualWireRefinement` | mapping of `VirtualWire` to `PatchBay` | none | (mapping only) |
| `BoundedFifo`, `MessageRing` | abstract queue, and the ring of `messages`, `head`, `tail`, `count` | as in the code | put, get, clear |
| `MidiCodec` | message lengths, code indices, events as bytes in memory | none | (operators only) |
| `SysexSender` | `midi_send_sysex` | `length`, `data_index`, `events` | one turn of its loop |
| `MidiParser` | `midi_process_usb_packet`, `midi_process_midi_event`, `midi_receive_message` | the packet and offset, `rx_buffer`, `in_sysex`, `sysex_buffer`, last callback, and what it heard of the payload | a packet that arrives, one event of it, fetching a message, or a restart |
| `UsbDevice` | `usb.c` | `initialized`, `state`, endpoints, and the hardware's `flight` | a call or a handler |
| `MidiDriver` | `midi.c` life cycle, sends and callbacks, extends `UsbDevice` | adds `midi`, `crashed` | a driver call with everything it calls, or an interrupt with its callback |
| `UsbControl` | `usb_descriptors.c` in place of the stub, extends `MidiDriver` | adds `address` and `reply`, what the host sees of its last request | a driver step, or a SETUP packet with its whole handler |
| `Hub` | `main.c`, extends `VirtualWireProperties` and has an instance of `MidiDriver` | adds where `main` is (`pc`, `idx`), its table, the scan, the signal, the driver's `rx` queue | a call of the hub to engine or driver, a turn of a loop without one, the signal, or a message of a device |
| `FilteredConnection` | the filter and the mapping on the way through one connection, for any arguments | `status`, `filter`, `sch`, `dch` | setting a filter bit, another status byte arriving, or the message passing |
| `MC...` | constants for TLC | as instantiated | as instantiated |
| `...Proofs` | theorems | none | (theorems only) |

Definitions that end in `_Something` and are marked "mutant" are plausible wrong
versions of the definition that follows. No specification uses them; they
measure which properties notice the mistake.

How the models abstract: a message in the engine is its status byte, all that
filters and mapping look at. Slot `i` of a C array is element `i + 1` of a
sequence, and the rings inside the engine are the queues that `MessageRing`
implements. Calls that fail without changing state are not steps. Names,
timestamps, overrun counters and printing are left out, and statistics do not
wrap at 2^32. The id counters do wrap, at `IdMod` where the code has 256. Variables
marked "history" do not exist in the code and guard nothing, with one exception:
`MidiParser` lets no packet arrive once `heard` has `MaxHeard` bytes without an end
marker, which bounds the history of a payload that is never ended.

In `Hub` a looping call of the engine runs to its end before the hub goes on, and
the signal comes between any two steps. `midi.c` has one receive buffer for all
devices, so `Hub` has one `rx`. A message that arrives takes both paths that
`midi_process_midi_event` gives it: into the queue, and to a handler of the hub if
it is of one of five kinds.

Three things are taken from outside the code. The `usb_hw_*` functions and
`usb_interrupt_handler` are stubs; `UsbDevice` takes them as their comments
describe them. `midi_init` hands `usb_init` a pointer to its own local variable;
using it later is undefined, so `MidiDriver` lets each use find the callback,
find NULL, or crash (constant `Outcomes`). All three are outcomes that a build
can give; a build at `-O2` dies in `midi_stop`, or already in `midi_start`,
depending on its caller. And nothing calls `midi_process_usb_packet`: that the
driver hands over what devices send (`Hub`'s `Arrive`) is an assumption, without
which `EachPathInjects` and `QueueDrained` would speak of nothing;
`MaxArrivals = 0` is the program without it.

## 3. Runs

| Run (cfg) | Shows | Bounds |
|---|---|---|
| `Topology` | Registering, connecting, leaving and connect-all in every order: ids and routes stay unique, leavers take only their own connections, and what they leave behind never reaches a new device | 3 devices, enough connections for a skip to happen more than once |
| `Routing` | Filtered, mapped, queued and refused messages with resets and departures: queues bounded, ordered, untouched by others; counters agree | 2 devices, buffers of 2, 2 injected messages: one fills, one is refused |
| `Refinement` | The engine implements `PatchBay` with a user filter that may refuse anything | 2 devices, 2 connections, 1 injected message |
| `Loops` | With ids that wrap and collide, calls return, the state stays typed and routes unique | 2 ids for 2 devices: a collision after two registrations |
| `Filter` | Every one of the 256 status bytes against every filter set and pair of channels: a bit drops what it names, the first bit also what is of another channel, a mapping keeps the kind | complete, but for the channels: two of MIDI, 25, which is none and loses its upper half, and "any" |
| `MessageRing` | The ring implements the queue | size 3: `head` and `tail` pass the end in every relation |
| `Sysex` | Payloads of any length: in order up to 257 bytes, past the end of the array exactly from 192, the first end marker where the 8-bit remainder says, termination | every length up to 450, so that the remainder wraps at each turn the array has room for, and 65535 |
| `Parser` | Messages, payloads of 1, 3 and 18 bytes, and stray or incomplete packets, in every sequence and with restarts: what of them reaches queue, callbacks and sysex buffer | rx buffer of 1, sysex buffer of 4: both fill; two values for each byte behind a packet, one of them the end marker; `MaxHeard` 4, one event more than the sysex buffer holds |
| `Usb` | Every order of API calls and completions | 2 endpoints and an endpoint number that does not exist |
| `Control` | The MIDI driver on the USB driver under the standard requests, every order of driver calls, reports and requests, every outcome of the dangling pointer: what the host can learn and change, and that no MIDI data moves | 3 endpoints: control and the two that are opened; lengths below, at and above a packet; only the host configures the device |
| `Hub` | The main program over engine and driver: tables agree, what devices send is counted, the signal ends it all | four devices of either kind for a table of three, engine of 2 devices and 2 connections, rx queue of 1, two messages, a signal at any time |

Fairness. The program is one thread, so a call in progress keeps the processor:
`Loops` and `Sysex` assume weak fairness of the steps of the running call and
nothing else; in particular no call is ever assumed to be made. `Usb` assumes
that the hardware answers each transfer that is not cut off. `Hub` assumes weak
fairness of `Run`, the next step of `main` or of the engine's call it is in,
unless the program has crashed; nothing is assumed about the signal or about
messages. The other runs check safety and assume nothing. `Control` and `Hub` are
checked without deadlock detection because a program that has crashed or stopped
has no successor, `Sysex` because nothing is known of a program that has written
past its array.

### What the code does differently from what is said of it

One run holds a property that TLC refutes; `findings` in `PROJECT.json` quotes
both sides.

| Run | Finding |
|---|---|
| `UnregisterLeaves` | `midi_vw_unregister_device` removes from the table it walks and skips the next slot: connections of a device survive it |

Other disagreements are pinned down by the passing property that says exactly
what the code does instead:

| Where | The code | Said of it | Property |
|---|---|---|---|
| `midi_virtual_wire.c` 298 | connect-all reports success when the table was too small | `README.md` 8 | `AllToAllUnlessFull` |
| `midi_virtual_wire.c` 585 | real-time messages go by the system-exclusive bit; their own bit does nothing | `midi_virtual_wire.h` 40 | `DropsWhatItNames` |
| `midi_virtual_wire.c` 564 | without filter bits a connection ignores its source channel; with them the low nibble of a system message counts as its channel | `midi_virtual_wire_example.c` 106 | `BitsOnlyTakeAway` |
| `midi_virtual_wire.c` 578 | filter bits name what is dropped, so the documented drum mapping drops the notes it means to carry | `README.md` 157-159 | `DropsWhatItNames` |
| `midi.c` 230 | payloads of 2, 5, 8, ... bytes are sent without an end marker | `chat.txt` 149 | `EndComesLast` |
| `midi.c` 209 | a payload of 192 bytes or more is written past `events[64]` | `chat.txt` 149 | `EventsFit` |
| `midi.c` 213 | the `uint8_t` remainder wraps: 258 bytes get their end marker after the third | `chat.txt` 149 | `EndComesLast` |
| `midi.c` 261, 322 | events are 5 bytes in memory, 4 on the wire: the third byte of a message is replaced by whatever lies behind the packet, and of a payload of several events only the first arrives | `chat.txt` 144 | `MessagesArrive` |
| `midi.c` 381 | the parser drops the events of a payload that do not begin with a system byte | `chat.txt` 149 | `PayloadsAsHeard` |
| `midi.c` 382 | a new `F0` while a payload is open, and a real-time byte, are appended to it: payloads run together until some event ends them | `chat.txt` 149 | `PayloadsAsHeard` |
| `midi.c` 313, 316 | both bulk endpoints are endpoint 1, so the device never listens where its descriptor says; SET_CONFIGURATION opens 1 in and 2 out | `chat.txt` 145 | `ConfiguredIsOpen`, `NothingTransferred` |
| `midi.c` 261 | every send is refused: address `0x81` is used as an endpoint number | `README.md` 132 | `NothingTransferred` |
| `main.c` 197 | one driver for all devices: only one MIDI device is ever connected, and no connection is made | `README.md` 8 | `OneMidiDevice` |
| `main.c` 144 | cleanup disconnects every other device; the rest is still there, the driver perhaps still on | the loop's own purpose | `ShutdownSkips` |
| `main.c` 470 | a message of a kind that has a handler is injected by the handler and again from the queue | `README.md` 12, statistics | `EachPathInjects` |
| `usb_descriptors.c` 138 | SET_ADDRESS and SET_CONFIGURATION take effect and are never acknowledged, because `usb_transmit` refuses the NULL of the status stage | `chat.txt` 67 | `EffectsUnacknowledged` |
| `usb_descriptors.c` 94 | the configuration descriptor has 101 bytes, an answer at most one packet of 64: the host never gets all of it | `chat.txt` 67 | `ConfigurationCut` |

Some passing properties state just as firmly what does *not* work, because later
code would rely on it: `NothingToReceive` (routing fills tx buffers, receiving
drains rx buffers), `SentStillQueued` (nothing empties a tx buffer),
`NothingTransferred`, `StuckStaysStuck`, `StopSilencesControl` and most of the
properties of `UsbControl` and `Hub`. They hold for every sequence of
calls, and a repair of the code should break them.

## 4. Proofs

TLAPS proves, for every value of the constants that satisfies the assumptions in
`VirtualWire` (`SizesAssumption`, `ArgumentsAssumption`), `MessageRing`,
`UsbDevice` (`UsbAssumption`), `MidiDriver` (`DriverAssumption`), `UsbControl`
(`ControlAssumption`), `Hub` (`HubAssumption`: what the hub passes to the engine
is among the engine's arguments), `SysexSender` (`LengthsAssumption`), `MidiParser`
(`ParserAssumption`) and `FilteredConnection` (`ChannelsAssumption`):

| Theorem | Module | Argument |
|---|---|---|
| `TypeCorrect` | `VirtualWireProofs` | `TypeOK` is inductive because it includes `CallOK`, the bounds of the locals of a looping call: the slot of a leaver and the inner index stay inside the table |
| `Identities`, `IdsStayUnique`, `RoutesStayUnique` | `VirtualWireTableProofs` | Uniqueness of ids is not inductive alone. The ids are below their counters; this bound makes a new id fresh, and stops mattering when the counter wraps. `WireEndsIssued` bounds the ends of connections in the same way, also of those left behind. `RoutesUnique` needs no bound |
| `FreshDevices` | `VirtualWireTableProofs` | from `WireEndsIssued`: a new id is `nextDev`, above the ends of every connection |
| `Departures` | `VirtualWireTableProofs` | While `unregister_device` loops, an increasing map `at` sends each slot of the table to its slot before the call; everything outside its range is of the leaver, slots from `i` on have moved by the number removed, and a connection of the leaver below `i` has in front of it a slot that was removed (`Thinned`). Needs unique connection ids, since the loop removes by id |
| `ConnectsAll` | `VirtualWireTableProofs` | the pairs before `(i, j)` in the order of the nested loops are connected, or the table is full (`ConnectAllInv`); it stays full because the call only adds |
| `StatisticsCovered` | `VirtualWireTableProofs` | The sum is replaced by running totals over the slots that end at or below the counter (`AtMost`): they can be carried through a shift of the slots, an added slot, and a raised one. `CoverSum` shows that such totals bound what `MapThenSumSet` adds up, in whatever order it does. A new device has counted nothing and, by `WireEndsIssued`, no connection leads to it |
| `Buffers`, `SentStays`, `NothingArrives` | `VirtualWireRefinementProofs` | rx buffers are empty, hence draining loops never route, hence tx buffers grow only by `Queue`, which tests role and capacity |
| `QueuesStay` | `VirtualWireRefinementProofs` | step by step, with unique ids to say which device a moved slot holds |
| `StepsImplement`, `Refinement` | `VirtualWireRefinementProofs` | `RefinementInv`: unique ids, the buffers' invariant, no counter wrapped, and the slot of a leaver holds the leaver (`Departing`). Then each action maps to one of `PatchBay` or to a stutter; `SameTables` takes care of the steps that change only what the mapping hides. `StepsImplement` allows wrapping and speaks of the steps before it; `Refinement` assumes `Wraps = FALSE` as the run does, and proves that then no counter wraps, also not inside `connect_all_to_all` (`ConnectRoom`) |
| `RingInvariant`, `RingIsFifo` | `MessageRingProofs` | `head = (tail + count) % Size`; the abstract queue is read off `count` slots from `tail`, and each step of the ring is a step of the queue |
| `EndpointsBusy`, `BusyIsAccountedFor`, `CutOffForGood` | `UsbDeviceProofs` | `BusyInFlight` needs "free means not in flight", which needs that what a stop cut off is still marked busy (`CutIsBusy`) |
| `OverrunsExactly` | `MidiProofs` | `Accounted`: while the payload is below 258 bytes, three times the number of events is the number of bytes taken plus one, plus at most one more when it is complete; beyond, an event takes at most three bytes. Any length; needs `MaxEvents <= 85`: in a larger array a remainder may wrap of a payload that would fit |
| `PayloadCarried` | `MidiProofs` | adds `Filled`: at every turn of the loop, each byte of the events is the payload byte of its position, the end marker at the position after the last, or padding. The first event and the last are the cases; the property speaks of up to 257 bytes, so no assumption on the array |
| `OneEndMarker` | `MidiProofs` | adds `Straight` (as long as no remainder was below three, `data_index` is three times the number of events less one) and `Marked` (the second part of the property); needs `MaxEvents <= 82`, so that the numbers that stand for payload bytes stay below `F7` |
| `FilterDropsNamed`, `FilterBitsAdd`, `FilterPassesAgain` | `MidiProofs` | case by case over the classes (`ClassIsNamed`) and arithmetic on bytes (`MessageType`, `ChannelOf`, `Remap`), for every value of the two channel bytes |
| `PayloadsFromHeard` | `MidiProofs` | `Keeps`: the buffer is the beginning of what was heard, up to its end marker or to the size of the buffer. What an event adds to the one it adds to the other (`BufKeeps`, starting from `Base`), and an open payload has heard no end marker |
| `WhatReachesTheReceiver` | `MidiProofs` | `Underway`: while a packet is parsed, it is the bytes of the events it was made from, and the offset is a multiple of four. Then `NoStatus`: at every offset but the first, the byte taken for a status is data, a code, a cable number, or its event is skipped. Assumes that messages are `Regular`, as the `midi_send_` functions build them (of the length of their status, zeros behind, the first byte of a pitch bend below 128), and payloads `Fragments`, as `midi_send_sysex` cuts them |
| `DriverTransfersNothing`, `ControlTransfersOnlyAnswers` | `UsbControlProofs` | `DriverInv`: the table is well formed, endpoint 1 if open is open towards the host, the control endpoint's size is at most a packet (`Layout`), nothing but the control endpoint is in flight, and what is in flight or cut off is busy. A send names endpoint 129, which does not exist |
| `ConfigurationNeverWhole` | `UsbControlProofs` | the control endpoint's size never exceeds `MaxPacket` (`Layout`), whatever is configured; assumes `MaxPacket < 101` |
| `StopSilences` | `UsbControlProofs` | what was cut off is busy (`DriverInv`), and a busy endpoint sends nothing |
| `NoEffectAcknowledged` | `UsbControlProofs` | case by case: only what answers with data or a stall changes `reply` to something other than silent, and that leaves the settings alone |
| `ConfiguredOpens` | `UsbControlProofs` | every step that opens endpoint 1 leaves it towards the host (`Layout`), and none but SET_CONFIGURATION touches endpoint 2; assumes that the hardware itself does not report "configured", only SET_CONFIGURATION does |
| `AlwaysInStep` | `UsbControlProofs` | the flags of MIDI driver and USB driver are set and cleared by one call each |
| `HubUsesEngine` | `HubProofs` | each step of the hub is a step of `VirtualWire` or leaves it alone, so all the theorems on the engine hold in the hub; needs that the ids in the hub's table are ids |
| `HubConnectsOne` | `HubProofs` | `HubInv`: whoever holds the driver is in the table or on its way there, and there is one (`Holder`); the engine's one device is the hub's, except while it comes or goes (`Owned`); during cleanup the slot is the leaver's until it is unregistered (`Unplugging`). Then `midi_init` refuses everybody else, and no wire is made (`Unwired`) |
| `HubTablesAgree` | `HubProofs` | adds `Follows`: at each label, which flags of driver and engine are on, also between the four calls of a connection, so that each early return of it leaves the flags of its beginning |
| `HubInjectsTwice` | `HubProofs` | adds `Counted`: the queue is empty while the driver is off, so that dropping it by `midi_init` or `midi_deinit` loses nothing; the rest is a sum. Assumes `MaxDevices > 0`: otherwise a device whose registration fails drops what it sent before |
| `HubShutdownSkips` | `HubProofs` | adds `Skipping`: USB ids increase along the table, so that the search by id finds the slot the cleanup is at; and after `n` turns the first `n` slots hold every second entry of the table as it was, the others have moved by `n` (`Halved`) |

Only model-checked: liveness (`CallsReturn`, `CallReturns`, `TransfersEnd`,
`ShutdownCompletes`, `QueueDrained`), because the prover has no support for ENABLED.
Every safety invariant, action property and refinement that a passing run checks is
also a theorem.

Sums are defined by recursion over sets, and the induction theorems of the library
take an operator as a parameter, which the provers cannot instantiate.
`VirtualWireTableProofs` gets induction over the naturals for sets instead
(`Induction`), from the well-foundedness of `<` (`WFMin`), and proves with it that
the function which `MapThenSumSet` chooses exists (`SumsExist`) and adds
(`SumsAdd`).

## 5. Not modelled, and the plan

Not modelled: example programs and the smoke test, constant descriptor tables
(their lengths are in `UsbControl`), the hardware stubs, `print_status` and other
queries that change nothing. Behind an overrun of `events[64]` nothing is
modelled. `Hub` leaves out the branch of `handle_usb_device_connected` for a failed
`midi_start` (220-222): `usb_start` cannot fail once `midi_init` has succeeded, as
the hardware stubs always do. The parser is not composed
with the driver because nothing calls it, and `handle_usb_device_disconnected` is
called by the cleanup only, so no device leaves a running hub.

`usb_descriptors.c` is modelled as what its functions do when they take the place
of the stub; today the Makefile leaves it out, and it would not link.

Plan:

1. The refinement beyond a wrap: which patch bay, with devices that share an
   inbox, an engine with recycled ids still implements.
2. `QueuesSurvive`, `UnregisterKeepsOthers` and `NoInheritedWires` in the hub by
   name, from `HubUsesEngine`.
3. Ranking functions for the loops (what each turn makes smaller, as action
   properties), which is the safety half of `CallsReturn`, `CallReturns` and
   `ShutdownCompletes`.
