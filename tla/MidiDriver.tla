----------------------------- MODULE MidiDriver -----------------------------
(***************************************************************************)
(* The MIDI class driver of midi.c on top of the USB device driver: its    *)
(* life cycle, its sends, and the callbacks by which the USB driver calls  *)
(* it back.  What the messages look like is the business of MidiCodec,     *)
(* SysexSender and MidiParser.                                             *)
(*                                                                         *)
(* midi_init passes the address of a local variable, usb_config, to        *)
(* usb_init, which keeps it.  Every later use of the pointer reads a dead  *)
(* stack frame: the callback may be found and called, may read as NULL, or *)
(* the program may die.  Outcomes holds those that a build produces.       *)
(*                                                                         *)
(* An interrupt is what the hardware code would do in                      *)
(* usb_interrupt_handler: report a completion or a new state.  A SETUP     *)
(* packet changes nothing as usb.c stands: its usb_handle_standard_setup   *)
(* is a stub whose only call, usb_control_send_status, passes NULL to      *)
(* usb_transmit and is refused.  UsbControl has the one of                 *)
(* usb_descriptors.c.                                                      *)
(***************************************************************************)
EXTENDS UsbDevice

CONSTANTS
  Outcomes,          \* of using the dangling config: "call", "none", "crash"
  BusStates          \* states that the hardware reports

ASSUME DriverAssumption ==
  /\ Outcomes \subseteq {"call", "none", "crash"}
  /\ BusStates \subseteq UsbStates
  /\ MaxEndpoints \in 2 .. 128

VARIABLES
  midi,              \* midi_device.initialized and .started
  crashed,
  answer             \* history: what the last midi_send_* returned

driverVars == <<usbVars, midi, crashed, answer>>

EndpointIn == 129                                \* MIDI_ENDPOINT_IN, 0x81
EndpointOut == 1                                 \* MIDI_ENDPOINT_OUT

Off == [initialized |-> FALSE, started |-> FALSE]
On == [initialized |-> TRUE, started |-> FALSE]
Started == [initialized |-> TRUE, started |-> TRUE]

DriverTypeOK ==
  /\ TypeOK
  /\ midi \in {Off, On, Started} /\ crashed \in BOOLEAN
  /\ answer \in {"none", "success", "usb_error"}

DriverInit == Init /\ midi = Off /\ crashed = FALSE /\ answer = "none"

-----------------------------------------------------------------------------
(* Callbacks.                                                                *)

Crash ==
  /\ "crash" \in Outcomes
  /\ crashed' = TRUE
  /\ UNCHANGED <<usbVars, midi, answer>>

Opened_Swapped(endpoints) ==           \* mutant: the two directions swapped
  LET enabled(e, d) == Enabled(Configured(e, 1, d, MaxPacket), 1, TRUE)
  IN  enabled(enabled(endpoints, "in"), "out")

(* Both configurations meet the same endpoint: 0x81 & 0x7F is EndpointOut.   *)
Opened(endpoints) ==
  LET enabled(e, d) == Enabled(Configured(e, 1, d, MaxPacket), 1, TRUE)
  IN  enabled(enabled(endpoints, "out"), "in")

Listening(endpoints, transfers) ==     \* usb_receive(MIDI_ENDPOINT_OUT, ...)
  IF Ready(endpoints, EndpointOut, "out")
  THEN /\ eps' = Marked(endpoints, EndpointOut, FALSE)
       /\ flight' = [transfers EXCEPT ![EndpointOut] = @ + 1]
  ELSE eps' = endpoints /\ flight' = transfers

StateCallback(new, endpoints) ==
  IF new = "configured"
  THEN Listening(Opened(endpoints), flight)
  ELSE eps' = endpoints /\ UNCHANGED flight

NoCallback(endpoints) == eps' = endpoints /\ UNCHANGED flight

-----------------------------------------------------------------------------
(* Life cycle.  The state callback of "attached" and "detached" does         *)
(* nothing; that it is looked up at all is what may end in Crash.            *)

MidiInit ==
  /\ ~midi.initialized /\ ~initialized
  /\ initialized' = TRUE /\ state' = "detached" /\ cut' = {}
  /\ eps' = Enabled(Configured(Blank(TRUE), Control, "in", MaxPacket),
                    Control, TRUE)
  /\ midi' = On
  /\ UNCHANGED <<flight, crashed, answer>>

MidiStart ==
  /\ midi.initialized /\ ~midi.started
  /\ \/ UsbStart /\ midi' = Started /\ UNCHANGED <<crashed, answer>>
     \/ initialized /\ Crash

MidiStop ==
  /\ midi.initialized
  /\ \/ UsbStop /\ midi' = On /\ UNCHANGED <<crashed, answer>>
     \/ initialized /\ Crash

MidiDeinit ==                          \* midi_stop, usb_deinit, memset
  /\ midi.initialized
  /\ \/ UsbDeinit /\ midi' = Off /\ UNCHANGED <<crashed, answer>>
     \/ initialized /\ Crash

-----------------------------------------------------------------------------
(* Sending, and what the hardware reports.                                   *)

EndpointUsed_Masked == 1               \* mutant: 0x81 & 0x7F

EndpointUsed == EndpointIn

Send(length) ==                        \* usb_transmit, its status translated
  /\ IF initialized /\ Ready(eps, EndpointUsed, "in")
          /\ length <= eps[EndpointUsed].size
     THEN Transfer(EndpointUsed) /\ answer' = "success"
     ELSE answer' = "usb_error" /\ UNCHANGED usbVars
  /\ UNCHANGED <<midi, crashed>>

SendMessage ==                         \* midi_send_message and its callers
  midi.initialized /\ midi.started /\ Send(4)

(* midi_send_sysex has no such test.  Up to 64 events are sent; what happens *)
(* with more is in SysexSender.                                              *)
EventCounts == 1 .. 64

SendSysex == \E n \in EventCounts : Send(4 * n)

ReportState(new) ==                    \* usb_set_state
  /\ initialized /\ state # new
  /\ \/ /\ state' = new
        /\ \/ "call" \in Outcomes /\ StateCallback(new, eps)
           \/ "none" \in Outcomes /\ NoCallback(eps)
        /\ UNCHANGED <<initialized, cut, midi, crashed, answer>>
     \/ Crash

ReportTransfer(e, ok) ==               \* usb_handle_transfer_complete
  /\ initialized /\ e \in InFlight
  /\ \/ /\ \/ /\ "call" \in Outcomes /\ ok /\ e = EndpointOut
              /\ Listening(Marked(eps, e, TRUE), [flight EXCEPT ![e] = @ - 1])
           \/ /\ "none" \in Outcomes \/ ~ok \/ e # EndpointOut
              /\ eps' = Marked(eps, e, TRUE)
              /\ flight' = [flight EXCEPT ![e] = @ - 1]
        /\ cut' = cut \ {e}
        /\ UNCHANGED <<initialized, state, midi, crashed, answer>>
     \/ Crash

DriverNext ==
  /\ ~crashed
  /\ \/ MidiInit \/ MidiDeinit \/ MidiStart \/ MidiStop
     \/ SendMessage \/ SendSysex
     \/ \E new \in BusStates : ReportState(new)
     \/ \E e \in Endpoints, ok \in BOOLEAN : ReportTransfer(e, ok)

DriverSpec == DriverInit /\ [][DriverNext]_driverVars

-----------------------------------------------------------------------------
(***************************************************************************)
(* Driver and device agree on whether they are initialized, so midi_init   *)
(* after midi_deinit is never refused as USB_ERROR_BUSY.                   *)
(***************************************************************************)
InStep == midi.initialized = initialized

(***************************************************************************)
(* Whatever the hub calls and the hardware reports, no MIDI data ever      *)
(* moves: sends name endpoint 0x81, receives an endpoint of the wrong      *)
(* direction.  The only transfers are answers on the control endpoint.     *)
(***************************************************************************)
NothingTransferred == InFlight \subseteq {Control} /\ answer # "success"
=============================================================================
