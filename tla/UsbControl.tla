------------------------------ MODULE UsbControl ------------------------------
(***************************************************************************)
(* The standard requests of usb_descriptors.c, under the MIDI driver.  The *)
(* file is not in the Makefile and does not link (usb_device is static in  *)
(* usb.c, and usb.c holds a stub of the same name); this is the device     *)
(* with usb_handle_standard_setup taken from usb_descriptors.c.            *)
(*                                                                         *)
(* A SETUP packet reaches the driver over the dangling configuration: the  *)
(* handler may find everything in it, find no callback, or crash.  The     *)
(* handler answers by a transfer on the control endpoint, by a stall, or   *)
(* not at all; reply is what the host sees.  A host may send its next      *)
(* request at any time.                                                    *)
(*                                                                         *)
(* Descriptors are their lengths.  current_configuration is never read,    *)
(* and stalls change no state.                                             *)
(***************************************************************************)
EXTENDS MidiDriver

CONSTANTS
  Lengths,           \* wLength
  Addresses, Configurations                        \* wValue

ASSUME ControlAssumption ==
  /\ Lengths \subseteq Nat /\ Addresses \subseteq 0 .. 127
  /\ Configurations \subseteq 0 .. 255
  /\ MaxEndpoints > 2

VARIABLES
  address,           \* usb_device.device_address
  reply              \* history: what became of the last request

controlVars == <<driverVars, address, reply>>

Descriptors ==                         \* descriptor type and index
  {"device", "configuration", "language", "string1", "string2", "string3", "none"}

(* wTotalLength of the configuration is 0x65; a string takes two bytes per   *)
(* character and two more.                                                   *)
LengthOf(descriptor) ==
  CASE descriptor = "device" -> 18
    [] descriptor = "configuration" -> 101
    [] descriptor = "language" -> 4
    [] descriptor = "string1" -> 20
    [] descriptor = "string2" -> 32
    [] descriptor = "string3" -> 14

Replies ==
  [kind : {"none", "stalled", "silent"}]
  \cup [kind : {"data"}, what : Descriptors \cup {"status"}, length : Nat]

None == [kind |-> "none"]
Stalled == [kind |-> "stalled"]
Silent == [kind |-> "silent"]

ControlInit == DriverInit /\ address = 0 /\ reply = None

-----------------------------------------------------------------------------
(* Answers.                                                                  *)

Stall == reply' = Stalled /\ UNCHANGED <<driverVars, address>>

SendData_AnyLength(what, length) ==    \* mutant: the packet size not tested
  /\ IF Ready(eps, Control, "in")
     THEN /\ Transfer(Control)
          /\ reply' = [kind |-> "data", what |-> what, length |-> length]
     ELSE UNCHANGED usbVars /\ reply' = Silent
  /\ UNCHANGED <<midi, crashed, answer, address>>

(* usb_control_send_data: an error that is no STALL is not reported.         *)
SendData(what, length) ==
  /\ IF Ready(eps, Control, "in") /\ length <= eps[Control].size
     THEN /\ Transfer(Control)
          /\ reply' = [kind |-> "data", what |-> what, length |-> length]
     ELSE UNCHANGED usbVars /\ reply' = Silent
  /\ UNCHANGED <<midi, crashed, answer, address>>

StatusSent_Empty == Ready(eps, Control, "in")      \* mutant: NULL is let through

(* usb_control_send_status passes NULL, which usb_transmit refuses.          *)
StatusSent == FALSE

Acknowledge ==
  reply' = IF StatusSent
           THEN [kind |-> "data", what |-> "status", length |-> 0]
           ELSE Silent

-----------------------------------------------------------------------------
(* The requests.                                                             *)

GetDescriptor(descriptor, length) ==
  IF descriptor = "none"
  THEN Stall
  ELSE SendData(descriptor, IF length > LengthOf(descriptor)
                            THEN LengthOf(descriptor) ELSE length)

(* The address is kept whether or not the answer could be sent; the state    *)
(* follows only if it could.                                                 *)
SetAddress(new) ==
  /\ address' = new
  /\ Acknowledge
  /\ IF StatusSent
     THEN state' = IF new = 0 THEN "default" ELSE "address"
     ELSE UNCHANGED state
  /\ UNCHANGED <<initialized, eps, flight, cut, midi, crashed, answer>>

ForDevice(endpoints) ==                \* endpoint 1 in, endpoint 2 out
  Enabled(Configured(Enabled(Configured(endpoints, 1, "in", 64), 1, TRUE),
                     2, "out", 64), 2, TRUE)

Calls(new, endpoints) ==               \* config->state_callback
  \/ "call" \in Outcomes /\ StateCallback(new, endpoints)
  \/ "none" \in Outcomes /\ NoCallback(endpoints)

SetConfiguration(configuration) ==
  IF configuration > 1
  THEN Stall
  ELSE /\ state' = IF configuration = 0 THEN "address" ELSE "configured"
       /\ Calls(state', IF configuration = 0 THEN eps ELSE ForDevice(eps))
       /\ Acknowledge
       /\ UNCHANGED <<initialized, cut, midi, crashed, answer, address>>

GetStatus(known) == IF known THEN SendData("status", 2) ELSE Stall

Feature(halt) ==                       \* SET_FEATURE and CLEAR_FEATURE
  IF halt THEN Acknowledge /\ UNCHANGED <<driverVars, address>> ELSE Stall

Request ==
  \/ \E d \in Descriptors, n \in Lengths : GetDescriptor(d, n)
  \/ \E a \in Addresses : SetAddress(a)
  \/ \E c \in Configurations : SetConfiguration(c)
  \/ \E known \in BOOLEAN : GetStatus(known)
  \/ \E halt \in BOOLEAN : Feature(halt)
  \/ Stall                                         \* any other request

(* usb_handle_setup_packet, midi_setup_callback, usb_handle_standard_setup.  *)
Setup ==
  /\ initialized /\ state # "detached"
  /\ \/ "call" \in Outcomes /\ Request
     \/ "none" \in Outcomes /\ reply' = Silent /\ UNCHANGED <<driverVars, address>>
     \/ Crash /\ UNCHANGED <<address, reply>>

(* usb_init and usb_deinit clear the address.                                *)
Cleared == address' = (IF initialized = initialized' THEN address ELSE 0)

ControlNext ==
  \/ DriverNext /\ Cleared /\ UNCHANGED reply
  \/ ~crashed /\ Setup

ControlSpec == ControlInit /\ [][ControlNext]_controlVars

-----------------------------------------------------------------------------
ControlTypeOK == DriverTypeOK /\ address \in 0 .. 127 /\ reply \in Replies

(***************************************************************************)
(* What a request changes is never acknowledged: SET_ADDRESS and           *)
(* SET_CONFIGURATION take effect and leave the host without an answer,     *)
(* which will repeat them or give up; what is answered changes nothing but *)
(* the control endpoint.                                                   *)
(***************************************************************************)
Settings == <<address, state, [e \in Endpoints \ {Control} |-> eps[e]]>>

EffectsUnacknowledged ==
  [][reply' # reply /\ reply'.kind # "silent" => UNCHANGED Settings]_controlVars

(***************************************************************************)
(* No answer ever carries the whole configuration descriptor, in whatever  *)
(* piece the host asks for it and however the endpoints are reconfigured   *)
(* in between: it is longer than a packet, and answers are one packet.     *)
(***************************************************************************)
ConfigurationCut ==
  reply.kind = "data" =>
    /\ reply.length <= MaxPacket
    /\ reply.what = "configuration" => reply.length < LengthOf("configuration")

(***************************************************************************)
(* midi_stop while an answer is on its way leaves the control endpoint     *)
(* busy: after the next midi_start no request is answered with data, until *)
(* midi_deinit.                                                            *)
(***************************************************************************)
StopSilencesControl ==
  [][(Control \in cut \ InFlight /\ reply' # reply)
       => (reply'.kind # "data")]_controlVars

(***************************************************************************)
(* A device that the host has configured has its two bulk endpoints open,  *)
(* 1 towards the host and 2 from it: that the driver's own callback        *)
(* configures endpoint 1 twice more, and stops and sends in between, does  *)
(* not turn it round.  The descriptor announces another layout, 1 in both  *)
(* directions, so the host writes to an endpoint that only sends.          *)
(***************************************************************************)
ConfiguredIsOpen ==
  state = "configured" =>
    /\ eps[1].enabled /\ eps[1].direction = "in"
    /\ eps[2].enabled /\ eps[2].direction = "out"
=============================================================================
