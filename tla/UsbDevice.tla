------------------------------ MODULE UsbDevice ------------------------------
(***************************************************************************)
(* The USB device driver of usb.c, between a client that calls its API in  *)
(* any order and the hardware that answers transfers.                      *)
(*                                                                         *)
(* usb_hw_* and usb_interrupt_handler are stubs for hardware code.  They   *)
(* are taken as their comments describe them: usb_hw_transmit and          *)
(* usb_hw_receive put a transfer in flight, usb_hw_stop cuts off what is   *)
(* in flight, and an interrupt calls the handlers of usb.c.  flight is the *)
(* hardware's side of the story.                                           *)
(*                                                                         *)
(* Left out: fields that are written and never read (type, buffer,         *)
(* data_length, ...), and stall, which changes no state.                   *)
(***************************************************************************)
EXTENDS Naturals, FiniteSets

CONSTANTS
  MaxEndpoints,      \* USB_MAX_ENDPOINTS
  MaxPacket,         \* USB_MAX_PACKET_SIZE
  Numbers, Sizes     \* endpoint numbers and sizes that clients pass

ASSUME UsbAssumption ==
  /\ MaxEndpoints \in Nat \ {0} /\ MaxPacket \in Nat
  /\ Numbers \subseteq Nat /\ Sizes \subseteq Nat

VARIABLES
  initialized, state, eps,
  flight,            \* transfers in the hardware, per endpoint
  cut                \* history: endpoints whose transfer a stop cut off

usbVars == <<initialized, state, eps, flight, cut>>

Endpoints == 0 .. MaxEndpoints - 1
Control == 0                                     \* USB_CONTROL_ENDPOINT

UsbStates == {"detached", "attached", "powered", "default", "address",
              "configured", "suspended"}

Endpoint == [direction : {"in", "out"}, size : Nat, enabled : BOOLEAN,
             complete : BOOLEAN]

TypeOK ==
  /\ initialized \in BOOLEAN /\ state \in UsbStates
  /\ eps \in [Endpoints -> Endpoint]
  /\ flight \in [Endpoints -> Nat] /\ cut \subseteq Endpoints

NoFlight == [e \in Endpoints |-> 0]

InFlight == {e \in Endpoints : flight[e] > 0}

Blank(complete) ==
  [e \in Endpoints |-> [direction |-> "out", size |-> 0, enabled |-> FALSE,
                        complete |-> complete]]

Init ==
  /\ initialized = FALSE /\ state = "detached" /\ eps = Blank(FALSE)
  /\ flight = NoFlight /\ cut = {}

-----------------------------------------------------------------------------
(* What the calls do to the endpoints.                                       *)

Configured(endpoints, e, direction, size) ==
  [endpoints EXCEPT ![e] = [@ EXCEPT !.direction = direction, !.size = size]]

Enabled(endpoints, e, enabled) ==
  [endpoints EXCEPT ![e] = [@ EXCEPT !.enabled = enabled]]

Marked(endpoints, e, complete) ==
  [endpoints EXCEPT ![e] = [@ EXCEPT !.complete = complete]]

Ready_Busy(endpoints, e, direction) ==        \* mutant: no USB_ERROR_BUSY
  /\ e \in Endpoints /\ endpoints[e].enabled
  /\ endpoints[e].direction = direction \/ e = Control

Ready(endpoints, e, direction) ==             \* common to transmit and receive
  /\ e \in Endpoints
  /\ endpoints[e].enabled
  /\ endpoints[e].direction = direction \/ e = Control
  /\ endpoints[e].complete

-----------------------------------------------------------------------------
(* The API.                                                                  *)

UsbInit_NotFree ==                     \* mutant: transfer_complete not set
  /\ ~initialized
  /\ initialized' = TRUE /\ state' = "detached"
  /\ eps' = Blank(FALSE) /\ cut' = {}
  /\ UNCHANGED flight

UsbInit ==
  /\ ~initialized
  /\ initialized' = TRUE /\ state' = "detached"
  /\ eps' = Blank(TRUE) /\ cut' = {}
  /\ UNCHANGED flight

UsbDeinit_NoStop ==                    \* mutant: usb_stop not called
  /\ initialized
  /\ initialized' = FALSE /\ state' = "detached"
  /\ eps' = Blank(FALSE) /\ cut' = {}
  /\ UNCHANGED flight

UsbDeinit ==                           \* usb_stop, then memset
  /\ initialized
  /\ initialized' = FALSE /\ state' = "detached"
  /\ eps' = Blank(FALSE)
  /\ flight' = NoFlight /\ cut' = {}

UsbStart ==
  /\ initialized
  /\ state' = "attached"
  /\ UNCHANGED <<initialized, eps, flight, cut>>

UsbStop ==
  /\ initialized
  /\ state' = "detached"
  /\ flight' = NoFlight /\ cut' = cut \cup InFlight
  /\ UNCHANGED <<initialized, eps>>

Configure(e, direction, size) ==
  /\ initialized /\ e \in Endpoints /\ size <= MaxPacket
  /\ eps' = Configured(eps, e, direction, size)
  /\ UNCHANGED <<initialized, state, flight, cut>>

Enable(e, enabled) ==                  \* usb_endpoint_enable and _disable
  /\ initialized /\ e \in Endpoints
  /\ eps' = Enabled(eps, e, enabled)
  /\ UNCHANGED <<initialized, state, flight, cut>>

Transfer(e) ==
  /\ eps' = Marked(eps, e, FALSE)
  /\ flight' = [flight EXCEPT ![e] = @ + 1]
  /\ UNCHANGED <<initialized, state, cut>>

Transmit(e, length) ==
  /\ initialized /\ Ready(eps, e, "in") /\ length <= eps[e].size
  /\ Transfer(e)

Receive(e) ==
  /\ initialized /\ Ready(eps, e, "out")
  /\ Transfer(e)

-----------------------------------------------------------------------------
(* Handlers that the interrupt calls.                                        *)

TransferComplete_Forgets(e) ==         \* mutant: transfer_complete not set
  /\ e \in InFlight
  /\ flight' = [flight EXCEPT ![e] = @ - 1]
  /\ UNCHANGED <<initialized, state, eps, cut>>

TransferComplete_Late(e) ==            \* mutant: reported after the stop
  /\ e \in InFlight \cup cut /\ initialized
  /\ eps' = Marked(eps, e, TRUE)
  /\ flight' = [flight EXCEPT ![e] = 0]
  /\ cut' = cut \ {e}
  /\ UNCHANGED <<initialized, state>>

TransferComplete(e) ==                 \* whatever the transfer's status
  /\ e \in InFlight
  /\ eps' = Marked(eps, e, TRUE)
  /\ flight' = [flight EXCEPT ![e] = @ - 1]
  /\ cut' = cut \ {e}
  /\ UNCHANGED <<initialized, state>>

SetState(new) ==
  /\ initialized /\ state # new
  /\ state' = new
  /\ UNCHANGED <<initialized, eps, flight, cut>>

UsbNext ==
  \/ UsbInit \/ UsbDeinit \/ UsbStart \/ UsbStop
  \/ \E e \in Numbers, d \in {"in", "out"}, n \in Sizes : Configure(e, d, n)
  \/ \E e \in Numbers, b \in BOOLEAN : Enable(e, b)
  \/ \E e \in Numbers, n \in Sizes : Transmit(e, n)
  \/ \E e \in Numbers : Receive(e)
  \/ \E e \in Endpoints : TransferComplete(e)
  \/ \E new \in UsbStates : SetState(new)

UsbSpec == Init /\ [][UsbNext]_usbVars

(* The hardware answers every transfer that is not cut off.                  *)
UsbFairSpec ==
  UsbSpec /\ \A e \in Endpoints : WF_usbVars(TransferComplete(e))

-----------------------------------------------------------------------------
(***************************************************************************)
(* While the hardware owns a transfer its endpoint is marked busy, also    *)
(* when the endpoint is disabled, turned round or the device restarted     *)
(* meanwhile: usb_transmit and usb_receive never start a second one.       *)
(***************************************************************************)
BusyInFlight ==
  \A e \in InFlight : initialized /\ flight[e] = 1 /\ ~eps[e].complete

(***************************************************************************)
(* The other way round: an endpoint is busy only if a transfer is in       *)
(* flight or was cut off by usb_stop, which does not mark it free.  Such   *)
(* an endpoint stays busy until usb_deinit.                                *)
(***************************************************************************)
BusyOnlyFor ==
  initialized => \A e \in Endpoints : ~eps[e].complete => e \in InFlight \cup cut

StuckStaysStuck ==
  [][\A e \in cut \ InFlight : initialized' => ~eps'[e].complete]_usbVars

(***************************************************************************)
(* A transfer that is started is answered or cut off: its endpoint becomes *)
(* free again, unless the device is stopped.                               *)
(***************************************************************************)
TransfersEnd ==
  \A e \in Endpoints :
    e \in InFlight ~> (~initialized \/ eps[e].complete \/ e \in cut)
=============================================================================
