--------------------------- MODULE UsbDeviceProofs ---------------------------
(***************************************************************************)
(* For any number of endpoints: an endpoint is busy exactly while the      *)
(* hardware owns its one transfer or a stop has cut that transfer off.     *)
(***************************************************************************)
EXTENDS UsbDevice, TLAPS

(***************************************************************************)
(* What UsbStop cut off has left its endpoint busy.  Without it the        *)
(* invariant does not explain why such an endpoint is never freed by the   *)
(* hardware, nor why no transfer is started on it.                         *)
(***************************************************************************)
CutIsBusy == \A e \in cut : initialized /\ ~eps[e].complete

IInv == TypeOK /\ BusyInFlight /\ BusyOnlyFor /\ CutIsBusy

-----------------------------------------------------------------------------
(* Configured and Enabled keep the table a table and leave transfer_complete *)
(* alone.                                                                    *)
LEMMA Updates ==
  ASSUME NEW t \in [Endpoints -> Endpoint], NEW e \in Endpoints,
         NEW d \in {"in", "out"}, NEW n \in Nat, NEW b \in BOOLEAN
  PROVE  /\ Configured(t, e, d, n) \in [Endpoints -> Endpoint]
         /\ Enabled(t, e, b) \in [Endpoints -> Endpoint]
         /\ \A f \in Endpoints :
              /\ Configured(t, e, d, n)[f].complete = t[f].complete
              /\ Enabled(t, e, b)[f].complete = t[f].complete
PROOF
<1>1. t[e] \in Endpoint
  OBVIOUS
<1>2. /\ [t[e] EXCEPT !.direction = d, !.size = n] \in Endpoint
      /\ [t[e] EXCEPT !.direction = d, !.size = n].complete = t[e].complete
  BY <1>1 DEF Endpoint
<1>3. /\ [t[e] EXCEPT !.enabled = b] \in Endpoint
      /\ [t[e] EXCEPT !.enabled = b].complete = t[e].complete
  BY <1>1 DEF Endpoint
<1>4. QED
  BY <1>2, <1>3 DEF Configured, Enabled

LEMMA BlankOK ==
  ASSUME NEW b \in BOOLEAN
  PROVE  /\ Blank(b) \in [Endpoints -> Endpoint]
         /\ \A e \in Endpoints : Blank(b)[e].complete = b
  BY DEF Blank, Endpoint

LEMMA NoFlightOK ==
  /\ NoFlight \in [Endpoints -> Nat]
  /\ {e \in Endpoints : NoFlight[e] > 0} = {}
  BY DEF NoFlight

-----------------------------------------------------------------------------
LEMMA InvInit == Init => IInv
PROOF
<1> SUFFICES ASSUME Init PROVE IInv
  OBVIOUS
<1>1. TypeOK
  BY BlankOK, NoFlightOK DEF Init, TypeOK, UsbStates
<1>2. BusyInFlight /\ BusyOnlyFor /\ CutIsBusy
  BY NoFlightOK DEF Init, BusyInFlight, BusyOnlyFor, CutIsBusy, InFlight
<1>3. QED
  BY <1>1, <1>2 DEF IInv

(* A call that leaves the transfers alone and does not touch                 *)
(* transfer_complete.                                                        *)
LEMMA SameBusiness ==
  ASSUME IInv, UNCHANGED <<initialized, flight, cut>>,
         state' \in UsbStates, eps' \in [Endpoints -> Endpoint],
         \A e \in Endpoints : eps'[e].complete = eps[e].complete
  PROVE  IInv'
PROOF
<1>1. TypeOK'
  BY DEF IInv, TypeOK
<1>2. BusyInFlight' /\ BusyOnlyFor' /\ CutIsBusy'
  BY DEF IInv, TypeOK, BusyInFlight, BusyOnlyFor, CutIsBusy, InFlight
<1>3. QED
  BY <1>1, <1>2 DEF IInv

LEMMA StepTransfer ==
  ASSUME IInv, NEW e \in Endpoints, initialized, eps[e].complete, Transfer(e)
  PROVE  IInv'
PROOF
<1> USE DEF Transfer
<1>1. /\ eps' \in [Endpoints -> Endpoint]
      /\ \A f \in Endpoints :
           f # e => eps'[f].complete = eps[f].complete
      /\ ~eps'[e].complete
  <2>1. eps \in [Endpoints -> Endpoint] /\ eps[e] \in Endpoint
    BY DEF IInv, TypeOK
  <2>2. /\ [eps[e] EXCEPT !.complete = FALSE] \in Endpoint
        /\ ~[eps[e] EXCEPT !.complete = FALSE].complete
    BY <2>1 DEF Endpoint
  <2>3. QED
    BY <2>1, <2>2 DEF Marked
<1>2. flight[e] = 0
  BY DEF IInv, TypeOK, BusyInFlight, InFlight
<1>3. /\ flight' \in [Endpoints -> Nat] /\ flight'[e] = 1
      /\ \A f \in Endpoints : f # e => flight'[f] = flight[f]
  BY <1>2 DEF IInv, TypeOK
<1>4. TypeOK'
  BY <1>1, <1>3 DEF IInv, TypeOK
<1>5. InFlight' = InFlight \cup {e}
  BY <1>2, <1>3 DEF InFlight
<1>6. BusyInFlight'
  BY <1>1, <1>3, <1>5 DEF IInv, BusyInFlight, InFlight
<1>7. BusyOnlyFor' /\ CutIsBusy'
  BY <1>1, <1>5 DEF IInv, TypeOK, BusyOnlyFor, CutIsBusy
<1>8. QED
  BY <1>4, <1>6, <1>7 DEF IInv

LEMMA StepComplete ==
  ASSUME IInv, NEW e \in Endpoints, TransferComplete(e)
  PROVE  IInv'
PROOF
<1> USE DEF TransferComplete
<1>1. /\ eps' \in [Endpoints -> Endpoint]
      /\ \A f \in Endpoints :
           f # e => eps'[f].complete = eps[f].complete
      /\ eps'[e].complete
  <2>1. eps \in [Endpoints -> Endpoint] /\ eps[e] \in Endpoint
    BY DEF IInv, TypeOK
  <2>2. /\ [eps[e] EXCEPT !.complete = TRUE] \in Endpoint
        /\ [eps[e] EXCEPT !.complete = TRUE].complete
    BY <2>1 DEF Endpoint
  <2>3. QED
    BY <2>1, <2>2 DEF Marked
<1>2. flight[e] = 1
  BY DEF IInv, BusyInFlight
<1>3. /\ flight' \in [Endpoints -> Nat] /\ flight'[e] = 0
      /\ \A f \in Endpoints : f # e => flight'[f] = flight[f]
  BY <1>2 DEF IInv, TypeOK
<1>4. TypeOK'
  BY <1>1, <1>3 DEF IInv, TypeOK
<1>5. InFlight' = InFlight \ {e}
  BY <1>3 DEF InFlight
<1>6. BusyInFlight'
  BY <1>1, <1>3, <1>5 DEF IInv, BusyInFlight, InFlight
<1>7. BusyOnlyFor' /\ CutIsBusy'
  BY <1>1, <1>5 DEF IInv, TypeOK, BusyOnlyFor, CutIsBusy
<1>8. QED
  BY <1>4, <1>6, <1>7 DEF IInv

LEMMA StepLifeCycle ==
  ASSUME IInv, UsbInit \/ UsbDeinit \/ UsbStop
  PROVE  IInv'
PROOF
<1>1. CASE UsbInit
  <2>1. InFlight = {}
    BY <1>1 DEF UsbInit, IInv, BusyInFlight
  <2>2. InFlight' = {}
    BY <1>1, <2>1 DEF UsbInit, InFlight
  <2>3. TypeOK'
    BY <1>1, BlankOK DEF UsbInit, IInv, TypeOK, UsbStates
  <2>4. BusyInFlight' /\ BusyOnlyFor' /\ CutIsBusy'
    BY <1>1, <2>2, BlankOK DEF UsbInit, BusyInFlight, BusyOnlyFor, CutIsBusy
  <2>5. QED
    BY <2>3, <2>4 DEF IInv
<1>2. CASE UsbDeinit
  <2>1. InFlight' = {}
    BY <1>2, NoFlightOK DEF UsbDeinit, InFlight
  <2>2. TypeOK'
    BY <1>2, BlankOK, NoFlightOK DEF UsbDeinit, IInv, TypeOK, UsbStates
  <2>3. BusyInFlight' /\ BusyOnlyFor' /\ CutIsBusy'
    BY <1>2, <2>1 DEF UsbDeinit, BusyInFlight, BusyOnlyFor, CutIsBusy
  <2>4. QED
    BY <2>2, <2>3 DEF IInv
<1>3. CASE UsbStop
  <2>1. InFlight' = {}
    BY <1>3, NoFlightOK DEF UsbStop, InFlight
  <2>2. InFlight \subseteq Endpoints
    BY DEF InFlight
  <2>3. TypeOK'
    BY <1>3, <2>2, NoFlightOK DEF UsbStop, IInv, TypeOK, UsbStates
  <2>4. BusyInFlight' /\ BusyOnlyFor' /\ CutIsBusy'
    BY <1>3, <2>1 DEF UsbStop, IInv, BusyInFlight, BusyOnlyFor, CutIsBusy
  <2>5. QED
    BY <2>3, <2>4 DEF IInv
<1>4. QED
  BY <1>1, <1>2, <1>3

LEMMA StepEndpoints ==
  ASSUME IInv, NEW e \in Nat, NEW d \in {"in", "out"}, NEW n \in Nat,
         NEW b \in BOOLEAN, Configure(e, d, n) \/ Enable(e, b)
  PROVE  IInv'
PROOF
<1>1. e \in Endpoints /\ eps \in [Endpoints -> Endpoint]
  BY DEF IInv, TypeOK, Configure, Enable
<1>2. /\ eps' \in [Endpoints -> Endpoint]
      /\ \A f \in Endpoints : eps'[f].complete = eps[f].complete
  BY <1>1, Updates DEF Configure, Enable
<1>3. state' \in UsbStates /\ UNCHANGED <<initialized, flight, cut>>
  BY DEF Configure, Enable, IInv, TypeOK
<1>4. QED
  BY <1>2, <1>3, SameBusiness

LEMMA InvNext == IInv /\ [UsbNext]_usbVars => IInv'
PROOF
<1> SUFFICES ASSUME IInv, [UsbNext]_usbVars PROVE IInv'
  OBVIOUS
<1>0. Numbers \subseteq Nat /\ Sizes \subseteq Nat
  BY UsbAssumption
<1>1. CASE UsbInit \/ UsbDeinit \/ UsbStop
  BY <1>1, StepLifeCycle
<1>2. CASE UsbStart \/ \E new \in UsbStates : SetState(new)
  <2>1. state' \in UsbStates /\ UNCHANGED <<initialized, eps, flight, cut>>
    BY <1>2 DEF UsbStart, SetState, UsbStates
  <2>2. QED
    BY <2>1, SameBusiness DEF IInv, TypeOK
<1>3. ASSUME NEW e \in Numbers, NEW d \in {"in", "out"}, NEW n \in Sizes,
             Configure(e, d, n)
      PROVE  IInv'
  BY <1>0, <1>3, StepEndpoints, TRUE \in BOOLEAN
<1>4. ASSUME NEW e \in Numbers, NEW b \in BOOLEAN, Enable(e, b)
      PROVE  IInv'
  BY <1>0, <1>4, StepEndpoints, "in" \in {"in", "out"}, 0 \in Nat
<1>5. ASSUME NEW e \in Numbers,
             Receive(e) \/ \E n \in Sizes : Transmit(e, n)
      PROVE  IInv'
  <2>1. e \in Endpoints /\ initialized /\ eps[e].complete /\ Transfer(e)
    BY <1>5 DEF Transmit, Receive, Ready
  <2>2. QED
    BY <2>1, StepTransfer
<1>6. ASSUME NEW e \in Endpoints, TransferComplete(e)
      PROVE  IInv'
  BY <1>6, StepComplete
<1>7. CASE UNCHANGED usbVars
  <2>1. UNCHANGED <<initialized, state, eps, flight, cut>>
    BY <1>7 DEF usbVars
  <2>2. QED
    BY <2>1, SameBusiness DEF IInv, TypeOK
<1>8. QED
  BY <1>1, <1>2, <1>3, <1>4, <1>5, <1>6, <1>7 DEF UsbNext

(***************************************************************************)
(* usb_transmit and usb_receive never start a second transfer on an        *)
(* endpoint, and an endpoint is busy only for a transfer in flight or cut  *)
(* off, for any number of endpoints and any callers.                       *)
(***************************************************************************)
THEOREM EndpointsBusy == UsbSpec => [](TypeOK /\ BusyInFlight /\ BusyOnlyFor)
PROOF
<1>1. UsbSpec => []IInv
  BY InvInit, InvNext, PTL DEF UsbSpec
<1>2. IInv => TypeOK /\ BusyInFlight /\ BusyOnlyFor
  BY DEF IInv
<1>3. QED
  BY <1>1, <1>2, PTL

(***************************************************************************)
(* In particular a busy endpoint is never lost: it is answered, or a stop  *)
(* has cut it off.                                                         *)
(***************************************************************************)
THEOREM BusyIsAccountedFor == UsbSpec => []BusyOnlyFor
  BY EndpointsBusy, PTL

(* Only usb_deinit ends being cut off, or a completion of a transfer in      *)
(* flight, which is then on another endpoint.                                *)
LEMMA CutStays ==
  ASSUME IInv, [UsbNext]_usbVars, NEW e \in cut \ InFlight, initialized'
  PROVE  e \in cut'
PROOF
<1>1. initialized
  BY DEF IInv, CutIsBusy
<1>2. CASE UsbInit \/ UsbDeinit \/ UsbStart \/ UsbStop
  BY <1>1, <1>2 DEF UsbInit, UsbDeinit, UsbStart, UsbStop
<1>3. ASSUME NEW f \in Numbers, Receive(f) \/ \E n \in Sizes : Transmit(f, n)
      PROVE  e \in cut'
  BY <1>3 DEF Transmit, Receive, Transfer
<1>4. ASSUME NEW f \in Endpoints, TransferComplete(f)
      PROVE  e \in cut'
  BY <1>4 DEF TransferComplete
<1>5. ASSUME NEW new \in UsbStates, SetState(new)
      PROVE  e \in cut'
  BY <1>5 DEF SetState
<1>6. CASE UNCHANGED usbVars
  BY <1>6 DEF usbVars
<1>7. ASSUME NEW f \in Numbers, NEW d \in {"in", "out"}, NEW n \in Sizes,
             Configure(f, d, n)
      PROVE  e \in cut'
  BY <1>7 DEF Configure
<1>8. ASSUME NEW f \in Numbers, NEW b \in BOOLEAN, Enable(f, b)
      PROVE  e \in cut'
  BY <1>8 DEF Enable
<1>9. QED
  BY <1>2, <1>3, <1>4, <1>5, <1>6, <1>7, <1>8 DEF UsbNext

(***************************************************************************)
(* usb_stop does not free what it cuts off: such an endpoint refuses       *)
(* transfers until usb_deinit, whatever is called and reported.            *)
(***************************************************************************)
THEOREM CutOffForGood == UsbSpec => StuckStaysStuck
PROOF
<1>1. UsbSpec => []IInv
  BY InvInit, InvNext, PTL DEF UsbSpec
<1>2. ASSUME IInv, IInv', [UsbNext]_usbVars
      PROVE  [\A e \in cut \ InFlight : initialized' => ~eps'[e].complete]_usbVars
  BY <1>2, CutStays DEF IInv, CutIsBusy
<1>3. QED
  BY <1>1, <1>2, PTL DEF UsbSpec, StuckStaysStuck
=============================================================================
