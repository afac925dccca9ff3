--------------------------- MODULE UsbControlProofs ---------------------------
(***************************************************************************)
(* For any number of endpoints, any requests and every outcome of the      *)
(* dangling configuration: what the endpoints of the MIDI driver can be,   *)
(* and what follows for transfers and answers.                             *)
(***************************************************************************)
EXTENDS UsbControl, TLAPS

Table == [Endpoints -> Endpoint]

LEMMA Numbering ==
  /\ 0 \in Endpoints /\ 1 \in Endpoints /\ 2 \in Endpoints
  /\ 129 \notin Endpoints /\ Endpoints \subseteq Nat
  BY UsbAssumption, DriverAssumption, ControlAssumption DEF Endpoints

Direction == {"in", "out"}

LEMMA Arguments ==
  /\ "in" \in Direction /\ "out" \in Direction
  /\ MaxPacket \in Nat /\ 64 \in Nat
  BY UsbAssumption DEF Direction

-----------------------------------------------------------------------------
(* The edits of a table of endpoints, entry by entry.                        *)

LEMMA ConfiguredEntry ==
  ASSUME NEW t \in Table, NEW e \in Endpoints, NEW d \in Direction, NEW n \in Nat
  PROVE  /\ Configured(t, e, d, n) \in Table
         /\ \A f \in Endpoints : f # e => Configured(t, e, d, n)[f] = t[f]
         /\ Configured(t, e, d, n)[e].direction = d
         /\ Configured(t, e, d, n)[e].size = n
         /\ Configured(t, e, d, n)[e].enabled = t[e].enabled
         /\ Configured(t, e, d, n)[e].complete = t[e].complete
  <1>1. t[e] \in Endpoint
    BY DEF Table
  <1>. DEFINE u == [t[e] EXCEPT !.direction = d, !.size = n]
  <1>2. /\ u \in Endpoint /\ u.direction = d /\ u.size = n
        /\ u.enabled = t[e].enabled /\ u.complete = t[e].complete
    BY <1>1 DEF Endpoint, Direction
  <1>3. Configured(t, e, d, n) = [t EXCEPT ![e] = u]
    BY DEF Configured
  <1>. HIDE DEF u
  <1>. QED  BY <1>2, <1>3 DEF Table

LEMMA EnabledEntry ==
  ASSUME NEW t \in Table, NEW e \in Endpoints
  PROVE  /\ Enabled(t, e, TRUE) \in Table
         /\ \A f \in Endpoints : f # e => Enabled(t, e, TRUE)[f] = t[f]
         /\ Enabled(t, e, TRUE)[e].direction = t[e].direction
         /\ Enabled(t, e, TRUE)[e].size = t[e].size
         /\ Enabled(t, e, TRUE)[e].enabled
         /\ Enabled(t, e, TRUE)[e].complete = t[e].complete
  <1>1. t[e] \in Endpoint
    BY DEF Table
  <1>. DEFINE u == [t[e] EXCEPT !.enabled = TRUE]
  <1>2. /\ u \in Endpoint /\ u.direction = t[e].direction /\ u.size = t[e].size
        /\ u.enabled /\ u.complete = t[e].complete
    BY <1>1 DEF Endpoint
  <1>3. Enabled(t, e, TRUE) = [t EXCEPT ![e] = u]
    BY DEF Enabled
  <1>. HIDE DEF u
  <1>. QED  BY <1>2, <1>3 DEF Table

LEMMA BusyEntry ==
  ASSUME NEW t \in Table, NEW e \in Endpoints
  PROVE  /\ Marked(t, e, FALSE) \in Table
         /\ Marked(t, e, FALSE)[e].complete = FALSE
         /\ Marked(t, e, FALSE)[e].size = t[e].size
         /\ \A f \in Endpoints : f # e => Marked(t, e, FALSE)[f] = t[f]
  <1>1. t[e] \in Endpoint
    BY DEF Table
  <1>. DEFINE u == [t[e] EXCEPT !.complete = FALSE]
  <1>2. u \in Endpoint /\ u.size = t[e].size /\ u.complete = FALSE
    BY <1>1 DEF Endpoint
  <1>3. Marked(t, e, FALSE) = [t EXCEPT ![e] = u]
    BY DEF Marked
  <1>. HIDE DEF u
  <1>. QED  BY <1>2, <1>3 DEF Table

LEMMA FreedEntry ==
  ASSUME NEW t \in Table, NEW e \in Endpoints
  PROVE  /\ Marked(t, e, TRUE) \in Table
         /\ Marked(t, e, TRUE)[e].size = t[e].size
         /\ \A f \in Endpoints : f # e => Marked(t, e, TRUE)[f] = t[f]
  <1>1. t[e] \in Endpoint
    BY DEF Table
  <1>. DEFINE u == [t[e] EXCEPT !.complete = TRUE]
  <1>2. u \in Endpoint /\ u.size = t[e].size
    BY <1>1 DEF Endpoint
  <1>3. Marked(t, e, TRUE) = [t EXCEPT ![e] = u]
    BY DEF Marked
  <1>. HIDE DEF u
  <1>. QED  BY <1>2, <1>3 DEF Table

-----------------------------------------------------------------------------
(* What the driver leaves in the table.                                      *)

Layout(t) ==
  /\ t \in Table
  /\ t[1].enabled => t[1].direction = "in"
  /\ t[Control].size <= MaxPacket

Same(t, u) == \A e \in Endpoints : u[e].complete = t[e].complete

LEMMA BlankLayout ==
  ASSUME NEW b \in BOOLEAN
  PROVE  /\ Blank(b) \in Table
         /\ Layout(Blank(b))
  <1>1. Blank(b) \in Table
    BY DEF Blank, Table, Endpoint
  <1>2. \A e \in Endpoints : ~Blank(b)[e].enabled /\ Blank(b)[e].size = 0
    BY DEF Blank
  <1>. QED  BY <1>1, <1>2, Numbering, Arguments DEF Layout, Control

LEMMA InitLayout ==
  Layout(Enabled(Configured(Blank(TRUE), Control, "in", MaxPacket), Control, TRUE))
  <1>. DEFINE t == Blank(TRUE)
              u == Configured(t, Control, "in", MaxPacket)
              w == Enabled(u, Control, TRUE)
  <1>1. t \in Table /\ ~t[1].enabled
    BY BlankLayout, Numbering DEF Blank
  <1>2. Control \in Endpoints /\ Control # 1 /\ 1 \in Endpoints
    BY Numbering DEF Control
  <1>. HIDE DEF t
  <1>3. u \in Table /\ u[1] = t[1] /\ u[Control].size = MaxPacket
    BY <1>1, <1>2, ConfiguredEntry, Arguments
  <1>. HIDE DEF u
  <1>4. w \in Table /\ w[1] = u[1] /\ w[Control].size = u[Control].size
    BY <1>2, <1>3, EnabledEntry
  <1>. HIDE DEF w
  <1>5. Layout(w)
    BY <1>1, <1>3, <1>4, Arguments DEF Layout
  <1>. QED  BY <1>5 DEF t, u, w

Open(t, e, d, n) == Enabled(Configured(t, e, d, n), e, TRUE)

Opens(t, u, e, d) ==
  /\ u \in Table /\ Same(t, u)
  /\ \A f \in Endpoints : f # e => u[f] = t[f]
  /\ u[e].enabled /\ u[e].direction = d

LEMMA OpenOne ==
  ASSUME NEW t \in Table, NEW e \in Endpoints, NEW d \in Direction, NEW n \in Nat
  PROVE  Opens(t, Open(t, e, d, n), e, d)
  <1>. DEFINE c == Configured(t, e, d, n)
              u == Enabled(c, e, TRUE)
  <1>1. /\ c \in Table /\ c[e].complete = t[e].complete /\ c[e].direction = d
        /\ \A f \in Endpoints : f # e => c[f] = t[f]
    BY ConfiguredEntry
  <1>. HIDE DEF c
  <1>2. /\ u \in Table /\ u[e].complete = c[e].complete /\ u[e].enabled
        /\ u[e].direction = c[e].direction
        /\ \A f \in Endpoints : f # e => u[f] = c[f]
    BY <1>1, EnabledEntry
  <1>. HIDE DEF u
  <1>3. /\ u \in Table /\ Same(t, u) /\ u[e].enabled /\ u[e].direction = d
        /\ \A f \in Endpoints : f # e => u[f] = t[f]
    BY <1>1, <1>2 DEF Same
  <1>. QED  BY <1>3 DEF u, c, Open, Opens

(* midi_state_callback: whatever endpoint 1 was, it can only send now.       *)
LEMMA OpenedLayout ==
  ASSUME NEW t, Layout(t)
  PROVE  /\ Layout(Opened(t)) /\ Same(t, Opened(t))
         /\ \A f \in Endpoints : f # 1 => Opened(t)[f] = t[f]
         /\ Opened(t)[1].enabled /\ Opened(t)[1].direction = "in"
  <1>. DEFINE u == Open(t, 1, "out", MaxPacket)
              w == Open(u, 1, "in", MaxPacket)
  <1>0. t \in Table /\ 1 \in Endpoints /\ 0 \in Endpoints
    BY Numbering DEF Layout
  <1>1. Opens(t, u, 1, "out")
    BY <1>0, OpenOne, Arguments
  <1>. HIDE DEF u
  <1>2. u \in Table
    BY <1>1 DEF Opens
  <1>3. Opens(u, w, 1, "in")
    BY <1>0, <1>2, OpenOne, Arguments
  <1>4. Opened(t) = w
    BY DEF Opened, Open, u
  <1>. HIDE DEF w
  <1>5. Layout(w) /\ Same(t, w)
    BY <1>0, <1>1, <1>3 DEF Layout, Same, Control, Opens
  <1>. QED  BY <1>1, <1>3, <1>4, <1>5 DEF Opens

(* SET_CONFIGURATION.                                                        *)
LEMMA ForDeviceLayout ==
  ASSUME NEW t, Layout(t)
  PROVE  /\ Layout(ForDevice(t)) /\ Same(t, ForDevice(t))
         /\ \A f \in Endpoints \ {1, 2} : ForDevice(t)[f] = t[f]
         /\ ForDevice(t)[1].enabled /\ ForDevice(t)[1].direction = "in"
         /\ ForDevice(t)[2].enabled /\ ForDevice(t)[2].direction = "out"
  <1>. DEFINE u == Open(t, 1, "in", 64)
              w == Open(u, 2, "out", 64)
  <1>0. t \in Table /\ 1 \in Endpoints /\ 2 \in Endpoints /\ 0 \in Endpoints
    BY Numbering DEF Layout
  <1>1. Opens(t, u, 1, "in")
    BY <1>0, OpenOne, Arguments
  <1>. HIDE DEF u
  <1>2. u \in Table
    BY <1>1 DEF Opens
  <1>3. Opens(u, w, 2, "out")
    BY <1>0, <1>2, OpenOne, Arguments
  <1>4. ForDevice(t) = w
    BY DEF ForDevice, Open, u
  <1>. HIDE DEF w
  <1>5. Layout(w) /\ Same(t, w)
    BY <1>0, <1>1, <1>3 DEF Layout, Same, Control, Opens
  <1>. QED  BY <1>0, <1>1, <1>3, <1>4, <1>5 DEF Opens

LEMMA NeverListens ==
  ASSUME NEW t, Layout(t)
  PROVE  ~Ready(t, EndpointOut, "out")
  BY DEF Layout, Ready, EndpointOut, Control

LEMMA CallbackEffect ==
  ASSUME NEW t, Layout(t), NEW new, StateCallback(new, t)
  PROVE  /\ Layout(eps') /\ Same(t, eps') /\ flight' = flight
         /\ \A f \in Endpoints : f # 1 => eps'[f] = t[f]
         /\ new = "configured" \/ (t[1].enabled /\ t[1].direction = "in") =>
              eps'[1].enabled /\ eps'[1].direction = "in"
  <1>1. CASE new = "configured"
    <2>1. Listening(Opened(t), flight)
      BY <1>1 DEF StateCallback
    <2>2. eps' = Opened(t) /\ flight' = flight
      BY <2>1, OpenedLayout, NeverListens DEF Listening
    <2>. QED  BY <2>2, OpenedLayout
  <1>2. CASE new # "configured"
    <2>1. eps' = t /\ flight' = flight
      BY <1>2 DEF StateCallback
    <2>. QED  BY <1>2, <2>1 DEF Same
  <1>. QED  BY <1>1, <1>2

-----------------------------------------------------------------------------
(***************************************************************************)
(* Of NothingTransferred only the endpoint table's layout keeps it true:   *)
(* endpoint 1 sends, so the driver cannot listen on it.  That a completion *)
(* frees the right endpoint, and that a stop leaves a busy one behind,     *)
(* needs BusyInFlight and CutIsBusy.                                       *)
(***************************************************************************)
CutIsBusy == \A e \in cut : ~eps[e].complete

DriverInv ==
  /\ Layout(eps)
  /\ flight \in [Endpoints -> Nat] /\ cut \subseteq Endpoints
  /\ NothingTransferred /\ BusyInFlight /\ CutIsBusy

(* What one step can do to the endpoints.                                    *)
Reopened ==
  /\ Layout(eps') /\ Same(eps, eps')
  /\ UNCHANGED <<initialized, flight, cut>>

Answered == initialized /\ Ready(eps, Control, "in") /\ Transfer(Control)

Completed ==
  /\ Control \in InFlight
  /\ eps' = Marked(eps, Control, TRUE)
  /\ flight' = [flight EXCEPT ![Control] = @ - 1]
  /\ cut' = cut \ {Control}
  /\ UNCHANGED initialized

Stopped ==
  /\ flight' = NoFlight /\ cut' = cut \cup InFlight
  /\ UNCHANGED <<initialized, eps>>

Turned ==
  /\ Layout(eps') /\ cut' = {}
  /\ flight' = NoFlight \/ (flight' = flight /\ ~initialized)

Effect == Reopened \/ Answered \/ Completed \/ Stopped \/ Turned

LEMMA NoFlightOK ==
  NoFlight \in [Endpoints -> Nat] /\ {e \in Endpoints : NoFlight[e] > 0} = {}
  BY DEF NoFlight

LEMMA InvInit == DriverInit => DriverInv
  <1>. SUFFICES ASSUME DriverInit PROVE DriverInv
    OBVIOUS
  <1>1. Layout(eps)
    BY BlankLayout DEF DriverInit, Init
  <1>2. flight \in [Endpoints -> Nat] /\ cut = {} /\ InFlight = {}
    BY NoFlightOK DEF DriverInit, Init, InFlight
  <1>. QED
    BY <1>1, <1>2 DEF DriverInit, DriverInv, NothingTransferred, BusyInFlight, CutIsBusy

LEMMA InvStep ==
  ASSUME DriverInv, Effect, answer' \in {answer, "usb_error"}
  PROVE  DriverInv'
  <1>0. /\ eps \in Table /\ flight \in [Endpoints -> Nat] /\ cut \subseteq Endpoints
        /\ Control \in Endpoints /\ Control = 0 /\ Layout(eps)
    BY Numbering DEF DriverInv, Layout, Control
  <1>1. answer' # "success"
    BY DEF DriverInv, NothingTransferred
  <1>2. CASE Reopened
    <2>1. InFlight' = InFlight
      BY <1>2 DEF Reopened, InFlight
    <2>2. InFlight \subseteq Endpoints
      BY DEF InFlight
    <2>3. BusyInFlight'
      BY <1>0, <1>2, <2>1, <2>2 DEF Reopened, Same, DriverInv, BusyInFlight
    <2>4. CutIsBusy'
      BY <1>0, <1>2 DEF Reopened, Same, DriverInv, CutIsBusy
    <2>. QED
      BY <1>1, <1>2, <2>1, <2>3, <2>4 DEF Reopened, DriverInv, NothingTransferred
  <1>3. CASE Answered
    <2>1. /\ eps' = Marked(eps, Control, FALSE)
          /\ flight' = [flight EXCEPT ![Control] = flight[Control] + 1]
          /\ cut' = cut /\ initialized' = initialized /\ eps[Control].complete
      BY <1>3 DEF Answered, Transfer, Ready
    <2>2. /\ eps' \in Table /\ eps'[Control].complete = FALSE
          /\ eps'[Control].size = eps[Control].size
          /\ \A f \in Endpoints : f # Control => eps'[f] = eps[f]
      BY <1>0, <2>1, BusyEntry
    <2>3. Layout(eps')
      BY <1>0, <2>2, Numbering DEF Layout
    <2>4. InFlight = {}
      BY <2>1 DEF DriverInv, NothingTransferred, BusyInFlight
    <2>5. flight[Control] = 0
      BY <1>0, <2>4 DEF InFlight
    <2>6. flight' \in [Endpoints -> Nat] /\ flight'[Control] = 1
      BY <1>0, <2>1, <2>5
    <2>7. InFlight' \subseteq {Control}
      BY <1>0, <2>1, <2>4 DEF InFlight
    <2>8. BusyInFlight'
      BY <1>3, <2>1, <2>2, <2>6, <2>7 DEF Answered, BusyInFlight
    <2>9. CutIsBusy'
      BY <1>0, <2>1, <2>2 DEF DriverInv, CutIsBusy
    <2>. QED
      BY <1>0, <1>1, <2>1, <2>3, <2>6, <2>7, <2>8, <2>9
         DEF DriverInv, NothingTransferred
  <1>4. CASE Completed
    <2>1. /\ eps' = Marked(eps, Control, TRUE)
          /\ flight' = [flight EXCEPT ![Control] = flight[Control] - 1]
          /\ cut' = cut \ {Control}
      BY <1>4 DEF Completed
    <2>2. /\ eps' \in Table
          /\ eps'[Control].size = eps[Control].size
          /\ \A f \in Endpoints : f # Control => eps'[f] = eps[f]
      BY <1>0, <2>1, FreedEntry
    <2>3. Layout(eps')
      BY <1>0, <2>2, Numbering DEF Layout
    <2>4. flight[Control] = 1 /\ InFlight \subseteq {Control}
      BY <1>4 DEF Completed, DriverInv, NothingTransferred, BusyInFlight
    <2>5. flight' \in [Endpoints -> Nat]
      BY <1>0, <2>1, <2>4
    <2>6. InFlight' = {}
      BY <1>0, <2>1, <2>4 DEF InFlight
    <2>7. BusyInFlight' /\ CutIsBusy'
      BY <1>0, <2>1, <2>2, <2>6 DEF DriverInv, BusyInFlight, CutIsBusy
    <2>. QED
      BY <1>0, <1>1, <2>1, <2>3, <2>5, <2>6, <2>7 DEF DriverInv, NothingTransferred
  <1>5. CASE Stopped
    <2>1. flight' \in [Endpoints -> Nat] /\ InFlight' = {}
      BY <1>5, NoFlightOK DEF Stopped, InFlight
    <2>2. CutIsBusy' /\ cut' \subseteq Endpoints
      BY <1>5 DEF Stopped, DriverInv, CutIsBusy, BusyInFlight, InFlight
    <2>. QED
      BY <1>1, <1>5, <2>1, <2>2
         DEF Stopped, DriverInv, NothingTransferred, BusyInFlight
  <1>6. CASE Turned
    <2>1. flight' \in [Endpoints -> Nat] /\ InFlight' = {}
      <3>1. CASE flight' = NoFlight
        BY <3>1, NoFlightOK DEF InFlight
      <3>2. CASE flight' = flight /\ ~initialized
        BY <1>0, <3>2 DEF DriverInv, BusyInFlight, InFlight
      <3>. QED  BY <1>6, <3>1, <3>2 DEF Turned
    <2>. QED
      BY <1>1, <1>6, <2>1
         DEF Turned, DriverInv, NothingTransferred, BusyInFlight, CutIsBusy
  <1>. QED  BY <1>2, <1>3, <1>4, <1>5, <1>6 DEF Effect

LEMMA LayoutKept ==
  ASSUME DriverInv, UNCHANGED <<initialized, eps, flight, cut>>
  PROVE  Reopened
  BY DEF DriverInv, Reopened, Same

LEMMA Refused ==                       \* usb_transmit to endpoint 0x81
  ASSUME SendMessage \/ SendSysex
  PROVE  answer' = "usb_error" /\ UNCHANGED <<usbVars, midi, crashed>>
  <1>1. ASSUME NEW length, Send(length)
        PROVE  answer' = "usb_error" /\ UNCHANGED <<usbVars, midi, crashed>>
    <2>1. ~Ready(eps, EndpointUsed, "in")
      BY Numbering DEF Ready, EndpointUsed, EndpointIn
    <2>. QED  BY <1>1, <2>1 DEF Send
  <1>. QED  BY <1>1 DEF SendMessage, SendSysex

LEMMA DriverEffects ==
  ASSUME DriverInv, DriverNext
  PROVE  Effect /\ answer' \in {answer, "usb_error"}
  <1>0. Layout(eps) /\ eps \in Table
    BY DEF DriverInv, Layout
  <1>1. CASE MidiInit
    BY <1>1, InitLayout DEF MidiInit, Effect, Turned
  <1>2. CASE MidiDeinit
    <2>1. CASE UsbDeinit /\ UNCHANGED answer
      BY <2>1, BlankLayout DEF UsbDeinit, Effect, Turned
    <2>2. CASE Crash
      BY <2>2, LayoutKept DEF Crash, usbVars, Effect
    <2>. QED  BY <1>2, <2>1, <2>2 DEF MidiDeinit
  <1>3. CASE MidiStart
    BY <1>3, LayoutKept DEF MidiStart, UsbStart, Crash, usbVars, Effect
  <1>4. CASE MidiStop
    <2>1. CASE UsbStop /\ UNCHANGED answer
      BY <2>1 DEF UsbStop, Effect, Stopped
    <2>2. CASE Crash
      BY <2>2, LayoutKept DEF Crash, usbVars, Effect
    <2>. QED  BY <1>4, <2>1, <2>2 DEF MidiStop
  <1>5. CASE SendMessage \/ SendSysex
    BY <1>5, Refused, LayoutKept DEF usbVars, Effect
  <1>6. ASSUME NEW new \in BusStates, ReportState(new)
        PROVE  Effect /\ answer' \in {answer, "usb_error"}
    <2>1. CASE StateCallback(new, eps) /\ UNCHANGED <<initialized, cut, answer>>
      BY <1>0, <2>1, CallbackEffect DEF Effect, Reopened
    <2>2. CASE NoCallback(eps) /\ UNCHANGED <<initialized, cut, answer>>
      BY <2>2, LayoutKept DEF NoCallback, Effect
    <2>3. CASE Crash
      BY <2>3, LayoutKept DEF Crash, usbVars, Effect
    <2>. QED  BY <1>6, <2>1, <2>2, <2>3 DEF ReportState
  <1>7. ASSUME NEW e \in Endpoints, NEW ok \in BOOLEAN, ReportTransfer(e, ok)
        PROVE  Effect /\ answer' \in {answer, "usb_error"}
    <2>1. e = Control /\ e \in InFlight /\ e # EndpointOut
      BY <1>7 DEF ReportTransfer, DriverInv, NothingTransferred, Control, EndpointOut
    <2>2. CASE Crash
      BY <2>2, LayoutKept DEF Crash, usbVars, Effect
    <2>3. CASE ~Crash
      <3>1. /\ eps' = Marked(eps, Control, TRUE)
            /\ flight' = [flight EXCEPT ![Control] = @ - 1]
            /\ cut' = cut \ {Control} /\ UNCHANGED <<initialized, answer>>
        BY <1>7, <2>1, <2>3 DEF ReportTransfer
      <3>. QED  BY <2>1, <3>1 DEF Effect, Completed
    <2>. QED  BY <2>2, <2>3
  <1>. QED
    BY <1>1, <1>2, <1>3, <1>4, <1>5, <1>6, <1>7 DEF DriverNext

LEMMA CallsEffect ==
  ASSUME NEW t, Layout(t), NEW new, Calls(new, t)
  PROVE  /\ Layout(eps') /\ Same(t, eps') /\ flight' = flight
         /\ \A f \in Endpoints : f # 1 => eps'[f] = t[f]
         /\ t[1].enabled /\ t[1].direction = "in"
              => eps'[1].enabled /\ eps'[1].direction = "in"
  <1>1. CASE StateCallback(new, t)
    BY <1>1, CallbackEffect
  <1>2. CASE NoCallback(t)
    BY <1>2 DEF NoCallback, Same
  <1>. QED  BY <1>1, <1>2 DEF Calls

LEMMA SetupEffects ==
  ASSUME DriverInv, Setup
  PROVE  Effect /\ answer' = answer
  <1>0. Layout(eps) /\ initialized
    BY DEF DriverInv, Setup
  <1>1. ASSUME Stall \/ UNCHANGED driverVars \/ Crash
        PROVE  Effect /\ answer' = answer
    BY <1>1, LayoutKept DEF Stall, Crash, driverVars, usbVars, Effect
  <1>2. ASSUME NEW d, NEW n, SendData(d, n)
        PROVE  Effect /\ answer' = answer
    <2>1. CASE Ready(eps, Control, "in") /\ Transfer(Control)
      BY <1>0, <1>2, <2>1 DEF SendData, Effect, Answered
    <2>2. CASE UNCHANGED usbVars
      BY <1>2, <2>2, LayoutKept DEF SendData, usbVars, Effect
    <2>. QED  BY <1>2, <2>1, <2>2 DEF SendData
  <1>3. ASSUME NEW a \in Addresses, SetAddress(a)
        PROVE  Effect /\ answer' = answer
    BY <1>3, LayoutKept DEF SetAddress, Effect
  <1>4. ASSUME NEW c \in Configurations, SetConfiguration(c)
        PROVE  Effect /\ answer' = answer
    <2>1. CASE c > 1
      BY <1>1, <1>4, <2>1 DEF SetConfiguration
    <2>2. CASE ~(c > 1)
      <3>. DEFINE t == IF c = 0 THEN eps ELSE ForDevice(eps)
      <3>1. /\ Calls(state', t)
            /\ UNCHANGED <<initialized, cut, answer>>
        BY <1>4, <2>2 DEF SetConfiguration
      <3>2. Layout(t) /\ Same(eps, t)
        BY <1>0, ForDeviceLayout DEF Same
      <3>. HIDE DEF t
      <3>3. Layout(eps') /\ Same(t, eps') /\ flight' = flight
        BY <3>1, <3>2, CallsEffect
      <3>. QED  BY <3>1, <3>2, <3>3 DEF Effect, Reopened, Same
    <2>. QED  BY <2>1, <2>2
  <1>5. ASSUME Request PROVE Effect /\ answer' = answer
    <2>1. ASSUME NEW d \in Descriptors, NEW n \in Lengths, GetDescriptor(d, n)
          PROVE  Effect /\ answer' = answer
      BY <1>1, <1>2, <2>1 DEF GetDescriptor
    <2>2. ASSUME NEW known \in BOOLEAN, GetStatus(known)
          PROVE  Effect /\ answer' = answer
      BY <1>1, <1>2, <2>2 DEF GetStatus
    <2>3. ASSUME NEW halt \in BOOLEAN, Feature(halt)
          PROVE  Effect /\ answer' = answer
      BY <1>1, <2>3 DEF Feature
    <2>. QED
      BY <1>1, <1>3, <1>4, <1>5, <2>1, <2>2, <2>3 DEF Request
  <1>. QED  BY <1>1, <1>5 DEF Setup

(***************************************************************************)
(* No MIDI data is ever sent or received through the USB driver, for any   *)
(* number of endpoints and any packet size: midi.c under the stub of usb.c *)
(* and, below, under the requests of usb_descriptors.c.                    *)
(***************************************************************************)
THEOREM DriverTransfersNothing == DriverSpec => []NothingTransferred
<1>1. DriverInv /\ [DriverNext]_driverVars => DriverInv'
  <2>1. DriverInv /\ DriverNext => DriverInv'
    BY DriverEffects, InvStep
  <2>2. DriverInv /\ UNCHANGED driverVars => DriverInv'
    <3>. SUFFICES ASSUME DriverInv, UNCHANGED driverVars PROVE DriverInv'
      OBVIOUS
    <3>. QED  BY LayoutKept, InvStep DEF driverVars, usbVars, Effect
  <2>. QED  BY <2>1, <2>2
<1>2. DriverInv => NothingTransferred
  BY DEF DriverInv
<1>. QED  BY <1>1, <1>2, InvInit, PTL DEF DriverSpec

LEMMA ControlStep ==
  ASSUME DriverInv, [ControlNext]_controlVars
  PROVE  DriverInv'
  <1>1. CASE DriverNext
    BY <1>1, DriverEffects, InvStep
  <1>2. CASE Setup
    BY <1>2, SetupEffects, InvStep
  <1>3. CASE UNCHANGED controlVars
    BY <1>3, LayoutKept, InvStep DEF controlVars, driverVars, usbVars, Effect
  <1>. QED  BY <1>1, <1>2, <1>3 DEF ControlNext

LEMMA ControlInvariant == ControlSpec => []DriverInv
<1>1. ControlInit => DriverInv
  BY InvInit DEF ControlInit
<1>2. DriverInv /\ [ControlNext]_controlVars => DriverInv'
  BY ControlStep
<1>. QED  BY <1>1, <1>2, PTL DEF ControlSpec

(***************************************************************************)
(* The only transfers under the standard requests are answers on the       *)
(* control endpoint, one at a time; no MIDI data moves.                    *)
(***************************************************************************)
THEOREM ControlTransfersOnlyAnswers == ControlSpec => []NothingTransferred
<1>1. DriverInv => NothingTransferred
  BY DEF DriverInv
<1>. QED  BY <1>1, ControlInvariant, PTL

-----------------------------------------------------------------------------
(* Answers.                                                                  *)

LEMMA Replied ==
  ASSUME DriverInv, ControlNext, reply' # reply, reply'.kind = "data"
  PROVE  /\ UNCHANGED <<initialized, state, cut, address>>
         /\ Ready(eps, Control, "in") /\ Transfer(Control)
         /\ reply'.length <= eps[Control].size
         /\ reply'.length \in Nat
  <1>1. Setup
    BY DEF ControlNext
  <1>2. PICK what \in Descriptors \cup {"status"}, length \in Nat : SendData(what, length)
    <2>1. Request
      BY <1>1 DEF Setup, Silent
    <2>2. ASSUME NEW d \in Descriptors, NEW n \in Lengths, GetDescriptor(d, n)
          PROVE  \E w \in Descriptors \cup {"status"}, l \in Nat : SendData(w, l)
      <3>1. d # "none"
        BY <2>2 DEF GetDescriptor, Stall, Stalled
      <3>2. LengthOf(d) \in Nat
        BY <3>1 DEF Descriptors, LengthOf
      <3>3. n \in Nat
        BY ControlAssumption
      <3>. QED  BY <2>2, <3>1, <3>2, <3>3 DEF GetDescriptor
    <2>3. ASSUME NEW known \in BOOLEAN, GetStatus(known)
          PROVE  SendData("status", 2)
      BY <2>3 DEF GetStatus, Stall, Stalled
    <2>4. ~Stall
      BY DEF Stall, Stalled
    <2>5. ~\E a \in Addresses : SetAddress(a)
      BY DEF SetAddress, Acknowledge, StatusSent, Silent
    <2>6. ~\E c \in Configurations : SetConfiguration(c)
      BY <2>4 DEF SetConfiguration, Acknowledge, StatusSent, Silent
    <2>7. ~\E halt \in BOOLEAN : Feature(halt)
      BY <2>4 DEF Feature, Acknowledge, StatusSent, Silent
    <2>. QED  BY <2>1, <2>2, <2>3, <2>4, <2>5, <2>6, <2>7 DEF Request
  <1>3. /\ Ready(eps, Control, "in") /\ length <= eps[Control].size
        /\ Transfer(Control) /\ reply'.length = length /\ UNCHANGED address
    BY <1>2 DEF SendData, Silent
  <1>. QED  BY <1>3 DEF Transfer

(***************************************************************************)
(* No answer carries the configuration descriptor, for any packet size     *)
(* below its length; every answer is at most one packet.                   *)
(***************************************************************************)
THEOREM ConfigurationNeverWhole ==
  ASSUME MaxPacket < 101
  PROVE  ControlSpec => []ConfigurationCut
<1>1. ControlInit => ConfigurationCut
  BY DEF ControlInit, None, ConfigurationCut
<1>2. DriverInv /\ ConfigurationCut /\ [ControlNext]_controlVars => ConfigurationCut'
  <2>. SUFFICES ASSUME DriverInv, ConfigurationCut, ControlNext, reply' # reply,
                       reply'.kind = "data"
                PROVE  /\ reply'.length <= MaxPacket
                       /\ reply'.length < 101
    BY DEF ConfigurationCut, controlVars, LengthOf
  <2>1. reply'.length \in Nat /\ reply'.length <= eps[Control].size
    BY Replied
  <2>2. eps[Control].size <= MaxPacket /\ eps[Control].size \in Nat
    BY Numbering DEF DriverInv, Layout, Table, Endpoint, Control
  <2>. QED  BY <2>1, <2>2, Arguments
<1>. QED  BY <1>1, <1>2, ControlInvariant, PTL DEF ControlSpec

(***************************************************************************)
(* After a stop has cut off an answer no request is answered with data.    *)
(***************************************************************************)
THEOREM StopSilences == ControlSpec => StopSilencesControl
<1>. DEFINE A == (Control \in cut \ InFlight /\ reply' # reply)
                 => (reply'.kind # "data")
<1>1. DriverInv /\ [ControlNext]_controlVars => [A]_controlVars
  <2>1. ASSUME DriverInv, ControlNext PROVE A
    <3>. SUFFICES ASSUME Control \in cut, reply' # reply, reply'.kind = "data"
                  PROVE  FALSE
      OBVIOUS
    <3>1. Ready(eps, Control, "in")
      BY <2>1, Replied
    <3>. QED  BY <2>1, <3>1 DEF DriverInv, CutIsBusy, Ready
  <2>. QED  BY <2>1
<1>. QED  BY <1>1, ControlInvariant, PTL DEF ControlSpec, StopSilencesControl

(***************************************************************************)
(* What a request changes in the device it never acknowledges.             *)
(***************************************************************************)
THEOREM NoEffectAcknowledged == ControlSpec => EffectsUnacknowledged
<1>. DEFINE A == reply' # reply /\ reply'.kind # "silent" => UNCHANGED Settings
<1>1. DriverInv /\ [ControlNext]_controlVars => [A]_controlVars
  <2>1. ASSUME DriverInv, ControlNext, reply' # reply, reply'.kind # "silent"
        PROVE  UNCHANGED Settings
    <3>1. CASE reply'.kind = "data"
      <4>1. UNCHANGED <<state, address>> /\ Transfer(Control)
        BY <2>1, <3>1, Replied
      <4>2. \A e \in Endpoints \ {Control} : eps'[e] = eps[e]
        <5>1. eps \in Table /\ Control \in Endpoints
          BY <2>1, Numbering DEF DriverInv, Layout, Control
        <5>. QED  BY <4>1, <5>1, BusyEntry DEF Transfer
      <4>. QED  BY <4>1, <4>2 DEF Settings
    <3>2. CASE reply'.kind # "data"
      <4>1. Setup /\ Request
        BY <2>1 DEF ControlNext, Setup, Silent
      <4>2. ASSUME Stall PROVE UNCHANGED Settings
        BY <4>2 DEF Stall, driverVars, usbVars, Settings
      <4>3. ASSUME NEW w, NEW n, SendData(w, n) PROVE FALSE
        BY <2>1, <3>2, <4>3 DEF SendData, Silent
      <4>4. ~\E a \in Addresses : SetAddress(a)
        BY <2>1 DEF SetAddress, Acknowledge, StatusSent, Silent
      <4>5. ASSUME NEW c \in Configurations, SetConfiguration(c) PROVE Stall
        BY <2>1, <4>5 DEF SetConfiguration, Acknowledge, StatusSent, Silent
      <4>6. ASSUME NEW halt \in BOOLEAN, Feature(halt) PROVE Stall
        BY <2>1, <4>6 DEF Feature, Acknowledge, StatusSent, Silent
      <4>7. ASSUME NEW d \in Descriptors, NEW n \in Lengths, GetDescriptor(d, n)
            PROVE  Stall
        BY <4>3, <4>7 DEF GetDescriptor
      <4>8. ASSUME NEW known \in BOOLEAN, GetStatus(known) PROVE Stall
        BY <4>3, <4>8 DEF GetStatus
      <4>. QED  BY <4>1, <4>2, <4>4, <4>5, <4>6, <4>7, <4>8 DEF Request
    <3>. QED  BY <3>1, <3>2
  <2>. QED  BY <2>1
<1>. QED  BY <1>1, ControlInvariant, PTL DEF ControlSpec, EffectsUnacknowledged

-----------------------------------------------------------------------------
LEMMA Flags ==
  Off.initialized = FALSE /\ On.initialized = TRUE /\ Started.initialized = TRUE
  BY DEF Off, On, Started

LEMMA Together ==
  midi = Off /\ initialized = FALSE => InStep
  BY Flags, Zenon DEF InStep

LEMMA TogetherNext ==
  /\ midi' = Off /\ initialized' = FALSE => InStep'
  /\ midi' \in {On, Started} /\ initialized' = TRUE => InStep'
  BY Flags, Zenon DEF InStep

(***************************************************************************)
(* midi.c and usb.c are initialized together, whatever is called and    *)
(* reported, so midi_init after midi_deinit is never refused.          *)
(***************************************************************************)
THEOREM AlwaysInStep == DriverSpec => []InStep
<1>1. DriverInit => InStep
  BY Together DEF DriverInit, Init
<1>2. InStep /\ [DriverNext]_driverVars => InStep'
  <2>1. ASSUME InStep, UNCHANGED <<initialized, midi>> PROVE InStep'
    BY <2>1 DEF InStep
  <2>2. ASSUME InStep, Crash PROVE InStep'
    BY <2>1, <2>2 DEF Crash, usbVars
  <2>3. ASSUME InStep, MidiInit PROVE InStep'
    BY <2>3, TogetherNext DEF MidiInit
  <2>4. ASSUME InStep, MidiDeinit PROVE InStep'
    BY <2>2, <2>4, TogetherNext DEF MidiDeinit, UsbDeinit
  <2>5. ASSUME InStep, MidiStart PROVE InStep'
    <3>1. CASE Crash
      BY <2>2, <2>5, <3>1
    <3>2. CASE UsbStart /\ midi' = Started
      <4>1. initialized' = TRUE
        BY <2>5, <3>2 DEF UsbStart, InStep
      <4>. QED  BY <3>2, <4>1, TogetherNext
    <3>. QED  BY <2>5, <3>1, <3>2 DEF MidiStart
  <2>6. ASSUME InStep, MidiStop PROVE InStep'
    <3>1. CASE Crash
      BY <2>2, <2>6, <3>1
    <3>2. CASE UsbStop /\ midi' = On
      <4>1. initialized' = TRUE
        BY <2>6, <3>2 DEF UsbStop, InStep
      <4>. QED  BY <3>2, <4>1, TogetherNext
    <3>. QED  BY <2>6, <3>1, <3>2 DEF MidiStop
  <2>7. ASSUME InStep, SendMessage \/ SendSysex PROVE InStep'
    <3>1. PICK length : Send(length)
      BY <2>7 DEF SendMessage, SendSysex
    <3>. QED  BY <2>1, <2>7, <3>1 DEF Send, Transfer, usbVars
  <2>8. ASSUME InStep, NEW new \in BusStates, ReportState(new) PROVE InStep'
    BY <2>1, <2>2, <2>8 DEF ReportState
  <2>9. ASSUME InStep, NEW e \in Endpoints, NEW ok \in BOOLEAN, ReportTransfer(e, ok)
        PROVE  InStep'
    BY <2>1, <2>2, <2>9 DEF ReportTransfer
  <2>10. ASSUME InStep, UNCHANGED driverVars PROVE InStep'
    BY <2>1, <2>10 DEF driverVars, usbVars
  <2>. QED
    BY <2>3, <2>4, <2>5, <2>6, <2>7, <2>8, <2>9, <2>10 DEF DriverNext
<1>. QED  BY <1>1, <1>2, PTL DEF DriverSpec

-----------------------------------------------------------------------------
(* The configured device.                                                    *)

BulkOpen(t) ==
  /\ t[1].enabled /\ t[1].direction = "in"
  /\ t[2].enabled /\ t[2].direction = "out"

LEMMA Untouched ==                     \* a step that leaves endpoints 1 and 2
  ASSUME ConfiguredIsOpen, UNCHANGED state,
         eps' = eps \/ (eps'[1] = eps[1] /\ eps'[2] = eps[2])
  PROVE  ConfiguredIsOpen'
  BY DEF ConfiguredIsOpen

LEMMA AnswerKeepsOpen ==
  ASSUME DriverInv, ConfiguredIsOpen,
         Transfer(Control) \/ UNCHANGED usbVars
  PROVE  ConfiguredIsOpen'
  <1>1. CASE Transfer(Control)
    <2>1. /\ eps \in Table /\ Control \in Endpoints
          /\ {1, 2} \subseteq Endpoints \ {Control}
      BY Numbering DEF DriverInv, Layout, Control
    <2>2. \A f \in Endpoints : f # Control => eps'[f] = eps[f]
      BY <1>1, <2>1, BusyEntry DEF Transfer
    <2>3. eps'[1] = eps[1] /\ eps'[2] = eps[2]
      BY <2>1, <2>2
    <2>. QED  BY <1>1, <2>3, Untouched DEF Transfer
  <1>2. CASE UNCHANGED usbVars
    BY <1>2, Untouched DEF usbVars
  <1>. QED  BY <1>1, <1>2

LEMMA DriverKeepsOpen ==
  ASSUME "configured" \notin BusStates, DriverInv, ConfiguredIsOpen, DriverNext
  PROVE  ConfiguredIsOpen'
  <1>1. ASSUME Crash PROVE ConfiguredIsOpen'
    BY <1>1, Untouched DEF Crash, usbVars
  <1>2. ASSUME state' # "configured" PROVE ConfiguredIsOpen'
    BY <1>2 DEF ConfiguredIsOpen
  <1>3. CASE MidiInit
    BY <1>2, <1>3 DEF MidiInit
  <1>4. CASE MidiDeinit \/ MidiStart \/ MidiStop
    BY <1>1, <1>2, <1>4 DEF MidiDeinit, UsbDeinit, MidiStart, UsbStart, MidiStop, UsbStop
  <1>5. CASE SendMessage \/ SendSysex
    BY <1>5, Refused, AnswerKeepsOpen
  <1>6. ASSUME NEW new \in BusStates, ReportState(new) PROVE ConfiguredIsOpen'
    <2>1. new # "configured"
      OBVIOUS
    <2>. QED  BY <1>1, <1>2, <1>6, <2>1 DEF ReportState
  <1>7. ASSUME NEW e \in Endpoints, NEW ok \in BOOLEAN, ReportTransfer(e, ok)
        PROVE  ConfiguredIsOpen'
    <2>1. e = Control /\ e # EndpointOut
      BY <1>7 DEF ReportTransfer, DriverInv, NothingTransferred, Control, EndpointOut
    <2>2. CASE ~Crash
      <3>1. eps' = Marked(eps, Control, TRUE) /\ UNCHANGED state
        BY <1>7, <2>1, <2>2 DEF ReportTransfer
      <3>2. /\ eps \in Table /\ Control \in Endpoints
            /\ {1, 2} \subseteq Endpoints \ {Control}
        BY Numbering DEF DriverInv, Layout, Control
      <3>3. \A f \in Endpoints : f # Control => eps'[f] = eps[f]
        BY <3>1, <3>2, FreedEntry
      <3>4. eps'[1] = eps[1] /\ eps'[2] = eps[2]
        BY <3>2, <3>3
      <3>. QED  BY <3>1, <3>4, Untouched
    <2>. QED  BY <1>1, <2>2
  <1>. QED
    BY <1>3, <1>4, <1>5, <1>6, <1>7 DEF DriverNext

LEMMA SetupKeepsOpen ==
  ASSUME DriverInv, ConfiguredIsOpen, Setup
  PROVE  ConfiguredIsOpen'
  <1>1. ASSUME Stall \/ UNCHANGED driverVars \/ Crash PROVE ConfiguredIsOpen'
    BY <1>1, Untouched DEF Stall, Crash, driverVars, usbVars
  <1>2. ASSUME NEW d, NEW n, SendData(d, n) PROVE ConfiguredIsOpen'
    BY <1>2, AnswerKeepsOpen DEF SendData
  <1>3. ASSUME NEW a \in Addresses, SetAddress(a) PROVE ConfiguredIsOpen'
    BY <1>3, Untouched DEF SetAddress, StatusSent
  <1>4. ASSUME NEW c \in Configurations, SetConfiguration(c) PROVE ConfiguredIsOpen'
    <2>1. CASE c > 1
      BY <1>1, <1>4, <2>1 DEF SetConfiguration
    <2>2. CASE ~(c > 1) /\ c = 0
      BY <1>4, <2>2 DEF SetConfiguration, ConfiguredIsOpen
    <2>3. CASE ~(c > 1) /\ c # 0
      <3>. DEFINE t == ForDevice(eps)
      <3>1. Calls(state', t)
        BY <1>4, <2>3 DEF SetConfiguration
      <3>2. Layout(t) /\ BulkOpen(t)
        BY ForDeviceLayout DEF DriverInv, BulkOpen
      <3>. HIDE DEF t
      <3>3. BulkOpen(eps')
        BY <3>1, <3>2, CallsEffect, Numbering DEF BulkOpen
      <3>. QED  BY <3>3 DEF BulkOpen, ConfiguredIsOpen
    <2>. QED  BY <2>1, <2>2, <2>3
  <1>5. ASSUME Request PROVE ConfiguredIsOpen'
    <2>1. ASSUME NEW d \in Descriptors, NEW n \in Lengths, GetDescriptor(d, n)
          PROVE  ConfiguredIsOpen'
      BY <1>1, <1>2, <2>1 DEF GetDescriptor
    <2>2. ASSUME NEW known \in BOOLEAN, GetStatus(known) PROVE ConfiguredIsOpen'
      BY <1>1, <1>2, <2>2 DEF GetStatus
    <2>3. ASSUME NEW halt \in BOOLEAN, Feature(halt) PROVE ConfiguredIsOpen'
      BY <1>1, <2>3 DEF Feature
    <2>. QED
      BY <1>1, <1>3, <1>4, <1>5, <2>1, <2>2, <2>3 DEF Request
  <1>. QED  BY <1>1, <1>5 DEF Setup

(***************************************************************************)
(* While only SET_CONFIGURATION makes the device configured, a configured  *)
(* device has endpoint 1 open towards the host and 2 from it.              *)
(***************************************************************************)
THEOREM ConfiguredOpens ==
  ASSUME "configured" \notin BusStates
  PROVE  ControlSpec => []ConfiguredIsOpen
<1>1. ControlInit => ConfiguredIsOpen
  BY DEF ControlInit, DriverInit, Init, ConfiguredIsOpen
<1>2. DriverInv /\ ConfiguredIsOpen /\ [ControlNext]_controlVars => ConfiguredIsOpen'
  <2>1. DriverInv /\ ConfiguredIsOpen /\ DriverNext => ConfiguredIsOpen'
    BY DriverKeepsOpen
  <2>2. DriverInv /\ ConfiguredIsOpen /\ Setup => ConfiguredIsOpen'
    BY SetupKeepsOpen
  <2>3. ConfiguredIsOpen /\ UNCHANGED controlVars => ConfiguredIsOpen'
    BY Untouched DEF controlVars, driverVars, usbVars
  <2>. QED  BY <2>1, <2>2, <2>3 DEF ControlNext
<1>. QED  BY <1>1, <1>2, ControlInvariant, PTL DEF ControlSpec

=============================================================================
