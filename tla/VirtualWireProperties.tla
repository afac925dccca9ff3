------------------------ MODULE VirtualWireProperties ------------------------
(***************************************************************************)
(* What the virtual-wire engine keeps true, whatever sequence of API calls *)
(* its users make.                                                         *)
(***************************************************************************)
EXTENDS VirtualWire, FiniteSetsExt, SequencesExt

PortIds == {ports[k].id : k \in DOMAIN ports}

PortOf(id) == CHOOSE k \in DOMAIN ports : ports[k].id = id

Route(c) == <<c.src, c.dst, c.sch, c.dch>>

EndsAt(c, id) == id \in {c.src, c.dst}

-----------------------------------------------------------------------------
(* Identities.                                                               *)

(***************************************************************************)
(* Until a counter wraps, every registered device and every connection has *)
(* an id of its own, already issued: find_device then names exactly one    *)
(* slot, and remove_connection takes away the connection it was asked to.  *)
(***************************************************************************)
DeviceIdsUnique ==
  ~wrapped.dev =>
    \A k \in DOMAIN ports :
      /\ ports[k].id < nextDev
      /\ \A l \in DOMAIN ports : ports[k].id = ports[l].id => k = l

ConnectionIdsUnique ==
  ~wrapped.conn =>
    \A k \in DOMAIN conns :
      /\ conns[k].id < nextConn
      /\ \A l \in DOMAIN conns : conns[k].id = conns[l].id => k = l

IdsUnique == DeviceIdsUnique /\ ConnectionIdsUnique

(***************************************************************************)
(* No two connections have the same end points and channels, whichever     *)
(* calls created, shifted or removed them: a message is not delivered      *)
(* twice because create_connection ran twice.                              *)
(***************************************************************************)
RoutesUnique ==
  \A k, l \in DOMAIN conns : Route(conns[k]) = Route(conns[l]) => k = l

(***************************************************************************)
(* Connections left behind by unregister_device name only ids that were    *)
(* issued, so until next_device_id wraps a device that registers starts    *)
(* without connections.                                                    *)
(***************************************************************************)
WireEndsIssued ==
  ~wrapped.dev =>
    \A k \in DOMAIN conns : conns[k].src < nextDev /\ conns[k].dst < nextDev

NoInheritedWires ==
  [][Len(ports') > Len(ports) /\ ~wrapped'.dev =>
       \A k \in DOMAIN conns : ~Touches(conns[k], ports'[Len(ports')].id)]_vars

-----------------------------------------------------------------------------
(* unregister_device and connect_all_to_all.                                 *)

(***************************************************************************)
(* While unregister_device runs, the table is the one it found without     *)
(* some connections of the departing device: the connections of the others *)
(* are all still there, in their order.  Removal by connection id and the  *)
(* shifts hit only the departing device's.                                 *)
(***************************************************************************)
UnregisterKeepsOthers ==
  call.op = "unregister" /\ ~wrapped.conn =>
    \E at \in [DOMAIN conns -> DOMAIN call.before] :  \* where each one stood
      /\ \A k, l \in DOMAIN conns : k < l => at[k] < at[l]
      /\ \A k \in DOMAIN conns : conns[k] = call.before[at[k]]
      /\ \A p \in DOMAIN call.before :
           EndsAt(call.before[p], call.id) \/ \E k \in DOMAIN conns : at[k] = p

(***************************************************************************)
(* The loop of unregister_device misses a connection only if the slot      *)
(* before it held another connection of the same device, which was         *)
(* removed: two neighbours are never both missed, so a device whose        *)
(* connections are pairwise apart in the table leaves none behind.         *)
(***************************************************************************)
UnregisterMissesOnlyNeighbours ==
  call.op = "unregister" /\ call.i > Len(conns) /\ ~wrapped.conn =>
    \A l \in DOMAIN conns : EndsAt(conns[l], call.id) =>
      \E p \in DOMAIN call.before \ {1} :
        /\ call.before[p] = conns[l]
        /\ EndsAt(call.before[p - 1], call.id)
        /\ ~Contains(conns, call.before[p - 1])

(***************************************************************************)
(* What the callers of unregister_device expect (README.md:10, devices can *)
(* be disconnected at runtime; README.md:84, the count of active           *)
(* connections): no connection of a departed device remains.               *)
(***************************************************************************)
UnregisterLeavesNoWire ==
  call.op = "unregister" /\ call.i > Len(conns) =>
    \A l \in DOMAIN conns : ~EndsAt(conns[l], call.id)

(***************************************************************************)
(* When connect_all_to_all returns, every input device is wired to every   *)
(* other output device, or the connection table is full.                   *)
(***************************************************************************)
PairConnected(i, j) ==
  \E k \in DOMAIN conns :
    SameRoute(conns[k], ports[i].id, ports[j].id, AnyChannel, AnyChannel)

AllPairsConnected ==
  \A i, j \in DOMAIN ports : PairWanted(i, j) => PairConnected(i, j)

ConnectAllReturns == call.op = "connectall" /\ call.i > Len(ports)

AllToAllUnlessFull ==
  ConnectAllReturns => AllPairsConnected \/ Len(conns) = MaxConnections

-----------------------------------------------------------------------------
(* Messages.                                                                 *)

(***************************************************************************)
(* Every message that a device's messages_sent counts is still in its tx   *)
(* buffer: the engine has no consumer of tx buffers, so after BufferSize   *)
(* messages a device accepts no more.                                      *)
(***************************************************************************)
SentStillQueued ==
  \A k \in DOMAIN ports : ports[k].sent <= Len(ports[k].tx)

(***************************************************************************)
(* No device ever has a message to receive: routing fills tx buffers only, *)
(* so process_messages finds nothing to route and counts nothing.          *)
(***************************************************************************)
NothingToReceive ==
  \A k \in DOMAIN ports : ports[k].rx = <<>> /\ ports[k].received = 0

(***************************************************************************)
(* While a device stays registered its tx buffer only grows at the end:    *)
(* unregistering another device moves its slot but not its messages.       *)
(***************************************************************************)
QueuesSurvive ==
  [][~wrapped.dev /\ initialized' =>
       \A k \in DOMAIN ports, l \in DOMAIN ports' :
         ports[k].id = ports'[l].id => IsPrefix(ports[k].tx, ports'[l].tx)]_vars

(***************************************************************************)
(* The statistics agree.  The messages that connections into a device      *)
(* count as routed were all counted as sent by it, and the global count of *)
(* filtered messages covers the counts of the connections, through         *)
(* removals and resets.                                                    *)
(***************************************************************************)
RoutedTo(id) ==
  MapThenSumSet(LAMBDA k : conns[k].routed,
                {k \in DOMAIN conns : conns[k].dst = id})

StatisticsAgree ==
  /\ MapThenSumSet(LAMBDA k : conns[k].filtered, DOMAIN conns) <= stats.filtered
  /\ ~wrapped.dev => \A k \in DOMAIN ports : RoutedTo(ports[k].id) <= ports[k].sent

(***************************************************************************)
(* A message is only ever added to the buffer of a device that is an       *)
(* output, and never past its capacity, over whatever stale connection it  *)
(* was routed.                                                             *)
(***************************************************************************)
OnlyOutputsQueue ==
  \A k \in DOMAIN ports :
    /\ Len(ports[k].tx) <= BufferSize
    /\ ports[k].tx # <<>> => ports[k].output

-----------------------------------------------------------------------------
(***************************************************************************)
(* Every call returns: the loops that remove from the table they walk end, *)
(* and so do those that route or connect everybody.                        *)
(***************************************************************************)
CallsReturn == (call # Idle) ~> (call = Idle)
=============================================================================
