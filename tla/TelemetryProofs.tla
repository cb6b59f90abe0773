--------------------------- MODULE TelemetryProofs ---------------------------
(***************************************************************************)
(* What TLAPS proves of Telemetry, for any cells, slots, readings, alarms  *)
(* and number of reconnects, and under any name of the bridge: the         *)
(* coordinator in it is Coordinator's, what it showed last is what it      *)
(* holds and is right, its counters never fall, what it announces and what *)
(* it publishes match, and its switches can be operated.                   *)
(*                                                                         *)
(* Two facts are inductions, over the size of a set (its sum does not      *)
(* depend on the order) and over the cells (what the accumulator of        *)
(* compute_cell_aggregates holds after each): both by NatSet, which says   *)
(* in terms of sets what an induction theorem says of a predicate.         *)
(***************************************************************************)
EXTENDS Telemetry, CoordinatorProofs, WellFoundedInduction, FiniteSetTheorems

-----------------------------------------------------------------------------
(* The coordinator in Telemetry is Coordinator's.                            *)

LEMMA TelemetryCoordinatorStep == [TelemetryNext]_vars => [Next]_coordinatorVars
<1>1. CASE MakeCall
  BY <1>1 DEF MakeCall, Next
<1>2. CASE HandleMqtt
  BY <1>2 DEF HandleMqtt, Next
<1>3. CASE HandleJkbms
  BY <1>3 DEF HandleJkbms, Next
<1>4. CASE Outside
  BY <1>4 DEF Outside, Next
<1>5. CASE PackChanges
  BY <1>5 DEF PackChanges
<1>6. CASE UNCHANGED vars
  BY <1>6 DEF vars
<1> QED
  BY <1>1, <1>2, <1>3, <1>4, <1>5, <1>6 DEF TelemetryNext

(* What the events carry does not change what the coordinator does with      *)
(* them: what is proved of Coordinator holds here.                           *)
THEOREM TelemetryKeepsCoordinator == TelemetrySpec => Spec
BY TelemetryCoordinatorStep, PTL DEF TelemetrySpec, TelemetryInit, Spec

LEMMA TelemetryCoordinatorInvariant == TelemetrySpec => [](TypeInv /\ FreezeInv)
BY TelemetryKeepsCoordinator, CoordinatorInvariant, PTL

-----------------------------------------------------------------------------
(* Snapshots.                                                                *)

(* The snapshot of what h holds, with the switches s and the reconnects j    *)
(* and m.                                                                    *)
SnapOf(h, s, j, m) ==
  [snapshot(h.cell_count, h.operational[1], h.raw, h.cycles, s)
     EXCEPT !.jkbms_reconnect_count = j, !.mqtt_reconnect_count = m]

LEMMA SnapshotFields ==
  ASSUME NEW h, NEW s, NEW j, NEW m
  PROVE  LET x == SnapOf(h, s, j, m)
         IN /\ x.switches = s
            /\ x.jkbms_reconnect_count = j
            /\ x.mqtt_reconnect_count = m
            /\ x.power_cycle_count = h.cycles
BY DEF SnapOf, snapshot

(* Two snapshots of the same data differ in nothing but these.               *)
SameBut(fields, x, y) == \A f \in DOMAIN x \ fields : y[f] = x[f]

LEMMA SameData ==
  ASSUME NEW h, NEW s, NEW j, NEW m, NEW s2, NEW j2, NEW m2
  PROVE  SameBut({"jkbms_reconnect_count", "mqtt_reconnect_count", "switches"},
                 SnapOf(h, s, j, m), SnapOf(h, s2, j2, m2))
<1> SUFFICES ASSUME NEW f \in DOMAIN SnapOf(h, s, j, m)
                               \ {"jkbms_reconnect_count", "mqtt_reconnect_count", "switches"}
             PROVE  SnapOf(h, s2, j2, m2)[f] = SnapOf(h, s, j, m)[f]
  BY DEF SameBut
<1> DEFINE x == snapshot(h.cell_count, h.operational[1], h.raw, h.cycles, s)
           y == snapshot(h.cell_count, h.operational[1], h.raw, h.cycles, s2)
<1>1. DOMAIN x = DOMAIN y /\ \A k \in DOMAIN x \ {"switches"} : x[k] = y[k]
  <2>1. /\ DOMAIN x = {"operational", "battery_capacity_ah", "total_runtime_s",
                       "total_runtime", "cell_voltages_v", "cell_resistances_ohm",
                       "cell_aggregates", "alarm_list", "power_cycle_count", "switches",
                       "jkbms_reconnect_count", "mqtt_reconnect_count"}
        /\ DOMAIN y = DOMAIN x
    BY DEF snapshot
  <2>2. /\ x.operational = y.operational
        /\ x.battery_capacity_ah = y.battery_capacity_ah
        /\ x.total_runtime_s = y.total_runtime_s
        /\ x.total_runtime = y.total_runtime
        /\ x.cell_voltages_v = y.cell_voltages_v
        /\ x.cell_resistances_ohm = y.cell_resistances_ohm
        /\ x.cell_aggregates = y.cell_aggregates
        /\ x.alarm_list = y.alarm_list
        /\ x.power_cycle_count = y.power_cycle_count
        /\ x.jkbms_reconnect_count = y.jkbms_reconnect_count
        /\ x.mqtt_reconnect_count = y.mqtt_reconnect_count
    BY DEF snapshot
  <2> HIDE DEF x, y
  <2> QED
    BY <2>1, <2>2
<1>2. /\ SnapOf(h, s, j, m) =
           [x EXCEPT !.jkbms_reconnect_count = j, !.mqtt_reconnect_count = m]
      /\ SnapOf(h, s2, j2, m2) =
           [y EXCEPT !.jkbms_reconnect_count = j2, !.mqtt_reconnect_count = m2]
  BY DEF SnapOf
<1> HIDE DEF x, y
<1>3. f \in DOMAIN x
  BY <1>2
<1>4. SnapOf(h, s, j, m)[f] = x[f] /\ SnapOf(h, s2, j2, m2)[f] = y[f]
  BY <1>1, <1>2, <1>3
<1> QED
  BY <1>1, <1>3, <1>4

-----------------------------------------------------------------------------
(* The invariant.  The counts only grow, and the snapshot shown last was     *)
(* made of counts that are not above those held; when no snapshot is still   *)
(* to be published, it was made of exactly what is held, and every switch    *)
(* that was never requested is in it as it was read.                         *)

HeldOK ==
  \E n, op, raw : \E cycles \in {0, POWER_CYCLES} :
    held = [cell_count |-> n, operational |-> op, raw |-> raw, cycles |-> cycles]

CountsOK == reconnects \in [Sides -> 0 .. MAX_COUNT]

UpToDate == SnapshotParts \subseteq have /\ ~SnapshotDue

ShownWas(h, s, j, m) ==
  /\ shown = <<SnapOf(h, s, j, m)>>
  /\ j \in 0 .. reconnects["jkbms"]
  /\ m \in 0 .. reconnects["mqtt"]
  /\ h.cycles \in 0 .. held.cycles
  /\ UpToDate => h = held /\ \A w \in Switches : RequestsOf(w) = {} => s[w] = config[w]

ShownOK ==
  \/ NoSnapshot /\ ~UpToDate
  \/ \E h, s, j, m : ShownWas(h, s, j, m)

DataInv == HeldOK /\ CountsOK /\ ShownOK

LEMMA DataInit == TelemetryInit => DataInv
<1> SUFFICES ASSUME TelemetryInit PROVE DataInv
  OBVIOUS
<1>1. HeldOK
  BY DEF TelemetryInit, Nothing, HeldOK
<1>2. CountsOK
  BY TelemetryAssumption DEF TelemetryInit, CountsOK, TelemetryAssumption
<1>3. NoSnapshot /\ ~UpToDate
  BY DEF TelemetryInit, Init, NoSnapshot, UpToDate, SnapshotParts
<1> QED
  BY <1>1, <1>2, <1>3 DEF DataInv, ShownOK

(* A step that publishes no snapshot.                                        *)
LEMMA ShownKept ==
  ASSUME DataInv, HeldOK', CountsOK', shown' = shown,
         \A side \in Sides : reconnects[side] <= reconnects'[side],
         held.cycles <= held'.cycles,
         UpToDate' => /\ UpToDate
                      /\ held' = held /\ config' = config
                      /\ \A w \in Switches : RequestsOf(w)' = {} => RequestsOf(w) = {}
  PROVE  ShownOK'
<1>1. CASE NoSnapshot /\ ~UpToDate
  BY <1>1 DEF ShownOK, NoSnapshot
<1>2. CASE \E h, s, j, m : ShownWas(h, s, j, m)
  <2>1. PICK h, s, j, m : ShownWas(h, s, j, m)
    BY <1>2
  <2>2. /\ held.cycles \in Nat /\ held'.cycles \in Nat
        /\ \A side \in Sides : reconnects[side] \in Nat /\ reconnects'[side] \in Nat
    BY TelemetryAssumption DEF DataInv, HeldOK, CountsOK, TelemetryAssumption
  <2>3. j \in 0 .. reconnects'["jkbms"] /\ m \in 0 .. reconnects'["mqtt"]
    BY <2>1, <2>2 DEF ShownWas, Sides
  <2>4. h.cycles \in 0 .. held'.cycles
    BY <2>1, <2>2 DEF ShownWas
  <2>5. UpToDate' =>
          h = held' /\ \A w \in Switches : RequestsOf(w)' = {} => s[w] = config'[w]
    BY <2>1 DEF ShownWas
  <2>6. ShownWas(h, s, j, m)'
    BY <2>1, <2>3, <2>4, <2>5 DEF ShownWas
  <2> QED
    BY <2>6 DEF ShownOK
<1> QED
  BY <1>1, <1>2 DEF DataInv, ShownOK

(* A switch that was never requested is not frozen.                          *)
LEMMA UnrequestedAsRead ==
  ASSUME FreezeInv
  PROVE  \A w \in Switches : RequestsOf(w) = {} => SwitchesShown(config, freeze)[w] = config[w]
<1> TAKE w \in Switches
<1> HAVE RequestsOf(w) = {}
<1>1. freeze[w] = Unfrozen
  BY DEF FreezeInv, FrozenSwitch, NewestAwaited
<1> QED
  BY <1>1 DEF SwitchesShown, Frozen, Unfrozen

(* MakeCall with a snapshot: it is the one of what is held.                  *)
LEMMA CallIsCurrent ==
  ASSUME TypeInv, FreezeInv, MakeCall, Head(outbox).type = "PublishSnapshot"
  PROVE  \E s : /\ shown' = <<SnapOf(held, s, reconnects["jkbms"], reconnects["mqtt"])>>
                /\ \A w \in Switches : RequestsOf(w) = {} => s[w] = config[w]
<1> DEFINE x == SwitchesShown(config, freeze)
<1>1. Head(outbox) = Snapshot(x)
  <2>1. outbox \in Seq(CallsShowing(have, x)) /\ outbox # <<>>
    BY DEF TypeInv, OutboxOK, Saying, MakeCall, CallTaken
  <2> HIDE DEF x
  <2>2. Head(outbox) \in CallsShowing(have, x)
    BY <2>1
  <2> QED
    BY <2>2 DEF CallsShowing, Subscribe, Discovery, Availability
<1>2. shown' = <<SnapOf(held, x, reconnects["jkbms"], reconnects["mqtt"])>>
  <2>1. Head(outbox).switches = x
    BY <1>1 DEF Snapshot
  <2>2. shown' = <<build_snapshot(Head(outbox).switches)>>
    BY DEF MakeCall
  <2> QED
    BY <2>1, <2>2 DEF build_snapshot, SnapOf
<1>3. \A w \in Switches : RequestsOf(w) = {} => x[w] = config[w]
  BY UnrequestedAsRead
<1> QED
  BY <1>2, <1>3

LEMMA CallData ==
  ASSUME TypeInv, FreezeInv, DataInv, MakeCall
  PROVE  DataInv'
<1>1. /\ UNCHANGED <<have, config, request, held, reconnects>>
      /\ outbox # <<>> /\ outbox' = Tail(outbox)
  BY DEF MakeCall, CallTaken, coordVars, dataVars, counterVars
<1>2. HeldOK' /\ CountsOK'
  BY <1>1 DEF DataInv, HeldOK, CountsOK
<1>3. CASE Head(outbox).type = "PublishSnapshot"
  <2>1. PICK s : /\ shown' = <<SnapOf(held, s, reconnects["jkbms"], reconnects["mqtt"])>>
                 /\ \A w \in Switches : RequestsOf(w) = {} => s[w] = config[w]
    BY <1>3, CallIsCurrent
  <2>2. PICK h, j, m : h = held /\ j = reconnects["jkbms"] /\ m = reconnects["mqtt"]
    OBVIOUS
  <2>3. j \in 0 .. reconnects'["jkbms"] /\ m \in 0 .. reconnects'["mqtt"]
    BY <1>1, <2>2, TelemetryAssumption DEF DataInv, CountsOK, TelemetryAssumption, Sides
  <2>4. h.cycles \in 0 .. held'.cycles
    BY <1>1, <2>2, TelemetryAssumption DEF DataInv, HeldOK, TelemetryAssumption
  <2>5. \A w : RequestsOf(w)' = RequestsOf(w)
    BY <1>1 DEF RequestsOf
  <2>6. ShownWas(h, s, j, m)'
    BY <1>1, <2>1, <2>2, <2>3, <2>4, <2>5 DEF ShownWas
  <2> QED
    BY <1>2, <2>6 DEF DataInv, ShownOK
<1>4. CASE Head(outbox).type # "PublishSnapshot"
  <2>1. shown' = shown
    BY <1>4 DEF MakeCall
  <2>2. SnapshotDue => SnapshotDue'
    <3>1. Range(outbox) = {Head(outbox)} \union Range(Tail(outbox))
      <4>1. PICK S : outbox \in Seq(S)
        BY DEF TypeInv, OutboxOK, Saying
      <4> QED
        BY <1>1, <4>1, QueueTail
    <3> QED
      BY <1>1, <1>4, <3>1 DEF SnapshotDue
  <2>3. UpToDate' => UpToDate
    BY <1>1, <2>2 DEF UpToDate
  <2>4. \A w : RequestsOf(w)' = RequestsOf(w)
    BY <1>1 DEF RequestsOf
  <2>5. /\ \A side \in Sides : reconnects[side] <= reconnects'[side]
        /\ held.cycles <= held'.cycles
    BY <1>1, TelemetryAssumption DEF DataInv, HeldOK, CountsOK, TelemetryAssumption
  <2>6. ShownOK'
    BY <1>1, <1>2, <2>1, <2>3, <2>4, <2>5, ShownKept
  <2> QED
    BY <1>2, <2>6 DEF DataInv
<1> QED
  BY <1>3, <1>4

LEMMA Counted ==
  ASSUME CountsOK, NEW side \in Sides, CountConnection(side)
  PROVE  CountsOK' /\ \A x \in Sides : reconnects[x] <= reconnects'[x]
<1>1. \A n \in 0 .. MAX_COUNT : saturating_add(n) \in 0 .. MAX_COUNT /\ n <= saturating_add(n)
  BY TelemetryAssumption DEF saturating_add, TelemetryAssumption
<1>2. \A x \in Sides : /\ reconnects[x] \in 0 .. MAX_COUNT
                       /\ reconnects'[x] = reconnects[x]
                            \/ reconnects'[x] = saturating_add(reconnects[x])
  BY DEF CountsOK, CountConnection
<1>3. \A x \in Sides : reconnects[x] <= reconnects'[x] /\ reconnects'[x] \in 0 .. MAX_COUNT
  BY <1>1, <1>2, TelemetryAssumption DEF TelemetryAssumption
<1>4. reconnects' = [x \in Sides |-> reconnects'[x]]
  BY DEF CountsOK, CountConnection
<1>5. CountsOK'
  BY <1>3, <1>4 DEF CountsOK
<1> QED
  BY <1>3, <1>5

LEMMA NothingPending == outbox = <<>> => ~SnapshotDue
<1>1. Range(<<>>) = {}
  BY DEF Range
<1> QED
  BY <1>1 DEF SnapshotDue

LEMMA MqttData ==
  ASSUME TypeInv, DataInv, HandleMqtt
  PROVE  DataInv'
<1>1. /\ outbox = <<>> /\ UNCHANGED <<have, config, held, shown>>
      /\ \/ UNCHANGED request
         \/ \E r \in [switch : Switches, value : Values] : request' = Append(request, r)
  <2>1. CASE RecvBrokerConnected \/ RecvBrokerDisconnected
    BY <2>1 DEF HandleMqtt, RecvBrokerConnected, RecvBrokerDisconnected, RecvMqtt,
                dataVars, viewVars
  <2>2. CASE RecvIncoming
    <3>1. PICK v : v = [switch |-> mqtt_events[1].switch, value |-> mqtt_events[1].value]
      OBVIOUS
    <3>2. request' = Append(request, v) /\ v \in [switch : Switches, value : Values]
      BY <2>2, <3>1, IncomingTaken
    <3> QED
      BY <2>2, <3>2 DEF HandleMqtt, RecvIncoming, RecvMqtt, dataVars, viewVars
  <2> QED
    BY <2>1, <2>2 DEF HandleMqtt, MqttEvent
<1>2. \A w : RequestsOf(w)' = {} => RequestsOf(w) = {}
  <2>1. CASE UNCHANGED request
    BY <2>1 DEF RequestsOf
  <2>2. CASE \E r \in [switch : Switches, value : Values] : request' = Append(request, r)
    <3>1. PICK r \in [switch : Switches, value : Values] : request' = Append(request, r)
      BY <2>2
    <3>2. /\ request \in Seq([switch : Switches, value : Values])
          /\ Len(request) \in Nat
      BY LenProperties DEF TypeInv, SeqTypeOK
    <3>3. /\ \A k \in 1 .. Len(request) : request'[k] = request[k]
          /\ DOMAIN request = 1 .. Len(request)
          /\ DOMAIN request' = 1 .. (Len(request) + 1)
      BY <3>1, <3>2, AppendProperties, LenProperties
    <3> QED
      BY <3>2, <3>3 DEF RequestsOf
  <2> QED
    BY <1>1, <2>1, <2>2
<1>3. CountsOK' /\ \A side \in Sides : reconnects[side] <= reconnects'[side]
  <2>1. CountsOK
    BY DEF DataInv
  <2>2. CountConnection("mqtt") \/ UNCHANGED reconnects
    BY DEF HandleMqtt, counterVars
  <2>3. CASE CountConnection("mqtt")
    BY <2>1, <2>3, Counted DEF Sides
  <2>4. CASE UNCHANGED reconnects
    BY <2>1, <2>4, TelemetryAssumption DEF CountsOK, TelemetryAssumption
  <2> QED
    BY <2>2, <2>3, <2>4
<1>4. HeldOK' /\ held.cycles <= held'.cycles
  <2>1. HeldOK' /\ held.cycles \in {0, POWER_CYCLES}
    <3>1. HeldOK
      BY DEF DataInv
    <3>2. PICK n, op, raw : \E cycles \in {0, POWER_CYCLES} :
            held = [cell_count |-> n, operational |-> op, raw |-> raw, cycles |-> cycles]
      BY <3>1 DEF HeldOK
    <3>3. held' = held
      BY <1>1
    <3>4. HeldOK'
      BY <3>2, <3>3 DEF HeldOK
    <3>5. held.cycles \in {0, POWER_CYCLES}
      BY <3>2
    <3> QED
      BY <3>4, <3>5
  <2> QED
    BY <1>1, <2>1, TelemetryAssumption DEF TelemetryAssumption
<1>5. UpToDate' => UpToDate
  BY <1>1, NothingPending DEF UpToDate
<1>6. ShownOK'
  BY <1>1, <1>2, <1>3, <1>4, <1>5, ShownKept
<1> QED
  BY <1>3, <1>4, <1>6 DEF DataInv

(* handle_jkbms_event ends with a snapshot as soon as its parts are held.    *)
LEMMA TailIsPending ==
  ASSUME PublishTail(have', config', freeze'), SnapshotParts \subseteq have'
  PROVE  SnapshotDue'
<1> DEFINE e == Snapshot(SwitchesShown(config', freeze'))
           S == {Discovery, e}
<1>1. PICK p \in Seq(S) : outbox' = p \o <<e>>
  <2>1. SnapshotIfAny(have', config', freeze') = <<e>>
    BY DEF SnapshotIfAny
  <2> HIDE DEF e
  <2>2. <<>> \in Seq(S) /\ <<Discovery>> \in Seq(S)
    OBVIOUS
  <2> QED
    BY <2>1, <2>2 DEF PublishTail
<1>2. e.type = "PublishSnapshot"
  BY DEF Snapshot
<1> HIDE DEF e
<1>3. <<e>> \in Seq(S) /\ <<e>> # <<>> /\ Len(<<e>>) = 1 /\ <<e>>[1] = e
  OBVIOUS
<1>4. /\ p \o <<e>> \in Seq(S) /\ p \o <<e>> # <<>>
      /\ (p \o <<e>>)[Len(p \o <<e>>)] = e
  BY <1>3, ConcatEnds, ConcatProperties
<1>5. e \in Range(p \o <<e>>)
  <2> DEFINE q == p \o <<e>>
  <2>1. q \in Seq(S) /\ q # <<>> /\ q[Len(q)] = e
    BY <1>4
  <2> HIDE DEF q
  <2>2. Len(q) \in DOMAIN q
    BY <2>1, LenProperties, EmptySeq
  <2> QED
    BY <2>1, <2>2 DEF Range, q
<1> QED
  BY <1>1, <1>2, <1>5 DEF SnapshotDue

LEMMA HeldGrows ==
  ASSUME HeldOK, NEW e, held' \in HeldAfter(e)
  PROVE  HeldOK' /\ held.cycles <= held'.cycles
<1>1. PICK n, op, raw : \E cycles \in {0, POWER_CYCLES} :
        held = [cell_count |-> n, operational |-> op, raw |-> raw, cycles |-> cycles]
  BY DEF HeldOK
<1>2. PICK cycles \in {0, POWER_CYCLES} :
        held = [cell_count |-> n, operational |-> op, raw |-> raw, cycles |-> cycles]
  BY <1>1
<1>3. PICK n2, op2, raw2 : \E c \in {cycles, POWER_CYCLES} :
        held' = [cell_count |-> n2, operational |-> op2, raw |-> raw2, cycles |-> c]
  <2>1. held' = held \/ \E d : held' \in Set(d)
    <3>1. HeldAfter(e) \in {{held}, Set(e.of), Set("ConfigOptions")}
      BY DEF HeldAfter
    <3> QED
      BY <3>1
  <2>2. CASE held' = held
    BY <1>2, <2>2
  <2>3. CASE \E d : held' \in Set(d)
    <3>1. \/ held' = [held EXCEPT !.cycles = POWER_CYCLES]
          \/ held' = [held EXCEPT !.cell_count = CellCount(pack)]
          \/ \E op2 : held' = [held EXCEPT !.operational = <<op2>>]
          \/ \E raw2 : held' = [held EXCEPT !.raw = raw2]
      BY <2>3 DEF Set
    <3> QED
      BY <1>2, <3>1
  <2> QED
    BY <2>1, <2>2, <2>3
<1>4. PICK c \in {cycles, POWER_CYCLES} :
        held' = [cell_count |-> n2, operational |-> op2, raw |-> raw2, cycles |-> c]
  BY <1>3
<1>5. HeldOK'
  BY <1>4 DEF HeldOK
<1>6. held.cycles = cycles /\ held'.cycles = c
  BY <1>2, <1>4
<1> QED
  BY <1>5, <1>6, TelemetryAssumption DEF TelemetryAssumption

LEMMA JkbmsData ==
  ASSUME TypeInv, DataInv, HandleJkbms
  PROVE  DataInv'
<1> DEFINE e == Head(jkbms_events)
<1>1. /\ outbox = <<>> /\ held' \in HeldAfter(e) /\ shown' = shown
      /\ CountConnection("jkbms") \/ UNCHANGED reconnects
      /\ UNCHANGED request
  BY DEF HandleJkbms, viewVars, counterVars, JkbmsEvent, RecvConnection, RecvData,
         RecvWriteConfirmation, RecvWriteError, RecvJkbms
<1>2. HeldOK' /\ held.cycles <= held'.cycles
  <2> HIDE DEF e
  <2> QED
    BY <1>1, HeldGrows DEF DataInv
<1>3. CountsOK' /\ \A side \in Sides : reconnects[side] <= reconnects'[side]
  <2>1. CountsOK
    BY DEF DataInv
  <2>2. CASE CountConnection("jkbms")
    BY <2>1, <2>2, Counted DEF Sides
  <2>3. CASE UNCHANGED reconnects
    BY <2>1, <2>3, TelemetryAssumption DEF CountsOK, TelemetryAssumption
  <2> QED
    BY <1>1, <2>2, <2>3
<1>4. UpToDate' => UpToDate /\ held' = held /\ config' = config
  <2>1. CASE RecvConnection
    <3>1. held' = held
      BY <1>1, <2>1 DEF RecvConnection, HeldAfter
    <3> QED
      BY <1>1, <2>1, <3>1, NothingPending DEF RecvConnection, UpToDate
  <2>2. CASE RecvData \/ RecvWriteConfirmation \/ RecvWriteError
    <3>1. PublishTail(have', config', freeze')
      BY <2>2 DEF RecvData, RecvWriteConfirmation, RecvWriteError, PublishTail
    <3> QED
      BY <3>1, TailIsPending DEF UpToDate
  <2> QED
    BY <2>1, <2>2 DEF HandleJkbms, JkbmsEvent
<1>5. \A w : RequestsOf(w)' = RequestsOf(w)
  BY <1>1 DEF RequestsOf
<1>6. ShownOK'
  BY <1>1, <1>2, <1>3, <1>4, <1>5, ShownKept
<1> QED
  BY <1>2, <1>3, <1>6 DEF DataInv

(* The environment changes nothing of this.                                  *)
LEMMA OutsideKeeps ==
  Outside \/ PackChanges \/ UNCHANGED vars =>
    UNCHANGED <<outbox, have, config, request, held, reconnects, shown>>
<1>1. Outside => UNCHANGED <<outbox, have, config, request, held, reconnects, shown>>
  BY DEF Outside, BmsSide, MqttSide, EmitData, EmitLink, EmitConfirmation, EmitError,
         BrokerConnects, BrokerDrops, HaRequests, Emit, Notify, coordVars, dataVars,
         counterVars, viewVars
<1> QED
  BY <1>1 DEF PackChanges, vars, coordinatorVars, coordVars, dataVars, counterVars, viewVars

LEMMA DataStep ==
  TypeInv /\ FreezeInv /\ DataInv /\ [TelemetryNext]_vars => DataInv'
<1> SUFFICES ASSUME TypeInv, FreezeInv, DataInv, [TelemetryNext]_vars
             PROVE  DataInv'
  OBVIOUS
<1>1. CASE MakeCall
  BY <1>1, CallData
<1>2. CASE HandleMqtt
  BY <1>2, MqttData
<1>3. CASE HandleJkbms
  BY <1>3, JkbmsData
<1>4. CASE Outside \/ PackChanges \/ UNCHANGED vars
  <2>1. UNCHANGED <<outbox, have, config, request, held, reconnects, shown>>
    BY <1>4, OutsideKeeps
  <2>2. HeldOK' /\ CountsOK'
    BY <2>1 DEF DataInv, HeldOK, CountsOK
  <2>3. UpToDate' <=> UpToDate
    BY <2>1 DEF UpToDate, SnapshotDue
  <2>4. \A w : RequestsOf(w)' = RequestsOf(w)
    BY <2>1 DEF RequestsOf
  <2>5. \A h, s, j, m : ShownWas(h, s, j, m)' <=> ShownWas(h, s, j, m)
    BY <2>1, <2>3, <2>4 DEF ShownWas
  <2>6. ShownOK'
    BY <2>1, <2>3, <2>5 DEF DataInv, ShownOK, NoSnapshot
  <2> QED
    BY <2>2, <2>6 DEF DataInv
<1> QED
  BY <1>1, <1>2, <1>3, <1>4 DEF TelemetryNext

LEMMA DataInvariant == TelemetrySpec => [](TypeInv /\ FreezeInv /\ DataInv)
BY TelemetryCoordinatorInvariant, DataInit, DataStep, PTL DEF TelemetrySpec

-----------------------------------------------------------------------------
(* When the coordinator has done with an event, what it published last is    *)
(* what it holds (handle_jkbms_event, build_snapshot): no path through its   *)
(* handlers takes in a fragment and leaves Home Assistant with the one       *)
(* before.                                                                   *)
THEOREM ShowsWhatItHolds == TelemetrySpec => []ShownIsHeld
<1>1. FreezeInv /\ DataInv => ShownIsHeld
  <2> SUFFICES ASSUME FreezeInv, DataInv, outbox = <<>>, SnapshotParts \subseteq have
               PROVE  /\ ~NoSnapshot
                      /\ LET now == build_snapshot(SwitchesShown(config, freeze))
                         IN /\ \A f \in DOMAIN now \ {"jkbms_reconnect_count",
                                                      "mqtt_reconnect_count", "switches"} :
                                 shown[1][f] = now[f]
                            /\ \A w \in Switches :
                                 RequestsOf(w) = {} => shown[1].switches[w] = now.switches[w]
    BY DEF ShownIsHeld
  <2>1. UpToDate
    BY NothingPending DEF UpToDate
  <2>2. PICK h, s, j, m : ShownWas(h, s, j, m)
    BY <2>1 DEF DataInv, ShownOK
  <2>3. /\ h = held /\ shown = <<SnapOf(h, s, j, m)>>
        /\ \A w \in Switches : RequestsOf(w) = {} => s[w] = config[w]
    BY <2>1, <2>2 DEF ShownWas
  <2> DEFINE x == SwitchesShown(config, freeze)
             j2 == reconnects["jkbms"]
             m2 == reconnects["mqtt"]
  <2>4. build_snapshot(x) = SnapOf(h, x, j2, m2)
    BY <2>3 DEF build_snapshot, SnapOf
  <2>5. \A w \in Switches : RequestsOf(w) = {} => x[w] = config[w]
    BY UnrequestedAsRead
  <2> HIDE DEF x, j2, m2
  <2>6. /\ shown[1] = SnapOf(h, s, j, m) /\ shown # <<>>
        /\ SnapOf(h, s, j, m).switches = s /\ SnapOf(h, x, j2, m2).switches = x
    BY <2>3, SnapshotFields
  <2>7. SameBut({"jkbms_reconnect_count", "mqtt_reconnect_count", "switches"},
                SnapOf(h, x, j2, m2), SnapOf(h, s, j, m))
    BY SameData
  <2>8. ~NoSnapshot
    BY <2>6 DEF NoSnapshot
  <2> QED
    BY <2>3, <2>4, <2>5, <2>6, <2>7, <2>8 DEF SameBut, x
<1> QED
  BY <1>1, DataInvariant, PTL

(* No counter in what is published ever falls, at the largest value either   *)
(* (saturating_add in run), nor does one start again when the device info    *)
(* comes after the first snapshot.                                           *)
THEOREM CountersMonotone == TelemetrySpec => CountersNeverFall
<1>1. TypeInv /\ FreezeInv /\ DataInv /\ [TelemetryNext]_vars =>
        [~NoSnapshot => \A i \in 1 .. 3 : Count(shown[1])[i] <= Count(shown'[1])[i]]_shown
  <2> SUFFICES ASSUME TypeInv, FreezeInv, DataInv, [TelemetryNext]_vars,
                      shown' # shown, ~NoSnapshot, NEW i \in 1 .. 3
               PROVE  Count(shown[1])[i] <= Count(shown'[1])[i]
    OBVIOUS
  <2>1. MakeCall
    BY OutsideKeeps DEF TelemetryNext, HandleMqtt, HandleJkbms, viewVars
  <2>2. PICK s2 : shown' = <<SnapOf(held, s2, reconnects["jkbms"], reconnects["mqtt"])>>
    BY <2>1, CallIsCurrent DEF MakeCall
  <2>3. PICK h, s, j, m : ShownWas(h, s, j, m)
    BY DEF DataInv, ShownOK
  <2>4. /\ shown[1] = SnapOf(h, s, j, m)
        /\ shown'[1] = SnapOf(held, s2, reconnects["jkbms"], reconnects["mqtt"])
    BY <2>2, <2>3 DEF ShownWas
  <2>5. /\ Count(shown[1]) = <<j, m, h.cycles>>
        /\ Count(shown'[1]) = <<reconnects["jkbms"], reconnects["mqtt"], held.cycles>>
    BY <2>4, SnapshotFields DEF Count
  <2>6. j <= reconnects["jkbms"] /\ m <= reconnects["mqtt"] /\ h.cycles <= held.cycles
    BY <2>3 DEF ShownWas
  <2> QED
    BY <2>5, <2>6
<1> QED
  BY <1>1, DataInvariant, PTL DEF TelemetrySpec, CountersNeverFall

-----------------------------------------------------------------------------
(* Induction, for a set of numbers.                                          *)
LEMMA NatSet ==
  ASSUME NEW S \in SUBSET Nat, 0 \in S, \A n \in S : n + 1 \in S
  PROVE  S = Nat
<1> SUFFICES ASSUME Nat \ S # {} PROVE FALSE
  OBVIOUS
<1>1. PICK m \in Nat \ S : \A k \in Nat \ S : ~ (<<k, m>> \in OpToRel(<, Nat))
  BY NatLessThanWellFounded, WFMin, Nat \ S \subseteq Nat
<1>2. m \in Nat /\ m # 0 /\ m - 1 \in Nat
  OBVIOUS
<1>3. m - 1 \in S
  <2>1. <<m - 1, m>> \in OpToRel(<, Nat)
    BY <1>2 DEF OpToRel
  <2> QED
    BY <1>1, <1>2, <2>1
<1>4. (m - 1) + 1 \in S
  BY <1>3
<1>5. (m - 1) + 1 = m
  BY <1>2
<1> QED
  BY <1>1, <1>4, <1>5

(* The sum of v over T, and the function it is the value of.                 *)
Total(v, T) == MapThenSumSet(LAMBDA i : v[i], T)

OneOf(S) == CHOOSE x \in S : TRUE

AddsUp(F, v, T) ==
  F = [S \in SUBSET T |-> IF S = {} THEN 0 ELSE v[OneOf(S)] + F[S \ {OneOf(S)}]]

LEMMA SumIsChoice ==
  ASSUME NEW v, NEW T
  PROVE  Total(v, T) = (CHOOSE F : AddsUp(F, v, T))[T]
BY DEF Total, AddsUp, OneOf, MapThenSumSet, MapThenFoldSet

(* Of the subsets of at most n elements.                                     *)
AddsUpTo(F, v, T, n) ==
  F = [S \in {x \in SUBSET T : Cardinality(x) <= n} |->
         IF S = {} THEN 0 ELSE v[OneOf(S)] + F[S \ {OneOf(S)}]]

LEMMA OneLess ==
  ASSUME NEW S, IsFiniteSet(S), S # {}
  PROVE  /\ OneOf(S) \in S /\ S \ {OneOf(S)} \subseteq S
         /\ IsFiniteSet(S \ {OneOf(S)})
         /\ Cardinality(S) \in Nat \ {0}
         /\ Cardinality(S \ {OneOf(S)}) = Cardinality(S) - 1
<1>1. OneOf(S) \in S
  BY DEF OneOf
<1>2. Cardinality(S) \in Nat /\ Cardinality(S) # 0
  BY FS_CardinalityType, FS_EmptySet
<1> QED
  BY <1>1, <1>2, FS_RemoveElement

LEMMA SumExists ==
  ASSUME NEW v, NEW T, IsFiniteSet(T)
  PROVE  \E F : AddsUp(F, v, T)
<1> DEFINE N == {n \in Nat : \E F : AddsUpTo(F, v, T, n)}
<1>0. \A S \in SUBSET T : IsFiniteSet(S) /\ Cardinality(S) \in Nat
  BY FS_Subset, FS_CardinalityType
<1>1. 0 \in N
  <2> DEFINE F == [S \in {x \in SUBSET T : Cardinality(x) <= 0} |-> 0]
  <2>1. \A S \in SUBSET T : Cardinality(S) <= 0 => S = {}
    BY <1>0, FS_EmptySet
  <2>2. AddsUpTo(F, v, T, 0)
    BY <2>1 DEF AddsUpTo
  <2> QED
    BY <2>2
<1>2. \A n \in N : n + 1 \in N
  <2> TAKE n \in N
  <2>1. PICK F : AddsUpTo(F, v, T, n)
    OBVIOUS
  <2> DEFINE D == {x \in SUBSET T : Cardinality(x) <= n + 1}
             G == [S \in D |-> IF S = {} THEN 0 ELSE v[OneOf(S)] + F[S \ {OneOf(S)}]]
  <2>2. n \in Nat
    OBVIOUS
  <2>3. ASSUME NEW S \in D, Cardinality(S) <= n PROVE G[S] = F[S]
    BY <2>1, <2>3 DEF AddsUpTo
  <2>4. ASSUME NEW S \in D, S # {}
        PROVE  F[S \ {OneOf(S)}] = G[S \ {OneOf(S)}]
    <3>1. /\ Cardinality(S) \in Nat \ {0} /\ S \ {OneOf(S)} \subseteq S
          /\ Cardinality(S \ {OneOf(S)}) = Cardinality(S) - 1
      BY <1>0, <2>4, OneLess
    <3>2. S \ {OneOf(S)} \in D /\ Cardinality(S \ {OneOf(S)}) <= n
      BY <2>2, <3>1
    <3> HIDE DEF G
    <3> QED
      BY <2>3, <3>2
  <2>5. AddsUpTo(G, v, T, n + 1)
    <3> HIDE DEF G
    <3>1. G = [S \in D |-> IF S = {} THEN 0 ELSE v[OneOf(S)] + F[S \ {OneOf(S)}]]
      BY DEF G
    <3>2. G = [S \in D |-> IF S = {} THEN 0 ELSE v[OneOf(S)] + G[S \ {OneOf(S)}]]
      BY <2>4, <3>1
    <3> QED
      BY <3>2 DEF AddsUpTo
  <2> HIDE DEF G
  <2> QED
    BY <2>2, <2>5
<1>3. N = Nat
  <2> HIDE DEF N
  <2>1. N \in SUBSET Nat
    BY DEF N
  <2> QED
    BY <1>1, <1>2, <2>1, NatSet
<1>4. Cardinality(T) \in Nat /\ \A S \in SUBSET T : Cardinality(S) <= Cardinality(T)
  BY FS_CardinalityType, FS_Subset
<1>5. PICK F : AddsUpTo(F, v, T, Cardinality(T))
  BY <1>3, <1>4
<1>6. {x \in SUBSET T : Cardinality(x) <= Cardinality(T)} = SUBSET T
  BY <1>4
<1>7. AddsUp(F, v, T)
  BY <1>5, <1>6 DEF AddsUpTo, AddsUp
<1> QED
  BY <1>7

(* The sums of the parts of a set do not depend on the set.                  *)
LEMMA SumsAgree ==
  ASSUME NEW v, NEW T, IsFiniteSet(T), NEW U \in SUBSET T,
         NEW F, AddsUp(F, v, T), NEW G, AddsUp(G, v, U)
  PROVE  F[U] = G[U]
<1> DEFINE N == {n \in Nat : \A S \in SUBSET U : Cardinality(S) = n => F[S] = G[S]}
<1>0. \A S \in SUBSET U : S \in SUBSET T /\ IsFiniteSet(S) /\ Cardinality(S) \in Nat
  BY FS_Subset, FS_CardinalityType
<1>1. 0 \in N
  <2>1. \A S \in SUBSET U : Cardinality(S) = 0 => S = {}
    BY <1>0, FS_EmptySet
  <2>2. F[{}] = 0 /\ G[{}] = 0
    BY DEF AddsUp
  <2> QED
    BY <2>1, <2>2
<1>2. \A n \in N : n + 1 \in N
  <2> TAKE n \in N
  <2> SUFFICES ASSUME NEW S \in SUBSET U, Cardinality(S) = n + 1
               PROVE  F[S] = G[S]
    OBVIOUS
  <2>1. n \in Nat /\ S # {}
    BY FS_EmptySet
  <2>2. /\ S \ {OneOf(S)} \in SUBSET U
        /\ Cardinality(S \ {OneOf(S)}) = n
    BY <1>0, <2>1, OneLess
  <2>3. F[S \ {OneOf(S)}] = G[S \ {OneOf(S)}]
    BY <2>2
  <2> QED
    BY <1>0, <2>1, <2>3 DEF AddsUp
<1>3. N = Nat
  <2> HIDE DEF N
  <2>1. N \in SUBSET Nat
    BY DEF N
  <2> QED
    BY <1>1, <1>2, <2>1, NatSet
<1> QED
  BY <1>0, <1>3

LEMMA SumOfOneLess ==
  ASSUME NEW v, NEW T, IsFiniteSet(T)
  PROVE  Total(v, T) = IF T = {} THEN 0 ELSE v[OneOf(T)] + Total(v, T \ {OneOf(T)})
<1>1. \A S : IsFiniteSet(S) => \E F : AddsUp(F, v, S) /\ Total(v, S) = F[S]
  <2> TAKE S
  <2> HAVE IsFiniteSet(S)
  <2> DEFINE F == CHOOSE F : AddsUp(F, v, S)
  <2>1. AddsUp(F, v, S)
    BY SumExists
  <2>2. Total(v, S) = F[S]
    BY SumIsChoice
  <2> QED
    BY <2>1, <2>2
<1>2. PICK F : AddsUp(F, v, T) /\ Total(v, T) = F[T]
  BY <1>1
<1>3. CASE T = {}
  BY <1>2, <1>3 DEF AddsUp
<1>4. CASE T # {}
  <2> DEFINE U == T \ {OneOf(T)}
  <2>1. IsFiniteSet(U) /\ U \in SUBSET T
    BY <1>4, OneLess
  <2>2. PICK G : AddsUp(G, v, U) /\ Total(v, U) = G[U]
    BY <1>1, <2>1
  <2>3. F[U] = G[U]
    BY <1>2, <2>1, <2>2, SumsAgree
  <2>4. F[T] = v[OneOf(T)] + F[U]
    BY <1>2, <1>4 DEF AddsUp
  <2> QED
    BY <1>2, <1>4, <2>2, <2>3, <2>4
<1> QED
  BY <1>3, <1>4

LEMMA SumType ==
  ASSUME NEW v, NEW T, IsFiniteSet(T), \A i \in T : v[i] \in Int
  PROVE  Total(v, T) \in Int
<1> DEFINE N == {n \in Nat : \A S \in SUBSET T : Cardinality(S) = n => Total(v, S) \in Int}
<1>0. \A S \in SUBSET T : IsFiniteSet(S) /\ Cardinality(S) \in Nat
  BY FS_Subset, FS_CardinalityType
<1>1. 0 \in N
  <2>1. \A S \in SUBSET T : Cardinality(S) = 0 => S = {}
    BY <1>0, FS_EmptySet
  <2>2. Total(v, {}) = 0
    BY SumOfOneLess, FS_EmptySet
  <2> QED
    BY <2>1, <2>2
<1>2. \A n \in N : n + 1 \in N
  <2> TAKE n \in N
  <2> SUFFICES ASSUME NEW S \in SUBSET T, Cardinality(S) = n + 1
               PROVE  Total(v, S) \in Int
    OBVIOUS
  <2>1. n \in Nat /\ S # {}
    BY FS_EmptySet
  <2>2. /\ S \ {OneOf(S)} \in SUBSET T
        /\ Cardinality(S \ {OneOf(S)}) = n
        /\ OneOf(S) \in T
    BY <1>0, <2>1, OneLess
  <2>3. Total(v, S \ {OneOf(S)}) \in Int /\ v[OneOf(S)] \in Int
    BY <2>2
  <2>4. Total(v, S) = v[OneOf(S)] + Total(v, S \ {OneOf(S)})
    BY <1>0, <2>1, SumOfOneLess
  <2> QED
    BY <2>3, <2>4
<1>3. N = Nat
  <2> HIDE DEF N
  <2>1. N \in SUBSET Nat
    BY DEF N
  <2> QED
    BY <1>1, <1>2, <2>1, NatSet
<1> QED
  BY <1>0, <1>3

(* Whichever element is taken from it.                                       *)
LEMMA SumOfAnyLess ==
  ASSUME NEW v, NEW T, IsFiniteSet(T), \A i \in T : v[i] \in Int, NEW x \in T
  PROVE  Total(v, T) = v[x] + Total(v, T \ {x})
<1> DEFINE N == {n \in Nat : \A S \in SUBSET T : Cardinality(S) = n =>
                               \A y \in S : Total(v, S) = v[y] + Total(v, S \ {y})}
<1>0. \A S \in SUBSET T : IsFiniteSet(S) /\ Cardinality(S) \in Nat
  BY FS_Subset, FS_CardinalityType
<1>1. 0 \in N
  <2>1. \A S \in SUBSET T : Cardinality(S) = 0 => S = {}
    BY <1>0, FS_EmptySet
  <2> QED
    BY <2>1
<1>2. \A n \in N : n + 1 \in N
  <2> TAKE n \in N
  <2> SUFFICES ASSUME NEW S \in SUBSET T, Cardinality(S) = n + 1, NEW y \in S
               PROVE  Total(v, S) = v[y] + Total(v, S \ {y})
    OBVIOUS
  <2> DEFINE c == OneOf(S)
             R == S \ {c}
             Q == S \ {y}
  <2>1. n \in Nat /\ IsFiniteSet(S)
    BY <1>0
  <2>2. c \in S /\ R \in SUBSET T /\ Cardinality(R) = n
    BY <2>1, OneLess
  <2>3. Q \in SUBSET T /\ Cardinality(Q) = n
    <3>1. Cardinality(Q) = Cardinality(S) - 1
      BY <2>1, FS_RemoveElement
    <3> QED
      BY <2>1, <3>1
  <2>4. Total(v, S) = v[c] + Total(v, R)
    BY <2>1, SumOfOneLess
  <2> HIDE DEF c
  <2>5. CASE y = c
    BY <2>4, <2>5
  <2>6. CASE y # c
    <3>1. y \in R /\ c \in Q /\ R \ {y} = Q \ {c}
      BY <2>2, <2>6
    <3>2. Total(v, R) = v[y] + Total(v, R \ {y})
      BY <2>2, <3>1
    <3>3. Total(v, Q) = v[c] + Total(v, Q \ {c})
      BY <2>3, <3>1
    <3>4. v[y] \in Int /\ v[c] \in Int /\ Total(v, R \ {y}) \in Int
      <4>1. R \ {y} \in SUBSET T
        BY <2>2
      <4> QED
        BY <1>0, <2>2, <4>1, SumType
    <3> HIDE DEF R, Q
    <3>5. Total(v, R \ {y}) = Total(v, Q \ {c})
      BY <3>1
    <3>6. Total(v, S) = v[y] + Total(v, Q)
      BY <2>4, <3>2, <3>3, <3>4, <3>5
    <3> QED
      BY <3>6 DEF Q
  <2> QED
    BY <2>5, <2>6
<1>3. N = Nat
  <2> HIDE DEF N
  <2>1. N \in SUBSET Nat
    BY DEF N
  <2> QED
    BY <1>1, <1>2, <2>1, NatSet
<1> QED
  BY <1>0, <1>3

(* The accumulator of compute_cell_aggregates after each cell.               *)
Accumulates(f, v) ==
  f = [i \in 0 .. Len(v) |->
         IF i = 0 THEN [sum |-> 0, min_v |-> 0, min_cell |-> 1, max_v |-> 0, max_cell |-> 1]
                  ELSE Seen(f[i - 1], i, v[i])]

LEMMA AggregatesAreLast ==
  ASSUME NEW v
  PROVE  LET f == CHOOSE f : Accumulates(f, v)
             last == f[Len(v)]
         IN compute_cell_aggregates(v) =
              [average_v |-> <<last.sum, Len(v)>>,
               min_v |-> last.min_v, max_v |-> last.max_v,
               delta_v |-> last.max_v - last.min_v,
               min_cell |-> last.min_cell, max_cell |-> last.max_cell]
BY DEF compute_cell_aggregates, Accumulates

LEMMA AccumulatorExists ==
  ASSUME NEW v, Len(v) \in Nat
  PROVE  \E f : Accumulates(f, v)
<1> DEFINE first == [sum |-> 0, min_v |-> 0, min_cell |-> 1, max_v |-> 0, max_cell |-> 1]
           UpTo(f, n) == f = [i \in 0 .. n |-> IF i = 0 THEN first ELSE Seen(f[i - 1], i, v[i])]
           N == {n \in Nat : \E f : UpTo(f, n)}
<1>1. 0 \in N
  <2> DEFINE f == [i \in 0 .. 0 |-> first]
  <2>1. UpTo(f, 0)
    OBVIOUS
  <2> QED
    BY <2>1
<1>2. \A n \in N : n + 1 \in N
  <2> TAKE n \in N
  <2>1. PICK f : UpTo(f, n)
    OBVIOUS
  <2> DEFINE g == [i \in 0 .. n + 1 |-> IF i = 0 THEN first ELSE Seen(f[i - 1], i, v[i])]
  <2>2. n \in Nat
    OBVIOUS
  <2> HIDE DEF first
  <2>3. \A i \in 0 .. n : g[i] = f[i]
    BY <2>1, <2>2
  <2>4. \A i \in (0 .. n + 1) \ {0} : i - 1 \in 0 .. n
    BY <2>2
  <2>5. \A i \in (0 .. n + 1) \ {0} : g[i - 1] = f[i - 1]
    BY <2>3, <2>4
  <2>6. g = [i \in 0 .. n + 1 |-> IF i = 0 THEN first ELSE Seen(f[i - 1], i, v[i])]
    OBVIOUS
  <2> HIDE DEF g
  <2>7. g = [i \in 0 .. n + 1 |-> IF i = 0 THEN first ELSE Seen(g[i - 1], i, v[i])]
    BY <2>5, <2>6
  <2>8. UpTo(g, n + 1)
    BY <2>7
  <2> HIDE DEF UpTo
  <2> QED
    BY <2>2, <2>8
<1>3. N = Nat
  <2> HIDE DEF N
  <2>1. N \in SUBSET Nat
    BY DEF N
  <2> QED
    BY <1>1, <1>2, <2>1, NatSet
<1>4. PICK f : UpTo(f, Len(v))
  BY <1>3
<1> QED
  BY <1>4 DEF Accumulates

(* What holds after cell i: a is the sum of the cells seen, the lowest and   *)
(* the first with it, the highest and the first with it.                     *)
SumSeen(a, i, w) == a.sum = Total(w, 1 .. i) /\ a.sum \in Int

LowestSeen(a, i, w) ==
  /\ a.min_cell \in 1 .. i /\ a.min_v = w[a.min_cell]
  /\ \A j \in 1 .. i : w[j] >= a.min_v /\ (w[j] = a.min_v => a.min_cell <= j)

HighestSeen(a, i, w) ==
  /\ a.max_cell \in 1 .. i /\ a.max_v = w[a.max_cell]
  /\ \A j \in 1 .. i : w[j] <= a.max_v /\ (w[j] = a.max_v => a.max_cell <= j)

LEMMA IntervalSum ==
  ASSUME NEW w, NEW n \in Nat, \A i \in 1 .. n + 1 : w[i] \in Int
  PROVE  /\ Total(w, 1 .. n) \in Int
         /\ Total(w, 1 .. n + 1) = Total(w, 1 .. n) + w[n + 1]
<1>1. IsFiniteSet(1 .. n) /\ IsFiniteSet(1 .. n + 1)
  BY FS_Interval
<1>2. (1 .. n + 1) \ {n + 1} = 1 .. n /\ n + 1 \in 1 .. n + 1
  OBVIOUS
<1>3. Total(w, 1 .. n) \in Int
  <2>1. \A i \in 1 .. n : w[i] \in Int
    OBVIOUS
  <2> QED
    BY <1>1, <2>1, SumType
<1>4. Total(w, 1 .. n + 1) = w[n + 1] + Total(w, (1 .. n + 1) \ {n + 1})
  BY <1>1, <1>2, SumOfAnyLess
<1>5. Total(w, 1 .. n + 1) = w[n + 1] + Total(w, 1 .. n)
  BY <1>2, <1>4
<1> QED
  BY <1>2, <1>3, <1>5

LEMMA NoSum == \A w : Total(w, 1 .. 0) = 0
<1>1. 1 .. 0 = {}
  OBVIOUS
<1> QED
  BY <1>1, SumOfOneLess, FS_EmptySet

LEMMA SeenFields ==
  ASSUME NEW a, NEW i, NEW x
  PROVE  LET b == Seen(a, i, x)
         IN /\ b.sum = a.sum + x
            /\ b.min_v = IF i = 1 \/ x < a.min_v THEN x ELSE a.min_v
            /\ b.min_cell = IF i = 1 \/ x < a.min_v THEN i ELSE a.min_cell
            /\ b.max_v = IF i = 1 \/ x > a.max_v THEN x ELSE a.max_v
            /\ b.max_cell = IF i = 1 \/ x > a.max_v THEN i ELSE a.max_cell
BY DEF Seen

LEMMA SeenAll ==
  ASSUME NEW v, NEW w, Len(v) \in Nat,
         \A i \in 1 .. Len(v) : v[i] = w[i] /\ w[i] \in Int,
         NEW f, Accumulates(f, v),
         NEW i \in 1 .. Len(v)
  PROVE  SumSeen(f[i], i, w) /\ LowestSeen(f[i], i, w) /\ HighestSeen(f[i], i, w)
<1> DEFINE Inv(n) == /\ SumSeen(f[n], n, w)
                     /\ n > 0 => LowestSeen(f[n], n, w) /\ HighestSeen(f[n], n, w)
           N == {n \in Nat : n <= Len(v) => Inv(n)}
<1>1. 0 \in N
  <2>1. f[0].sum = 0
    BY DEF Accumulates
  <2>2. SumSeen(f[0], 0, w)
    BY <2>1, NoSum DEF SumSeen
  <2> QED
    BY <2>2
<1>2. \A n \in N : n + 1 \in N
  <2> TAKE n \in N
  <2> SUFFICES ASSUME n + 1 <= Len(v) PROVE Inv(n + 1)
    OBVIOUS
  <2>1. n \in Nat /\ Inv(n)
    OBVIOUS
  <2>2. /\ f[n + 1] = Seen(f[n], n + 1, w[n + 1])
        /\ \A j \in 1 .. n + 1 : w[j] \in Int
    <3>1. n + 1 \in 0 .. Len(v) /\ n + 1 # 0 /\ (n + 1) - 1 = n /\ n + 1 \in 1 .. Len(v)
      BY <2>1
    <3>2. f[n + 1] = Seen(f[(n + 1) - 1], n + 1, v[n + 1])
      BY <3>1 DEF Accumulates
    <3>3. f[n + 1] = Seen(f[n], n + 1, w[n + 1])
      BY <3>1, <3>2
    <3> QED
      BY <3>3, <2>1
  <2> DEFINE a == f[n]
             b == f[n + 1]
             x == w[n + 1]
  <2>3. /\ b.sum = a.sum + x
        /\ b.min_v = IF n = 0 \/ x < a.min_v THEN x ELSE a.min_v
        /\ b.min_cell = IF n = 0 \/ x < a.min_v THEN n + 1 ELSE a.min_cell
        /\ b.max_v = IF n = 0 \/ x > a.max_v THEN x ELSE a.max_v
        /\ b.max_cell = IF n = 0 \/ x > a.max_v THEN n + 1 ELSE a.max_cell
    <3>1. n + 1 = 1 <=> n = 0
      BY <2>1
    <3> QED
      BY <2>2, <3>1, SeenFields
  <2>4. SumSeen(a, n, w) /\ (n > 0 => LowestSeen(a, n, w) /\ HighestSeen(a, n, w))
    BY <2>1
  <2> HIDE DEF a, b
  <2>5. SumSeen(b, n + 1, w)
    BY <2>1, <2>2, <2>3, <2>4, IntervalSum DEF SumSeen
  <2>6. LowestSeen(b, n + 1, w)
    <3>1. CASE n = 0
      BY <2>2, <2>3, <3>1 DEF LowestSeen
    <3>2. CASE n > 0
      BY <2>1, <2>2, <2>3, <2>4, <3>2 DEF LowestSeen
    <3> QED
      BY <2>1, <3>1, <3>2
  <2>7. HighestSeen(b, n + 1, w)
    <3>1. CASE n = 0
      BY <2>2, <2>3, <3>1 DEF HighestSeen
    <3>2. CASE n > 0
      BY <2>1, <2>2, <2>3, <2>4, <3>2 DEF HighestSeen
    <3> QED
      BY <2>1, <3>1, <3>2
  <2> QED
    BY <2>5, <2>6, <2>7 DEF b
<1>3. N = Nat
  <2> HIDE DEF N
  <2>1. N \in SUBSET Nat
    BY DEF N
  <2> QED
    BY <1>1, <1>2, <2>1, NatSet
<1>4. i \in Nat /\ i <= Len(v) /\ i > 0
  OBVIOUS
<1>5. Inv(i)
  BY <1>3, <1>4
<1> QED
  BY <1>4, <1>5

-----------------------------------------------------------------------------
(* The least and the greatest of a set, and the aggregates.                  *)

LEMMA LeastIs ==
  ASSUME NEW S \in SUBSET Int, NEW x \in S, \A y \in S : x <= y
  PROVE  Min(S) = x
<1>1. Min(S) \in S /\ \A y \in S : Min(S) <= y
  BY DEF Min
<1>2. Min(S) <= x /\ x <= Min(S) /\ Min(S) \in Int /\ x \in Int
  BY <1>1
<1> QED
  BY <1>2

LEMMA GreatestIs ==
  ASSUME NEW S \in SUBSET Int, NEW x \in S, \A y \in S : y <= x
  PROVE  Max(S) = x
<1>1. \A y \in S : x >= y
  OBVIOUS
<1>2. Max(S) \in S /\ \A y \in S : Max(S) >= y
  BY <1>1 DEF Max
<1>3. Max(S) >= x /\ x >= Max(S) /\ Max(S) \in Int /\ x \in Int
  BY <1>1, <1>2
<1> QED
  BY <1>3

(* compute_cell_aggregates of v, in terms of w that begins like v.           *)
IsLast(last, v, w, n) ==
  /\ compute_cell_aggregates(v) =
       [average_v |-> <<last.sum, n>>,
        min_v |-> last.min_v, max_v |-> last.max_v,
        delta_v |-> last.max_v - last.min_v,
        min_cell |-> last.min_cell, max_cell |-> last.max_cell]
  /\ SumSeen(last, n, w) /\ LowestSeen(last, n, w) /\ HighestSeen(last, n, w)

LEMMA AggregatesSeen ==
  ASSUME NEW v, NEW w, NEW n \in Nat \ {0}, Len(v) = n,
         \A i \in 1 .. n : v[i] = w[i] /\ w[i] \in Int
  PROVE  \E last : IsLast(last, v, w, n)
<1>1. PICK f : Accumulates(f, v) /\ f = CHOOSE g : Accumulates(g, v)
  BY AccumulatorExists
<1>2. PICK last : last = f[n]
  OBVIOUS
<1>3. compute_cell_aggregates(v) =
        [average_v |-> <<last.sum, n>>,
         min_v |-> last.min_v, max_v |-> last.max_v,
         delta_v |-> last.max_v - last.min_v,
         min_cell |-> last.min_cell, max_cell |-> last.max_cell]
  BY <1>1, <1>2, AggregatesAreLast
<1>4. SumSeen(last, n, w) /\ LowestSeen(last, n, w) /\ HighestSeen(last, n, w)
  BY <1>1, <1>2, SeenAll
<1> QED
  BY <1>3, <1>4 DEF IsLast

(* They have their types whenever there is a cell, and no more than slots.   *)
LEMMA AggregatesType ==
  ASSUME NEW v, NEW n \in Nat \ {0}, Len(v) = n, \A i \in 1 .. n : v[i] \in Int,
         n <= TOTAL_CELL_SLOTS, TOTAL_CELL_SLOTS \in Nat
  PROVE  compute_cell_aggregates(v) \in Aggregates
<1>0. PICK last : IsLast(last, v, v, n)
  BY AggregatesSeen
<1>1. /\ compute_cell_aggregates(v) =
           [average_v |-> <<last.sum, n>>,
            min_v |-> last.min_v, max_v |-> last.max_v,
            delta_v |-> last.max_v - last.min_v,
            min_cell |-> last.min_cell, max_cell |-> last.max_cell]
      /\ last.sum \in Int
      /\ last.min_cell \in 1 .. n /\ last.min_v = v[last.min_cell]
      /\ \A j \in 1 .. n : last.min_v <= v[j]
      /\ last.max_cell \in 1 .. n /\ last.max_v = v[last.max_cell]
  BY <1>0 DEF IsLast, SumSeen, LowestSeen, HighestSeen
<1>2. last.max_v \in Int /\ last.min_v \in Int /\ last.min_v <= last.max_v
  BY <1>1
<1>3. last.max_v - last.min_v \in Nat
  BY <1>2
<1>4. last.min_cell \in 1 .. TOTAL_CELL_SLOTS /\ last.max_cell \in 1 .. TOTAL_CELL_SLOTS
  BY <1>1
<1>5. <<last.sum, n>> \in Int \X Int
  BY <1>1
<1> QED
  BY <1>1, <1>2, <1>3, <1>4, <1>5 DEF Aggregates

(* They are the aggregates by definition when the cells in use are just      *)
(* the first slots.                                                          *)
LEMMA AggregatesRight ==
  ASSUME NEW v, NEW w, NEW n \in Nat \ {0}, Len(v) = n, InUse(w) = 1 .. n,
         \A i \in 1 .. n : v[i] = w[i] /\ w[i] \in Int
  PROVE  AreAggregates(compute_cell_aggregates(v), w)
<1> DEFINE a == compute_cell_aggregates(v)
<1>0. PICK last : IsLast(last, v, w, n)
  BY AggregatesSeen
<1>1. /\ a = [average_v |-> <<last.sum, n>>,
              min_v |-> last.min_v, max_v |-> last.max_v,
              delta_v |-> last.max_v - last.min_v,
              min_cell |-> last.min_cell, max_cell |-> last.max_cell]
      /\ last.sum = Total(w, 1 .. n)
      /\ last.min_cell \in 1 .. n /\ last.min_v = w[last.min_cell]
      /\ \A j \in 1 .. n : last.min_v <= w[j] /\ (w[j] = last.min_v => last.min_cell <= j)
      /\ last.max_cell \in 1 .. n /\ last.max_v = w[last.max_cell]
      /\ \A j \in 1 .. n : w[j] <= last.max_v /\ (w[j] = last.max_v => last.max_cell <= j)
  BY <1>0 DEF IsLast, SumSeen, LowestSeen, HighestSeen
<1> HIDE DEF a
<1>2. PICK values : values = {w[i] : i \in 1 .. n}
  OBVIOUS
<1>3. a.average_v = <<MapThenSumSet(LAMBDA i : w[i], InUse(w)), Cardinality(InUse(w))>>
  <2>1. Cardinality(1 .. n) = n
    BY FS_Interval
  <2>2. Total(w, 1 .. n) = MapThenSumSet(LAMBDA i : w[i], 1 .. n)
    BY DEF Total
  <2>3. a.average_v = <<last.sum, n>>
    BY <1>1
  <2> QED
    BY <1>1, <2>1, <2>2, <2>3
<1>4. a.min_v = Min(values) /\ a.min_cell = Min({i \in InUse(w) : w[i] = a.min_v})
  <2>1. a.min_v = last.min_v /\ a.min_cell = last.min_cell
    BY <1>1
  <2>2. values \in SUBSET Int /\ last.min_v \in values /\ \A y \in values : last.min_v <= y
    BY <1>1, <1>2
  <2>3. Min(values) = last.min_v
    BY <2>2, LeastIs
  <2> DEFINE S == {i \in InUse(w) : w[i] = last.min_v}
  <2>4. S \in SUBSET Int /\ last.min_cell \in S /\ \A j \in S : last.min_cell <= j
    BY <1>1
  <2> HIDE DEF S
  <2>5. Min(S) = last.min_cell
    BY <2>4, LeastIs
  <2> QED
    BY <2>1, <2>3, <2>5 DEF S
<1>5. a.max_v = Max(values) /\ a.max_cell = Min({i \in InUse(w) : w[i] = a.max_v})
  <2>1. a.max_v = last.max_v /\ a.max_cell = last.max_cell
    BY <1>1
  <2>2. values \in SUBSET Int /\ last.max_v \in values /\ \A y \in values : y <= last.max_v
    BY <1>1, <1>2
  <2>3. Max(values) = last.max_v
    BY <2>2, GreatestIs
  <2> DEFINE S == {i \in InUse(w) : w[i] = last.max_v}
  <2>4. S \in SUBSET Int /\ last.max_cell \in S /\ \A j \in S : last.max_cell <= j
    BY <1>1
  <2> HIDE DEF S
  <2>5. Min(S) = last.max_cell
    BY <2>4, LeastIs
  <2> QED
    BY <2>1, <2>3, <2>5 DEF S
<1>6. a.delta_v = a.max_v - a.min_v
  BY <1>1
<1> QED
  BY <1>2, <1>3, <1>4, <1>5, <1>6 DEF AreAggregates, a

-----------------------------------------------------------------------------
(* The payloads.                                                             *)

LEMMA SlotsInUse ==
  ASSUME NEW c \in Nat
  PROVE  ActiveSlots(c) = IF c <= TOTAL_CELL_SLOTS THEN c ELSE TOTAL_CELL_SLOTS
<1>1. TOTAL_CELL_SLOTS \in Nat
  BY TelemetryAssumption DEF TelemetryAssumption
<1>2. CASE c <= TOTAL_CELL_SLOTS
  <2>1. \A y \in {c, TOTAL_CELL_SLOTS} : c <= y
    BY <1>1, <1>2
  <2> QED
    BY <1>1, <1>2, <2>1, LeastIs DEF ActiveSlots
<1>3. CASE ~ (c <= TOTAL_CELL_SLOTS)
  <2>1. \A y \in {c, TOTAL_CELL_SLOTS} : TOTAL_CELL_SLOTS <= y
    BY <1>1, <1>3
  <2>2. Min({c, TOTAL_CELL_SLOTS}) = TOTAL_CELL_SLOTS
    BY <1>1, <2>1, LeastIs
  <2> QED
    BY <1>3, <2>2 DEF ActiveSlots
<1> QED
  BY <1>2, <1>3

LEMMA FirstSlots ==
  ASSUME NEW S, NEW f \in [1 .. TOTAL_CELL_SLOTS -> S], NEW n \in 0 .. TOTAL_CELL_SLOTS
  PROVE  LET v == SubSeq(f, 1, n)
         IN /\ v \in Seq(S) /\ Len(v) = n /\ DOMAIN v = 1 .. n
            /\ \A i \in 1 .. n : v[i] = f[i]
            /\ v = <<>> <=> n = 0
<1>1. TOTAL_CELL_SLOTS \in Nat /\ n \in Nat /\ \A i \in 1 .. n : f[i] \in S
  BY TelemetryAssumption DEF TelemetryAssumption
<1>2. /\ SubSeq(f, 1, n) \in Seq(S)
      /\ Len(SubSeq(f, 1, n)) = IF 1 <= n THEN n - 1 + 1 ELSE 0
      /\ \A i \in 1 .. n - 1 + 1 : SubSeq(f, 1, n)[i] = f[1 + i - 1]
  BY <1>1, SubSeqProperties
<1>3. PICK v : v = SubSeq(f, 1, n)
  OBVIOUS
<1>4. Len(v) = n
  BY <1>1, <1>2, <1>3
<1>5. \A i \in 1 .. n : v[i] = f[i]
  BY <1>1, <1>2, <1>3
<1>6. v \in Seq(S)
  BY <1>2, <1>3
<1>7. DOMAIN v = 1 .. n /\ (v = <<>> <=> n = 0)
  BY <1>4, <1>6, LenProperties, EmptySeq
<1> QED
  BY <1>3, <1>4, <1>5, <1>6, <1>7

(* What the aggregator holds.                                                *)
Holding ==
  /\ held.cell_count \in 0 .. (WORD - 1)
  /\ IF "OperationalData" \in have
       THEN \E op \in Readings[read_as] : held.operational = <<op>>
       ELSE held.operational = <<>>
  /\ held.raw \in AlarmWords \union {{}}
  /\ held.cycles = IF "DeviceInfo" \in have THEN POWER_CYCLES ELSE 0
  /\ pack \in CellCounts /\ read_as \in CellCounts

(* The first discovery is published when it is due, and every discovery says *)
(* how many cells are held.                                                  *)
AnnouncedOK ==
  /\ announced = {} \/ \E n \in 0 .. (WORD - 1) : announced = {n}
  /\ "discovery_published" \in flags => announced # {} \/ Discovery \in Range(outbox)
  /\ announced # {} \/ Discovery \in Range(outbox) => DiscoveryParts \subseteq have
  /\ announced # {} /\ recounted = "no" =>
       announced = {held.cell_count} \/ Discovery \in Range(outbox)
  /\ recounted \in {"yes", "no"}

CellsTyped(x) ==
  /\ Len(x.cell_voltages_v) <= TOTAL_CELL_SLOTS
  /\ Range(x.cell_aggregates) \subseteq Aggregates

ShownTyped ==
  /\ had_first \subseteq Sides
  /\ NoSnapshot \/ (SnapshotParts \subseteq have /\ CellsTyped(shown[1]))

HoldInv == Holding /\ AnnouncedOK /\ ShownTyped

LEMMA HoldInit == TelemetryInit => HoldInv
<1> SUFFICES ASSUME TelemetryInit PROVE HoldInv
  OBVIOUS
<1>1. /\ have = {} /\ flags = {} /\ held = Nothing /\ read_as = pack /\ pack \in CellCounts
      /\ had_first = {} /\ announced = {} /\ shown = <<>> /\ recounted = "no" /\ outbox = <<>>
  BY DEF TelemetryInit, Init
<1>3. Range(<<>>) = {}
  BY SmallRanges
<1>2. 0 \in 0 .. (WORD - 1)
  BY TelemetryAssumption DEF TelemetryAssumption
<1> QED
  BY <1>1, <1>2, <1>3 DEF HoldInv, Holding, AnnouncedOK, ShownTyped, Nothing, NoSnapshot

LEMMA CountFits == \A n \in CellCounts : CellCount(n) \in 0 .. (WORD - 1)
BY TelemetryAssumption, ReadingsAssumption DEF TelemetryAssumption, ReadingsAssumption, CellCount

LEMMA HoldsMore ==
  ASSUME HeldOK, Holding, NEW d \in Fragments \union {"Alarms"},
         held' \in Set(d), have' = have \union ({d} \intersect Fragments),
         read_as' = IF d = "OperationalData" THEN pack ELSE read_as, pack' = pack
  PROVE  Holding'
<1>1. PICK n, op, raw, cycles :
        held = [cell_count |-> n, operational |-> op, raw |-> raw, cycles |-> cycles]
  BY DEF HeldOK
<1>2. "DeviceInfo" \in Fragments /\ "OperationalData" \in Fragments
  BY DEF Fragments, SnapshotParts, DiscoveryParts
<1>3. CASE d = "DeviceInfo"
  <2>1. held' = [held EXCEPT !.cycles = POWER_CYCLES] /\ read_as' = read_as
    BY <1>3 DEF Set
  <2>2. ("OperationalData" \in have' <=> "OperationalData" \in have) /\ "DeviceInfo" \in have'
    BY <1>2, <1>3
  <2> QED
    BY <1>1, <2>1, <2>2 DEF Holding
<1>4. CASE d = "ConfigOptions"
  <2>1. held' = [held EXCEPT !.cell_count = CellCount(pack)] /\ read_as' = read_as
    BY <1>4 DEF Set
  <2>2. /\ "OperationalData" \in have' <=> "OperationalData" \in have
        /\ "DeviceInfo" \in have' <=> "DeviceInfo" \in have
    BY <1>4
  <2> QED
    BY <1>1, <2>1, <2>2, CountFits DEF Holding
<1>5. CASE d = "OperationalData"
  <2>1. PICK o \in Readings[pack] : held' = [held EXCEPT !.operational = <<o>>]
    BY <1>5 DEF Set
  <2>2. /\ "OperationalData" \in have' /\ read_as' = pack
        /\ "DeviceInfo" \in have' <=> "DeviceInfo" \in have
    BY <1>2, <1>5
  <2> QED
    BY <1>1, <2>1, <2>2 DEF Holding
<1>6. CASE d = "Alarms"
  <2>1. PICK a \in AlarmWords : held' = [held EXCEPT !.raw = a]
    BY <1>6 DEF Set
  <2>2. /\ read_as' = read_as
        /\ "OperationalData" \in have' <=> "OperationalData" \in have
        /\ "DeviceInfo" \in have' <=> "DeviceInfo" \in have
    BY <1>6
  <2> QED
    BY <1>1, <2>1, <2>2 DEF Holding
<1> QED
  BY <1>3, <1>4, <1>5, <1>6 DEF Fragments, SnapshotParts, DiscoveryParts

(* A snapshot, by its fields.                                                *)
FieldNames ==
  {"operational", "battery_capacity_ah", "total_runtime_s", "total_runtime",
   "cell_voltages_v", "cell_resistances_ohm", "cell_aggregates", "alarm_list",
   "power_cycle_count", "switches", "jkbms_reconnect_count", "mqtt_reconnect_count"}

HasFields(x) == x = [f \in FieldNames |-> x[f]]

(* What it takes from what is held.                                          *)
ShowsData(x, c, op, raw) ==
  LET n == ActiveSlots(c)
      v == SubSeq(op.cell_voltages_v, 1, n)
  IN /\ x.operational = op
     /\ x.total_runtime = format_iso8601(op.total_runtime_s)
     /\ x.cell_voltages_v = v
     /\ x.cell_resistances_ohm = SubSeq(op.cell_resistances_ohm, 1, n)
     /\ x.cell_aggregates = IF v = <<>> THEN <<>> ELSE <<compute_cell_aggregates(v)>>
     /\ x.alarm_list = decode_alarms(raw)

LEMMA SnapshotOf ==
  ASSUME NEW c, NEW op, NEW raw, NEW cycles, NEW s
  PROVE  LET x == snapshot(c, op, raw, cycles, s)
         IN HasFields(x) /\ ShowsData(x, c, op, raw)
<1> DEFINE n == ActiveSlots(c)
           v == SubSeq(op.cell_voltages_v, 1, n)
           r == SubSeq(op.cell_resistances_ohm, 1, n)
           a == IF v = <<>> THEN <<>> ELSE <<compute_cell_aggregates(v)>>
           t == format_iso8601(op.total_runtime_s)
           l == decode_alarms(raw)
<1>1. snapshot(c, op, raw, cycles, s) =
        [operational |-> op, battery_capacity_ah |-> "capacity",
         total_runtime_s |-> op.total_runtime_s, total_runtime |-> t,
         cell_voltages_v |-> v, cell_resistances_ohm |-> r, cell_aggregates |-> a,
         alarm_list |-> l, power_cycle_count |-> cycles, switches |-> s,
         jkbms_reconnect_count |-> 0, mqtt_reconnect_count |-> 0]
  BY DEF snapshot
<1> HIDE DEF n, v, r, a, t, l
<1>2. PICK x : x = snapshot(c, op, raw, cycles, s)
  OBVIOUS
<1>3. /\ x.operational = op /\ x.total_runtime = t /\ x.cell_voltages_v = v
      /\ x.cell_resistances_ohm = r /\ x.cell_aggregates = a /\ x.alarm_list = l
  BY <1>1, <1>2
<1>4. HasFields(x)
  BY <1>1, <1>2 DEF HasFields, FieldNames
<1>5. ShowsData(x, c, op, raw)
  BY <1>3 DEF ShowsData, n, v, r, a, t, l
<1> QED
  BY <1>2, <1>4, <1>5

LEMMA SnapIs ==
  ASSUME NEW h, NEW s, NEW j, NEW m, NEW op, h.operational = <<op>>
  PROVE  ShowsData(SnapOf(h, s, j, m), h.cell_count, op, h.raw)
<1>1. PICK y : y = snapshot(h.cell_count, op, h.raw, h.cycles, s)
  OBVIOUS
<1>2. PICK x : x = SnapOf(h, s, j, m)
  OBVIOUS
<1>3. x = [y EXCEPT !.jkbms_reconnect_count = j, !.mqtt_reconnect_count = m]
  BY <1>1, <1>2 DEF SnapOf
<1>4. HasFields(y) /\ ShowsData(y, h.cell_count, op, h.raw)
  BY <1>1, SnapshotOf
<1>5. /\ x.operational = y.operational /\ x.total_runtime = y.total_runtime
      /\ x.cell_voltages_v = y.cell_voltages_v
      /\ x.cell_resistances_ohm = y.cell_resistances_ohm
      /\ x.cell_aggregates = y.cell_aggregates /\ x.alarm_list = y.alarm_list
  BY <1>3, <1>4 DEF HasFields, FieldNames
<1>6. ShowsData(x, h.cell_count, op, h.raw)
  BY <1>4, <1>5 DEF ShowsData
<1> QED
  BY <1>2, <1>6

(* A snapshot of what is held, under any setting.                            *)
LEMMA SnapshotTyped ==
  ASSUME Holding, "OperationalData" \in have, NEW s, NEW j, NEW m
  PROVE  CellsTyped(SnapOf(held, s, j, m))
<1>1. PICK op \in Readings[read_as] : held.operational = <<op>>
  BY DEF Holding
<1>2. PICK n : n = ActiveSlots(held.cell_count)
  OBVIOUS
<1>3. n \in 0 .. TOTAL_CELL_SLOTS /\ TOTAL_CELL_SLOTS \in Nat
  <2>1. held.cell_count \in Nat /\ TOTAL_CELL_SLOTS \in Nat
    BY TelemetryAssumption DEF TelemetryAssumption, Holding
  <2> QED
    BY <1>2, <2>1, SlotsInUse
<1>4. op.cell_voltages_v \in [1 .. TOTAL_CELL_SLOTS -> Int]
  <2>1. op.cell_voltages_v \in [1 .. TOTAL_CELL_SLOTS -> Nat]
    BY <1>1, ReadingsAssumption DEF ReadingsAssumption, Holding
  <2> QED
    BY <2>1
<1>5. PICK v : v = SubSeq(op.cell_voltages_v, 1, n)
  OBVIOUS
<1>6. Len(v) = n /\ (v = <<>> <=> n = 0) /\ \A i \in 1 .. n : v[i] \in Int
  BY <1>3, <1>4, <1>5, FirstSlots
<1>7. LET x == SnapOf(held, s, j, m)
      IN /\ x.cell_voltages_v = v
         /\ x.cell_aggregates = IF v = <<>> THEN <<>> ELSE <<compute_cell_aggregates(v)>>
  <2>1. ShowsData(SnapOf(held, s, j, m), held.cell_count, op, held.raw)
    BY <1>1, SnapIs
  <2> QED
    BY <1>2, <1>5, <2>1 DEF ShowsData
<1>8. CASE n = 0
  <2>1. Range(<<>>) = {}
    BY DEF Range
  <2> QED
    BY <1>3, <1>6, <1>7, <1>8, <2>1 DEF CellsTyped
<1>9. CASE n # 0
  <2>1. compute_cell_aggregates(v) \in Aggregates
    BY <1>3, <1>6, <1>9, AggregatesType
  <2>2. \A a : Range(<<a>>) = {a}
    BY DEF Range
  <2> QED
    BY <1>3, <1>6, <1>7, <1>9, <2>1, <2>2 DEF CellsTyped
<1> QED
  BY <1>8, <1>9

(* The handlers publish nothing: what is announced and shown stays.          *)
LEMMA AnnouncedStays ==
  ASSUME AnnouncedOK, outbox = <<>>, announced' = announced, have \subseteq have',
         "discovery_published" \in flags' =>
           "discovery_published" \in flags \/ Discovery \in Range(outbox'),
         Discovery \in Range(outbox') => DiscoveryParts \subseteq have',
         recounted' \in {"yes", "no"},
         announced # {} /\ recounted' = "no" =>
           \/ recounted = "no" /\ held'.cell_count = held.cell_count
           \/ Discovery \in Range(outbox')
  PROVE  AnnouncedOK'
<1>1. Range(outbox) = {}
  BY SmallRanges
<1> QED
  BY <1>1 DEF AnnouncedOK

LEMMA ShownStays ==
  ASSUME ShownTyped, shown' = shown, have \subseteq have', had_first' \subseteq Sides
  PROVE  ShownTyped'
BY DEF ShownTyped, NoSnapshot, CellsTyped

LEMMA TailAnnounces ==
  ASSUME PublishTail(have', config', freeze')
  PROVE  /\ "discovery_published" \in flags' =>
              "discovery_published" \in flags \/ Discovery \in Range(outbox')
         /\ Discovery \in Range(outbox') => DiscoveryParts \subseteq have'
<1>1. PICK first \in BOOLEAN :
        /\ first => Fragments \subseteq have'
        /\ Range(outbox') = (IF first THEN {Discovery} ELSE {})
                              \union SnapshotCalls(have', SwitchesShown(config', freeze'))
        /\ flags' = IF first THEN flags \union {"discovery_published"} ELSE flags
  BY TailRange
<1>2. Discovery \notin SnapshotCalls(have', SwitchesShown(config', freeze'))
  BY DEF SnapshotCalls, Discovery, Snapshot
<1> QED
  BY <1>1, <1>2 DEF Fragments

LEMMA CallHolds ==
  ASSUME TypeInv, FreezeInv, OrderInv, HoldInv, MakeCall
  PROVE  HoldInv'
<1>1. /\ UNCHANGED <<have, flags, held, read_as, pack, had_first>>
      /\ outbox # <<>> /\ outbox' = Tail(outbox)
  BY DEF MakeCall, CallTaken, coordVars, dataVars, counterVars
<1>2. Holding'
  BY <1>1 DEF HoldInv, Holding
<1>3. Range(outbox) = {Head(outbox)} \union Range(outbox')
  <2>1. PICK S : outbox \in Seq(S)
    BY DEF TypeInv, OutboxOK, Saying
  <2> QED
    BY <1>1, <2>1, QueueTail
<1>4. AnnouncedOK'
  <2>1. /\ announced' = IF Head(outbox) = Discovery THEN {held.cell_count} ELSE announced
        /\ recounted' = recounted
    BY DEF MakeCall
  <2>2. held.cell_count \in 0 .. (WORD - 1)
    BY DEF HoldInv, Holding
  <2> QED
    BY <1>1, <1>3, <2>1, <2>2 DEF HoldInv, AnnouncedOK
<1>5. ShownTyped'
  <2>1. CASE Head(outbox).type = "PublishSnapshot"
    <3>1. PICK s : shown' = <<SnapOf(held, s, reconnects["jkbms"], reconnects["mqtt"])>>
      BY <2>1, CallIsCurrent DEF HoldInv
    <3>2. SnapshotParts \subseteq have
      BY <1>3, <2>1 DEF OrderInv, PublishOrder, SnapshotDue
    <3>3. CellsTyped(SnapOf(held, s, reconnects["jkbms"], reconnects["mqtt"]))
      BY <3>2, SnapshotTyped DEF HoldInv, SnapshotParts
    <3>4. CellsTyped(shown[1])'
      BY <3>1, <3>3 DEF CellsTyped
    <3> QED
      BY <1>1, <3>2, <3>4 DEF HoldInv, ShownTyped
  <2>2. CASE Head(outbox).type # "PublishSnapshot"
    <3>1. shown' = shown
      BY <2>2 DEF MakeCall
    <3> QED
      BY <1>1, <3>1, ShownStays DEF HoldInv, ShownTyped
  <2> QED
    BY <2>1, <2>2
<1> QED
  BY <1>2, <1>4, <1>5 DEF HoldInv

LEMMA FirstConnections ==
  ASSUME ShownTyped, NEW side \in Sides,
         CountConnection(side) \/ UNCHANGED counterVars
  PROVE  had_first' \subseteq Sides
BY DEF ShownTyped, CountConnection, counterVars

LEMMA MqttHolds ==
  ASSUME HoldInv, HandleMqtt
  PROVE  HoldInv'
<1>1. /\ UNCHANGED <<have, held, read_as, pack, announced, shown>> /\ outbox = <<>>
      /\ "discovery_published" \in flags' <=> "discovery_published" \in flags
      /\ \/ outbox' = Reshipped /\ recounted' = "no"
         \/ outbox' = outbox /\ recounted' = recounted
  BY DEF HandleMqtt, MqttEvent, RecvBrokerConnected, RecvBrokerDisconnected, RecvIncoming,
         RecvMqtt, dataVars, viewVars
<1>2. Holding'
  BY <1>1 DEF HoldInv, Holding
<1>3. AnnouncedOK'
  <2>1. AnnouncedOK
    BY DEF HoldInv
  <2>2. Range(outbox) = {}
    BY <1>1, SmallRanges
  <2>3. Discovery \in Range(Reshipped) <=> DiscoveryParts \subseteq have
    <3>1. Discovery \notin {Subscribe, Availability(OnlineIf(flags))}
                           \union SnapshotCalls(have, SwitchesShown(config, freeze))
      BY DEF SnapshotCalls, Discovery, Snapshot, Subscribe, Availability
    <3> QED
      BY <3>1, ReshippedRange
  <2>4. Discovery \in Range(outbox') => DiscoveryParts \subseteq have'
    BY <1>1, <2>2, <2>3
  <2>5. recounted' \in {"yes", "no"}
    BY <1>1, <2>1 DEF AnnouncedOK
  <2>6. announced # {} /\ recounted' = "no" =>
          recounted = "no" \/ Discovery \in Range(outbox')
    BY <1>1, <2>1, <2>3 DEF AnnouncedOK
  <2> QED
    BY <1>1, <2>1, <2>4, <2>5, <2>6, AnnouncedStays
<1>4. had_first' \subseteq Sides
  BY FirstConnections DEF HandleMqtt, Sides, HoldInv
<1>5. ShownTyped'
  BY <1>1, <1>4, ShownStays DEF HoldInv
<1> QED
  BY <1>2, <1>3, <1>5 DEF HoldInv

LEMMA JkbmsHolds ==
  ASSUME TypeInv, HeldOK, HoldInv, HandleJkbms
  PROVE  HoldInv'
<1> DEFINE e == Head(jkbms_events)
<1>1. /\ RecvJkbms /\ outbox = <<>> /\ held' \in HeldAfter(e) /\ UNCHANGED <<pack, announced, shown>>
      /\ read_as' = IF e.type = "Data" /\ e.of = "OperationalData" THEN pack ELSE read_as
      /\ CountConnection("jkbms") \/ UNCHANGED counterVars
      /\ recounted' = IF announced # {} /\ held'.cell_count # held.cell_count
                        THEN "yes" ELSE recounted
  BY DEF HandleJkbms, viewVars, JkbmsEvent, RecvConnection, RecvData,
         RecvWriteConfirmation, RecvWriteError, RecvJkbms
<1>7. /\ AnnouncedOK /\ recounted' \in {"yes", "no"}
      /\ announced # {} /\ recounted' = "no" =>
           recounted = "no" /\ held'.cell_count = held.cell_count
  BY <1>1 DEF HoldInv, AnnouncedOK
<1>2. e \in JkbmsEvents
  BY <1>1, JkbmsTaken
<1>3. e.type = "Data" => e.of \in Fragments \union {"Alarms"}
  <2> HIDE DEF e
  <2> QED
    BY <1>2 DEF JkbmsEvents, Fragments, SnapshotParts, DiscoveryParts
<1>4. had_first' \subseteq Sides
  BY <1>1, FirstConnections DEF Sides, HoldInv
<1>5. CASE RecvConnection
  <2>1. /\ held' = held /\ read_as' = read_as /\ have' = have
        /\ "discovery_published" \in flags' <=> "discovery_published" \in flags
    BY <1>1, <1>5 DEF RecvConnection, ConnectionChanges, HeldAfter
  <2>2. Holding'
    BY <1>1, <2>1 DEF HoldInv, Holding
  <2>3. AnnouncedOK'
    <3>1. outbox' \in {<<>>, <<Availability("online")>>, <<Availability("offline")>>}
      BY <1>1, <1>5 DEF RecvConnection, ConnectionChanges
    <3>2. Discovery \notin Range(outbox')
      BY <3>1, SmallRanges DEF Discovery, Availability
    <3> QED
      BY <1>1, <1>7, <2>1, <3>2, AnnouncedStays
  <2> QED
    BY <1>1, <1>4, <2>1, <2>2, <2>3, ShownStays DEF HoldInv
<1>6. CASE RecvData \/ RecvWriteConfirmation \/ RecvWriteError
  <2>1. PublishTail(have', config', freeze')
    BY <1>6 DEF RecvData, RecvWriteConfirmation, RecvWriteError, PublishTail
  <2>2. Holding' /\ have \subseteq have'
    <3>1. CASE RecvData
      <4>1. /\ e.type = "Data" /\ held' \in Set(e.of)
            /\ have' = have \union ({e.of} \intersect Fragments)
            /\ read_as' = IF e.of = "OperationalData" THEN pack ELSE read_as
        BY <1>1, <3>1 DEF RecvData, HeldAfter
      <4>2. Holding'
        <5> HIDE DEF e
        <5> QED
          BY <1>1, <1>3, <4>1, HoldsMore DEF HoldInv
      <4> QED
        BY <4>1, <4>2
    <3>2. CASE RecvWriteConfirmation
      <4>1. /\ held' \in Set("ConfigOptions") /\ read_as' = read_as
            /\ have' = have \union {"ConfigOptions"}
        BY <1>1, <3>2 DEF RecvWriteConfirmation, HeldAfter
      <4>2. "ConfigOptions" \in Fragments
        BY DEF Fragments, SnapshotParts
      <4>3. have' = have \union ({"ConfigOptions"} \intersect Fragments)
        BY <4>1, <4>2
      <4> QED
        BY <1>1, <4>1, <4>2, <4>3, HoldsMore DEF HoldInv
    <3>3. CASE RecvWriteError
      <4>1. held' = held /\ read_as' = read_as /\ have' = have
        BY <1>1, <3>3 DEF RecvWriteError, HeldAfter
      <4> QED
        BY <1>1, <4>1 DEF HoldInv, Holding
    <3> QED
      BY <1>6, <3>1, <3>2, <3>3
  <2>3. AnnouncedOK'
    BY <1>1, <1>7, <2>1, <2>2, TailAnnounces, AnnouncedStays
  <2>4. ShownTyped'
    BY <1>1, <1>4, <2>2, ShownStays DEF HoldInv
  <2> QED
    BY <2>2, <2>3, <2>4 DEF HoldInv
<1> QED
  BY <1>5, <1>6 DEF HandleJkbms, JkbmsEvent

LEMMA OutsideHolds ==
  ASSUME HoldInv, Outside \/ PackChanges \/ UNCHANGED vars
  PROVE  HoldInv'
<1>1. UNCHANGED <<outbox, have, flags, held, read_as, had_first, announced, shown, recounted>>
  <2>1. CASE Outside
    BY <2>1 DEF Outside, BmsSide, MqttSide, EmitData, EmitLink, EmitConfirmation, EmitError,
                BrokerConnects, BrokerDrops, HaRequests, Emit, Notify, coordVars, dataVars,
                counterVars, viewVars
  <2>2. CASE PackChanges \/ UNCHANGED vars
    BY <2>2 DEF PackChanges, vars, coordinatorVars, coordVars, dataVars, counterVars, viewVars
  <2> QED
    BY <2>1, <2>2
<1>2. pack' \in CellCounts
  BY DEF HoldInv, Holding, Outside, PackChanges, vars, dataVars
<1>3. Holding'
  BY <1>1, <1>2 DEF HoldInv, Holding
<1>4. AnnouncedOK' /\ ShownTyped'
  BY <1>1 DEF HoldInv, AnnouncedOK, ShownTyped, NoSnapshot, CellsTyped
<1> QED
  BY <1>3, <1>4 DEF HoldInv

LEMMA HoldStep ==
  TypeInv /\ FreezeInv /\ DataInv /\ OrderInv /\ HoldInv /\ [TelemetryNext]_vars => HoldInv'
<1> SUFFICES ASSUME TypeInv, FreezeInv, DataInv, OrderInv, HoldInv, [TelemetryNext]_vars
             PROVE  HoldInv'
  OBVIOUS
<1>1. CASE MakeCall
  BY <1>1, CallHolds
<1>2. CASE HandleMqtt
  BY <1>2, MqttHolds
<1>3. CASE HandleJkbms
  BY <1>3, JkbmsHolds DEF DataInv
<1>4. CASE Outside \/ PackChanges \/ UNCHANGED vars
  BY <1>4, OutsideHolds
<1> QED
  BY <1>1, <1>2, <1>3, <1>4 DEF TelemetryNext

LEMMA HoldInvariant == TelemetrySpec => [](DataInv /\ OrderInv /\ HoldInv)
<1>1. TelemetrySpec => []OrderInv
  BY TelemetryKeepsCoordinator, PollsInOrder, PTL
<1> QED
  BY <1>1, DataInvariant, HoldInit, HoldStep, PTL DEF TelemetrySpec

-----------------------------------------------------------------------------
(* The payloads keep their types, whatever the BMS is set to: a snapshot     *)
(* never has more cells than there are slots, nor aggregates of no cells     *)
(* (active_slots, compute_cell_aggregates), and no count overflows.          *)
THEOREM TelemetryTyped == TelemetrySpec => []TelemetryTypeOK
<1>1. DataInv /\ HoldInv => TelemetryTypeOK
  <2> SUFFICES ASSUME DataInv, HoldInv PROVE TelemetryTypeOK
    OBVIOUS
  <2>1. held.operational = <<>> <=> "OperationalData" \notin have
    <3>1. \A op : <<op>> # <<>>
      OBVIOUS
    <3> QED
      BY <3>1 DEF HoldInv, Holding
  <2>2. recounted \in {"yes", "no"}
    BY DEF HoldInv, AnnouncedOK
  <2>3. announced \subseteq 0 .. (WORD - 1) /\ Cardinality(announced) <= 1
    <3>1. \A n : Cardinality({n}) = 1
      BY FS_Singleton
    <3>2. Cardinality({}) = 0
      BY FS_EmptySet
    <3>3. announced = {} \/ \E n \in 0 .. (WORD - 1) : announced = {n}
      BY DEF HoldInv, AnnouncedOK
    <3>4. CASE announced = {}
      BY <3>2, <3>4
    <3>5. CASE \E n \in 0 .. (WORD - 1) : announced = {n}
      <4>1. PICK n \in 0 .. (WORD - 1) : announced = {n}
        BY <3>5
      <4>2. Cardinality(announced) = 1
        BY <3>1, <4>1
      <4> QED
        BY <4>1, <4>2
    <3> QED
      BY <3>3, <3>4, <3>5
  <2> QED
    BY <2>1, <2>2, <2>3
    DEF DataInv, CountsOK, HoldInv, Holding, ShownTyped, CellsTyped, TelemetryTypeOK
<1> QED
  BY <1>1, HoldInvariant, PTL

-----------------------------------------------------------------------------
(* A snapshot shows the BMS as it is.                                        *)

(* What was published last, when nothing is left to publish.                 *)
LEMMA ShownNow ==
  ASSUME DataInv, HoldInv, Published
  PROVE  \E op \in Readings[read_as] :
           /\ SnapshotParts \subseteq have /\ held.operational = <<op>>
           /\ \E s, j, m : shown[1] = SnapOf(held, s, j, m)
           /\ ShowsData(shown[1], held.cell_count, op, held.raw)
<1>1. outbox = <<>> /\ ~NoSnapshot /\ SnapshotParts \subseteq have
  BY DEF Published, HoldInv, ShownTyped
<1>2. UpToDate
  BY <1>1, NothingPending DEF UpToDate
<1>3. PICK h, s, j, m : ShownWas(h, s, j, m)
  BY <1>2 DEF DataInv, ShownOK
<1>4. shown = <<SnapOf(held, s, j, m)>>
  BY <1>2, <1>3 DEF ShownWas
<1>5. PICK op \in Readings[read_as] : held.operational = <<op>>
  BY <1>1 DEF HoldInv, Holding, SnapshotParts
<1>6. ShowsData(SnapOf(held, s, j, m), held.cell_count, op, held.raw)
  BY <1>5, SnapIs
<1> QED
  BY <1>1, <1>4, <1>5, <1>6

LEMMA ToTheMinute ==
  ASSUME NEW secs \in Nat
  PROVE  LET t == format_iso8601(secs)
         IN /\ t.days * 1440 + t.hours * 60 + t.minutes = secs \div 60
            /\ t.hours < 24 /\ t.minutes < 60
<1>1. PICK d, h, m, r, q, p \in Nat :
        /\ d = secs \div 86400 /\ r = secs % 86400 /\ h = r \div 3600 /\ q = r % 3600
        /\ m = q \div 60 /\ p = q % 60
  <2>1. secs \div 86400 \in Nat /\ secs % 86400 \in Nat
    OBVIOUS
  <2>2. \A r \in Nat : r \div 3600 \in Nat /\ r % 3600 \in Nat
    OBVIOUS
  <2>3. \A q \in Nat : q \div 60 \in Nat /\ q % 60 \in Nat
    OBVIOUS
  <2> QED
    BY <2>1, <2>2, <2>3
<1>2. secs = 86400 * d + r /\ r < 86400
  BY <1>1
<1>3. r = 3600 * h + q /\ q < 3600
  BY <1>1
<1>4. q = 60 * m + p /\ p < 60
  BY <1>1
<1>5. h < 24 /\ m < 60
  BY <1>2, <1>3, <1>4
<1>6. secs \div 60 = 1440 * d + 60 * h + m
  BY <1>2, <1>3, <1>4
<1>7. format_iso8601(secs) = [days |-> d, hours |-> h, minutes |-> m]
  BY <1>1 DEF format_iso8601
<1>8. d * 1440 + h * 60 + m = secs \div 60
  BY <1>6
<1> QED
  BY <1>5, <1>7, <1>8

LEMMA AlarmsShown ==
  ASSUME NEW raw
  PROVE  LET a == decode_alarms(raw)
         IN /\ a.described = raw \intersect KnownBits
            /\ a.described \union a.word = {} => raw = {}
BY DEF decode_alarms

(* With the configuration and the operational data of one setting the cells  *)
(* of a snapshot are those in use, and the aggregates are of them.           *)
LEMMA CellsShown ==
  ASSUME NEW x, NEW c \in 0 .. (WORD - 1), NEW n \in CellCounts, NEW op \in Readings[n], NEW raw,
         c = CellCount(n), ShowsData(x, c, op, raw)
  PROVE  LET v == op.cell_voltages_v
         IN /\ DOMAIN x.cell_voltages_v = InUse(v)
            /\ DOMAIN x.cell_resistances_ohm = InUse(v)
            /\ IF InUse(v) = {} THEN x.cell_aggregates = <<>>
                                ELSE AreAggregates(x.cell_aggregates[1], v)
<1>1. PICK k : k = ActiveSlots(c)
  OBVIOUS
<1>2. PICK w : w = op.cell_voltages_v
  OBVIOUS
<1>3. PICK v : v = SubSeq(w, 1, k)
  OBVIOUS
<1>4. /\ TOTAL_CELL_SLOTS \in Nat /\ k \in 0 .. TOTAL_CELL_SLOTS
      /\ w \in [1 .. TOTAL_CELL_SLOTS -> Nat] /\ InUse(w) = 1 .. k
      /\ op.cell_resistances_ohm \in [1 .. TOTAL_CELL_SLOTS -> Int]
  <2>1. c \in Nat /\ TOTAL_CELL_SLOTS \in Nat
    BY TelemetryAssumption DEF TelemetryAssumption
  <2>2. k \in 0 .. TOTAL_CELL_SLOTS
    BY <1>1, <2>1, SlotsInUse
  <2>3. k = Min({CellCount(n), TOTAL_CELL_SLOTS})
    BY <1>1 DEF ActiveSlots
  <2> QED
    BY <1>2, <2>1, <2>2, <2>3, ReadingsAssumption DEF ReadingsAssumption
<1>5. /\ x.cell_voltages_v = v
      /\ x.cell_resistances_ohm = SubSeq(op.cell_resistances_ohm, 1, k)
      /\ x.cell_aggregates = IF v = <<>> THEN <<>> ELSE <<compute_cell_aggregates(v)>>
  BY <1>1, <1>2, <1>3 DEF ShowsData
<1>6. /\ DOMAIN v = 1 .. k /\ Len(v) = k /\ (v = <<>> <=> k = 0)
      /\ \A i \in 1 .. k : v[i] = w[i] /\ w[i] \in Int
  <2>1. \A i \in 1 .. k : w[i] \in Int
    BY <1>4
  <2> QED
    BY <1>3, <1>4, <2>1, FirstSlots
<1>7. DOMAIN x.cell_resistances_ohm = 1 .. k
  BY <1>4, <1>5, FirstSlots
<1>8. CASE k = 0
  <2>1. InUse(w) = {}
    BY <1>4, <1>8
  <2> QED
    BY <1>2, <1>4, <1>5, <1>6, <1>7, <1>8, <2>1
<1>9. CASE k # 0
  <2>1. k \in Nat \ {0} /\ InUse(w) # {}
    <3>1. k \in Nat \ {0} /\ 1 \in 1 .. k
      BY <1>4, <1>9
    <3> QED
      BY <1>4, <3>1
  <2>2. AreAggregates(compute_cell_aggregates(v), w)
    BY <1>4, <1>6, <2>1, AggregatesRight
  <2>3. x.cell_aggregates[1] = compute_cell_aggregates(v)
    BY <1>5, <1>6, <1>9
  <2> QED
    BY <1>2, <1>4, <1>5, <1>6, <1>7, <2>1, <2>2, <2>3
<1> QED
  BY <1>8, <1>9

(* A snapshot has exactly the cells in use and their aggregates (snapshot,   *)
(* compute_cell_aggregates), every alarm shows (decode_alarms), and the      *)
(* running time is that of the BMS to the minute (format_iso8601), for any   *)
(* number of cells and slots and any running time.                           *)
THEOREM SnapshotsAreRight == TelemetrySpec => []SnapshotRight
<1>1. DataInv /\ HoldInv => SnapshotRight
  <2> SUFFICES ASSUME DataInv, HoldInv, Published
               PROVE  LET x  == shown[1]
                          op == x.operational
                          v  == op.cell_voltages_v
                          t  == x.total_runtime
                      IN /\ held.cell_count = CellCount(read_as) =>
                              /\ DOMAIN x.cell_voltages_v = InUse(v)
                              /\ DOMAIN x.cell_resistances_ohm = InUse(v)
                              /\ IF InUse(v) = {}
                                   THEN x.cell_aggregates = <<>>
                                   ELSE AreAggregates(x.cell_aggregates[1], v)
                         /\ x.alarm_list.described = held.raw \intersect KnownBits
                         /\ x.alarm_list.described \union x.alarm_list.word = {} => held.raw = {}
                         /\ t.days * 1440 + t.hours * 60 + t.minutes = op.total_runtime_s \div 60
                         /\ t.hours < 24 /\ t.minutes < 60
    BY DEF SnapshotRight
  <2>1. PICK op \in Readings[read_as] : ShowsData(shown[1], held.cell_count, op, held.raw)
    BY ShownNow
  <2>2. PICK x : x = shown[1]
    OBVIOUS
  <2>3. /\ x.operational = op /\ x.total_runtime = format_iso8601(op.total_runtime_s)
        /\ x.alarm_list = decode_alarms(held.raw)
    BY <2>1, <2>2 DEF ShowsData
  <2>4. read_as \in CellCounts /\ held.cell_count \in 0 .. (WORD - 1)
    BY DEF HoldInv, Holding
  <2>5. op.total_runtime_s \in Nat
    BY <2>4, ReadingsAssumption DEF ReadingsAssumption
  <2>6. held.cell_count = CellCount(read_as) =>
          /\ DOMAIN x.cell_voltages_v = InUse(op.cell_voltages_v)
          /\ DOMAIN x.cell_resistances_ohm = InUse(op.cell_voltages_v)
          /\ IF InUse(op.cell_voltages_v) = {}
               THEN x.cell_aggregates = <<>>
               ELSE AreAggregates(x.cell_aggregates[1], op.cell_voltages_v)
    BY <2>1, <2>2, <2>4, CellsShown
  <2>7. /\ x.alarm_list.described = held.raw \intersect KnownBits
        /\ x.alarm_list.described \union x.alarm_list.word = {} => held.raw = {}
    BY <2>3, AlarmsShown
  <2>8. LET t == x.total_runtime
        IN /\ t.days * 1440 + t.hours * 60 + t.minutes = op.total_runtime_s \div 60
           /\ t.hours < 24 /\ t.minutes < 60
    BY <2>3, <2>5, ToTheMinute
  <2> QED
    BY <2>2, <2>3, <2>6, <2>7, <2>8
<1> QED
  BY <1>1, HoldInvariant, PTL

-----------------------------------------------------------------------------
(* The switches.                                                             *)

(* The topic of a command names its entity.                                  *)
LEMMA SetTopicEnds ==
  ASSUME NEW id, NEW e
  PROVE  EndsWith(set_topic(id), e) <=> e = id
<1> DEFINE S == {bms_name, id, "set"}
<1>1. PICK t : t = set_topic(id)
  OBVIOUS
<1>2. t = <<bms_name, id, "set">>
  BY <1>1 DEF set_topic
<1>3. Len(t) = 3 /\ t[1] = bms_name /\ t[2] = id /\ t[3] = "set"
  BY <1>2
<1>4. \A i \in 2 .. 3 : t[i] \in S
  <2>1. 2 .. 3 = {2, 3}
    OBVIOUS
  <2> QED
    BY <1>3, <2>1
<1>5. PICK u : u = SubSeq(t, 2, 3)
  OBVIOUS
<1>6. /\ u \in Seq(S) /\ Len(u) = 2
      /\ \A i \in 1 .. 2 : u[i] = t[i + 1]
  <2> HIDE DEF S
  <2>1. /\ SubSeq(t, 2, 3) \in Seq(S)
        /\ Len(SubSeq(t, 2, 3)) = IF 2 <= 3 THEN 3 - 2 + 1 ELSE 0
        /\ \A i \in 1 .. 3 - 2 + 1 : SubSeq(t, 2, 3)[i] = t[2 + i - 1]
    BY <1>4, SubSeqProperties
  <2>2. Len(u) = 2
    BY <1>5, <2>1
  <2>3. \A i \in 1 .. 2 : u[i] = t[i + 1]
    <3>1. \A i \in 1 .. 2 : u[i] = t[2 + i - 1] /\ 2 + i - 1 = i + 1
      BY <1>5, <2>1
    <3> QED
      BY <3>1
  <2> QED
    BY <1>5, <2>1, <2>2, <2>3
<1>7. u[1] = id /\ u[2] = "set"
  BY <1>3, <1>6
<1>8. EndsWith(set_topic(id), e) <=> u = <<e, "set">>
  <2>1. Len(t) - 1 = 2
    BY <1>3
  <2> QED
    BY <1>1, <1>3, <1>5, <2>1 DEF EndsWith
<1>9. u = <<e, "set">> => e = id
  BY <1>7
<1>10. e = id => u = <<e, "set">>
  <2> HAVE e = id
  <2>1. <<id, "set">> \in Seq(S) /\ Len(<<id, "set">>) = 2
    OBVIOUS
  <2>2. \A i \in 1 .. 2 : u[i] = <<id, "set">>[i]
    <3>1. 1 .. 2 = {1, 2}
      OBVIOUS
    <3> QED
      BY <1>7, <3>1
  <2> HIDE DEF S
  <2> QED
    BY <1>6, <2>1, <2>2, SeqEqual
<1> QED
  BY <1>8, <1>9, <1>10

(* A payload on it is parsed to the switch.                                  *)
LEMMA CommandParsed ==
  ASSUME NEW w \in {"charging", "balancing"}, NEW payload, parse_on_off(payload) # "None"
  PROVE  parse_inbound_command(set_topic(<<w, 0>>), payload) =
           {[switch |-> w, value |-> parse_on_off(payload)]}
<1>1. \A x \in {"charging", "balancing"} : EndsWith(set_topic(<<w, 0>>), <<x, 0>>) <=> x = w
  BY SetTopicEnds
<1>2. {x \in {"charging", "balancing"} :
         EndsWith(set_topic(<<w, 0>>), <<x, 0>>) /\ parse_on_off(payload) # "None"} = {w}
  BY <1>1
<1> QED
  BY <1>2 DEF parse_inbound_command

LEMMA OnOffParsed ==
  /\ parse_on_off("ON") = "on" /\ parse_on_off("OFF") = "off"
BY DEF parse_on_off

LEMMA SwitchAnnounced ==
  ASSUME NEW w \in {"charging", "balancing"}, NEW n
  PROVE  LET p == switch_payload(<<w, 0>>)
         IN /\ p \in build_payloads(n)
            /\ p.unique_id = <<bms_name, <<w, 0>>>>
            /\ p.state_topic = state_topic(<<w, 0>>)
            /\ p.command_topic = set_topic(<<w, 0>>)
            /\ p.payloads = [on |-> "ON", off |-> "OFF"]
<1>1. <<w, 0>> \in Ids({"charging", "balancing"})
  BY DEF Ids
<1>2. switch_payload(<<w, 0>>) \in build_payloads(n)
  BY <1>1 DEF build_payloads
<1>3. LET p == switch_payload(<<w, 0>>)
      IN /\ p.unique_id = <<bms_name, <<w, 0>>>>
         /\ p.state_topic = state_topic(<<w, 0>>)
         /\ p.command_topic = set_topic(<<w, 0>>)
         /\ p.payloads = [on |-> "ON", off |-> "OFF"]
  BY DEF switch_payload, Payload, OnOffPayloads
<1> QED
  BY <1>2, <1>3

LEMMA SwitchStateThere ==
  ASSUME NEW w \in {"charging", "balancing"}, NEW s
  PROVE  <<state_topic(<<w, 0>>), on_off(s.switches[w])>> \in per_entity_publications(s)
<1>1. <<<<w, 0>>, on_off(s.switches[w])>> \in Each({w}, on_off(s.switches[w]))
  BY DEF Each, Ids
<1>2. <<<<w, 0>>, on_off(s.switches[w])>> \in OtherStates(s)
  BY <1>1 DEF OtherStates
<1> QED
  BY <1>2 DEF per_entity_publications

(* Every announced switch can be operated (build_switch, subscriptions,      *)
(* parse_inbound_command, per_entity_publications): whatever the bridge is   *)
(* called, its command topic is subscribed to and is parsed back to it.      *)
THEOREM SwitchesWork == TelemetrySpec => []SwitchesCommandable
<1>1. SwitchesCommandable
  <2> SUFFICES ASSUME NEW w \in Switches
               PROVE  \E p \in build_payloads(held.cell_count) :
                        /\ p.unique_id = <<bms_name, <<w, 0>>>>
                        /\ p.command_topic \in Subscriptions
                        /\ parse_inbound_command(p.command_topic, p.payloads.on) =
                              {[switch |-> w, value |-> "on"]}
                        /\ parse_inbound_command(p.command_topic, p.payloads.off) =
                              {[switch |-> w, value |-> "off"]}
                        /\ <<p.state_topic,
                             IF shown[1].switches[w] = "on" THEN p.payloads.on
                                                            ELSE p.payloads.off>>
                              \in per_entity_publications(shown[1])
    BY DEF SwitchesCommandable
  <2>1. w \in {"charging", "balancing"}
    BY TelemetryAssumption DEF TelemetryAssumption
  <2>2. PICK p \in build_payloads(held.cell_count) :
          /\ p.unique_id = <<bms_name, <<w, 0>>>>
          /\ p.state_topic = state_topic(<<w, 0>>)
          /\ p.command_topic = set_topic(<<w, 0>>)
          /\ p.payloads = [on |-> "ON", off |-> "OFF"]
    BY <2>1, SwitchAnnounced
  <2>3. p.command_topic \in Subscriptions
    BY <2>1, <2>2 DEF Subscriptions, inbound_commands, Ids
  <2>4. p.payloads.on = "ON" /\ p.payloads.off = "OFF"
    BY <2>2
  <2>5. /\ parse_inbound_command(p.command_topic, "ON") = {[switch |-> w, value |-> "on"]}
        /\ parse_inbound_command(p.command_topic, "OFF") = {[switch |-> w, value |-> "off"]}
    <3>1. parse_on_off("ON") # "None" /\ parse_on_off("OFF") # "None"
      BY OnOffParsed
    <3> QED
      BY <2>1, <2>2, <3>1, CommandParsed, OnOffParsed
  <2>6. <<p.state_topic, IF shown[1].switches[w] = "on" THEN "ON" ELSE "OFF">>
          \in per_entity_publications(shown[1])
    BY <2>1, <2>2, SwitchStateThere DEF on_off
  <2> QED
    BY <2>3, <2>2, <2>4, <2>5, <2>6
<1> QED
  BY <1>1, PTL

-----------------------------------------------------------------------------
(* The entities.                                                             *)

FixedNames ==
  {"total_voltage", "total_current", "total_power", "state_of_charge",
   "state_of_health", "capacity_remaining", "power_cycle_count",
   "total_cycle_capacity", "battery_capacity_ah", "charging_cycles",
   "total_runtime_seconds", "total_runtime", "mos_temperature",
   "temperature_sensor_1", "temperature_sensor_2", "temperature_sensor_4",
   "temperature_sensor_5", "balancing_current", "alarm_list", "last_update_age",
   "jkbms_reconnect_count", "mqtt_reconnect_count", "balancing_active",
   "charging", "balancing"}

AllIds(n) == Ids(FixedNames) \union CellSensors(n) \union CellAggregateSensors

(* The payload of an entity.                                                 *)
Announced(id) ==
  IF id \in Ids({"balancing_active"}) THEN binary_sensor(id)
  ELSE IF id \in Ids({"charging", "balancing"}) THEN switch_payload(id)
  ELSE sensor(id)

LEMMA IdsAre ==
  /\ \A A, B : Ids(A \union B) = Ids(A) \union Ids(B)
  /\ \A A, e, k : <<e, k>> \in Ids(A) <=> e \in A /\ k = 0
  /\ \A A : Ids(A) = A \X {0}
<1>1. \A A : Ids(A) = A \X {0}
  BY DEF Ids
<1> QED
  BY <1>1

LEMMA CellSensorsAre ==
  ASSUME NEW n \in Nat
  PROVE  /\ CellSensors(n) = {"cell_voltage", "cell_resistance"} \X (1 .. n)
         /\ \A A : CellSensors(n) \intersect Ids(A) = {}
<1>1. CellSensors(n) = {"cell_voltage", "cell_resistance"} \X (1 .. n)
  BY DEF CellSensors
<1> QED
  BY <1>1, IdsAre

SensorNames == FixedNames \ {"balancing_active", "charging", "balancing"}

LEMMA EntitiesAre ==
  ASSUME NEW n \in Nat
  PROVE  build_payloads(n) = {Announced(id) : id \in AllIds(n)}
<1> DEFINE S == PackSensors \union Totals \union CellSensors(n)
                  \union CellAggregateSensors \union TemperatureSensors
                  \union Ids({"balancing_current", "alarm_list"}) \union DiagnosticSensors
           B == Ids({"balancing_active"})
           W == Ids({"charging", "balancing"})
<1>1. S = Ids(SensorNames) \union CellSensors(n) \union CellAggregateSensors
  <2>1. PackSensors \union Totals \union TemperatureSensors
          \union Ids({"balancing_current", "alarm_list"}) \union DiagnosticSensors
        = Ids(SensorNames)
    BY DEF PackSensors, Totals, TemperatureSensors, DiagnosticSensors, Ids, SensorNames, FixedNames
  <2> QED
    BY <2>1
<1>2. AllIds(n) = S \union B \union W
  <2>1. FixedNames = SensorNames \union {"balancing_active"} \union {"charging", "balancing"}
    BY DEF FixedNames, SensorNames
  <2>2. Ids(FixedNames) = Ids(SensorNames) \union B \union W
    BY <2>1, IdsAre
  <2> HIDE DEF S, B, W
  <2> QED
    BY <1>1, <2>2 DEF AllIds
<1>3. S \intersect B = {} /\ S \intersect W = {} /\ B \intersect W = {}
  <2>1. CellSensors(n) \intersect B = {} /\ CellSensors(n) \intersect W = {}
    BY CellSensorsAre
  <2>2. /\ CellAggregateSensors \intersect B = {} /\ CellAggregateSensors \intersect W = {}
        /\ B \intersect W = {}
    BY DEF CellAggregateSensors, Ids
  <2>3. Ids(SensorNames) \intersect B = {} /\ Ids(SensorNames) \intersect W = {}
    BY DEF Ids, SensorNames
  <2> HIDE DEF S, B, W
  <2> QED
    BY <1>1, <2>1, <2>2, <2>3
<1>4. build_payloads(n) = {sensor(id) : id \in S} \union {binary_sensor(id) : id \in B}
                            \union {switch_payload(id) : id \in W}
  BY DEF build_payloads
<1>5. \A id : Announced(id) = IF id \in B THEN binary_sensor(id)
                              ELSE IF id \in W THEN switch_payload(id) ELSE sensor(id)
  BY DEF Announced
<1> HIDE DEF S, B, W
<1> QED
  BY <1>2, <1>3, <1>4, <1>5

LEMMA AnnouncedFields ==
  ASSUME NEW id
  PROVE  Announced(id).unique_id = <<bms_name, id>> /\ Announced(id).state_topic = state_topic(id)
<1>1. \A c : /\ Payload(c, id).unique_id = <<bms_name, id>>
             /\ Payload(c, id).state_topic = state_topic(id)
  BY DEF Payload
<1>2. \A x : /\ x \in {binary_sensor(id), switch_payload(id), sensor(id)}
             => x.unique_id = <<bms_name, id>> /\ x.state_topic = state_topic(id)
  BY <1>1 DEF binary_sensor, switch_payload, sensor, Payload
<1> QED
  BY <1>2 DEF Announced

-----------------------------------------------------------------------------
(* They are finitely many, and distinct.                                     *)
LEMMA SixFinite ==
  ASSUME NEW a, NEW b, NEW c, NEW d, NEW e, NEW f
  PROVE  IsFiniteSet({a, b, c, d, e, f})
<1>1. IsFiniteSet({a})
  BY FS_Singleton
<1>2. IsFiniteSet({a} \union {b})
  BY <1>1, FS_AddElement
<1>3. IsFiniteSet(({a} \union {b}) \union {c})
  BY <1>2, FS_AddElement
<1>4. IsFiniteSet((({a} \union {b}) \union {c}) \union {d})
  BY <1>3, FS_AddElement
<1>5. IsFiniteSet(((({a} \union {b}) \union {c}) \union {d}) \union {e})
  BY <1>4, FS_AddElement
<1>6. IsFiniteSet((((({a} \union {b}) \union {c}) \union {d}) \union {e}) \union {f})
  BY <1>5, FS_AddElement
<1>7. (((({a} \union {b}) \union {c}) \union {d}) \union {e}) \union {f} = {a, b, c, d, e, f}
  OBVIOUS
<1> QED
  BY <1>6, <1>7

LEMMA EntitiesFinite ==
  ASSUME NEW n \in Nat
  PROVE  IsFiniteSet(AllIds(n))
<1> DEFINE A == {"total_voltage", "total_current", "total_power", "state_of_charge",
                 "state_of_health", "capacity_remaining"}
           B == {"power_cycle_count", "total_cycle_capacity", "battery_capacity_ah",
                 "charging_cycles", "total_runtime_seconds", "total_runtime"}
           C == {"mos_temperature", "temperature_sensor_1", "temperature_sensor_2",
                 "temperature_sensor_4", "temperature_sensor_5", "balancing_current"}
           D == {"alarm_list", "last_update_age", "jkbms_reconnect_count",
                 "mqtt_reconnect_count", "balancing_active", "charging"}
           E == {"balancing", "balancing", "balancing", "balancing", "balancing", "balancing"}
           F == {"cell_voltage_average", "cell_voltage_min", "cell_voltage_max",
                 "cell_voltage_delta", "cell_voltage_min_cell", "cell_voltage_max_cell"}
           G == {"cell_voltage", "cell_resistance", "cell_voltage", "cell_resistance",
                 "cell_voltage", "cell_resistance"}
<1>1. /\ IsFiniteSet(A) /\ IsFiniteSet(B) /\ IsFiniteSet(C) /\ IsFiniteSet(D)
      /\ IsFiniteSet(E) /\ IsFiniteSet(F) /\ IsFiniteSet(G)
  BY SixFinite
<1>2. FixedNames = A \union B \union C \union D \union E
  BY DEF FixedNames
<1>3. CellAggregateSensors = F \X {0}
  BY DEF CellAggregateSensors, Ids
<1>4. G = {"cell_voltage", "cell_resistance"}
  OBVIOUS
<1> HIDE DEF A, B, C, D, E, F, G
<1>5. IsFiniteSet(FixedNames)
  <2>1. IsFiniteSet(A \union B) /\ IsFiniteSet(C \union D)
    BY <1>1, FS_Union
  <2>2. IsFiniteSet((A \union B) \union (C \union D))
    BY <2>1, FS_Union
  <2>3. IsFiniteSet(((A \union B) \union (C \union D)) \union E)
    BY <1>1, <2>2, FS_Union
  <2>4. ((A \union B) \union (C \union D)) \union E = FixedNames
    BY <1>2
  <2> QED
    BY <2>3, <2>4
<1>6. IsFiniteSet({0}) /\ IsFiniteSet(1 .. n)
  <2>1. IsFiniteSet({0})
    BY FS_Singleton
  <2>2. IsFiniteSet(1 .. n)
    BY FS_Interval
  <2> QED
    BY <2>1, <2>2
<1>7. IsFiniteSet(FixedNames \X {0})
  BY <1>5, <1>6, FS_Product
<1>8. IsFiniteSet(F \X {0})
  BY <1>1, <1>6, FS_Product
<1>9. IsFiniteSet(G \X (1 .. n))
  BY <1>1, <1>6, FS_Product
<1>10. /\ Ids(FixedNames) = FixedNames \X {0}
       /\ CellSensors(n) = G \X (1 .. n)
  BY <1>4, IdsAre, CellSensorsAre
<1>11. IsFiniteSet(Ids(FixedNames) \union CellSensors(n))
  BY <1>7, <1>9, <1>10, FS_Union
<1>12. IsFiniteSet((Ids(FixedNames) \union CellSensors(n)) \union CellAggregateSensors)
  BY <1>3, <1>8, <1>11, FS_Union
<1> QED
  BY <1>12 DEF AllIds

LEMMA EntitiesDistinct ==
  ASSUME NEW n \in Nat
  PROVE  LET entities == build_payloads(n)
         IN Cardinality({p.unique_id : p \in entities}) = Cardinality(entities)
<1> DEFINE I == AllIds(n)
           P == {Announced(id) : id \in I}
           U == {p.unique_id : p \in P}
           f == [id \in I |-> Announced(id)]
           g == [id \in I |-> <<bms_name, id>>]
<1>1. IsFiniteSet(I)
  BY EntitiesFinite
<1> HIDE DEF I
<1>2. \A id : Announced(id).unique_id = <<bms_name, id>>
  BY AnnouncedFields
<1>3. f \in Bijection(I, P)
  <2>1. \A a, b \in I : Announced(a) = Announced(b) => a = b
    BY <1>2
  <2> QED
    BY <2>1 DEF Bijection, Injection, Surjection, IsInjective
<1>4. U = {<<bms_name, id>> : id \in I}
  BY <1>2
<1>5. g \in Bijection(I, U)
  BY <1>4 DEF Bijection, Injection, Surjection, IsInjective
<1> HIDE DEF f, g, P, U
<1>6. Cardinality(P) = Cardinality(I) /\ Cardinality(U) = Cardinality(I)
  <2>1. ExistsBijection(I, P) /\ ExistsBijection(I, U)
    BY <1>3, <1>5 DEF ExistsBijection
  <2> QED
    BY <1>1, <2>1, FS_Bijection
<1> QED
  BY <1>6, EntitiesAre DEF P, U, I

-----------------------------------------------------------------------------
(* The states.                                                               *)

Pairs(s) ==
  PackStates(s) \union CellStates(s) \union AggregateStates(s) \union OtherStates(s)

Firsts(P) == {x[1] : x \in P}

(* What is published of an entity.                                           *)
Measured ==
  {"total_voltage", "total_current", "total_power", "state_of_charge",
   "state_of_health", "capacity_remaining", "total_cycle_capacity",
   "charging_cycles", "mos_temperature", "temperature_sensor_1",
   "temperature_sensor_2", "temperature_sensor_4", "temperature_sensor_5",
   "balancing_current", "balancing_active"}

AggregateOf(a, e) ==
  IF e = "cell_voltage_average" THEN a.average_v
  ELSE IF e = "cell_voltage_min" THEN a.min_v
  ELSE IF e = "cell_voltage_max" THEN a.max_v
  ELSE IF e = "cell_voltage_delta" THEN a.delta_v
  ELSE IF e = "cell_voltage_min_cell" THEN a.min_cell
  ELSE a.max_cell

ValueOf(s, id) ==
  LET e == id[1]
  IN IF e \in Measured THEN s.operational
     ELSE IF e = "battery_capacity_ah" THEN s.battery_capacity_ah
     ELSE IF e = "total_runtime_seconds" THEN s.total_runtime_s
     ELSE IF e = "total_runtime" THEN s.total_runtime
     ELSE IF e = "cell_voltage" THEN s.cell_voltages_v[id[2]]
     ELSE IF e = "cell_resistance" THEN s.cell_resistances_ohm[id[2]]
     ELSE IF e = "charging" THEN on_off(s.switches["charging"])
     ELSE IF e = "balancing" THEN on_off(s.switches["balancing"])
     ELSE IF e = "alarm_list" THEN s.alarm_list
     ELSE IF e = "power_cycle_count" THEN s.power_cycle_count
     ELSE IF e = "last_update_age" THEN "elapsed"
     ELSE IF e = "jkbms_reconnect_count" THEN s.jkbms_reconnect_count
     ELSE IF e = "mqtt_reconnect_count" THEN s.mqtt_reconnect_count
     ELSE AggregateOf(s.cell_aggregates[1], e)

(* All that is published is of what it is published for.                     *)
Valued(P, s) == \A x \in P : x = <<x[1], ValueOf(s, x[1])>>

LEMMA EachIs ==
  ASSUME NEW A, NEW v
  PROVE  /\ \A x \in Each(A, v) : \E e \in A : x = <<<<e, 0>>, v>>
         /\ Firsts(Each(A, v)) = Ids(A)
         /\ \A B : Each(A \union B, v) = Each(A, v) \union Each(B, v)
<1>1. Each(A, v) = {<<<<e, 0>>, v>> : e \in A}
  BY DEF Each, Ids
<1>2. \A B : Each(A \union B, v) = Each(A, v) \union Each(B, v)
  BY DEF Each, Ids
<1>3. Firsts(Each(A, v)) = Ids(A)
  <2>1. Firsts(Each(A, v)) = {<<<<e, 0>>, v>>[1] : e \in A}
    BY <1>1 DEF Firsts
  <2>2. \A e \in A : <<<<e, 0>>, v>>[1] = <<e, 0>>
    OBVIOUS
  <2> QED
    BY <2>1, <2>2 DEF Ids
<1> QED
  BY <1>1, <1>2, <1>3

LEMMA EachValued ==
  ASSUME NEW s, NEW A, NEW v, \A e \in A : ValueOf(s, <<e, 0>>) = v
  PROVE  Valued(Each(A, v), s)
<1> SUFFICES ASSUME NEW x \in Each(A, v) PROVE x = <<x[1], ValueOf(s, x[1])>>
  BY DEF Valued
<1>1. PICK e \in A : x = <<<<e, 0>>, v>>
  BY EachIs
<1>2. x[1] = <<e, 0>>
  BY <1>1
<1> QED
  BY <1>1, <1>2

LEMMA PackValued ==
  ASSUME NEW s
  PROVE  Valued(PackStates(s), s)
<1> DEFINE M == {"total_voltage", "total_current", "total_power", "state_of_charge",
                 "state_of_health", "capacity_remaining", "total_cycle_capacity",
                 "charging_cycles"}
<1>1. Valued(Each(M, s.operational), s)
  <2>1. \A e \in M : ValueOf(s, <<e, 0>>) = s.operational
    BY DEF ValueOf, Measured
  <2> QED
    BY <2>1, EachValued
<1>2. Valued(Each({"battery_capacity_ah"}, s.battery_capacity_ah), s)
  <2>1. \A e \in {"battery_capacity_ah"} : ValueOf(s, <<e, 0>>) = s.battery_capacity_ah
    BY DEF ValueOf, Measured
  <2> QED
    BY <2>1, EachValued
<1>3. Valued(Each({"total_runtime_seconds"}, s.total_runtime_s), s)
  <2>1. \A e \in {"total_runtime_seconds"} : ValueOf(s, <<e, 0>>) = s.total_runtime_s
    BY DEF ValueOf, Measured
  <2> QED
    BY <2>1, EachValued
<1>4. Valued(Each({"total_runtime"}, s.total_runtime), s)
  <2>1. \A e \in {"total_runtime"} : ValueOf(s, <<e, 0>>) = s.total_runtime
    BY DEF ValueOf, Measured
  <2> QED
    BY <2>1, EachValued
<1> QED
  BY <1>1, <1>2, <1>3, <1>4 DEF Valued, PackStates

LEMMA OtherValued ==
  ASSUME NEW s
  PROVE  Valued(OtherStates(s), s)
<1> DEFINE M == {"mos_temperature", "temperature_sensor_1", "temperature_sensor_2",
                 "temperature_sensor_4", "temperature_sensor_5", "balancing_current",
                 "balancing_active"}
<1>1. Valued(Each(M, s.operational), s)
  <2>1. \A e \in M : ValueOf(s, <<e, 0>>) = s.operational
    BY DEF ValueOf, Measured
  <2> QED
    BY <2>1, EachValued
<1>2. Valued(Each({"charging"}, on_off(s.switches["charging"])), s)
  <2>1. \A e \in {"charging"} : ValueOf(s, <<e, 0>>) = on_off(s.switches["charging"])
    BY DEF ValueOf, Measured
  <2> QED
    BY <2>1, EachValued
<1>3. Valued(Each({"balancing"}, on_off(s.switches["balancing"])), s)
  <2>1. \A e \in {"balancing"} : ValueOf(s, <<e, 0>>) = on_off(s.switches["balancing"])
    BY DEF ValueOf, Measured
  <2> QED
    BY <2>1, EachValued
<1>4. Valued(Each({"alarm_list"}, s.alarm_list), s)
  <2>1. \A e \in {"alarm_list"} : ValueOf(s, <<e, 0>>) = s.alarm_list
    BY DEF ValueOf, Measured
  <2> QED
    BY <2>1, EachValued
<1>5. Valued(Each({"power_cycle_count"}, s.power_cycle_count), s)
  <2>1. \A e \in {"power_cycle_count"} : ValueOf(s, <<e, 0>>) = s.power_cycle_count
    BY DEF ValueOf, Measured
  <2> QED
    BY <2>1, EachValued
<1>6. Valued(Each({"last_update_age"}, "elapsed"), s)
  <2>1. \A e \in {"last_update_age"} : ValueOf(s, <<e, 0>>) = "elapsed"
    BY DEF ValueOf, Measured
  <2> QED
    BY <2>1, EachValued
<1>7. Valued(Each({"jkbms_reconnect_count"}, s.jkbms_reconnect_count), s)
  <2>1. \A e \in {"jkbms_reconnect_count"} : ValueOf(s, <<e, 0>>) = s.jkbms_reconnect_count
    BY DEF ValueOf, Measured
  <2> QED
    BY <2>1, EachValued
<1>8. Valued(Each({"mqtt_reconnect_count"}, s.mqtt_reconnect_count), s)
  <2>1. \A e \in {"mqtt_reconnect_count"} : ValueOf(s, <<e, 0>>) = s.mqtt_reconnect_count
    BY DEF ValueOf, Measured
  <2> QED
    BY <2>1, EachValued
<1> QED
  BY <1>1, <1>2, <1>3, <1>4, <1>5, <1>6, <1>7, <1>8 DEF Valued, OtherStates

LEMMA CellsValued ==
  ASSUME NEW s
  PROVE  Valued(CellStates(s), s)
<1>1. ASSUME NEW x \in PerCell("cell_voltage", s.cell_voltages_v)
      PROVE  x = <<x[1], ValueOf(s, x[1])>>
  <2>1. PICK n : x = <<<<"cell_voltage", n>>, s.cell_voltages_v[n]>>
    BY DEF PerCell
  <2>2. ValueOf(s, <<"cell_voltage", n>>) = s.cell_voltages_v[n]
    BY DEF ValueOf, Measured
  <2>3. x[1] = <<"cell_voltage", n>>
    BY <2>1
  <2> QED
    BY <2>1, <2>2, <2>3
<1>2. ASSUME NEW x \in PerCell("cell_resistance", s.cell_resistances_ohm)
      PROVE  x = <<x[1], ValueOf(s, x[1])>>
  <2>1. PICK n : x = <<<<"cell_resistance", n>>, s.cell_resistances_ohm[n]>>
    BY DEF PerCell
  <2>2. ValueOf(s, <<"cell_resistance", n>>) = s.cell_resistances_ohm[n]
    BY DEF ValueOf, Measured
  <2>3. x[1] = <<"cell_resistance", n>>
    BY <2>1
  <2> QED
    BY <2>1, <2>2, <2>3
<1> QED
  BY <1>1, <1>2 DEF CellStates, Valued

LEMMA AggregatesValued ==
  ASSUME NEW s
  PROVE  Valued(AggregateStates(s), s)
<1> DEFINE a == s.cell_aggregates[1]
<1>1. Valued(Each({"cell_voltage_average"}, a.average_v), s)
  <2>1. \A e \in {"cell_voltage_average"} : ValueOf(s, <<e, 0>>) = a.average_v
    BY DEF ValueOf, Measured, AggregateOf
  <2> QED
    BY <2>1, EachValued
<1>2. Valued(Each({"cell_voltage_min"}, a.min_v), s)
  <2>1. \A e \in {"cell_voltage_min"} : ValueOf(s, <<e, 0>>) = a.min_v
    BY DEF ValueOf, Measured, AggregateOf
  <2> QED
    BY <2>1, EachValued
<1>3. Valued(Each({"cell_voltage_max"}, a.max_v), s)
  <2>1. \A e \in {"cell_voltage_max"} : ValueOf(s, <<e, 0>>) = a.max_v
    BY DEF ValueOf, Measured, AggregateOf
  <2> QED
    BY <2>1, EachValued
<1>4. Valued(Each({"cell_voltage_delta"}, a.delta_v), s)
  <2>1. \A e \in {"cell_voltage_delta"} : ValueOf(s, <<e, 0>>) = a.delta_v
    BY DEF ValueOf, Measured, AggregateOf
  <2> QED
    BY <2>1, EachValued
<1>5. Valued(Each({"cell_voltage_min_cell"}, a.min_cell), s)
  <2>1. \A e \in {"cell_voltage_min_cell"} : ValueOf(s, <<e, 0>>) = a.min_cell
    BY DEF ValueOf, Measured, AggregateOf
  <2> QED
    BY <2>1, EachValued
<1>6. Valued(Each({"cell_voltage_max_cell"}, a.max_cell), s)
  <2>1. \A e \in {"cell_voltage_max_cell"} : ValueOf(s, <<e, 0>>) = a.max_cell
    BY DEF ValueOf, Measured, AggregateOf
  <2> QED
    BY <2>1, EachValued
<1> HIDE DEF a
<1>7. CASE s.cell_aggregates = <<>>
  BY <1>7 DEF AggregateStates, Valued
<1>8. CASE s.cell_aggregates # <<>>
  <2>1. AggregateStates(s) =
          Each({"cell_voltage_average"}, a.average_v) \union Each({"cell_voltage_min"}, a.min_v)
            \union Each({"cell_voltage_max"}, a.max_v)
            \union Each({"cell_voltage_delta"}, a.delta_v)
            \union Each({"cell_voltage_min_cell"}, a.min_cell)
            \union Each({"cell_voltage_max_cell"}, a.max_cell)
    BY <1>8 DEF AggregateStates, a
  <2> QED
    BY <1>1, <1>2, <1>3, <1>4, <1>5, <1>6, <2>1 DEF Valued
<1> QED
  BY <1>7, <1>8

(* One state each.                                                           *)
LEMMA StatesFunctional ==
  ASSUME NEW s
  PROVE  /\ per_entity_publications(s) = {<<state_topic(x[1]), x[2]>> : x \in Pairs(s)}
         /\ \A x, y \in per_entity_publications(s) : x[1] = y[1] => x = y
<1>1. Valued(Pairs(s), s)
  <2>1. /\ Valued(PackStates(s), s) /\ Valued(CellStates(s), s)
        /\ Valued(AggregateStates(s), s) /\ Valued(OtherStates(s), s)
    BY PackValued, CellsValued, AggregatesValued, OtherValued
  <2> QED
    BY <2>1 DEF Valued, Pairs
<1>2. per_entity_publications(s) = {<<state_topic(x[1]), x[2]>> : x \in Pairs(s)}
  BY DEF per_entity_publications, Pairs
<1> SUFFICES ASSUME NEW x \in Pairs(s), NEW y \in Pairs(s),
                    state_topic(x[1]) = state_topic(y[1])
             PROVE  x[2] = y[2]
  BY <1>2
<1>3. x[1] = y[1]
  BY DEF state_topic
<1>4. x = <<x[1], ValueOf(s, x[1])>> /\ y = <<y[1], ValueOf(s, y[1])>>
  BY <1>1 DEF Valued
<1>5. x[2] = ValueOf(s, x[1]) /\ y[2] = ValueOf(s, y[1])
  BY <1>4
<1> QED
  BY <1>3, <1>5

(* The JSON of the snapshot has the same states.                             *)
LEMMA JsonIsStates ==
  ASSUME NEW s
  PROVE  snapshot_json(s) = Pairs(s)
<1> DEFINE o == s.operational
           A == {"total_voltage", "total_current", "total_power", "state_of_charge",
                 "state_of_health", "capacity_remaining", "total_cycle_capacity",
                 "charging_cycles"}
           B == {"mos_temperature", "temperature_sensor_1", "temperature_sensor_2",
                 "temperature_sensor_4", "temperature_sensor_5", "balancing_current",
                 "balancing_active"}
<1>1. Measured = A \union B
  BY DEF Measured
<1>2. Each(Measured, o) = Each(A, o) \union Each(B, o)
  BY <1>1, EachIs
<1>3. EntityName["charging"] = "charging" /\ EntityName["balancing"] = "balancing"
  BY DEF EntityName
<1>4. snapshot_json(s) =
        Each(Measured, o)
        \union Each({"battery_capacity_ah"}, s.battery_capacity_ah)
        \union Each({"total_runtime_seconds"}, s.total_runtime_s)
        \union Each({"total_runtime"}, s.total_runtime)
        \union CellStates(s) \union AggregateStates(s)
        \union Each({"charging"}, on_off(s.switches["charging"]))
        \union Each({"balancing"}, on_off(s.switches["balancing"]))
        \union Each({"alarm_list"}, s.alarm_list)
        \union Each({"power_cycle_count"}, s.power_cycle_count)
        \union Each({"last_update_age"}, "elapsed")
        \union Each({"jkbms_reconnect_count"}, s.jkbms_reconnect_count)
        \union Each({"mqtt_reconnect_count"}, s.mqtt_reconnect_count)
  BY <1>3 DEF snapshot_json, Measured, CellStates
<1>5. PackStates(s) =
        Each(A, o)
        \union Each({"battery_capacity_ah"}, s.battery_capacity_ah)
        \union Each({"total_runtime_seconds"}, s.total_runtime_s)
        \union Each({"total_runtime"}, s.total_runtime)
  BY DEF PackStates
<1>6. OtherStates(s) =
        Each(B, o)
        \union Each({"charging"}, on_off(s.switches["charging"]))
        \union Each({"balancing"}, on_off(s.switches["balancing"]))
        \union Each({"alarm_list"}, s.alarm_list)
        \union Each({"power_cycle_count"}, s.power_cycle_count)
        \union Each({"last_update_age"}, "elapsed")
        \union Each({"jkbms_reconnect_count"}, s.jkbms_reconnect_count)
        \union Each({"mqtt_reconnect_count"}, s.mqtt_reconnect_count)
  BY DEF OtherStates
<1> HIDE DEF A, B, o
<1> QED
  BY <1>2, <1>4, <1>5, <1>6 DEF Pairs

-----------------------------------------------------------------------------
(* The entities that have a state.                                           *)
LEMMA PackFirsts ==
  ASSUME NEW s
  PROVE  Firsts(PackStates(s)) =
           Ids({"total_voltage", "total_current", "total_power", "state_of_charge",
                "state_of_health", "capacity_remaining", "total_cycle_capacity",
                "charging_cycles", "battery_capacity_ah", "total_runtime_seconds",
                "total_runtime"})
<1> DEFINE A == {"total_voltage", "total_current", "total_power", "state_of_charge",
                 "state_of_health", "capacity_remaining", "total_cycle_capacity",
                 "charging_cycles"}
<1>1. Firsts(PackStates(s)) =
        Firsts(Each(A, s.operational))
        \union Firsts(Each({"battery_capacity_ah"}, s.battery_capacity_ah))
        \union Firsts(Each({"total_runtime_seconds"}, s.total_runtime_s))
        \union Firsts(Each({"total_runtime"}, s.total_runtime))
  BY DEF PackStates, Firsts
<1>2. Firsts(PackStates(s)) =
        Ids(A) \union Ids({"battery_capacity_ah"}) \union Ids({"total_runtime_seconds"})
          \union Ids({"total_runtime"})
  BY <1>1, EachIs
<1> QED
  BY <1>2 DEF Ids

LEMMA OtherFirsts ==
  ASSUME NEW s
  PROVE  Firsts(OtherStates(s)) =
           Ids({"mos_temperature", "temperature_sensor_1", "temperature_sensor_2",
                "temperature_sensor_4", "temperature_sensor_5", "balancing_current",
                "balancing_active", "charging", "balancing", "alarm_list",
                "power_cycle_count", "last_update_age", "jkbms_reconnect_count",
                "mqtt_reconnect_count"})
<1> DEFINE B == {"mos_temperature", "temperature_sensor_1", "temperature_sensor_2",
                 "temperature_sensor_4", "temperature_sensor_5", "balancing_current",
                 "balancing_active"}
<1>1. Firsts(OtherStates(s)) =
        Firsts(Each(B, s.operational))
        \union Firsts(Each({"charging"}, on_off(s.switches["charging"])))
        \union Firsts(Each({"balancing"}, on_off(s.switches["balancing"])))
        \union Firsts(Each({"alarm_list"}, s.alarm_list))
        \union Firsts(Each({"power_cycle_count"}, s.power_cycle_count))
        \union Firsts(Each({"last_update_age"}, "elapsed"))
        \union Firsts(Each({"jkbms_reconnect_count"}, s.jkbms_reconnect_count))
        \union Firsts(Each({"mqtt_reconnect_count"}, s.mqtt_reconnect_count))
  BY DEF OtherStates, Firsts
<1>2. Firsts(OtherStates(s)) =
        Ids(B) \union Ids({"charging"}) \union Ids({"balancing"}) \union Ids({"alarm_list"})
          \union Ids({"power_cycle_count"}) \union Ids({"last_update_age"})
          \union Ids({"jkbms_reconnect_count"}) \union Ids({"mqtt_reconnect_count"})
  BY <1>1, EachIs
<1> QED
  BY <1>2 DEF Ids

LEMMA AggregateFirsts ==
  ASSUME NEW s
  PROVE  Firsts(AggregateStates(s)) =
           IF s.cell_aggregates = <<>> THEN {} ELSE CellAggregateSensors
<1> DEFINE a == s.cell_aggregates[1]
<1>1. CASE s.cell_aggregates = <<>>
  BY <1>1 DEF AggregateStates, Firsts
<1>2. CASE s.cell_aggregates # <<>>
  <2>1. AggregateStates(s) =
          Each({"cell_voltage_average"}, a.average_v) \union Each({"cell_voltage_min"}, a.min_v)
            \union Each({"cell_voltage_max"}, a.max_v)
            \union Each({"cell_voltage_delta"}, a.delta_v)
            \union Each({"cell_voltage_min_cell"}, a.min_cell)
            \union Each({"cell_voltage_max_cell"}, a.max_cell)
    BY <1>2 DEF AggregateStates
  <2> HIDE DEF a
  <2>2. Firsts(AggregateStates(s)) =
          Firsts(Each({"cell_voltage_average"}, a.average_v))
            \union Firsts(Each({"cell_voltage_min"}, a.min_v))
            \union Firsts(Each({"cell_voltage_max"}, a.max_v))
            \union Firsts(Each({"cell_voltage_delta"}, a.delta_v))
            \union Firsts(Each({"cell_voltage_min_cell"}, a.min_cell))
            \union Firsts(Each({"cell_voltage_max_cell"}, a.max_cell))
    BY <2>1 DEF Firsts
  <2>3. Firsts(AggregateStates(s)) =
          Ids({"cell_voltage_average"}) \union Ids({"cell_voltage_min"})
            \union Ids({"cell_voltage_max"}) \union Ids({"cell_voltage_delta"})
            \union Ids({"cell_voltage_min_cell"}) \union Ids({"cell_voltage_max_cell"})
    BY <2>2, EachIs
  <2> QED
    BY <1>2, <2>3 DEF Ids, CellAggregateSensors
<1> QED
  BY <1>1, <1>2

LEMMA CellFirsts ==
  ASSUME NEW s, NEW m \in Nat,
         DOMAIN s.cell_voltages_v = 1 .. m, DOMAIN s.cell_resistances_ohm = 1 .. m
  PROVE  Firsts(CellStates(s)) = CellSensors(m)
<1>1. \A e, f : Firsts(PerCell(e, f)) = {<<e, n>> : n \in DOMAIN f}
  <2> TAKE e, f
  <2>1. Firsts(PerCell(e, f)) = {<<<<e, n>>, f[n]>>[1] : n \in DOMAIN f}
    BY DEF Firsts, PerCell
  <2>2. \A n \in DOMAIN f : <<<<e, n>>, f[n]>>[1] = <<e, n>>
    OBVIOUS
  <2> QED
    BY <2>1, <2>2
<1>2. Firsts(CellStates(s)) = Firsts(PerCell("cell_voltage", s.cell_voltages_v))
                                \union Firsts(PerCell("cell_resistance", s.cell_resistances_ohm))
  BY DEF CellStates, Firsts
<1>3. Firsts(CellStates(s)) = {<<"cell_voltage", n>> : n \in 1 .. m}
                                \union {<<"cell_resistance", n>> : n \in 1 .. m}
  BY <1>1, <1>2
<1> QED
  BY <1>3 DEF CellSensors

LEMMA StateIds ==
  ASSUME NEW s, NEW m \in Nat,
         DOMAIN s.cell_voltages_v = 1 .. m, DOMAIN s.cell_resistances_ohm = 1 .. m,
         s.cell_aggregates = <<>> <=> m = 0
  PROVE  Firsts(Pairs(s)) = Ids(FixedNames) \union CellSensors(m)
                              \union (IF m = 0 THEN {} ELSE CellAggregateSensors)
<1> DEFINE A == {"total_voltage", "total_current", "total_power", "state_of_charge",
                 "state_of_health", "capacity_remaining", "total_cycle_capacity",
                 "charging_cycles", "battery_capacity_ah", "total_runtime_seconds",
                 "total_runtime"}
           B == {"mos_temperature", "temperature_sensor_1", "temperature_sensor_2",
                 "temperature_sensor_4", "temperature_sensor_5", "balancing_current",
                 "balancing_active", "charging", "balancing", "alarm_list",
                 "power_cycle_count", "last_update_age", "jkbms_reconnect_count",
                 "mqtt_reconnect_count"}
<1>1. FixedNames = A \union B
  BY DEF FixedNames
<1>2. Ids(FixedNames) = Ids(A) \union Ids(B)
  BY <1>1, IdsAre
<1>3. Firsts(Pairs(s)) = Firsts(PackStates(s)) \union Firsts(CellStates(s))
                           \union Firsts(AggregateStates(s)) \union Firsts(OtherStates(s))
  BY DEF Pairs, Firsts
<1>4. Firsts(PackStates(s)) = Ids(A) /\ Firsts(OtherStates(s)) = Ids(B)
  BY PackFirsts, OtherFirsts
<1> HIDE DEF A, B
<1>5. Firsts(CellStates(s)) = CellSensors(m)
  BY CellFirsts
<1>6. Firsts(AggregateStates(s)) = IF m = 0 THEN {} ELSE CellAggregateSensors
  BY AggregateFirsts
<1> QED
  BY <1>2, <1>3, <1>4, <1>5, <1>6

-----------------------------------------------------------------------------
(* The entities and the states match.                                        *)

TopicsOf(S) == {state_topic(id) : id \in S}

(* The entities that have a state when m cells are shown.                    *)
WithState(m) ==
  Ids(FixedNames) \union CellSensors(m) \union (IF m = 0 THEN {} ELSE CellAggregateSensors)

LEMMA TopicsApart ==
  \A A, B : /\ TopicsOf(A \ B) = TopicsOf(A) \ TopicsOf(B)
            /\ TopicsOf(A \union B) = TopicsOf(A) \union TopicsOf(B)
<1>1. \A i, j : state_topic(i) = state_topic(j) => i = j
  BY DEF state_topic
<1> QED
  BY <1>1 DEF TopicsOf

LEMMA UnmatchedIds ==
  ASSUME NEW n \in Nat, NEW m \in Nat
  PROVE  /\ AllIds(n) \ WithState(m) =
              (CellSensors(n) \ CellSensors(m))
                \union (IF m = 0 THEN CellAggregateSensors ELSE {})
         /\ WithState(m) \ AllIds(n) = CellSensors(m) \ CellSensors(n)
<1>1. CellAggregateSensors \intersect Ids(FixedNames) = {}
  BY DEF CellAggregateSensors, Ids, FixedNames
<1>2. /\ CellSensors(n) \intersect Ids(FixedNames) = {}
      /\ CellSensors(m) \intersect Ids(FixedNames) = {}
  BY CellSensorsAre
<1>3. /\ CellSensors(n) \intersect CellAggregateSensors = {}
      /\ CellSensors(m) \intersect CellAggregateSensors = {}
  BY CellSensorsAre DEF CellAggregateSensors
<1>4. CASE m = 0
  <2>1. WithState(m) = Ids(FixedNames) \union CellSensors(m)
    BY <1>4 DEF WithState
  <2> QED
    BY <1>1, <1>2, <1>3, <1>4, <2>1 DEF AllIds
<1>5. CASE m # 0
  <2>1. WithState(m) = Ids(FixedNames) \union CellSensors(m) \union CellAggregateSensors
    BY <1>5 DEF WithState
  <2> QED
    BY <1>1, <1>2, <1>3, <1>5, <2>1 DEF AllIds
<1> QED
  BY <1>4, <1>5

(* Of the cells that the BMS claims, those without a state are beyond its    *)
(* slots.                                                                    *)
LEMMA CellsBeyond ==
  ASSUME NEW n \in Nat
  PROVE  LET m == ActiveSlots(n)
         IN /\ m \in Nat /\ (m = 0 <=> n = 0)
            /\ CellSensors(n) \ CellSensors(m) = CellSensors(n) \ CellSensors(TOTAL_CELL_SLOTS)
            /\ CellSensors(m) \ CellSensors(n) = {}
<1>1. TOTAL_CELL_SLOTS \in Nat \ {0}
  BY TelemetryAssumption DEF TelemetryAssumption
<1>2. PICK m : m = ActiveSlots(n)
  OBVIOUS
<1>3. m = IF n <= TOTAL_CELL_SLOTS THEN n ELSE TOTAL_CELL_SLOTS
  BY <1>2, SlotsInUse
<1>4. m \in Nat /\ (m = 0 <=> n = 0)
  BY <1>1, <1>3
<1>5. CASE n <= TOTAL_CELL_SLOTS
  <2>1. 1 .. n \subseteq 1 .. TOTAL_CELL_SLOTS
    BY <1>1, <1>5
  <2>2. CellSensors(n) \subseteq CellSensors(TOTAL_CELL_SLOTS)
    BY <2>1 DEF CellSensors
  <2>3. m = n
    BY <1>3, <1>5
  <2> QED
    BY <1>2, <1>4, <2>2, <2>3
<1>6. CASE ~ (n <= TOTAL_CELL_SLOTS)
  <2>1. 1 .. TOTAL_CELL_SLOTS \subseteq 1 .. n
    BY <1>1, <1>6
  <2>2. CellSensors(TOTAL_CELL_SLOTS) \subseteq CellSensors(n)
    BY <2>1 DEF CellSensors
  <2>3. m = TOTAL_CELL_SLOTS
    BY <1>3, <1>6
  <2> QED
    BY <1>2, <1>4, <2>2, <2>3
<1> QED
  BY <1>5, <1>6

(* What a snapshot shows is what WithState says.                             *)
LEMMA ShownEntities ==
  ASSUME NEW x, NEW c \in 0 .. (WORD - 1), NEW n \in CellCounts, NEW op \in Readings[n], NEW raw,
         ShowsData(x, c, op, raw)
  PROVE  Firsts(Pairs(x)) = WithState(ActiveSlots(c))
<1>1. PICK m : m = ActiveSlots(c)
  OBVIOUS
<1>2. PICK w, v : w = op.cell_voltages_v /\ v = SubSeq(w, 1, m)
  OBVIOUS
<1>3. m \in 0 .. TOTAL_CELL_SLOTS /\ m \in Nat
  <2>1. c \in Nat /\ TOTAL_CELL_SLOTS \in Nat
    BY TelemetryAssumption DEF TelemetryAssumption
  <2> QED
    BY <1>1, <2>1, SlotsInUse
<1>4. /\ w \in [1 .. TOTAL_CELL_SLOTS -> Nat]
      /\ op.cell_resistances_ohm \in [1 .. TOTAL_CELL_SLOTS -> Int]
  BY <1>2, ReadingsAssumption DEF ReadingsAssumption
<1>5. /\ x.cell_voltages_v = v
      /\ x.cell_resistances_ohm = SubSeq(op.cell_resistances_ohm, 1, m)
      /\ x.cell_aggregates = IF v = <<>> THEN <<>> ELSE <<compute_cell_aggregates(v)>>
  BY <1>1, <1>2 DEF ShowsData
<1>6. DOMAIN v = 1 .. m /\ (v = <<>> <=> m = 0)
  <2>1. w \in [1 .. TOTAL_CELL_SLOTS -> Nat] /\ m \in 0 .. TOTAL_CELL_SLOTS
    BY <1>3, <1>4
  <2>2. /\ DOMAIN SubSeq(w, 1, m) = 1 .. m
        /\ SubSeq(w, 1, m) = <<>> <=> m = 0
    BY <2>1, FirstSlots
  <2> QED
    BY <1>2, <2>2
<1>7. DOMAIN x.cell_resistances_ohm = 1 .. m
  BY <1>3, <1>4, <1>5, FirstSlots
<1>8. x.cell_aggregates = <<>> <=> m = 0
  <2>1. \A a : <<a>> # <<>>
    OBVIOUS
  <2> QED
    BY <1>5, <1>6, <2>1
<1>9. Firsts(Pairs(x)) = Ids(FixedNames) \union CellSensors(m)
                           \union (IF m = 0 THEN {} ELSE CellAggregateSensors)
  BY <1>3, <1>5, <1>6, <1>7, <1>8, StateIds
<1> QED
  BY <1>1, <1>9 DEF WithState

LEMMA StateTopics ==
  ASSUME NEW s
  PROVE  {x[1] : x \in per_entity_publications(s)} = TopicsOf(Firsts(Pairs(s)))
<1> DEFINE P == Pairs(s)
           Q == per_entity_publications(s)
<1>1. Q = {<<state_topic(x[1]), x[2]>> : x \in P}
  BY StatesFunctional
<1> HIDE DEF P, Q
<1>2. \A x \in P : \E y \in Q : y[1] = state_topic(x[1])
  <2> TAKE x \in P
  <2>1. PICK y : y = <<state_topic(x[1]), x[2]>>
    OBVIOUS
  <2>2. y \in Q /\ y[1] = state_topic(x[1])
    BY <1>1, <2>1
  <2> QED
    BY <2>2
<1>3. \A y \in Q : \E x \in P : y[1] = state_topic(x[1])
  <2> TAKE y \in Q
  <2>1. PICK x \in P : y = <<state_topic(x[1]), x[2]>>
    BY <1>1
  <2>2. y[1] = state_topic(x[1])
    BY <2>1
  <2> QED
    BY <2>2
<1>4. TopicsOf(Firsts(P)) = {state_topic(x[1]) : x \in P}
  BY DEF TopicsOf, Firsts
<1>5. {y[1] : y \in Q} = {state_topic(x[1]) : x \in P}
  BY <1>2, <1>3
<1> QED
  BY <1>4, <1>5 DEF P, Q

LEMMA TopicsMatch ==
  ASSUME NEW n \in Nat, NEW c \in Nat
  PROVE  LET unmatched == SymDiff(TopicsOf(AllIds(n)), TopicsOf(WithState(ActiveSlots(c))))
         IN /\ n = c =>
                 unmatched = (CellTopics(n) \ CellTopics(TOTAL_CELL_SLOTS))
                               \union (IF n = 0 THEN AggregateTopics ELSE {})
            /\ n # c =>
                 unmatched \subseteq AggregateTopics
                   \union SymDiff(CellTopics(n), CellTopics(ActiveSlots(c)))
<1>1. PICK m : m = ActiveSlots(c)
  OBVIOUS
<1>2. m \in Nat
  BY <1>1, CellsBeyond
<1>3. SymDiff(TopicsOf(AllIds(n)), TopicsOf(WithState(m))) =
        TopicsOf(AllIds(n) \ WithState(m)) \union TopicsOf(WithState(m) \ AllIds(n))
  BY TopicsApart DEF SymDiff
<1>4. /\ CellTopics(n) = TopicsOf(CellSensors(n)) /\ CellTopics(m) = TopicsOf(CellSensors(m))
      /\ CellTopics(TOTAL_CELL_SLOTS) = TopicsOf(CellSensors(TOTAL_CELL_SLOTS))
      /\ AggregateTopics = TopicsOf(CellAggregateSensors)
  BY DEF CellTopics, AggregateTopics, TopicsOf
<1>5. /\ AllIds(n) \ WithState(m) = (CellSensors(n) \ CellSensors(m))
                                      \union (IF m = 0 THEN CellAggregateSensors ELSE {})
      /\ WithState(m) \ AllIds(n) = CellSensors(m) \ CellSensors(n)
  BY <1>2, UnmatchedIds
<1>6. TopicsOf({}) = {}
  BY DEF TopicsOf
<1>7. /\ TopicsOf(AllIds(n) \ WithState(m)) =
           TopicsOf(CellSensors(n) \ CellSensors(m))
             \union (IF m = 0 THEN AggregateTopics ELSE {})
      /\ TopicsOf(WithState(m) \ AllIds(n)) = TopicsOf(CellSensors(m) \ CellSensors(n))
  <2>1. TopicsOf((CellSensors(n) \ CellSensors(m))
                   \union (IF m = 0 THEN CellAggregateSensors ELSE {})) =
          TopicsOf(CellSensors(n) \ CellSensors(m))
            \union TopicsOf(IF m = 0 THEN CellAggregateSensors ELSE {})
    BY TopicsApart
  <2>2. TopicsOf(IF m = 0 THEN CellAggregateSensors ELSE {}) =
          IF m = 0 THEN AggregateTopics ELSE {}
    BY <1>4, <1>6
  <2> QED
    BY <1>5, <2>1, <2>2
<1>8. CASE n = c
  <2>1. /\ m = 0 <=> n = 0
        /\ CellSensors(n) \ CellSensors(m) = CellSensors(n) \ CellSensors(TOTAL_CELL_SLOTS)
        /\ CellSensors(m) \ CellSensors(n) = {}
    BY <1>1, <1>8, CellsBeyond
  <2>2. TopicsOf(CellSensors(n) \ CellSensors(m)) =
          CellTopics(n) \ CellTopics(TOTAL_CELL_SLOTS)
    BY <1>4, <2>1, TopicsApart
  <2>3. TopicsOf(CellSensors(m) \ CellSensors(n)) = {}
    BY <1>6, <2>1
  <2>4. SymDiff(TopicsOf(AllIds(n)), TopicsOf(WithState(m))) =
          (CellTopics(n) \ CellTopics(TOTAL_CELL_SLOTS))
            \union (IF n = 0 THEN AggregateTopics ELSE {})
    BY <1>3, <1>7, <2>1, <2>2, <2>3
  <2> QED
    BY <1>1, <1>8, <2>4
<1>9. CASE n # c
  <2>1. /\ TopicsOf(CellSensors(n) \ CellSensors(m)) = CellTopics(n) \ CellTopics(m)
        /\ TopicsOf(CellSensors(m) \ CellSensors(n)) = CellTopics(m) \ CellTopics(n)
    BY <1>4, TopicsApart
  <2>2. SymDiff(TopicsOf(AllIds(n)), TopicsOf(WithState(m))) \subseteq
          AggregateTopics \union SymDiff(CellTopics(n), CellTopics(m))
    BY <1>3, <1>7, <2>1 DEF SymDiff
  <2> QED
    BY <1>1, <1>9, <2>2
<1> QED
  BY <1>8, <1>9

(* With everything that a snapshot takes, everything that the first          *)
(* discovery takes is held, and it was published.                            *)
LEMMA ShownIsAnnounced ==
  ASSUME OrderInv, HoldInv, Published
  PROVE  \E n \in Nat : announced = {n}
<1>1. SnapshotParts \subseteq have /\ outbox = <<>>
  BY DEF Published, HoldInv, ShownTyped
<1>2. PollsAfter["OperationalData"] \subseteq have
  BY <1>1 DEF OrderInv, PollOrder, SnapshotParts
<1>3. PollsAfter["OperationalData"] = {"DeviceInfo", "ConfigOptions"}
  BY DEF PollsAfter
<1>4. Fragments \subseteq have
  BY <1>1, <1>2, <1>3 DEF Fragments, DiscoveryParts
<1>5. "discovery_published" \in flags
  BY <1>4 DEF OrderInv, PublishOrder
<1>6. Range(outbox) = {}
  BY <1>1 DEF Range
<1>7. announced # {}
  BY <1>5, <1>6 DEF HoldInv, AnnouncedOK
<1>8. PICK n \in 0 .. (WORD - 1) : announced = {n}
  BY <1>7 DEF HoldInv, AnnouncedOK
<1>9. n \in Nat
  OBVIOUS
<1> QED
  BY <1>8, <1>9

(* What is announced (build_payloads), what is published of each entity      *)
(* (per_entity_publications) and what the JSON has (snapshot_json) agree,    *)
(* for any number of cells and slots and whatever the bridge is called; no   *)
(* state is published before the discovery; and the number of cells that is  *)
(* announced is the one held, but after a change of it until the broker      *)
(* comes back (handle_broker_connected).                                     *)
THEOREM EntitiesAgree == TelemetrySpec => []EntitiesMatch
<1>1. DataInv /\ OrderInv /\ HoldInv => EntitiesMatch
  <2> SUFFICES ASSUME DataInv, OrderInv, HoldInv, Published PROVE EntitiesMatch
    BY DEF EntitiesMatch
  <2>1. PICK n \in Nat : announced = {n}
    BY ShownIsAnnounced
  <2>2. (CHOOSE k \in announced : TRUE) = n /\ announced # {}
    BY <2>1
  <2>3. PICK op \in Readings[read_as] : ShowsData(shown[1], held.cell_count, op, held.raw)
    BY ShownNow
  <2>4. PICK s, c : s = shown[1] /\ c = held.cell_count
    OBVIOUS
  <2>5. read_as \in CellCounts /\ c \in 0 .. (WORD - 1) /\ c \in Nat
    BY <2>4 DEF HoldInv, Holding
  <2>6. Firsts(Pairs(s)) = WithState(ActiveSlots(c))
    BY <2>3, <2>4, <2>5, ShownEntities
  <2>7. {p.state_topic : p \in build_payloads(n)} = TopicsOf(AllIds(n))
    <3>1. build_payloads(n) = {Announced(id) : id \in AllIds(n)}
      BY EntitiesAre
    <3>2. \A id : Announced(id).state_topic = state_topic(id)
      BY AnnouncedFields
    <3> QED
      BY <3>1, <3>2 DEF TopicsOf
  <2>8. /\ per_entity_publications(s) = {<<state_topic(x[1]), x[2]>> : x \in Pairs(s)}
        /\ \A x, y \in per_entity_publications(s) : x[1] = y[1] => x = y
    BY StatesFunctional
  <2>9. {x[1] : x \in per_entity_publications(s)} = TopicsOf(Firsts(Pairs(s)))
    BY StateTopics
  <2>10. Cardinality({p.unique_id : p \in build_payloads(n)}) = Cardinality(build_payloads(n))
    BY EntitiesDistinct
  <2>11. per_entity_publications(s) =
           {<<state_topic(x[1]), x[2]>> : x \in snapshot_json(s)}
    BY <2>8, JsonIsStates
  <2> DEFINE unmatched == SymDiff({p.state_topic : p \in build_payloads(n)},
                                  {x[1] : x \in per_entity_publications(s)})
  <2>12. /\ n = c =>
              unmatched = (CellTopics(n) \ CellTopics(TOTAL_CELL_SLOTS))
                            \union (IF n = 0 THEN AggregateTopics ELSE {})
         /\ n # c =>
              unmatched \subseteq AggregateTopics
                \union SymDiff(CellTopics(n), CellTopics(ActiveSlots(c)))
    BY <2>5, <2>6, <2>7, <2>9, TopicsMatch
  <2>13. recounted = "no" => n = c
    <3>1. outbox = <<>> /\ Range(<<>>) = {}
      BY SmallRanges DEF Published
    <3>2. recounted = "no" => announced = {held.cell_count}
      BY <2>2, <3>1 DEF HoldInv, AnnouncedOK
    <3> QED
      BY <2>1, <2>4, <3>2
  <2> QED
    BY <2>2, <2>4, <2>8, <2>10, <2>11, <2>12, <2>13 DEF EntitiesMatch
<1> QED
  BY <1>1, HoldInvariant, PTL
=============================================================================
