------------------------------ MODULE Telemetry ------------------------------
(***************************************************************************)
(* The coordinator of Coordinator.tla with what its events carry: the      *)
(* number of cells, the operational data and the alarms that it holds, the *)
(* snapshots it makes of them, the entities it announces, and the two      *)
(* reconnect counters.  The BMS is what it is polled for, and may be set   *)
(* to another number of cells at any time (the vendor's app).              *)
(*                                                                         *)
(* What an event carries is chosen when it is handled: nothing else looks  *)
(* at the BMS between the poll and that.  The command channel has room     *)
(* here; module Bridge has the channel.                                    *)
(***************************************************************************)
EXTENDS Coordinator, StateAggregator, Entities, FiniteSets

CONSTANTS
  Readings,     (* per cell_count the BMS may be set to, the operational     *)
                (* data that it may then answer                              *)
  AlarmWords,   (* the alarm words it may answer                             *)
  POWER_CYCLES, (* what its device info says                                 *)
  MAX_COUNT     (* the largest value of a counter (u32::MAX), small here     *)

(* SwitchField has two members.                                              *)
ASSUME TelemetryAssumption ==
  /\ Switches \subseteq {"charging", "balancing"}
  /\ POWER_CYCLES \in Nat
  /\ MAX_COUNT \in Nat
  /\ TOTAL_CELL_SLOTS \in Nat \ {0}
  /\ WORD \in Nat \ {0}

CellCounts == DOMAIN Readings

(* The slots in use; the others read 0.                                      *)
InUse(v) == {i \in DOMAIN v : v[i] # 0}

(* What the BMS answers: the cells that it is set to are the first slots, as *)
(* many of them as there are.                                                *)
ASSUME ReadingsAssumption ==
  /\ CellCounts \subseteq Int
  /\ \A n \in CellCounts : \A op \in Readings[n] :
       /\ op.cell_voltages_v \in [1 .. TOTAL_CELL_SLOTS -> Nat]
       /\ op.cell_resistances_ohm \in [1 .. TOTAL_CELL_SLOTS -> Int]
       /\ InUse(op.cell_voltages_v) = 1 .. Min({CellCount(n), TOTAL_CELL_SLOTS})
       /\ op.total_runtime_s \in Nat

VARIABLES
  pack,       (* the cell_count the BMS is set to                            *)
  held,       (* the payloads that the aggregator holds                      *)
  read_as,    (* history: what pack was when held.operational was read       *)
  had_first,  (* the sides that were connected before                        *)
  reconnects, (* and how often each was again                                *)
  announced,  (* the cell count of the last discovery: {} or {n}             *)
  shown,      (* the snapshot published last: <<>> or <<snapshot>>           *)
  recounted   (* history: "yes" if the cells held became more or fewer since *)
              (* a discovery, and the broker has not come back since         *)

counterVars == <<had_first, reconnects>>
dataVars    == <<pack, held, read_as>>
viewVars    == <<announced, shown>>

vars == <<coordinatorVars, dataVars, counterVars, viewVars, recounted>>

Sides == {"jkbms", "mqtt"}

Nothing == [cell_count |-> 0, operational |-> <<>>, raw |-> {}, cycles |-> 0]

TelemetryInit ==
  /\ Init
  /\ pack \in CellCounts
  /\ held = Nothing
  /\ read_as = pack
  /\ had_first = {}
  /\ reconnects = [side \in Sides |-> 0]
  /\ announced = {}
  /\ shown = <<>>
  /\ recounted = "no"

-----------------------------------------------------------------------------
(* Counters.                                                                 *)

Overflowing(n) == n + 1  (* mutant: not bounded *)

Wrapping(n) == (n + 1) % (MAX_COUNT + 1)  (* mutant: wrapping_add *)

saturating_add(n) == IF n < MAX_COUNT THEN n + 1 ELSE n

(* The first connection of a side is not a reconnect.                        *)
CountConnection(side) ==
  /\ had_first' = had_first \union {side}
  /\ reconnects' = IF side \in had_first
                     THEN [reconnects EXCEPT ![side] = saturating_add(@)]
                     ELSE reconnects

-----------------------------------------------------------------------------
(* What the coordinator does with what the events carry.                     *)

HandleMqtt ==
  /\ MqttEvent
  /\ IF Head(mqtt_events).type = "BrokerConnected"
       THEN CountConnection("mqtt") /\ recounted' = "no"
       ELSE UNCHANGED <<counterVars, recounted>>
  /\ UNCHANGED <<dataVars, viewVars>>

(* The setters of the aggregator: what it may hold after d was read.         *)
Set(d) ==
  IF d = "DeviceInfo" THEN {[held EXCEPT !.cycles = POWER_CYCLES]}
  ELSE IF d = "ConfigOptions" THEN {[held EXCEPT !.cell_count = CellCount(pack)]}
  ELSE IF d = "OperationalData" THEN {[held EXCEPT !.operational = <<op>>] : op \in Readings[pack]}
  ELSE {[held EXCEPT !.raw = raw] : raw \in AlarmWords}

(* A confirmed write brings the configuration that was read back.            *)
HeldAfter(e) ==
  IF e.type = "Data" THEN Set(e.of)
  ELSE IF e.type = "WriteConfirmation" THEN Set("ConfigOptions")
  ELSE {held}

HandleJkbms ==
  /\ JkbmsEvent
  /\ LET e == Head(jkbms_events)
     IN /\ held' \in HeldAfter(e)
        /\ read_as' = IF e.type = "Data" /\ e.of = "OperationalData" THEN pack ELSE read_as
        /\ IF e.type = "Connection" /\ e.state = "Connected"
             THEN CountConnection("jkbms")
             ELSE UNCHANGED counterVars
  /\ recounted' = IF announced # {} /\ held'.cell_count # held.cell_count
                    THEN "yes" ELSE recounted
  /\ UNCHANGED <<pack, viewVars>>

(* build_snapshot; s are the switches with the freeze applied.               *)
build_snapshot(s) ==
  [snapshot(held.cell_count, held.operational[1], held.raw, held.cycles, s)
     EXCEPT !.jkbms_reconnect_count = reconnects["jkbms"],
            !.mqtt_reconnect_count = reconnects["mqtt"]]

(* The next call of a handler: nothing the handler reads changes before it.  *)
MakeCall ==
  /\ CallTaken
  /\ LET c == Head(outbox)
     IN /\ announced' = IF c = Discovery THEN {held.cell_count} ELSE announced
        /\ shown' = IF c.type = "PublishSnapshot" THEN <<build_snapshot(c.switches)>>
                                                  ELSE shown
  /\ UNCHANGED <<dataVars, counterVars, recounted>>

-----------------------------------------------------------------------------
Outside ==
  (BmsSide \/ MqttSide) /\ UNCHANGED <<dataVars, counterVars, viewVars, recounted>>

PackChanges ==
  /\ pack' \in CellCounts \ {pack}
  /\ UNCHANGED <<coordinatorVars, held, read_as, counterVars, viewVars, recounted>>

TelemetryNext ==
  \/ MakeCall
  \/ HandleMqtt
  \/ HandleJkbms
  \/ Outside
  \/ PackChanges

TelemetrySpec == TelemetryInit /\ [][TelemetryNext]_vars
-----------------------------------------------------------------------------
NoSnapshot == shown = <<>>

Aggregates ==
  [average_v : Int \X Int, min_v : Int, max_v : Int, delta_v : Nat,
   min_cell : 1 .. TOTAL_CELL_SLOTS, max_cell : 1 .. TOTAL_CELL_SLOTS]

(* The payloads keep their types; a snapshot never has more cells than there *)
(* are slots, nor aggregates of no cells, whatever the BMS is set to.        *)
TelemetryTypeOK ==
  /\ pack \in CellCounts /\ read_as \in CellCounts
  /\ held.cell_count \in 0 .. (WORD - 1)
  /\ held.operational = <<>> <=> "OperationalData" \notin have
  /\ held.raw \in AlarmWords \union {{}}
  /\ held.cycles = IF "DeviceInfo" \in have THEN POWER_CYCLES ELSE 0
  /\ had_first \subseteq Sides
  /\ reconnects \in [Sides -> 0 .. MAX_COUNT]
  /\ announced \subseteq 0 .. (WORD - 1) /\ Cardinality(announced) <= 1
  /\ recounted \in {"yes", "no"}
  /\ NoSnapshot \/
       /\ Len(shown[1].cell_voltages_v) <= TOTAL_CELL_SLOTS
       /\ Range(shown[1].cell_aggregates) \subseteq Aggregates

-----------------------------------------------------------------------------
(* Nothing is left to publish, and something was.                            *)
Published == outbox = <<>> /\ ~NoSnapshot

CellTopics(n) == {state_topic(id) : id \in CellSensors(n)}

AggregateTopics == {state_topic(id) : id \in CellAggregateSensors}

(* What is announced, what is published per entity and what the JSON of the  *)
(* snapshot has agree with each other: entities are distinct, and have each  *)
(* one state at most; no state comes before the announcements; every state   *)
(* published has its announcement and every announcement its state, except   *)
(* for cells that the BMS claims beyond its slots and for the aggregates of  *)
(* no cells.  The number of cells announced is the one held; when that was   *)
(* changed, cells and aggregates may not match, but only until the broker    *)
(* comes back (handle_broker_connected).                                     *)
EntitiesMatch ==
  Published =>
    /\ announced # {}
    /\ LET s == shown[1]
           n == CHOOSE k \in announced : TRUE
           entities   == build_payloads(n)
           discovered == {p.state_topic : p \in entities}
           states     == per_entity_publications(s)
           unmatched  == SymDiff(discovered, {x[1] : x \in states})
           json       == snapshot_json(s)
       IN /\ Cardinality({p.unique_id : p \in entities}) = Cardinality(entities)
          /\ \A x, y \in states : x[1] = y[1] => x = y
          /\ states = {<<state_topic(x[1]), x[2]>> : x \in json}
          /\ recounted = "no" => n = held.cell_count
          /\ n = held.cell_count =>
               unmatched = (CellTopics(n) \ CellTopics(TOTAL_CELL_SLOTS))
                             \union (IF n = 0 THEN AggregateTopics ELSE {})
          /\ n # held.cell_count =>
               unmatched \subseteq AggregateTopics
                 \union SymDiff(CellTopics(n), CellTopics(ActiveSlots(held.cell_count)))

(* Every announced switch can be operated: its command topic is one that the *)
(* bridge subscribes to on every connect, what Home Assistant sends there    *)
(* parses to that switch, and the state published for it is one that the     *)
(* announcement declares.                                                    *)
SwitchesCommandable ==
  Published =>
    \A w \in Switches :
      \E p \in build_payloads(held.cell_count) :
        /\ p.unique_id = <<bms_name, <<w, 0>>>>
        /\ p.command_topic \in Subscriptions
        /\ parse_inbound_command(p.command_topic, p.payloads.on) =
              {[switch |-> w, value |-> "on"]}
        /\ parse_inbound_command(p.command_topic, p.payloads.off) =
              {[switch |-> w, value |-> "off"]}
        /\ <<p.state_topic,
             IF shown[1].switches[w] = "on" THEN p.payloads.on ELSE p.payloads.off>>
              \in per_entity_publications(shown[1])

-----------------------------------------------------------------------------
(* What the aggregates of the cells in use are, by definition.               *)
AreAggregates(a, v) ==
  LET values == {v[i] : i \in InUse(v)}
  IN /\ a.average_v = <<MapThenSumSet(LAMBDA i : v[i], InUse(v)), Cardinality(InUse(v))>>
     /\ a.min_v = Min(values) /\ a.min_cell = Min({i \in InUse(v) : v[i] = a.min_v})
     /\ a.max_v = Max(values) /\ a.max_cell = Min({i \in InUse(v) : v[i] = a.max_v})
     /\ a.delta_v = a.max_v - a.min_v

(* A snapshot shows the BMS as it is: with the configuration and the         *)
(* operational data read under the same setting it has exactly the cells in  *)
(* use, and their aggregates; between the polls of the two after a change it *)
(* may not.  Any alarm shows, each that has a description by that; and the   *)
(* running time is that of the BMS to the minute.                            *)
SnapshotRight ==
  Published =>
    LET s  == shown[1]
        op == s.operational
        v  == op.cell_voltages_v
        t  == s.total_runtime
    IN /\ held.cell_count = CellCount(read_as) =>
            /\ DOMAIN s.cell_voltages_v = InUse(v)
            /\ DOMAIN s.cell_resistances_ohm = InUse(v)
            /\ IF InUse(v) = {} THEN s.cell_aggregates = <<>>
                                ELSE AreAggregates(s.cell_aggregates[1], v)
       /\ s.alarm_list.described = held.raw \intersect KnownBits
       /\ s.alarm_list.described \union s.alarm_list.word = {} => held.raw = {}
       /\ t.days * 1440 + t.hours * 60 + t.minutes = op.total_runtime_s \div 60
       /\ t.hours < 24 /\ t.minutes < 60

(* When the coordinator has done with an event, what it showed last is what  *)
(* it holds, of every fragment, whichever came last.  Only the counters may  *)
(* have moved on, which a connection changes without a snapshot, and a       *)
(* switch that was requested, which the next snapshot shows.                 *)
ShownIsHeld ==
  outbox = <<>> /\ SnapshotParts \subseteq have =>
    /\ ~NoSnapshot
    /\ LET now == build_snapshot(SwitchesShown(config, freeze))
       IN /\ \A f \in DOMAIN now \ {"jkbms_reconnect_count", "mqtt_reconnect_count", "switches"} :
               shown[1][f] = now[f]
          /\ \A w \in Switches :
               RequestsOf(w) = {} => shown[1].switches[w] = now.switches[w]

(* Home Assistant takes a fall of a total_increasing sensor for a new start  *)
(* from zero, and adds it up: no counter the bridge keeps ever falls, at the *)
(* largest value either.                                                     *)
Count(s) == <<s.jkbms_reconnect_count, s.mqtt_reconnect_count, s.power_cycle_count>>

CountersNeverFall ==
  [][~NoSnapshot => \A i \in 1 .. 3 : Count(shown[1])[i] <= Count(shown'[1])[i]]_shown
=============================================================================
