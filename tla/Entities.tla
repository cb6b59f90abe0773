------------------------------ MODULE Entities ------------------------------
(***************************************************************************)
(* What the bridge calls things on MQTT: the topics (src/mqtt/topics.rs),  *)
(* the entities it announces to Home Assistant (discovery.rs), those it    *)
(* publishes states of (formatter.rs), and the commands that it subscribes *)
(* to and parses (inbound.rs).  The three lists are written down one by    *)
(* one in the code and have to agree.                                      *)
(*                                                                         *)
(* A topic is the sequence of its levels.  An entity id is <<name, n>>,    *)
(* with n the number of the cell, or 0: cell_3_voltage is <<"cell_voltage",*)
(* 3>>.  Of a payload only what another part has to agree with is kept.    *)
(***************************************************************************)
EXTENDS Naturals, Sequences

CONSTANTS bms_name, discovery_prefix

Ids(names) == {<<e, 0>> : e \in names}

-----------------------------------------------------------------------------
(* Topics.                                                                   *)

state_topic(id) == <<bms_name, id, "state">>

CommandTopic(id) == <<bms_name, id, "command">>  (* mutant: another last level *)

set_topic(id) == <<bms_name, id, "set">>

availability_topic == <<bms_name, "availability">>

discovery_topic(component, id) ==
  <<discovery_prefix, component, bms_name, id, "config">>

-----------------------------------------------------------------------------
(* Discovery: the groups of build_payloads.                                  *)

PackSensors ==
  Ids({"total_voltage", "total_current", "total_power", "state_of_charge",
       "state_of_health", "capacity_remaining"})

Totals ==
  Ids({"power_cycle_count", "total_cycle_capacity", "battery_capacity_ah",
       "charging_cycles", "total_runtime_seconds", "total_runtime"})

CellSensors(cell_count) ==
  {<<e, n>> : e \in {"cell_voltage", "cell_resistance"}, n \in 1 .. cell_count}

CellAggregateSensors ==
  Ids({"cell_voltage_average", "cell_voltage_min", "cell_voltage_max",
       "cell_voltage_delta", "cell_voltage_min_cell", "cell_voltage_max_cell"})

TemperatureSensors ==
  Ids({"mos_temperature", "temperature_sensor_1", "temperature_sensor_2",
       "temperature_sensor_4", "temperature_sensor_5"})

DiagnosticSensors ==
  Ids({"last_update_age", "jkbms_reconnect_count", "mqtt_reconnect_count"})

(* Every payload names its entity, where its state is found, and where the   *)
(* availability.                                                             *)
Payload(component, id) ==
  [topic |-> discovery_topic(component, id),
   unique_id |-> <<bms_name, id>>,
   state_topic |-> state_topic(id),
   availability_topic |-> availability_topic,
   command_topic |-> <<>>,
   payloads |-> <<>>]

sensor(id) == Payload("sensor", id)

OnOffPayloads == [on |-> "ON", off |-> "OFF"]

binary_sensor(id) == [Payload("binary_sensor", id) EXCEPT !.payloads = OnOffPayloads]

switch_payload(id) ==
  [Payload("switch", id) EXCEPT !.command_topic = set_topic(id),
                                !.payloads = OnOffPayloads]

build_payloads(cell_count) ==
  {sensor(id) : id \in
     PackSensors \union Totals \union CellSensors(cell_count)
       \union CellAggregateSensors \union TemperatureSensors
       \union Ids({"balancing_current", "alarm_list"}) \union DiagnosticSensors}
  \union {binary_sensor(id) : id \in Ids({"balancing_active"})}
  \union {switch_payload(id) : id \in Ids({"charging", "balancing"})}

-----------------------------------------------------------------------------
(* The states of a snapshot: pairs of an entity and what is published of it. *)
(* The measurements that are only copied through are represented by where    *)
(* they come from: snap.operational.                                         *)

on_off(v) == IF v = "on" THEN "ON" ELSE "OFF"

(* Each of the entities with this state.                                     *)
Each(names, state) == Ids(names) \X {state}

PerCell(e, states) == {<<<<e, n>>, states[n]>> : n \in DOMAIN states}

PackStates(snap) ==
  Each({"total_voltage", "total_current", "total_power", "state_of_charge",
        "state_of_health", "capacity_remaining", "total_cycle_capacity",
        "charging_cycles"}, snap.operational)
  \union Each({"battery_capacity_ah"}, snap.battery_capacity_ah)
  \union Each({"total_runtime_seconds"}, snap.total_runtime_s)
  \union Each({"total_runtime"}, snap.total_runtime)

CellStates(snap) ==
  PerCell("cell_voltage", snap.cell_voltages_v)
  \union PerCell("cell_resistance", snap.cell_resistances_ohm)

(* None when there are no aggregates (<<>>).                                 *)
AggregateStates(snap) ==
  IF snap.cell_aggregates = <<>> THEN {}
  ELSE LET a == snap.cell_aggregates[1]
       IN Each({"cell_voltage_average"}, a.average_v)
          \union Each({"cell_voltage_min"}, a.min_v)
          \union Each({"cell_voltage_max"}, a.max_v)
          \union Each({"cell_voltage_delta"}, a.delta_v)
          \union Each({"cell_voltage_min_cell"}, a.min_cell)
          \union Each({"cell_voltage_max_cell"}, a.max_cell)

OtherStates(snap) ==
  Each({"mos_temperature", "temperature_sensor_1", "temperature_sensor_2",
        "temperature_sensor_4", "temperature_sensor_5",
        "balancing_current", "balancing_active"}, snap.operational)
  \union Each({"charging"}, on_off(snap.switches["charging"]))
  \union Each({"balancing"}, on_off(snap.switches["balancing"]))
  \union Each({"alarm_list"}, snap.alarm_list)
  \union Each({"power_cycle_count"}, snap.power_cycle_count)
  \union Each({"last_update_age"}, "elapsed")
  \union Each({"jkbms_reconnect_count"}, snap.jkbms_reconnect_count)
  \union Each({"mqtt_reconnect_count"}, snap.mqtt_reconnect_count)

(* per_entity_publications: state topics with what is published there.       *)
per_entity_publications(snap) ==
  {<<state_topic(x[1]), x[2]>> : x \in PackStates(snap) \union CellStates(snap)
                                         \union AggregateStates(snap)
                                         \union OtherStates(snap)}

EntityName == [charging |-> "charging", balancing |-> "balancing"]

(* snapshot_json: its keys with their values.                                *)
snapshot_json(snap) ==
  Each({"total_voltage", "total_current", "total_power", "state_of_charge",
        "state_of_health", "capacity_remaining", "total_cycle_capacity",
        "charging_cycles", "mos_temperature", "temperature_sensor_1",
        "temperature_sensor_2", "temperature_sensor_4", "temperature_sensor_5",
        "balancing_current", "balancing_active"}, snap.operational)
  \union Each({"battery_capacity_ah"}, snap.battery_capacity_ah)
  \union Each({"total_runtime_seconds"}, snap.total_runtime_s)
  \union Each({"total_runtime"}, snap.total_runtime)
  \union PerCell("cell_voltage", snap.cell_voltages_v)
  \union PerCell("cell_resistance", snap.cell_resistances_ohm)
  \union AggregateStates(snap)
  \union Each({EntityName["charging"]}, on_off(snap.switches["charging"]))
  \union Each({EntityName["balancing"]}, on_off(snap.switches["balancing"]))
  \union Each({"alarm_list"}, snap.alarm_list)
  \union Each({"power_cycle_count"}, snap.power_cycle_count)
  \union Each({"last_update_age"}, "elapsed")
  \union Each({"jkbms_reconnect_count"}, snap.jkbms_reconnect_count)
  \union Each({"mqtt_reconnect_count"}, snap.mqtt_reconnect_count)

-----------------------------------------------------------------------------
(* Commands.                                                                 *)

inbound_commands == Ids({"charging", "balancing"})

(* What SubscribeToCommands subscribes to.                                   *)
Subscriptions == {set_topic(id) : id \in inbound_commands}

(* In upper or lower case or mixed.                                          *)
parse_on_off(payload) ==
  IF payload \in {"ON", "On", "oN", "on"} THEN "on"
  ELSE IF payload \in {"OFF", "OFf", "OfF", "Off", "oFF", "oFf", "ofF", "off"} THEN "off"
  ELSE "None"

EndsWith(topic, id) ==
  SubSeq(topic, Len(topic) - 1, Len(topic)) = <<id, "set">>

(* parse_inbound_command: the requests a message stands for, at most one.    *)
parse_inbound_command(topic, payload) ==
  {[switch |-> w, value |-> parse_on_off(payload)] :
     w \in {x \in {"charging", "balancing"} :
             EndsWith(topic, <<x, 0>>) /\ parse_on_off(payload) # "None"}}
=============================================================================
