---------------------------- MODULE Coordinator ----------------------------
(***************************************************************************)
(* The coordinator (src/coordinator/coordinator.rs), its StateAggregator   *)
(* and its SwitchFreeze, between the two connections it owns.              *)
(*                                                                         *)
(* The coordinator handles one event at a time.  Its calls of the MQTT     *)
(* connection are try_sends on a bounded channel that another task drains  *)
(* meanwhile, so each is a step of its own: outbox holds the calls that    *)
(* the running handler has still to make.  Whether the channel has room is *)
(* left open here; module Bridge has the channel.                          *)
(*                                                                         *)
(* The BMS side is the environment that WriteService and the link          *)
(* invariants of JkBmsManager allow; the MQTT side is a session that comes *)
(* and goes.  Of a snapshot only the switches are kept: the measurements   *)
(* are copied through.                                                     *)
(***************************************************************************)
EXTENDS Naturals, Sequences, Functions

CONSTANTS
  Switches,   (* SwitchField                                                *)
  Values,     (* on and off                                                 *)
  MaxSeq,     (* bound: requests Home Assistant makes                       *)
  MaxEvents   (* bound: events waiting in the two event channels together   *)

ASSUME CoordinatorAssumption ==
  /\ MaxSeq \in Nat
  /\ MaxEvents \in Nat \ {0}

VARIABLES
  have,           (* the fragments the aggregator holds                     *)
  config,         (* the switches of its config_options, or "None"           *)
  freeze,         (* per switch the frozen (seq, value); seq 0 is None      *)
  next_seq,       (* the last seq given out                                 *)
  flags,          (* which of Flags are true                                *)
  outbox,         (* calls of the MQTT connection still to be made          *)
  jkbms_events, mqtt_events,  (* the event channels                         *)
  request,        (* what was asked for with each seq                       *)
  accepted, confirmed, failed, (* writes the BMS side took, and answered    *)
  link,           (* the ConnectionState last emitted, or "None"            *)
  session         (* of the MQTT connection: "up" or "down"                 *)

coordVars == <<have, config, freeze, next_seq, flags>>
bmsVars   == <<accepted, confirmed, failed, link>>

coordinatorVars == <<coordVars, outbox, jkbms_events, mqtt_events,
                     request, bmsVars, session>>

Flags == {"discovery_published", "broker_connected", "jkbms_online"}

SwitchStates == [Switches -> Values]

(* What a snapshot needs, and what discovery needs.                          *)
SnapshotParts  == {"ConfigOptions", "OperationalData"}
DiscoveryParts == {"DeviceInfo", "ConfigOptions"}
Fragments      == SnapshotParts \union DiscoveryParts

Unfrozen == [seq |-> 0, value |-> "None"]

Unknown == [w \in Switches |-> "None"]

Init ==
  /\ have = {}
  /\ config = Unknown
  /\ freeze = [w \in Switches |-> Unfrozen]
  /\ next_seq = 0
  /\ flags = {}
  /\ outbox = <<>>
  /\ jkbms_events = <<>>
  /\ mqtt_events = <<>>
  /\ request = <<>>
  /\ accepted = {}
  /\ confirmed = {}
  /\ failed = {}
  /\ link = "None"
  /\ session = "down"

-----------------------------------------------------------------------------
(* SwitchFreeze.                                                             *)

Frozen(f, w) == f[w].seq # 0

Freeze(f, s, w, v) == [f EXCEPT ![w] = [seq |-> s, value |-> v]]

ApplyAnySeq(f, s) == [w \in Switches |-> Unfrozen]  (* mutant: seq ignored *)

(* Called on a confirmation: clears the freezes of this seq and older ones.  *)
Apply(f, s) == [w \in Switches |-> IF f[w].seq <= s THEN Unfrozen ELSE f[w]]

(* Called on an error: clears the freeze of exactly this seq.                *)
Clear(f, s) == [w \in Switches |-> IF f[w].seq = s THEN Unfrozen ELSE f[w]]

-----------------------------------------------------------------------------
(* What the coordinator asks of the MQTT connection.                         *)

Subscribe       == [type |-> "SubscribeToCommands"]
Discovery       == [type |-> "PublishDiscovery"]
Availability(o) == [type |-> "PublishAvailability", online |-> o]
Snapshot(f)     == [type |-> "PublishSnapshot", switches |-> f]

OnlineIf(fl) == IF "jkbms_online" \in fl THEN "online" ELSE "offline"

SwitchesUnfrozen(c, f) == c  (* mutant: apply_to is not called *)

(* freeze.apply_to on the aggregator's snapshot.                             *)
SwitchesShown(c, f) ==
  [w \in Switches |-> IF Frozen(f, w) THEN f[w].value ELSE c[w]]

(* build_snapshot and do_publish_snapshot: nothing before the parts are held.*)
SnapshotIfAny(h, c, f) ==
  IF SnapshotParts \subseteq h THEN <<Snapshot(SwitchesShown(c, f))>> ELSE <<>>

(* Mutant: no snapshot when the switches are what they were.                 *)
PublishSwitchNews(h, c, f) ==
  LET first == "discovery_published" \notin flags /\ Fragments \subseteq h
  IN /\ outbox' = (IF first THEN <<Discovery>> ELSE <<>>)
                    \o (IF first \/ <<c, f>> # <<config, freeze>>
                          THEN SnapshotIfAny(h, c, f) ELSE <<>>)
     /\ flags' = IF first THEN flags \union {"discovery_published"} ELSE flags

(* The tail of handle_jkbms_event, for the new have, config and freeze.      *)
PublishTail(h, c, f) ==
  LET first == /\ "discovery_published" \notin flags
               /\ Fragments \subseteq h
               /\ ~ (Fragments \subseteq have)
  IN /\ outbox' = (IF first THEN <<Discovery>> ELSE <<>>) \o SnapshotIfAny(h, c, f)
     /\ flags' = IF first THEN flags \union {"discovery_published"} ELSE flags

(* The next call of the running handler is taken or refused.  A refused      *)
(* subscription ends handle_broker_connected, the calls after it are not     *)
(* made.                                                                     *)
CallTaken ==
  /\ outbox # <<>>
  /\ outbox' = Tail(outbox)
  /\ UNCHANGED <<coordVars, jkbms_events, mqtt_events, request, bmsVars, session>>

CallRefused ==
  /\ outbox # <<>>
  /\ outbox' = IF Head(outbox) = Subscribe THEN <<>> ELSE Tail(outbox)
  /\ UNCHANGED <<coordVars, jkbms_events, mqtt_events, request, bmsVars, session>>

-----------------------------------------------------------------------------
(* The select! of run: MQTT events.                                          *)

RecvMqtt(type) ==
  /\ outbox = <<>>
  /\ mqtt_events # <<>>
  /\ Head(mqtt_events).type = type
  /\ mqtt_events' = Tail(mqtt_events)

(* Mutant: handle_broker_connected does not publish the availability.        *)
ConnectForgetsAvailability ==
  <<Subscribe>> \o (IF DiscoveryParts \subseteq have THEN <<Discovery>> ELSE <<>>)
                \o SnapshotIfAny(have, config, freeze)

(* Mutant: it does not repeat the discovery.                                 *)
ConnectForgetsDiscovery ==
  <<Subscribe, Availability(OnlineIf(flags))>> \o SnapshotIfAny(have, config, freeze)

(* Mutant: subscribes when everything else is said.                          *)
SubscribeLast ==
  <<Availability(OnlineIf(flags))>> \o SnapshotIfAny(have, config, freeze) \o <<Subscribe>>

(* What handle_broker_connected re-ships, in this order.                     *)
Reshipped ==
  <<Subscribe, Availability(OnlineIf(flags))>>
    \o (IF DiscoveryParts \subseteq have THEN <<Discovery>> ELSE <<>>)
    \o SnapshotIfAny(have, config, freeze)

RecvBrokerConnected ==
  /\ RecvMqtt("BrokerConnected")
  /\ flags' = flags \union {"broker_connected"}
  /\ outbox' = Reshipped
  /\ UNCHANGED <<have, config, freeze, next_seq, jkbms_events,
                 request, bmsVars, session>>

RecvBrokerDisconnected ==
  /\ RecvMqtt("BrokerDisconnected")
  /\ flags' = flags \ {"broker_connected"}
  /\ UNCHANGED <<have, config, freeze, next_seq, outbox, jkbms_events,
                 request, bmsVars, session>>

(* handle_incoming.  JkBmsConnection::write takes the command or, with its   *)
(* channel full, refuses it.                                                 *)
RecvIncoming ==
  /\ RecvMqtt("Incoming")
  /\ LET r == Head(mqtt_events)
         s == next_seq + 1
     IN /\ next_seq' = s
        /\ request' = Append(request, [switch |-> r.switch, value |-> r.value])
        /\ \/ /\ accepted' = accepted \union {s}
              /\ freeze' = Freeze(freeze, s, r.switch, r.value)
           \/ /\ freeze' = Clear(Freeze(freeze, s, r.switch, r.value), s)
              /\ UNCHANGED accepted
  /\ UNCHANGED <<have, config, flags, outbox, jkbms_events,
                 confirmed, failed, link, session>>

-----------------------------------------------------------------------------
(* The select! of run: BMS events, handle_jkbms_event.                       *)

RecvJkbms ==
  /\ outbox = <<>>
  /\ jkbms_events # <<>>
  /\ jkbms_events' = Tail(jkbms_events)
  /\ UNCHANGED <<next_seq, mqtt_events, request, bmsVars, session>>

(* Connected is always published, Disconnected only if it is news, and       *)
(* Reconnecting changes nothing.                                             *)
ConnectionChanges ==
  LET s == Head(jkbms_events).state
  IN \/ /\ s = "Connected"
        /\ flags' = flags \union {"jkbms_online"}
        /\ outbox' = <<Availability("online")>>
     \/ /\ s = "Disconnected"
        /\ "jkbms_online" \in flags
        /\ flags' = flags \ {"jkbms_online"}
        /\ outbox' = <<Availability("offline")>>
     \/ /\ s = "Reconnecting" \/ (s = "Disconnected" /\ "jkbms_online" \notin flags)
        /\ UNCHANGED <<flags, outbox>>

RecvConnection ==
  /\ RecvJkbms
  /\ Head(jkbms_events).type = "Connection"
  /\ ConnectionChanges
  /\ UNCHANGED <<have, config, freeze>>

(* JkBmsEvents::Data.                                                        *)
RecvData ==
  /\ RecvJkbms
  /\ LET e == Head(jkbms_events)
     IN /\ e.type = "Data"
        /\ have' = have \union ({e.of} \intersect Fragments)
        /\ config' = IF e.of = "ConfigOptions" THEN e.switches ELSE config
  /\ freeze' = freeze
  /\ PublishTail(have', config', freeze')

RecvWriteConfirmation ==
  /\ RecvJkbms
  /\ LET e == Head(jkbms_events)
     IN /\ e.type = "WriteConfirmation"
        /\ freeze' = Apply(freeze, e.seq)
        /\ config' = e.switches
  /\ have' = have \union {"ConfigOptions"}
  /\ PublishTail(have', config', freeze')

RecvWriteError ==
  /\ RecvJkbms
  /\ LET e == Head(jkbms_events)
     IN /\ e.type = "WriteError"
        /\ freeze' = Clear(freeze, e.seq)
  /\ UNCHANGED <<have, config>>
  /\ PublishTail(have, config, freeze')

-----------------------------------------------------------------------------
(* The BMS side.                                                             *)

Answered    == confirmed \union failed
Outstanding == accepted \ Answered

Emit(e) ==
  /\ Len(jkbms_events) + Len(mqtt_events) < MaxEvents
  /\ jkbms_events' = Append(jkbms_events, e)
  /\ UNCHANGED <<coordVars, outbox, mqtt_events, request,
                 accepted, session>>

(* What each poll comes after: a resync polls the fragments in this order    *)
(* before the link is first Connected.                                       *)
PollsAfter ==
  [DeviceInfo      |-> {},
   ConfigOptions   |-> {"DeviceInfo"},
   OperationalData |-> {"DeviceInfo", "ConfigOptions"},
   Alarms          |-> Fragments]

Polled == have \union {e.of : e \in {x \in Range(jkbms_events) : x.type = "Data"}}

(* A poll reads any state of the switches, which may be set at the BMS too.  *)
EmitData(d) ==
  /\ PollsAfter[d] \subseteq Polled
  /\ d = "Alarms" => link = "Connected"
  /\ \E f \in SwitchStates :
       Emit(IF d = "ConfigOptions" THEN [type |-> "Data", of |-> d, switches |-> f]
                                   ELSE [type |-> "Data", of |-> d])
  /\ UNCHANGED <<confirmed, failed, link>>

(* What may be emitted after each state of the link.                         *)
LinkSteps ==
  [None         |-> {"Connected", "Reconnecting"},
   Connected    |-> {"Reconnecting"},
   Reconnecting |-> {"Connected", "Reconnecting", "Disconnected"},
   Disconnected |-> {"Connected", "Disconnected"}]

EmitLink(s) ==
  /\ s \in LinkSteps[link]
  /\ s = "Connected" => Fragments \subseteq Polled
  /\ Emit([type |-> "Connection", state |-> s])
  /\ link' = s
  /\ UNCHANGED <<confirmed, failed>>

Oldest(s) == s \in Outstanding /\ \A r \in Outstanding : s <= r

(* Written and read back.                                                    *)
EmitConfirmation ==
  \E s \in Outstanding :
    /\ link = "Connected"
    /\ Oldest(s)
    /\ \E f \in SwitchStates :
         Emit([type |-> "WriteConfirmation", seq |-> s, switches |-> f])
    /\ confirmed' = confirmed \union {s}
    /\ UNCHANGED <<failed, link>>

EmitError ==
  \E s \in Outstanding :
    /\ Emit([type |-> "WriteError", seq |-> s])
    /\ failed' = failed \union {s}
    /\ UNCHANGED <<confirmed, link>>

-----------------------------------------------------------------------------
(* The MQTT side.                                                            *)

Notify(e) ==
  /\ Len(jkbms_events) + Len(mqtt_events) < MaxEvents
  /\ mqtt_events' = Append(mqtt_events, e)
  /\ UNCHANGED <<coordVars, outbox, jkbms_events, request, bmsVars>>

BrokerConnects ==
  /\ session = "down"
  /\ session' = "up"
  /\ Notify([type |-> "BrokerConnected"])

BrokerDrops ==
  /\ session = "up"
  /\ session' = "down"
  /\ Notify([type |-> "BrokerDisconnected"])

Incoming(q) == {i \in DOMAIN q : q[i].type = "Incoming"}

(* A message on a command topic, which needs a session.                      *)
HaRequests(w, v) ==
  /\ session = "up"
  /\ next_seq < MaxSeq
  /\ Incoming(mqtt_events) = {}
  /\ Notify([type |-> "Incoming", switch |-> w, value |-> v])
  /\ UNCHANGED <<session>>

-----------------------------------------------------------------------------
MqttEvent == RecvBrokerConnected \/ RecvBrokerDisconnected \/ RecvIncoming

JkbmsEvent == RecvConnection \/ RecvData \/ RecvWriteConfirmation \/ RecvWriteError

BmsSide ==
  \/ \E d \in DOMAIN PollsAfter : EmitData(d)
  \/ \E s \in DOMAIN LinkSteps : EmitLink(s)
  \/ EmitConfirmation
  \/ EmitError

MqttSide ==
  \/ BrokerConnects
  \/ BrokerDrops
  \/ \E w \in Switches, v \in Values : HaRequests(w, v)

Next == CallTaken \/ CallRefused \/ MqttEvent \/ JkbmsEvent \/ BmsSide \/ MqttSide

Spec == Init /\ [][Next]_coordinatorVars

-----------------------------------------------------------------------------
Seqs == 1 .. MaxSeq

Calls ==
  {Subscribe, Discovery} \union {Availability(o) : o \in {"online", "offline"}}
    \union {Snapshot(f) : f \in SwitchStates}

(* Every variable keeps its type; in particular a handler makes at most four *)
(* calls, of which the subscription is the first (handle_broker_connected).  *)
TypeOK ==
  /\ have \subseteq Fragments
  /\ config \in IF "ConfigOptions" \in have THEN SwitchStates ELSE {Unknown}
  /\ \A w \in Switches :
       freeze[w] = Unfrozen \/ (freeze[w].seq \in Seqs /\ freeze[w].value \in Values)
  /\ next_seq \in 0 .. MaxSeq
  /\ flags \subseteq Flags
  /\ Range(outbox) \subseteq Calls
  /\ Len(outbox) <= 4
  /\ \A i \in DOMAIN outbox : outbox[i] = Subscribe => i = 1
  /\ Len(jkbms_events) + Len(mqtt_events) <= MaxEvents
  /\ request \in Seq([switch : Switches, value : Values])
  /\ accepted \subseteq Seqs /\ confirmed \subseteq Seqs /\ failed \subseteq Seqs
  /\ link \in DOMAIN LinkSteps
  /\ session \in {"up", "down"}

-----------------------------------------------------------------------------
(* Switch requests.                                                          *)

(* The answer of s waits in the event channel.                               *)
AnswerQueued(s) ==
  \E e \in Range(jkbms_events) : e.type \in {"WriteConfirmation", "WriteError"} /\ e.seq = s

(* s was taken and the coordinator has not seen its answer.                  *)
Awaited(s) == s \in Outstanding \/ AnswerQueued(s)

RequestsOf(w) == {s \in DOMAIN request : request[s].switch = w}

Newest(w) == CHOOSE s \in RequestsOf(w) : \A r \in RequestsOf(w) : r <= s

NewestAwaited(w) == RequestsOf(w) # {} /\ Awaited(Newest(w))

(* A switch is frozen exactly while the newest request for it is under way,  *)
(* at the value it asked for: no confirmation of an older request, of either *)
(* switch, and no failure of another one unfreezes it, and none stays frozen *)
(* (SwitchFreeze compares seqs across both switches, which is right only     *)
(* because the BMS side answers in order).                                   *)
FrozenUntilAnswered ==
  \A w \in Switches :
    freeze[w] = IF NewestAwaited(w)
                  THEN [seq |-> Newest(w), value |-> request[Newest(w)].value]
                  ELSE Unfrozen

(* Every snapshot shows of a switch what its newest request asks for while   *)
(* that is under way, and otherwise what was last read back: a poll answered *)
(* with the old value, or a reconnect of the broker, does not make the       *)
(* switch of Home Assistant bounce (build_snapshot, SwitchFreeze).  So the   *)
(* value asked for is published before it was read back, and also when the   *)
(* write then fails.  ARCHITECTURE.md:167 says the same, ARCHITECTURE.md:184 *)
(* and REQUIREMENTS.md:27 the contrary.                                      *)
SnapshotsShowRequested ==
  \A c \in Range(outbox) : c.type = "PublishSnapshot" =>
    \A w \in Switches :
      c.switches[w] = IF NewestAwaited(w) THEN request[Newest(w)].value ELSE config[w]
=============================================================================
