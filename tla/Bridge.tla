------------------------------- MODULE Bridge -------------------------------
(***************************************************************************)
(* The coordinator, the MQTT side as MqttService states it, and what Home  *)
(* Assistant sees of it all: the topics the broker retains, the states     *)
(* last published and the command subscriptions of the session.            *)
(***************************************************************************)
EXTENDS Coordinator, SequencesExt

CONSTANTS
  COMMAND_CHANNEL_CAPACITY,  (* of the MQTT command channel                 *)
  IN_FLIGHT                  (* see MqttService                             *)

ASSUME BridgeAssumption ==
  /\ COMMAND_CHANNEL_CAPACITY \in Nat \ {0}
  /\ IN_FLIGHT \in Nat
  /\ IsFiniteSet(Switches)

VARIABLES
  mqtt_commands,  (* the command channel                                    *)
  in_flight,      (* what was taken off it and has not reached the broker   *)
  subscribed,     (* the session's command subscriptions: "yes" or "no"     *)
  discovered,     (* the discovery payloads are retained: "yes" or "no"     *)
  state,          (* per switch the state last published, or "None"         *)
  availability,   (* the retained availability, or "None"                   *)
  latest,         (* the switches of the last snapshot that was made        *)
  refused         (* the publications not made for want of room, until made *)

topicVars == <<subscribed, discovered, state, availability>>
viewVars  == <<latest, refused>>

vars == <<coordinatorVars, mqtt_commands, in_flight, topicVars, viewVars>>

BridgeInit ==
  /\ Init
  /\ mqtt_commands = <<>>
  /\ in_flight = <<>>
  /\ subscribed = "no"
  /\ discovered = "no"
  /\ state = Unknown
  /\ availability = "None"
  /\ latest = Unknown
  /\ refused = {}

(* What dispatch makes of a command: a snapshot is a publication per switch, *)
(* the others count when they are through.                                   *)
State(w, v) == [type |-> "State", switch |-> w, value |-> v]

Dispatched(c) ==
  LET ws == SetToSeq(Switches)
  IN IF c.type = "PublishSnapshot" THEN [i \in DOMAIN ws |-> State(ws[i], c.switches[ws[i]])]
                                   ELSE <<c>>

Mqtt ==
  INSTANCE MqttService WITH
    Requests <- [c \in Calls |-> Dispatched(c)],
    commands <- mqtt_commands

-----------------------------------------------------------------------------
(* The coordinator.                                                          *)

RoomOneLate == Len(mqtt_commands) <= COMMAND_CHANNEL_CAPACITY  (* mutant *)

Room == Len(mqtt_commands) < COMMAND_CHANNEL_CAPACITY

(* try_send of one call.                                                     *)
TrySend ==
  /\ \/ /\ Room
        /\ CallTaken
        /\ mqtt_commands' = Append(mqtt_commands, Head(outbox))
        /\ refused' = refused \ {Head(outbox).type}
     \/ /\ ~Room
        /\ CallRefused
        /\ LET unmade == IF Head(outbox) = Subscribe THEN outbox ELSE <<Head(outbox)>>
           IN refused' = refused \union {c.type : c \in Range(unmade)}
        /\ UNCHANGED mqtt_commands
  /\ UNCHANGED <<in_flight, topicVars, latest>>

SnapshotsIn(q) == {c.switches : c \in {d \in Range(q) : d.type = "PublishSnapshot"}}

Handle ==
  /\ MqttEvent \/ JkbmsEvent
  /\ latest' = IF SnapshotsIn(outbox') = {} THEN latest
               ELSE CHOOSE f \in SnapshotsIn(outbox') : TRUE
  /\ UNCHANGED <<mqtt_commands, in_flight, topicVars, refused>>

BmsStep == BmsSide /\ UNCHANGED <<mqtt_commands, in_flight, topicVars, viewVars>>

-----------------------------------------------------------------------------
(* The MQTT connection, the broker and Home Assistant.                       *)

SessionUp ==
  /\ Mqtt!SessionUp
  /\ BrokerConnects
  /\ UNCHANGED <<topicVars, viewVars>>

(* The broker publishes the last will and, with clean sessions, forgets the  *)
(* subscriptions.                                                            *)
SessionDown ==
  /\ Mqtt!SessionDown
  /\ BrokerDrops
  /\ subscribed' = "no"
  /\ availability' = "offline"
  /\ UNCHANGED <<discovered, state, viewVars>>

(* A session ends that never came up.                                        *)
LoseCommands ==
  /\ Mqtt!Lose
  /\ UNCHANGED <<coordinatorVars, topicVars, viewVars>>

Dispatch ==
  /\ Mqtt!Take
  /\ UNCHANGED <<coordinatorVars, topicVars, viewVars>>

(* What a request does at the broker.                                        *)
Reached(r) ==
  /\ subscribed' = IF r = Subscribe THEN "yes" ELSE subscribed
  /\ discovered' = IF r = Discovery THEN "yes" ELSE discovered
  /\ state' = IF r.type = "State" THEN [state EXCEPT ![r.switch] = r.value] ELSE state
  /\ availability' = IF r.type = "PublishAvailability" THEN r.online ELSE availability

BrokerReceives ==
  /\ Mqtt!Receive
  /\ Reached(Head(in_flight))
  /\ UNCHANGED <<coordinatorVars, viewVars>>

Request ==
  /\ subscribed = "yes"
  /\ \E w \in Switches, v \in Values : HaRequests(w, v)
  /\ UNCHANGED <<mqtt_commands, in_flight, topicVars, viewVars>>

BridgeNext ==
  \/ TrySend
  \/ Handle
  \/ BmsStep
  \/ SessionUp
  \/ SessionDown
  \/ LoseCommands
  \/ Dispatch
  \/ BrokerReceives
  \/ Request

BridgeSpec == BridgeInit /\ [][BridgeNext]_vars

-----------------------------------------------------------------------------
(* The channel and the topics keep their types; the channel never outgrows   *)
(* its capacity, however many calls a handler makes.                         *)
BridgeTypeOK ==
  /\ Range(mqtt_commands) \subseteq Calls
  /\ Len(mqtt_commands) <= COMMAND_CHANNEL_CAPACITY
  /\ \A r \in Range(in_flight) :
       \/ r \in Calls /\ r.type # "PublishSnapshot"
       \/ \E w \in Switches, v \in Values : r = State(w, v)
  /\ subscribed \in {"yes", "no"} /\ discovered \in {"yes", "no"}
  /\ state \in [Switches -> Values \union {"None"}]
  /\ availability \in {"None", "online", "offline"}
  /\ latest \in [Switches -> Values \union {"None"}]
  /\ refused \subseteq {c.type : c \in Calls}

(* In a session, with nothing left to do for the coordinator and the MQTT    *)
(* connection.                                                               *)
Settled ==
  /\ session = "up"
  /\ mqtt_events = <<>>
  /\ outbox = <<>>
  /\ mqtt_commands = <<>>
  /\ in_flight = <<>>

(* Whenever things have settled, Home Assistant sees the coordinator's view: *)
(* its availability, its last snapshot, the discovery once it can be made,   *)
(* and its ear on the command topics, whatever sessions failed and whatever  *)
(* commands were lost with them; unless the full command channel refused the *)
(* very publication that would say so, which is the only way to lose one.    *)
HomeAssistantUpToDate ==
  Settled =>
    /\ availability = OnlineIf(flags) \/ "PublishAvailability" \in refused
    /\ subscribed = "yes" \/ "SubscribeToCommands" \in refused
    /\ Fragments \subseteq have => discovered = "yes" \/ "PublishDiscovery" \in refused
    /\ state = latest \/ "PublishSnapshot" \in refused

(* What ARCHITECTURE.md says of BrokerConnected: everything is re-shipped,   *)
(* so a session that has settled is subscribed to the command topics.        *)
ListensOnConnect == Settled => subscribed = "yes"
=============================================================================
