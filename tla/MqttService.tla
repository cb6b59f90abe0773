----------------------------- MODULE MqttService -----------------------------
(***************************************************************************)
(* What the MQTT side does with the commands of the coordinator, with no   *)
(* client, event loop, task or backoff in sight: commands are taken off a  *)
(* bounded channel in order, whether there is a session or not; what they  *)
(* ask of the broker reaches it in order while a session lasts, and        *)
(* whatever is in flight when a session ends is lost, in a session that    *)
(* never came up as well.                                                  *)
(*                                                                         *)
(* MqttManager implements it, and Bridge is built on it.                   *)
(***************************************************************************)
EXTENDS Naturals, Sequences

CONSTANTS
  Requests,                  (* per command, what it asks of the broker     *)
  COMMAND_CHANNEL_CAPACITY,  (* of the command channel                      *)
  IN_FLIGHT                  (* requests in flight that hold up no command  *)

VARIABLES
  commands,   (* the command channel                                        *)
  in_flight,  (* what was taken off it and has not reached the broker       *)
  session     (* last told: "up" (BrokerConnected) or "down"                *)

vars == <<commands, in_flight, session>>

Init ==
  /\ commands = <<>>
  /\ in_flight = <<>>
  /\ session = "down"

Room == Len(commands) < COMMAND_CHANNEL_CAPACITY

(* try_send.                                                                 *)
Send(c) ==
  /\ Room
  /\ commands' = Append(commands, c)
  /\ UNCHANGED <<in_flight, session>>

Take ==
  /\ commands # <<>>
  /\ Len(in_flight) <= IN_FLIGHT
  /\ commands' = Tail(commands)
  /\ in_flight' = in_flight \o Requests[Head(commands)]
  /\ session' = session

(* The oldest request reaches the broker.                                    *)
Receive ==
  /\ session = "up"
  /\ in_flight # <<>>
  /\ in_flight' = Tail(in_flight)
  /\ UNCHANGED <<commands, session>>

SessionUp ==
  /\ session = "down"
  /\ session' = "up"
  /\ UNCHANGED <<commands, in_flight>>

SessionDown ==
  /\ session = "up"
  /\ session' = "down"
  /\ in_flight' = <<>>
  /\ commands' = commands

(* A session ends that never came up.                                        *)
Lose ==
  /\ session = "down"
  /\ in_flight' = <<>>
  /\ UNCHANGED <<commands, session>>

Next ==
  \/ \E c \in DOMAIN Requests : Send(c)
  \/ Take
  \/ Receive
  \/ SessionUp
  \/ SessionDown
  \/ Lose

Spec == Init /\ [][Next]_vars
=============================================================================
