----------------------------- MODULE MqttManager -----------------------------
(***************************************************************************)
(* The MQTT connection manager (src/mqtt/connection_manager.rs) behind its *)
(* handle (src/mqtt/connection.rs).                                        *)
(*                                                                         *)
(* Its task runs one session after the other.  A session is two tasks: the *)
(* manager dispatches commands into the request channel of the client, and *)
(* a spawned task polls the client's event loop, which connects, moves the *)
(* requests to the broker and reports what comes back.  Either may end the *)
(* session; the manager then joins the other.                              *)
(*                                                                         *)
(* The client and its event loop (rumqttc) are external, modelled by how   *)
(* they are used: requests are accepted from the start of a session, move  *)
(* only once ConnAck came, and are gone with the event loop.  What the     *)
(* broker still reads from a connection that the event loop has given up   *)
(* is counted as read before, which the manager cannot tell apart.         *)
(***************************************************************************)
EXTENDS Naturals, Sequences

CONSTANTS
  COMMAND_CHANNEL_CAPACITY,  (* of the command channel                      *)
  REQUEST_CHANNEL_CAPACITY,  (* of the client's request channel             *)
  INFLIGHT,                  (* requests on the wire at once                *)
  INITIAL_BACKOFF, MAX_BACKOFF,
  Sizes,                     (* how many requests a command may make        *)
  MaxCommands,               (* bound: commands the coordinator sends       *)
  Futures                    (* what the broker may settle to               *)

(* "flaky" does anything, "up" connects and stays, "down" never connects.    *)
Brokers == {"flaky", "up", "down"}

ASSUME MqttAssumption ==
  /\ COMMAND_CHANNEL_CAPACITY \in Nat \ {0}
  /\ REQUEST_CHANNEL_CAPACITY \in Nat \ {0}
  /\ INFLIGHT \in Nat \ {0}
  /\ INITIAL_BACKOFF \in Nat \ {0}
  /\ MAX_BACKOFF \in Nat /\ INITIAL_BACKOFF <= MAX_BACKOFF
  /\ Sizes \subseteq Nat \ {0}
  /\ MaxCommands \in Nat
  /\ Futures \subseteq Brokers

VARIABLES
  commands,   (* the command channel                                        *)
  sent,       (* the commands it has taken so far                           *)
  sender,     (* of the command channel: "open" or "dropped"                *)
  pc,         (* of the manager: "start", the "select" of run_new_session,  *)
              (* the "join" of the event loop, the backoff's "sleep", or    *)
              (* "done"                                                     *)
  todo,       (* requests that dispatch has still to make                   *)
  dispatch_outcome,  (* or "None"                                           *)
  backoff,
  loop,       (* the event loop's task: "none", "polling" or its outcome    *)
  connected,  (* connected_at.is_some(): "yes" or "no"                      *)
  stop,       (* the watch that ends it: "no" or "yes"                      *)
  requests,   (* the request channel                                        *)
  wire,       (* requests on their way to the broker                        *)
  received,   (* <<the request it received last in this session>>, or <<>>  *)
  session,    (* last event: "up" (BrokerConnected) or "down"               *)
  broker      (* see Brokers                                                *)

commandVars == <<commands, sent, sender>>
managerVars == <<pc, dispatch_outcome, backoff>>
loopVars    == <<loop, connected, stop, session>>
requestVars == <<todo, requests, wire, received>>

vars == <<commandVars, managerVars, loopVars, requestVars, broker>>

(* The requests that a command makes, in this order.                         *)
RequestsOf(c) == [i \in 1 .. c.size |-> [of |-> c.id, at |-> i, size |-> c.size]]

Commands == [id : 1 .. MaxCommands, size : Sizes]

Init ==
  /\ commands = <<>>
  /\ sent = 0
  /\ sender = "open"
  /\ pc = "start"
  /\ todo = <<>>
  /\ dispatch_outcome = "None"
  /\ backoff = INITIAL_BACKOFF
  /\ loop = "none"
  /\ connected = "no"
  /\ stop = "no"
  /\ requests = <<>>
  /\ wire = <<>>
  /\ received = <<>>
  /\ session = "down"
  /\ broker = "flaky"

-----------------------------------------------------------------------------
(* The handle, and the broker's future.                                      *)

(* try_send; a refused command leaves no trace here.                         *)
Send ==
  /\ sender = "open"
  /\ sent < MaxCommands
  /\ Len(commands) < COMMAND_CHANNEL_CAPACITY
  /\ sent' = sent + 1
  /\ \E n \in Sizes : commands' = Append(commands, [id |-> sent + 1, size |-> n])
  /\ UNCHANGED <<sender, managerVars, loopVars, requestVars, broker>>

Close ==
  /\ sender = "open"
  /\ sender' = "dropped"
  /\ UNCHANGED <<commands, sent, managerVars, loopVars, requestVars, broker>>

BrokerSettles ==
  /\ broker = "flaky"
  /\ broker' \in Futures \ {broker}
  /\ UNCHANGED <<commandVars, managerVars, loopVars, requestVars>>

-----------------------------------------------------------------------------
(* run_new_session.                                                          *)

CarriedOver == todo  (* mutant: an interrupted command is taken up again *)

Fresh == <<>>

(* A new client, a new event loop, a new watch.                              *)
StartSession ==
  /\ pc = "start"
  /\ pc' = "select"
  /\ loop' = "polling"
  /\ stop' = "no"
  /\ todo' = Fresh
  /\ requests' = <<>>
  /\ wire' = <<>>
  /\ received' = <<>>
  /\ dispatch_outcome' = "None"
  /\ UNCHANGED <<commandVars, backoff, connected, session, broker>>

Dispatching == pc = "select" /\ todo # <<>>

Receiving == pc = "select" /\ todo = <<>>

RecvCommand ==
  /\ Receiving
  /\ commands # <<>>
  /\ commands' = Tail(commands)
  /\ todo' = RequestsOf(Head(commands))
  /\ UNCHANGED <<sent, sender, managerVars, loopVars, requests, wire, received, broker>>

RoomOneLate == Len(requests) <= REQUEST_CHANNEL_CAPACITY  (* mutant *)

RequestRoom == Len(requests) < REQUEST_CHANNEL_CAPACITY

(* Mutant: try_publish, its error ignored.                                   *)
TryPublish ==
  /\ Dispatching
  /\ loop = "polling"
  /\ todo' = Tail(todo)
  /\ requests' = IF RequestRoom THEN Append(requests, Head(todo)) ELSE requests
  /\ UNCHANGED <<commandVars, managerVars, loopVars, wire, received, broker>>

(* One publish or subscribe of dispatch gets its place in the channel.       *)
Publish ==
  /\ Dispatching
  /\ loop = "polling"
  /\ RequestRoom
  /\ todo' = Tail(todo)
  /\ requests' = Append(requests, Head(todo))
  /\ UNCHANGED <<commandVars, managerVars, loopVars, wire, received, broker>>

(* The dispatch branch of the select! ends: the client is dropped and the    *)
(* event loop told to stop.                                                  *)
DispatchEnds(o) ==
  /\ dispatch_outcome' = o
  /\ stop' = "yes"
  /\ pc' = "join"
  /\ UNCHANGED <<commandVars, backoff, loop, connected, session, requestVars, broker>>

(* Mutant: a closed channel ends the session and not the task.               *)
RecvNoneReconnects ==
  /\ Receiving
  /\ commands = <<>>
  /\ sender = "dropped"
  /\ DispatchEnds("Disconnected")

RecvNone ==
  /\ Receiving
  /\ commands = <<>>
  /\ sender = "dropped"
  /\ DispatchEnds("HandleDropped")

(* The event loop is gone, and the request channel with it.                  *)
PublishFails ==
  /\ Dispatching
  /\ loop # "polling"
  /\ DispatchEnds("Disconnected")

(* Mutant: BrokerDisconnected only if the event loop noticed.                *)
TellEndIfPolled(o) ==
  session' = IF connected = "yes" /\ o = "Disconnected" /\ dispatch_outcome = "None"
               THEN "down" ELSE session

TellEnd(o) ==
  session' = IF connected = "yes" /\ o = "Disconnected" THEN "down" ELSE session

Least(a, b) == IF a <= b THEN a ELSE b

(* Mutant: no more sessions once the backoff is at its maximum.              *)
SleepUnlessMax(stable) ==
  /\ backoff' = IF stable THEN INITIAL_BACKOFF ELSE Least(2 * backoff, MAX_BACKOFF)
  /\ pc' = IF backoff = MAX_BACKOFF THEN "done" ELSE "sleep"

Sleep(stable) ==
  /\ backoff' = IF stable THEN INITIAL_BACKOFF ELSE Least(2 * backoff, MAX_BACKOFF)
  /\ pc' = "sleep"

(* The tail of run_new_session, and run with its outcome.  A session may     *)
(* have been stable if it was connected at all.                              *)
EndSession(o) ==
  /\ TellEnd(o)
  /\ \/ /\ o = "HandleDropped"
        /\ pc' = "done"
        /\ UNCHANGED <<backoff, connected, requestVars>>
     \/ /\ o = "Disconnected"
        /\ \E stable \in BOOLEAN : (stable => connected = "yes") /\ Sleep(stable)
        /\ connected' = "no"
        /\ requests' = <<>>
        /\ wire' = <<>>
        /\ todo' = Fresh
        /\ received' = <<>>
  /\ UNCHANGED <<commandVars, dispatch_outcome, loop, stop, broker>>

(* The event loop's branch of the select!: dispatch is dropped where it is.  *)
LoopFirst ==
  /\ pc = "select"
  /\ loop # "polling"
  /\ EndSession(loop)

(* Dispatch ended first, and the event loop has been awaited.                *)
Joined ==
  /\ pc = "join"
  /\ loop # "polling"
  /\ EndSession(dispatch_outcome)

WakeUp ==
  /\ pc = "sleep"
  /\ pc' = "start"
  /\ UNCHANGED <<commandVars, dispatch_outcome, backoff, loopVars, requestVars, broker>>

-----------------------------------------------------------------------------
(* run_eventloop.                                                            *)

ConnAck ==
  /\ loop = "polling"
  /\ connected = "no"
  /\ broker # "down"
  /\ connected' = "yes"
  /\ session' = "up"
  /\ UNCHANGED <<commandVars, managerVars, loop, stop, requestVars, broker>>

(* The event loop takes a request and writes it to the broker.               *)
Flush ==
  /\ loop = "polling"
  /\ connected = "yes"
  /\ requests # <<>>
  /\ Len(wire) < INFLIGHT
  /\ wire' = Append(wire, Head(requests))
  /\ requests' = Tail(requests)
  /\ UNCHANGED <<commandVars, managerVars, loopVars, todo, received, broker>>

Receive ==
  /\ loop = "polling"
  /\ wire # <<>>
  /\ received' = <<Head(wire)>>
  /\ wire' = Tail(wire)
  /\ UNCHANGED <<commandVars, managerVars, loopVars, todo, requests, broker>>

LoopEnds(o) ==
  /\ loop = "polling"
  /\ loop' = o
  /\ UNCHANGED <<commandVars, managerVars, connected, stop, session, requestVars, broker>>

(* poll returns an error or a Disconnect packet; also when the client is     *)
(* dropped and its last request was taken.                                   *)
PollFails ==
  /\ broker # "up" \/ (pc = "join" /\ requests = <<>>)
  /\ LoopEnds("Disconnected")

(* A command from the broker, with the coordinator gone altogether.          *)
NobodyListens ==
  /\ connected = "yes"
  /\ sender = "dropped"
  /\ LoopEnds("HandleDropped")

SeeStop ==
  /\ stop = "yes"
  /\ LoopEnds("HandleDropped")

-----------------------------------------------------------------------------
Terminated == pc = "done" /\ UNCHANGED vars

Manager ==
  StartSession \/ Publish \/ PublishFails \/ LoopFirst \/ Joined \/ WakeUp

Recv == RecvCommand \/ RecvNone

Loop == ConnAck \/ Flush \/ PollFails \/ NobodyListens \/ SeeStop

Next ==
  \/ Send \/ Close \/ BrokerSettles
  \/ Manager \/ Recv
  \/ Loop \/ Receive
  \/ Terminated

Spec == Init /\ [][Next]_vars

(* Sleeps end, spawned tasks run, and the select! of run_new_session polls   *)
(* its branches in random order, so a command that waits is not passed over  *)
(* for ever.  Connecting is under the client's timeout; a broker that has    *)
(* accepted a session reads what it is sent or fails.                        *)
Fairness ==
  /\ WF_vars(Manager)
  /\ SF_vars(Recv)
  /\ WF_vars(connected = "no" /\ (ConnAck \/ PollFails))
  /\ WF_vars(broker = "down" /\ PollFails)
  /\ WF_vars(Flush)
  /\ WF_vars(Receive)
  /\ WF_vars(SeeStop)

FairSpec == Spec /\ Fairness

-----------------------------------------------------------------------------
Outcomes == {"HandleDropped", "Disconnected"}

RequestType == [of : 1 .. MaxCommands, at : Nat, size : Sizes]

(* Every variable keeps its type; in particular neither channel outgrows its *)
(* capacity, and the backoff its maximum.                                    *)
TypeOK ==
  /\ commands \in Seq(Commands)
  /\ Len(commands) <= COMMAND_CHANNEL_CAPACITY
  /\ sent \in 0 .. MaxCommands
  /\ sender \in {"open", "dropped"}
  /\ pc \in {"start", "select", "join", "sleep", "done"}
  /\ todo \in Seq(RequestType)
  /\ dispatch_outcome \in Outcomes \union {"None"}
  /\ backoff \in INITIAL_BACKOFF .. MAX_BACKOFF
  /\ loop \in Outcomes \union {"none", "polling"}
  /\ connected \in {"no", "yes"}
  /\ stop \in {"no", "yes"}
  /\ requests \in Seq(RequestType)
  /\ Len(requests) <= REQUEST_CHANNEL_CAPACITY
  /\ wire \in Seq(RequestType)
  /\ Len(wire) <= INFLIGHT
  /\ received \in Seq(RequestType)
  /\ Len(received) <= 1
  /\ session \in {"up", "down"}
  /\ broker \in Brokers

(* The coordinator is told of every session's end before the next begins:    *)
(* BrokerConnected and BrokerDisconnected alternate, whichever of the two    *)
(* tasks ended the session, and no command of Home Assistant is forwarded    *)
(* outside of a session it knows of (connected_at, run_new_session).         *)
EventsAlternate ==
  /\ session = "up" <=> connected = "yes"
  /\ pc \in {"start", "sleep"} => session = "down"

-----------------------------------------------------------------------------
(* What reaches the broker.                                                  *)

InFlight == wire \o requests \o todo

IsLast(a) == a.at = a.size

Follows(a, b) ==
  IF IsLast(a) THEN b.of = a.of + 1 /\ b.at = 1
               ELSE b = [a EXCEPT !.at = @ + 1]

(* In a session the broker receives whole commands, one after the other, in  *)
(* the order in which they were sent and without a gap; a session starts at  *)
(* the start of a command and not where the last one was interrupted, and    *)
(* what is in flight goes on where the broker stands, up to the head of the  *)
(* channel.                                                                  *)
NothingSkipped ==
  LET line == received \o InFlight
      \o (IF commands = <<>> THEN <<>> ELSE <<RequestsOf(Head(commands))[1]>>)
  IN /\ \A i \in 1 .. Len(line) - 1 : Follows(line[i], line[i + 1])
     /\ received = <<>> /\ line # <<>> => line[1].at = 1
     /\ commands = <<>> /\ line # <<>> => IsLast(line[Len(line)]) /\ line[Len(line)].of = sent
     /\ \A i \in 1 .. Len(commands) : commands[i].id = sent - Len(commands) + i

(* The manager does with the commands what MqttService says, and no more is  *)
(* in flight than the two buffers hold when a command is taken.              *)
Service ==
  INSTANCE MqttService WITH
    Requests  <- [c \in Commands |-> RequestsOf(c)],
    in_flight <- InFlight,
    IN_FLIGHT <- REQUEST_CHANNEL_CAPACITY + INFLIGHT

RefinesMqttService == Service!Spec

-----------------------------------------------------------------------------
(* Progress.                                                                 *)

(* With a broker that works a session comes up and stays up.                 *)
Reconnects == broker = "up" ~> [](session = "up" \/ sender = "dropped")

(* With a broker that is gone the coordinator is told so, for good.          *)
OutageReported == broker = "down" ~> [](session = "down" \/ sender = "dropped")

(* Every command that is in the channel or in flight in a session that lasts *)
(* reaches the broker whole, however little room the request channel has.    *)
Waiting(i) ==
  \/ \E k \in DOMAIN commands : commands[k].id = i
  \/ \E k \in DOMAIN InFlight : InFlight[k].of = i

EverythingReceived ==
  \A i \in 1 .. MaxCommands :
    (Waiting(i) /\ loop = "polling" /\ connected = "yes" /\ broker = "up")
      ~> \/ received # <<>> /\ received[1].of >= i /\ IsLast(received[1])
         \/ sender = "dropped"

(* Dropping the handle ends the task (MqttConnection::stop), also in the     *)
(* middle of an outage, with a dispatch waiting for room and commands left   *)
(* in the channel.                                                           *)
StopHonoured == sender = "dropped" ~> pc = "done"
=============================================================================
