----------------------------- MODULE Healthcheck -----------------------------
(***************************************************************************)
(* The health check (src/healthcheck), composed with the supervisor: the   *)
(* server's accept loop and a task for every connection, the bounded query *)
(* channel to the coordinator, and the client that "--healthcheck" runs in *)
(* a process of its own and whose exit status is the verdict.              *)
(*                                                                         *)
(* The three waits of a check have timeouts of their own (CONNECT_TIMEOUT  *)
(* and READ_TIMEOUT of the client, QUERY_TIMEOUT of the server); that they *)
(* may pass in any order is left open.  Waiting for room in the query      *)
(* channel has none.  An aborted task is dropped at its next await, so     *)
(* what it does until then is as if done before the abort.                 *)
(***************************************************************************)
EXTENDS Supervisor, Sequences

CONSTANTS
  Clients,         (* who checks; each makes one check after another         *)
  ServiceConfigs,  (* what the service may be started with                   *)
  ClientConfigs,   (* and the clients                                        *)
  CHANNEL_CAPACITY (* of the query channel                                   *)

(* A query of a client is told from one whose asker has gone.                *)
ASSUME HealthcheckAssumption == "Gone" \notin Clients

VARIABLES
  config,          (* of the service                                         *)
  listening,       (* the listener exists                                    *)
  broker_connected, jkbms_online, (* the coordinator's two flags             *)
  queries,         (* the query channel: whose oneshot, or "Gone" when the   *)
                   (* receiver of that has been dropped                      *)
  conn,            (* the last connection of each client: "none", in the     *)
                   (* "backlog", its task "sending" the query or "waiting"   *)
                   (* for the answer, holding the answer, or "closed"        *)
  received,        (* the status written to it, or "None"                    *)
  client,          (* "idle", "reading", "exit 0" or "exit 1"                *)
  seen             (* history: what the health was during the check, or just *)
                   (* "Trouble" when that met a wrong configuration, a       *)
                   (* service that is not there, or a timeout                *)

checkVars == <<conn, received, client, seen>>
flagVars  == <<broker_connected, jkbms_online>>
extraVars == <<config, listening, flagVars, queries, checkVars>>
allVars   == <<vars, extraVars>>

HealthStatuses == {"Healthy", "Unhealthy"}

-----------------------------------------------------------------------------
(* Configuration.                                                            *)

(* resolve_mqtt_pass, by where the password is to come from: the file may    *)
(* not be readable when the process starts.                                  *)
ParseResults(k) ==
  IF k.pass_from = {"inline", "file"} THEN {"Error"}
  ELSE IF k.pass_from = {"file"} THEN {"Ok", "Error"}
  ELSE {"Ok"}

(* build_socket_name.                                                        *)
SocketName(k) ==
  IF k.healthcheck_socket = "None" THEN <<"default", k.bms_name>>
                                   ELSE <<"override", k.healthcheck_socket>>

(* main has parsed the configuration of the service.                         *)
HealthInit ==
  /\ Init
  /\ config \in {k \in ServiceConfigs : "Ok" \in ParseResults(k)}
  /\ listening = FALSE
  /\ broker_connected = FALSE
  /\ jkbms_online = FALSE
  /\ queries = <<>>
  /\ conn = [c \in Clients |-> "none"]
  /\ received = [c \in Clients |-> "None"]
  /\ client = [c \in Clients |-> "idle"]
  /\ seen = [c \in Clients |-> {}]

-----------------------------------------------------------------------------
(* The coordinator.                                                          *)

(* The receiver of the channel lives as long as the coordinator's task; it   *)
(* is not read any more once that has left its loop.                         *)
ReceiverAlive == coordinator \in {"running", "stopping"}

EitherUp ==  (* mutant: one of the two is enough *)
  IF broker_connected \/ jkbms_online THEN "Healthy" ELSE "Unhealthy"

health_status ==
  IF broker_connected /\ jkbms_online THEN "Healthy" ELSE "Unhealthy"

Reading(c) == client[c] = "reading"

Troubled(c) == seen' = [seen EXCEPT ![c] = IF Reading(c) THEN {"Trouble"} ELSE @]

FlagsChange ==
  /\ coordinator = "running"
  /\ \/ broker_connected' = ~broker_connected /\ UNCHANGED jkbms_online
     \/ jkbms_online' = ~jkbms_online /\ UNCHANGED broker_connected
  /\ seen' = [c \in Clients |->
       IF Reading(c) /\ "Trouble" \notin seen[c]
         THEN seen[c] \union {IF broker_connected' /\ jkbms_online'
                                THEN "Healthy" ELSE "Unhealthy"}
         ELSE seen[c]]
  /\ UNCHANGED <<vars, config, listening, queries, conn, received, client>>

AnswerIfAwaited ==  (* mutant: a query whose asker has gone is not taken *)
  /\ queries # <<>>
  /\ Head(queries) # "Gone"
  /\ queries' = Tail(queries)
  /\ conn' = [conn EXCEPT ![Head(queries)] = health_status]

(* The query arm of select!; the send to a dropped oneshot fails and is      *)
(* ignored.                                                                  *)
TakeAndAnswer ==
  /\ queries # <<>>
  /\ queries' = Tail(queries)
  /\ conn' = [c \in Clients |-> IF c = Head(queries) THEN health_status ELSE conn[c]]

AnswerQuery ==
  /\ coordinator = "running"
  /\ TakeAndAnswer
  /\ UNCHANGED <<vars, config, listening, flagVars, received, client, seen>>

-----------------------------------------------------------------------------
(* The server.                                                               *)

(* create_listener succeeds.                                                 *)
Listen ==
  /\ server = "running"
  /\ ~listening
  /\ listening' = TRUE
  /\ UNCHANGED <<vars, config, flagVars, queries, checkVars>>

Accept(c) ==
  /\ server = "running"
  /\ conn[c] = "backlog"
  /\ conn' = [conn EXCEPT ![c] = "sending"]
  /\ UNCHANGED <<vars, config, listening, flagVars, queries, received, client, seen>>

(* The task of accept_loop ends: the listener and the JoinSet go, and with   *)
(* that every connection and every oneshot that waits for an answer.         *)
Released ==
  /\ listening' = FALSE
  /\ conn' = [c \in Clients |-> IF conn[c] = "none" THEN "none" ELSE "closed"]
  /\ queries' = [i \in DOMAIN queries |-> "Gone"]
  /\ seen' = [c \in Clients |->
       IF Reading(c) /\ conn[c] # "closed" THEN {"Trouble"} ELSE seen[c]]
  /\ UNCHANGED <<config, flagVars, received, client>>

(* An error of create_listener or of an accept.  Nobody starts the loop      *)
(* again.                                                                    *)
AcceptLoopFails == ServerFails /\ Released

-----------------------------------------------------------------------------
(* handle_connection.                                                        *)

SendQuery(c) ==
  /\ conn[c] = "sending"
  /\ \/ /\ ReceiverAlive
        /\ Len(queries) < CHANNEL_CAPACITY
        /\ queries' = Append(queries, c)
        /\ conn' = [conn EXCEPT ![c] = "waiting"]
        /\ UNCHANGED seen
     \/ /\ ~ReceiverAlive
        /\ conn' = [conn EXCEPT ![c] = "closed"]
        /\ Troubled(c)
        /\ UNCHANGED queries
  /\ UNCHANGED <<vars, config, listening, flagVars, received, client>>

(* write_status; to a client that has gone it fails and is ignored.          *)
Write(c, s) ==
  /\ received' = [received EXCEPT ![c] = IF Reading(c) THEN s ELSE "None"]
  /\ conn' = [conn EXCEPT ![c] = "closed"]

Reply(c) ==
  /\ conn[c] \in HealthStatuses
  /\ Write(c, conn[c])
  /\ UNCHANGED <<vars, config, listening, flagVars, queries, client, seen>>

(* QUERY_TIMEOUT, or the coordinator has dropped the query unanswered.       *)
NoAnswer(c) ==
  /\ conn[c] = "waiting"
  /\ Write(c, "Unhealthy")
  /\ queries' = [i \in DOMAIN queries |-> IF queries[i] = c THEN "Gone" ELSE queries[i]]
  /\ Troubled(c)
  /\ UNCHANGED <<vars, config, listening, flagVars, client>>

-----------------------------------------------------------------------------
(* HealthcheckClient::check, and main around it.                             *)

Verdict(c, v, h) ==
  /\ client' = [client EXCEPT ![c] = v]
  /\ seen' = [seen EXCEPT ![c] = h]

Reachable(k) == listening /\ SocketName(k) = SocketName(config)

StartCheck(c) ==
  /\ client[c] = "idle" /\ ~ProcessOver
  /\ \E k \in ClientConfigs : \E r \in ParseResults(k) :
       \/ /\ r = "Ok" /\ Reachable(k)
          /\ Verdict(c, "reading", {health_status})
          /\ conn' = [conn EXCEPT ![c] = "backlog"]
       \/ /\ r = "Error" \/ ~Reachable(k)
          /\ Verdict(c, "exit 1", {"Trouble"})
          /\ UNCHANGED conn
  /\ UNCHANGED <<vars, config, listening, flagVars, queries, received>>

ClientTimesOut(c) ==
  /\ Reading(c)
  /\ received[c] = "None"
  /\ Verdict(c, "exit 1", {"Trouble"})
  /\ UNCHANGED <<vars, config, listening, flagVars, queries, conn, received>>

(* The connection ended without a byte.                                      *)
ReadEof(c) ==
  /\ Reading(c)
  /\ received[c] = "None"
  /\ conn[c] = "closed" \/ ProcessOver
  /\ Verdict(c, "exit 1", IF ProcessOver THEN {"Trouble"} ELSE seen[c])
  /\ UNCHANGED <<vars, config, listening, flagVars, queries, conn, received>>

ReadStatus(c) ==
  /\ Reading(c)
  /\ received[c] # "None"
  /\ Verdict(c, IF received[c] = "Healthy" THEN "exit 0" ELSE "exit 1", seen[c])
  /\ UNCHANGED <<vars, config, listening, flagVars, queries, conn, received>>

(* Bound: the next check of the same client comes when the task of the       *)
(* connection before is over, and no check starts when the service has gone. *)
NextCheck(c) ==
  /\ client[c] \in {"exit 0", "exit 1"}
  /\ conn[c] \in {"none", "closed"} \/ ProcessOver
  /\ client' = [client EXCEPT ![c] = "idle"]
  /\ conn' = [conn EXCEPT ![c] = "none"]
  /\ received' = [received EXCEPT ![c] = "None"]
  /\ seen' = [seen EXCEPT ![c] = {}]
  /\ UNCHANGED <<vars, config, listening, flagVars, queries>>

-----------------------------------------------------------------------------
(* The supervisor's steps, with what they do to the health check.            *)

SpawnServer ==
  /\ SpawnAll
  /\ server' = IF config.healthcheck_server THEN "running" ELSE "none"
  /\ UNCHANGED extraVars

SupervisorMoves ==
  \/ SpawnServer
  \/ StopServer /\ Released
  \/ /\ \/ ReturnAtOnce \/ SeeExit \/ SeeShutdown
        \/ StopCoordinator \/ AwaitCoordinator
     /\ UNCHANGED extraVars

(* The coordinator goes, and with it its flags, its receiver and the queries *)
(* in that.                                                                  *)
QueriesDropped ==
  /\ broker_connected' = FALSE
  /\ jkbms_online' = FALSE
  /\ queries' = <<>>
  /\ UNCHANGED <<config, listening, checkVars>>

CoordinatorMoves ==
  \/ BreakLoop /\ UNCHANGED extraVars
  \/ EndCoordinator /\ QueriesDropped

TaskMoves(t) == (TaskEnds(t) \/ TaskPanics(t)) /\ UNCHANGED extraVars

ConnectionMoves(c) == SendQuery(c) \/ Reply(c) \/ NoAnswer(c)

ClientMoves(c) ==
  StartCheck(c) \/ ClientTimesOut(c) \/ ReadEof(c) \/ ReadStatus(c) \/ NextCheck(c)

ServiceMoves ==
  \/ SupervisorMoves
  \/ CoordinatorMoves
  \/ CoordinatorPanics /\ QueriesDropped
  \/ \E t \in Tasks : TaskMoves(t)
  \/ Signal /\ UNCHANGED extraVars
  \/ FlagsChange
  \/ AnswerQuery
  \/ Listen
  \/ AcceptLoopFails
  \/ \E c \in Clients : Accept(c) \/ ConnectionMoves(c)

AllOver ==
  /\ ProcessOver
  /\ \A c \in Clients : client[c] = "idle"
  /\ UNCHANGED allVars

HealthNext ==
  \/ ~ProcessOver /\ ServiceMoves
  \/ \E c \in Clients : ClientMoves(c)
  \/ AllOver

HealthSpec == HealthInit /\ [][HealthNext]_allVars

(* As in Supervisor; the coordinator's select! takes its ready arms in a     *)
(* random order, so it gets to the queries; timers fire; and the senders     *)
(* that wait for room in the channel are served in their order, so that none *)
(* is overtaken for ever (SF).  No client has to do anything.                *)
HealthFairSpec ==
  /\ HealthSpec
  /\ WF_allVars(~ProcessOver /\ SupervisorMoves)
  /\ WF_allVars(~ProcessOver /\ CoordinatorMoves)
  /\ WF_allVars(~ProcessOver /\ AnswerQuery)
  /\ \A t \in Tasks : WF_allVars(~ProcessOver /\ TaskEnds(t) /\ UNCHANGED extraVars)
  /\ \A c \in Clients :
       /\ SF_allVars(~ProcessOver /\ SendQuery(c))
       /\ WF_allVars(~ProcessOver /\ (Reply(c) \/ NoAnswer(c)))

-----------------------------------------------------------------------------
(* The exit status tells the truth about the time of the check: 0 only if    *)
(* both sides of the bridge were up at some moment of it, and 1 only if they *)
(* were not at some moment, or if the check met a timeout, a configuration   *)
(* that is wrong or does not agree, or no service to answer.  No answer goes *)
(* to another client or to a later check.                                    *)
VerdictTruthful ==
  \A c \in Clients :
    /\ client[c] = "exit 0" => "Healthy" \in seen[c]
    /\ client[c] = "exit 1" => seen[c] \intersect {"Unhealthy", "Trouble"} # {}

(* No task of a connection waits for ever: not in a channel that is full of  *)
(* queries nobody waits for any more, nor on a coordinator that is stopping  *)
(* or has panicked.                                                          *)
ConnectionsEnd ==
  \A c \in Clients :
    conn[c] \in {"sending", "waiting"} \union HealthStatuses
      ~> conn[c] = "closed" \/ ProcessOver
=============================================================================
