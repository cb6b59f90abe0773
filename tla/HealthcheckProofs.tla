-------------------------- MODULE HealthcheckProofs --------------------------
(***************************************************************************)
(* What TLAPS proves of Supervisor and Healthcheck, for any connection     *)
(* tasks, clients, configurations and capacity of the query channel: the   *)
(* supervisor leaves nothing running, also with the health check at work,  *)
(* and the verdict of a check is true.                                     *)
(***************************************************************************)
EXTENDS Healthcheck, QueueLemmas

-----------------------------------------------------------------------------
(* The supervisor.                                                           *)

(* The invariant: nothing is started twice, and the supervisor moves on to   *)
(* release the server and return only past a coordinator that is over.       *)
SupervisorInv ==
  /\ task \in [Tasks -> {"none", "running", "over"}]
  /\ coordinator \in {"none", "running", "stopping", "done", "panicked"}
  /\ supervisor = "loop" => coordinator = "none"
  /\ coordinator = "none" => supervisor \in {"loop", "returned"}
  /\ coordinator \in {"stopping", "done", "panicked"} => handles = "dropped"
  /\ coordinator = "done" => \A t \in Tasks : Over(t)
  /\ supervisor \in {"release", "returned"} /\ coordinator # "none" => CoordinatorOver
  /\ supervisor = "returned" /\ coordinator # "none" => server # "running"

LEMMA SupervisorInit == Init => SupervisorInv
BY DEF Init, SupervisorInv

LEMMA SupervisorMakesSteps ==
  SupervisorInv /\ SupervisorStep => SupervisorInv'
<1> SUFFICES ASSUME SupervisorInv, SupervisorStep PROVE SupervisorInv'
  OBVIOUS
<1> USE DEF SupervisorInv, Over, CoordinatorOver
<1>1. CASE ReturnAtOnce
  BY <1>1 DEF ReturnAtOnce
<1>2. CASE SpawnAll
  BY <1>2 DEF SpawnAll
<1>3. CASE SeeExit \/ SeeShutdown
  BY <1>3 DEF SeeExit, SeeShutdown
<1>4. CASE StopCoordinator
  BY <1>4 DEF StopCoordinator
<1>5. CASE AwaitCoordinator
  BY <1>5 DEF AwaitCoordinator
<1>6. CASE StopServer
  BY <1>6 DEF StopServer, ServerStopped
<1> QED
  BY <1>1, <1>2, <1>3, <1>4, <1>5, <1>6 DEF SupervisorStep

LEMMA SupervisorNext == SupervisorInv /\ [Next]_vars => SupervisorInv'
<1> SUFFICES ASSUME SupervisorInv, [Next]_vars PROVE SupervisorInv'
  OBVIOUS
<1> USE DEF SupervisorInv, Over, CoordinatorOver
<1>1. CASE SupervisorStep
  BY <1>1, SupervisorMakesSteps
<1>2. CASE CoordinatorStep
  BY <1>2 DEF CoordinatorStep, BreakLoop, EndCoordinator, TasksAwaited
<1>3. CASE ~ProcessOver /\ CoordinatorPanics
  BY <1>3 DEF CoordinatorPanics
<1>4. ASSUME NEW t \in Tasks, TaskEnds(t) \/ TaskPanics(t) PROVE SupervisorInv'
  BY <1>4 DEF TaskEnds, TaskPanics
<1>5. CASE ServerFails \/ Signal \/ Terminated \/ UNCHANGED vars
  BY <1>5 DEF ServerFails, Signal, Terminated, vars
<1> QED
  BY <1>1, <1>2, <1>3, <1>4, <1>5 DEF Next

LEMMA SupervisorInvariant == Spec => []SupervisorInv
BY SupervisorInit, SupervisorNext, PTL DEF Spec

(* supervisor::run returns only with the coordinator over, its handles       *)
(* dropped, the healthcheck server released and, unless the coordinator      *)
(* panicked, both connection tasks over (NoTaskLeftBehind).                  *)
THEOREM SupervisorLeavesNothing == Spec => []NoTaskLeftBehind
<1>1. SupervisorInv => NoTaskLeftBehind
  BY DEF SupervisorInv, NoTaskLeftBehind, CoordinatorOver
<1> QED
  BY <1>1, SupervisorInvariant, PTL

-----------------------------------------------------------------------------
(* With the health check.                                                    *)

LEMMA HealthStep == HealthNext => [Next]_vars
BY DEF HealthNext, ServiceMoves, SupervisorMoves, SpawnServer, CoordinatorMoves, TaskMoves,
  FlagsChange, AnswerQuery, Listen, AcceptLoopFails, Accept, ConnectionMoves, SendQuery, Reply,
  NoAnswer, ClientMoves, StartCheck, ClientTimesOut, ReadEof, ReadStatus, NextCheck, AllOver,
  extraVars, allVars, Next, SupervisorStep, CoordinatorStep

(* The health check does not disturb the supervisor: with the server, its    *)
(* connections and its clients at work, what the supervisor, the coordinator *)
(* and the tasks do is still what Supervisor says (spawn_all, run_once).     *)
THEOREM HealthcheckKeepsSupervisor == HealthSpec => Spec
<1>1. HealthInit => Init
  BY DEF HealthInit
<1>2. [HealthNext]_allVars => [Next]_vars
  BY HealthStep DEF allVars
<1> QED
  BY <1>1, <1>2, PTL DEF HealthSpec, Spec

(* A query in the channel is of a client that waits for its answer, in the   *)
(* one check that it makes.                                                  *)
QueriesOwned ==
  /\ \A i \in 1 .. Len(queries) : queries[i] \in Clients => conn[queries[i]] = "waiting"
  /\ \A i, j \in 1 .. Len(queries) : queries[i] = queries[j] /\ queries[i] \in Clients => i = j

CheckTypeOK ==
  /\ conn \in [Clients -> {"none", "backlog", "sending", "waiting", "closed"}
                             \union HealthStatuses]
  /\ received \in [Clients -> HealthStatuses \union {"None"}]
  /\ client \in [Clients -> {"idle", "reading", "exit 0", "exit 1"}]
  /\ seen \in [Clients -> SUBSET (HealthStatuses \union {"Trouble"})]
  /\ queries \in Seq(Clients \union {"Gone"})

(* Of a client that reads: the answer it has, or that is held for it, was    *)
(* true at some moment of its check; it has met trouble only if no answer    *)
(* comes any more; and what an answer would be now is among what was seen,   *)
(* as long as there is a coordinator to give one.                            *)
CheckOK(c) ==
  /\ client[c] = "idle" => conn[c] = "none" /\ received[c] = "None"
  /\ client[c] = "exit 0" => "Healthy" \in seen[c]
  /\ client[c] = "exit 1" => "Unhealthy" \in seen[c] \/ "Trouble" \in seen[c]
  /\ Reading(c) =>
       /\ conn[c] # "none"
       /\ received[c] # "None" => conn[c] = "closed"
       /\ conn[c] \in HealthStatuses => conn[c] \in seen[c]
       /\ received[c] = "Healthy" => "Healthy" \in seen[c]
       /\ conn[c] = "closed" /\ received[c] # "Healthy" =>
            "Unhealthy" \in seen[c] \/ "Trouble" \in seen[c]
       /\ "Trouble" \in seen[c] => conn[c] = "closed"
       /\ ~CoordinatorOver => health_status \in seen[c] \/ "Trouble" \in seen[c]

HealthInv ==
  /\ CheckTypeOK
  /\ ~ProcessOver => QueriesOwned
  /\ \A c \in Clients : CheckOK(c)

LEMMA CheckInit == HealthInit => HealthInv
BY EmptySeq DEF HealthInit, HealthInv, CheckTypeOK, QueriesOwned, CheckOK, Reading

-----------------------------------------------------------------------------
(* The clients.                                                              *)

(* What is not of the client that moves stays what it is.                    *)
LEMMA OthersOK ==
  ASSUME NEW d \in Clients, CheckOK(d),
         UNCHANGED <<client[d], conn[d], received[d], seen[d], coordinator, flagVars>>
  PROVE  CheckOK(d)'
BY DEF CheckOK, Reading, flagVars, health_status, CoordinatorOver

LEMMA ClientStep ==
  ASSUME HealthInv, NEW c \in Clients, ClientMoves(c)
  PROVE  HealthInv'
<1> USE DEF HealthInv
<1>1. /\ UNCHANGED <<vars, coordinator, flagVars, queries>>
      /\ \A d \in Clients \ {c} : UNCHANGED <<client[d], conn[d], received[d], seen[d]>>
      /\ ProcessOver' = ProcessOver
  BY DEF ClientMoves, StartCheck, ClientTimesOut, ReadEof, ReadStatus, NextCheck, Verdict, CheckTypeOK, vars, flagVars, ProcessOver
<1>2. CheckTypeOK'
  <2>1. CASE StartCheck(c)
    <3>1. {health_status} \in SUBSET (HealthStatuses \union {"Trouble"})
      BY DEF HealthStatuses, health_status
    <3>2. /\ UNCHANGED <<received, queries>>
          /\ \/ client' = [client EXCEPT ![c] = "reading"] /\ seen' = [seen EXCEPT ![c] = {health_status}]
                /\ conn' = [conn EXCEPT ![c] = "backlog"]
             \/ client' = [client EXCEPT ![c] = "exit 1"] /\ seen' = [seen EXCEPT ![c] = {"Trouble"}]
                /\ conn' = conn
      BY <2>1 DEF StartCheck, Verdict
    <3> HIDE DEF HealthInv
    <3> QED
      BY <3>1, <3>2 DEF HealthInv, CheckTypeOK
  <2>2. CASE ClientTimesOut(c) \/ ReadEof(c) \/ ReadStatus(c)
    BY <1>1, <2>2 DEF ClientTimesOut, ReadEof, ReadStatus, Verdict, CheckTypeOK
  <2>3. CASE NextCheck(c)
    BY <1>1, <2>3 DEF NextCheck, CheckTypeOK
  <2> QED
    BY <2>1, <2>2, <2>3 DEF ClientMoves
<1>3. CheckOK(c)'
  <2>1. CASE StartCheck(c)
    <3>1. CheckOK(c) /\ client[c] = "idle" /\ received' = received /\ health_status' = health_status
      BY <2>1 DEF StartCheck, flagVars, health_status
    <3>2. CASE client'[c] = "reading" /\ conn'[c] = "backlog" /\ seen'[c] = {health_status}
      BY <3>1, <3>2 DEF CheckOK, Reading, HealthStatuses, health_status
    <3>3. CASE client'[c] = "exit 1" /\ conn' = conn /\ seen'[c] = {"Trouble"}
      BY <3>1, <3>3 DEF CheckOK, Reading
    <3> QED
      BY <2>1, <3>2, <3>3 DEF StartCheck, Verdict, CheckTypeOK
  <2>2. CASE ClientTimesOut(c)
    BY <2>2 DEF ClientTimesOut, Verdict, CheckTypeOK, CheckOK, Reading
  <2>4. CASE ReadEof(c)
    BY <2>4 DEF ReadEof, Verdict, CheckTypeOK, CheckOK, Reading
  <2>5. CASE ReadStatus(c)
    BY <2>5 DEF ReadStatus, Verdict, CheckTypeOK, CheckOK, Reading, HealthStatuses
  <2>3. CASE NextCheck(c)
    BY <2>3 DEF NextCheck, CheckTypeOK, CheckOK, Reading
  <2> QED
    BY <2>1, <2>2, <2>3, <2>4, <2>5 DEF ClientMoves
<1>4. ASSUME ~ProcessOver PROVE QueriesOwned'
  <2>1. conn[c] # "waiting" \/ conn' = conn
    BY <1>4 DEF ClientMoves, StartCheck, ClientTimesOut, ReadEof, ReadStatus, NextCheck, Verdict, CheckOK
  <2>2. \A d \in Clients : conn[d] = "waiting" => conn'[d] = "waiting"
    BY <1>1, <2>1
  <2> QED
    BY <1>1, <1>4, <2>2 DEF QueriesOwned
<1>5. \A d \in Clients \ {c} : CheckOK(d)'
  BY <1>1, OthersOK
<1> QED
  BY <1>1, <1>2, <1>3, <1>4, <1>5

-----------------------------------------------------------------------------
(* The server's connections.                                                 *)

LEMMA QueriesGone ==
  ASSUME HealthInv, NEW S, queries' = [i \in DOMAIN queries |-> IF queries[i] \in S THEN "Gone" ELSE queries[i]]
  PROVE  /\ queries' \in Seq(Clients \union {"Gone"})
         /\ Len(queries') = Len(queries)
         /\ \A i \in 1 .. Len(queries) : queries'[i] = IF queries[i] \in S THEN "Gone" ELSE queries[i]
         /\ \A i \in 1 .. Len(queries) : queries'[i] \in Clients => queries[i] \notin S /\ queries'[i] = queries[i]
<1>1. queries \in Seq(Clients \union {"Gone"}) /\ DOMAIN queries = 1 .. Len(queries)
  BY LenProperties DEF HealthInv, CheckTypeOK
<1>2. \A i \in 1 .. Len(queries) : queries[i] \in Clients \union {"Gone"}
  BY <1>1, ElementOfSeq
<1>3. queries' \in Seq(Clients \union {"Gone"}) /\ Len(queries') = Len(queries)
  BY <1>1, <1>2, LenProperties
<1> QED
  BY <1>1, <1>2, <1>3, HealthcheckAssumption DEF HealthcheckAssumption


LEMMA QueueOfClient ==
  ASSUME HealthInv, ~ProcessOver, NEW c \in Clients, conn[c] # "waiting"
  PROVE  \A i \in 1 .. Len(queries) : queries[i] # c
BY DEF HealthInv, QueriesOwned

(* A step of the task of a connection.                                       *)
LEMMA ConnectionStep ==
  ASSUME HealthInv, ~ProcessOver, NEW c \in Clients, Accept(c) \/ ConnectionMoves(c)
  PROVE  HealthInv'
<1> DEFINE n == Len(queries)
<1>1. /\ UNCHANGED <<vars, supervisor, coordinator, flagVars, client>>
      /\ \A d \in Clients \ {c} : UNCHANGED <<client[d], conn[d], received[d], seen[d]>>
  BY DEF ConnectionMoves, Accept, SendQuery, Reply, NoAnswer, Write, Troubled, HealthInv, CheckTypeOK, vars, flagVars
<1>2. \A d \in Clients \ {c} : CheckOK(d)'
  BY <1>1, OthersOK DEF HealthInv
<1>3. ~ProcessOver'
  BY <1>1 DEF ProcessOver
<1>4. /\ queries \in Seq(Clients \union {"Gone"}) /\ n \in Nat
      /\ \A i \in 1 .. n : queries[i] \in Clients \union {"Gone"}
  BY LenProperties, ElementOfSeq DEF HealthInv, CheckTypeOK
<1>5. CASE Accept(c) \/ (SendQuery(c) /\ queries' = queries) \/ Reply(c)
  <2>1. conn[c] # "waiting" /\ queries' = queries
    BY <1>5 DEF Accept, SendQuery, Reply, HealthStatuses
  <2>2. ASSUME conn[c] = "backlog", conn' = [conn EXCEPT ![c] = "sending"], UNCHANGED <<received, seen>>
        PROVE  CheckTypeOK' /\ CheckOK(c)'
    <3>1. CheckTypeOK'
      BY <1>1, <2>1, <2>2 DEF HealthInv, CheckTypeOK
    <3>2. CheckOK(c)'
      BY <1>1, <2>2 DEF HealthInv, CheckTypeOK, CheckOK, Reading, HealthStatuses, CoordinatorOver, health_status, flagVars
    <3> QED
      BY <3>1, <3>2
  <2>3. ASSUME conn[c] = "sending", conn' = [conn EXCEPT ![c] = "closed"], received' = received,
               seen' = [seen EXCEPT ![c] = IF Reading(c) THEN {"Trouble"} ELSE @]
        PROVE  CheckTypeOK' /\ CheckOK(c)'
    <3>1. CheckTypeOK'
      BY <1>1, <2>1, <2>3 DEF HealthInv, CheckTypeOK
    <3>2. CheckOK(c)'
      BY <1>1, <2>3 DEF HealthInv, CheckTypeOK, CheckOK, Reading, HealthStatuses
    <3> QED
      BY <3>1, <3>2
  <2>4. ASSUME conn[c] \in HealthStatuses, conn' = [conn EXCEPT ![c] = "closed"], seen' = seen,
               received' = [received EXCEPT ![c] = IF Reading(c) THEN conn[c] ELSE "None"]
        PROVE  CheckTypeOK' /\ CheckOK(c)'
    <3>1. CheckTypeOK'
      BY <1>1, <2>1, <2>4 DEF HealthInv, CheckTypeOK
    <3>2. CheckOK(c)'
      BY <1>1, <2>4 DEF HealthInv, CheckTypeOK, CheckOK, Reading, HealthStatuses, CoordinatorOver, health_status, flagVars
    <3> QED
      BY <3>1, <3>2
  <2>5. CheckTypeOK' /\ CheckOK(c)'
    <3>1. CASE Accept(c)
      BY <2>2, <3>1 DEF Accept
    <3>2. CASE SendQuery(c)
      <4>1. queries # Append(queries, c)
        BY <1>4, AppendProperties
      <4> QED
        BY <2>1, <2>3, <3>2, <4>1 DEF SendQuery, Troubled
    <3>3. CASE Reply(c)
      BY <2>4, <3>3 DEF Reply, Write
    <3> QED
      BY <1>5, <3>1, <3>2, <3>3
  <2>6. QueriesOwned'
    BY <1>1, <1>4, <2>1, QueueOfClient DEF HealthInv, QueriesOwned
  <2> QED
    BY <1>2, <2>5, <2>6 DEF HealthInv
<1>6. CASE SendQuery(c) /\ queries' = Append(queries, c)
  <2>1. /\ conn[c] = "sending" /\ conn' = [conn EXCEPT ![c] = "waiting"]
        /\ UNCHANGED <<received, seen>>
    <3>1. queries' # queries
      BY <1>4, <1>6, AppendProperties
    <3> QED
      BY <1>6, <3>1 DEF SendQuery
  <2>2. /\ queries' \in Seq(Clients \union {"Gone"}) /\ Len(queries') = n + 1
        /\ queries'[n + 1] = c /\ \A i \in 1 .. n : queries'[i] = queries[i]
    BY <1>4, <1>6, AppendProperties
  <2>3. CheckTypeOK'
    BY <1>1, <2>1, <2>2 DEF HealthInv, CheckTypeOK
  <2>4. CheckOK(c)'
    BY <1>1, <2>1 DEF HealthInv, CheckTypeOK, CheckOK, Reading, CoordinatorOver, health_status, flagVars, HealthStatuses
  <2>5. QueriesOwned'
    <3>1. \A i \in 1 .. n : queries[i] # c
      BY <2>1, QueueOfClient
    <3>2. \A d \in Clients : conn[d] = "waiting" => conn'[d] = "waiting"
      BY <1>1, <2>1
    <3>3. conn'[c] = "waiting"
      BY <2>1 DEF HealthInv, CheckTypeOK
    <3>4. \A i \in 1 .. Len(queries') : i \in 1 .. n \/ i = n + 1
      BY <1>4, <2>2
    <3> QED
      BY <1>4, <2>2, <3>1, <3>2, <3>3, <3>4 DEF HealthInv, QueriesOwned
  <2> QED
    BY <1>2, <2>3, <2>4, <2>5 DEF HealthInv
<1>7. CASE NoAnswer(c)
  <2>1. /\ conn[c] = "waiting" /\ conn' = [conn EXCEPT ![c] = "closed"]
        /\ received' = [received EXCEPT ![c] = IF Reading(c) THEN "Unhealthy" ELSE "None"]
        /\ seen' = [seen EXCEPT ![c] = IF Reading(c) THEN {"Trouble"} ELSE @]
        /\ queries' = [i \in DOMAIN queries |-> IF queries[i] \in {c} THEN "Gone" ELSE queries[i]]
    BY <1>7 DEF NoAnswer, Write, Troubled
  <2>2. /\ queries' \in Seq(Clients \union {"Gone"}) /\ Len(queries') = n
        /\ \A i \in 1 .. n : queries'[i] \in Clients => queries[i] # c /\ queries'[i] = queries[i]
    BY <2>1, QueriesGone
  <2>3. CheckTypeOK'
    BY <1>1, <2>1, <2>2 DEF HealthInv, CheckTypeOK, HealthStatuses
  <2>4. CheckOK(c)'
    BY <1>1, <2>1 DEF HealthInv, CheckTypeOK, CheckOK, Reading, HealthStatuses
  <2>5. QueriesOwned'
    <3>1. QueriesOwned
      BY DEF HealthInv
    <3>2. \A d \in Clients \ {c} : conn'[d] = conn[d]
      BY <1>1
    <3>3. ASSUME NEW i \in 1 .. n, queries'[i] \in Clients
          PROVE  conn'[queries'[i]] = "waiting"
      BY <2>2, <3>1, <3>2, <3>3 DEF QueriesOwned
    <3>4. ASSUME NEW i \in 1 .. n, NEW j \in 1 .. n, queries'[i] = queries'[j], queries'[i] \in Clients
          PROVE  i = j
      BY <2>2, <3>1, <3>4 DEF QueriesOwned
    <3> HIDE DEF n
    <3> QED
      BY <2>2, <3>3, <3>4 DEF QueriesOwned
  <2> QED
    BY <1>2, <2>3, <2>4, <2>5 DEF HealthInv
<1> QED
  BY <1>5, <1>6, <1>7 DEF ConnectionMoves, SendQuery

-----------------------------------------------------------------------------
(* The coordinator and the server.                                           *)

LEMMA FlagsStep == HealthInv /\ ~ProcessOver /\ FlagsChange => HealthInv'
<1> SUFFICES ASSUME HealthInv, ~ProcessOver, FlagsChange PROVE HealthInv'
  OBVIOUS
<1> DEFINE h == IF broker_connected' /\ jkbms_online' THEN "Healthy" ELSE "Unhealthy"
<1>1. /\ UNCHANGED <<queries, conn, received, client>> /\ ProcessOver' = ProcessOver
      /\ CoordinatorOver' = CoordinatorOver
  BY DEF FlagsChange, vars, ProcessOver, CoordinatorOver
<1>2. /\ h = health_status' /\ h \in HealthStatuses
      /\ seen' = [c \in Clients |->
           IF Reading(c) /\ "Trouble" \notin seen[c] THEN seen[c] \union {h} ELSE seen[c]]
  BY DEF FlagsChange, health_status, HealthStatuses
<1> HIDE DEF h
<1>3. CheckTypeOK'
  BY <1>1, <1>2 DEF HealthInv, CheckTypeOK
<1>4. QueriesOwned'
  BY <1>1 DEF HealthInv, QueriesOwned
<1>5. ASSUME NEW c \in Clients PROVE CheckOK(c)'
  <2>1. CheckOK(c) /\ seen[c] \subseteq seen'[c]
    BY <1>2 DEF HealthInv
  <2>2. CASE ~Reading(c)
    BY <1>1, <2>1, <2>2 DEF CheckOK, Reading
  <2>3. CASE Reading(c) /\ "Trouble" \in seen[c]
    <3>1. seen'[c] = seen[c]
      BY <1>2, <2>3
    <3> QED
      BY <1>1, <2>1, <2>3, <3>1 DEF CheckOK, Reading
  <2>4. CASE Reading(c) /\ "Trouble" \notin seen[c]
    <3>1. seen'[c] = seen[c] \union {h}
      BY <1>2, <2>4
    <3> QED
      BY <1>1, <1>2, <2>1, <2>4, <3>1 DEF CheckOK, Reading, HealthStatuses
  <2> QED
    BY <2>2, <2>3, <2>4
<1> QED
  BY <1>3, <1>4, <1>5 DEF HealthInv

LEMMA AnswerStep == HealthInv /\ ~ProcessOver /\ AnswerQuery => HealthInv'
<1> SUFFICES ASSUME HealthInv, ~ProcessOver, AnswerQuery PROVE HealthInv'
  OBVIOUS
<1> DEFINE n == Len(queries)  q == Head(queries)
<1>1. /\ UNCHANGED <<coordinator, flagVars, received, client, seen>> /\ ProcessOver' = ProcessOver
      /\ coordinator = "running" /\ queries # <<>> /\ queries' = Tail(queries)
      /\ conn' = [c \in Clients |-> IF c = q THEN health_status ELSE conn[c]]
  BY DEF AnswerQuery, TakeAndAnswer, vars, flagVars, ProcessOver
<1>2. /\ queries \in Seq(Clients \union {"Gone"}) /\ n \in Nat \ {0} /\ q = queries[1]
      /\ queries' \in Seq(Clients \union {"Gone"}) /\ Len(queries') = n - 1
      /\ \A i \in 1 .. n - 1 : queries'[i] = queries[i + 1]
  <2>1. queries \in Seq(Clients \union {"Gone"})
    BY DEF HealthInv, CheckTypeOK
  <2> QED
    BY <1>1, <2>1, HeadTailProperties, EmptySeq, LenProperties
<1> HIDE DEF n, q
<1>3. QueriesOwned /\ CheckTypeOK
  BY DEF HealthInv
<1>4. health_status \in HealthStatuses
  BY DEF health_status, HealthStatuses
<1>5. q \in Clients => conn[q] = "waiting"
  BY <1>2, <1>3 DEF QueriesOwned, n
<1>6. CheckTypeOK'
  BY <1>1, <1>2, <1>3, <1>4 DEF CheckTypeOK
<1>7. QueriesOwned'
  <2>1. ASSUME NEW i \in 1 .. n - 1, queries'[i] \in Clients
        PROVE  queries'[i] # q /\ conn[queries'[i]] = "waiting"
    <3>1. i + 1 \in 1 .. n /\ 1 \in 1 .. n /\ i + 1 # 1
      BY <1>2
    <3> QED
      BY <1>2, <1>3, <2>1, <3>1 DEF QueriesOwned, n
  <2>2. ASSUME NEW i \in 1 .. n - 1, NEW j \in 1 .. n - 1, queries'[i] = queries'[j], queries'[i] \in Clients
        PROVE  i = j
    <3>1. i + 1 \in 1 .. n /\ j + 1 \in 1 .. n
      BY <1>2
    <3>2. i + 1 = j + 1
      BY <1>2, <1>3, <2>2, <3>1 DEF QueriesOwned, n
    <3> QED
      BY <1>2, <3>2
  <2> QED
    BY <1>1, <1>2, <2>1, <2>2 DEF QueriesOwned
<1>8. ASSUME NEW c \in Clients PROVE CheckOK(c)'
  <2>1. CASE c # q
    BY <1>1, <2>1, OthersOK DEF HealthInv
  <2>2. CASE c = q
    BY <1>1, <1>4, <1>5, <2>2 DEF HealthInv, CheckOK, Reading, HealthStatuses, CoordinatorOver, health_status, flagVars
  <2> QED
    BY <2>1, <2>2
<1> QED
  BY <1>6, <1>7, <1>8 DEF HealthInv

LEMMA ReleaseStep ==
  HealthInv /\ ~ProcessOver /\ Released /\ UNCHANGED coordinator => HealthInv'
<1> SUFFICES ASSUME HealthInv, ~ProcessOver, Released, UNCHANGED coordinator PROVE HealthInv'
  OBVIOUS
<1>1. /\ UNCHANGED <<received, client>>
      /\ conn' = [c \in Clients |-> IF conn[c] = "none" THEN "none" ELSE "closed"]
      /\ queries' = [i \in DOMAIN queries |-> "Gone"]
      /\ seen' = [c \in Clients |->
           IF Reading(c) /\ conn[c] # "closed" THEN {"Trouble"} ELSE seen[c]]
      /\ CoordinatorOver' = CoordinatorOver /\ health_status' = health_status
  BY DEF Released, flagVars, CoordinatorOver, health_status
<1>2. /\ queries' \in Seq(Clients \union {"Gone"})
      /\ \A i \in 1 .. Len(queries') : queries'[i] = "Gone"
  <2>1. queries \in Seq(Clients \union {"Gone"}) /\ DOMAIN queries = 1 .. Len(queries) /\ Len(queries) \in Nat
    BY LenProperties DEF HealthInv, CheckTypeOK
  <2> QED
    BY <1>1, <2>1
<1>3. CheckTypeOK'
  BY <1>1, <1>2 DEF HealthInv, CheckTypeOK
<1>4. QueriesOwned'
  BY <1>2, HealthcheckAssumption DEF QueriesOwned, HealthcheckAssumption
<1>5. ASSUME NEW c \in Clients PROVE CheckOK(c)'
  <2>1. CheckOK(c)
    BY DEF HealthInv
  <2>2. CASE Reading(c) /\ conn[c] # "closed"
    <3>1. seen'[c] = {"Trouble"} /\ conn'[c] = "closed" /\ received[c] = "None"
      BY <1>1, <2>1, <2>2 DEF CheckOK
    <3> QED
      BY <1>1, <2>2, <3>1 DEF CheckOK, Reading, HealthStatuses
  <2>3. CASE ~Reading(c) \/ conn[c] = "closed"
    <3>1. seen'[c] = seen[c] /\ conn[c] \in {"none", "closed"} => conn'[c] = conn[c]
      BY <1>1, <2>3
    <3> QED
      BY <1>1, <2>1, <2>3, <3>1 DEF CheckOK, Reading
  <2> QED
    BY <2>2, <2>3
<1> QED
  BY <1>3, <1>4, <1>5 DEF HealthInv

(* A step that the checks do not notice.                                     *)
LEMMA QuietStep ==
  ASSUME HealthInv, ~ProcessOver, UNCHANGED <<queries, checkVars>>,
         (UNCHANGED flagVars /\ (CoordinatorOver => CoordinatorOver')) \/ CoordinatorOver'
  PROVE  HealthInv'
<1>1. UNCHANGED <<queries, conn, received, client, seen>>
  BY DEF checkVars
<1>2. CheckTypeOK' /\ QueriesOwned'
  BY <1>1 DEF HealthInv, CheckTypeOK, QueriesOwned
<1>3. ~CoordinatorOver' => ~CoordinatorOver /\ health_status' = health_status
  BY DEF flagVars, health_status
<1>4. ASSUME NEW c \in Clients PROVE CheckOK(c)'
  BY <1>1, <1>3 DEF HealthInv, CheckOK, Reading
<1> QED
  BY <1>2, <1>4 DEF HealthInv

LEMMA DropStep == HealthInv /\ ~ProcessOver /\ QueriesDropped /\ CoordinatorOver' => HealthInv'
<1> SUFFICES ASSUME HealthInv, ~ProcessOver, QueriesDropped, CoordinatorOver' PROVE HealthInv'
  OBVIOUS
<1>1. queries' = <<>> /\ UNCHANGED <<conn, received, client, seen>>
  BY DEF QueriesDropped, checkVars
<1>2. queries' \in Seq(Clients \union {"Gone"}) /\ Len(queries') = 0
  BY <1>1, EmptySeq
<1>4. CheckTypeOK'
  BY <1>1, <1>2 DEF HealthInv, CheckTypeOK
<1>5. QueriesOwned'
  BY <1>2 DEF QueriesOwned
<1>3. ASSUME NEW c \in Clients PROVE CheckOK(c)'
  BY <1>1 DEF HealthInv, CheckOK, Reading
<1> QED
  BY <1>3, <1>4, <1>5 DEF HealthInv

LEMMA ServiceStep == SupervisorInv /\ HealthInv /\ ~ProcessOver /\ ServiceMoves => HealthInv'
<1> SUFFICES ASSUME SupervisorInv, HealthInv, ~ProcessOver, ServiceMoves PROVE HealthInv'
  OBVIOUS
<1>1. CASE SupervisorMoves
  <2>1. CASE SpawnServer
    BY <2>1, QuietStep DEF SpawnServer, SpawnAll, SupervisorInv, CoordinatorOver, extraVars
  <2>2. CASE StopServer /\ Released
    BY <2>2, ReleaseStep DEF StopServer
  <2>3. ASSUME UNCHANGED extraVars, UNCHANGED coordinator PROVE HealthInv'
    BY <2>3, QuietStep DEF extraVars, CoordinatorOver
  <2> QED
    BY <1>1, <2>1, <2>2, <2>3 DEF SupervisorMoves, ReturnAtOnce, SeeExit, SeeShutdown, StopCoordinator, AwaitCoordinator
<1>2. CASE CoordinatorMoves \/ (CoordinatorPanics /\ QueriesDropped)
  <2>1. CASE BreakLoop /\ UNCHANGED extraVars
    BY <2>1, QuietStep DEF BreakLoop, CoordinatorOver, extraVars
  <2>2. CASE (EndCoordinator \/ CoordinatorPanics) /\ QueriesDropped
    BY <2>2, DropStep DEF EndCoordinator, CoordinatorPanics, CoordinatorOver
  <2> QED
    BY <1>2, <2>1, <2>2 DEF CoordinatorMoves
<1>3. CASE (\E t \in Tasks : TaskMoves(t)) \/ (Signal /\ UNCHANGED extraVars) \/ Listen
  <2>1. UNCHANGED <<coordinator, queries, checkVars, flagVars>>
    BY <1>3 DEF TaskMoves, TaskEnds, TaskPanics, Signal, Listen, extraVars, vars
  <2> QED
    BY <2>1, QuietStep DEF CoordinatorOver
<1>4. CASE AcceptLoopFails
  BY <1>4, ReleaseStep DEF AcceptLoopFails, ServerFails
<1> QED
  BY <1>1, <1>2, <1>3, <1>4, FlagsStep, AnswerStep, ConnectionStep DEF ServiceMoves

LEMMA HealthNextInv == SupervisorInv /\ HealthInv /\ [HealthNext]_allVars => HealthInv'
<1> SUFFICES ASSUME SupervisorInv, HealthInv, [HealthNext]_allVars PROVE HealthInv'
  OBVIOUS
<1>1. ASSUME UNCHANGED allVars PROVE HealthInv'
  BY <1>1 DEF allVars, extraVars, checkVars, flagVars, vars, HealthInv, CheckTypeOK, QueriesOwned, CheckOK,
    Reading, ProcessOver, CoordinatorOver, health_status
<1> QED
  BY <1>1, ServiceStep, ClientStep DEF HealthNext, AllOver

(* NoTaskLeftBehind holds with the health check at work as well: a server    *)
(* whose clients keep it busy is aborted and awaited before run returns.     *)
THEOREM HealthLeavesNothing == HealthSpec => []NoTaskLeftBehind
BY HealthcheckKeepsSupervisor, SupervisorLeavesNothing, PTL

(* The verdict of a check is true of a moment of the check, for any number   *)
(* of clients that check at the same time (VerdictTruthful).                 *)
THEOREM VerdictIsTrue == HealthSpec => []VerdictTruthful
<1>1. HealthSpec => []SupervisorInv
  BY HealthcheckKeepsSupervisor, SupervisorInvariant, PTL
<1>2. HealthInit => HealthInv
  BY CheckInit
<1>3. SupervisorInv /\ HealthInv /\ [HealthNext]_allVars => HealthInv'
  BY HealthNextInv
<1>4. HealthInv => VerdictTruthful
  BY DEF HealthInv, CheckOK, VerdictTruthful
<1> QED
  BY <1>1, <1>2, <1>3, <1>4, PTL DEF HealthSpec

=============================================================================
