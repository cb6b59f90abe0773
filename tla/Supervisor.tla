----------------------------- MODULE Supervisor -----------------------------
(***************************************************************************)
(* The supervisor (src/supervisor.rs), the handle of the coordinator task  *)
(* (src/coordinator/handle.rs), and the life of the coordinator, of the    *)
(* two connection tasks it owns and of the healthcheck server's task: who  *)
(* stops whom, who awaits whom, and what becomes of the others when one of *)
(* them panics.  What the healthcheck server does is in Healthcheck.       *)
(*                                                                         *)
(* The output of a tokio task can be taken from its JoinHandle once; the   *)
(* handle panics when it is polled again.                                  *)
(***************************************************************************)
EXTENDS Naturals

CONSTANT Tasks  (* the connection tasks: mqtt and jkbms                      *)

VARIABLES
  supervisor,   (* at the top of its "loop", in the select! of run_once     *)
                (* ("watch"), about to "stop" the coordinator, at the       *)
                (* "await" of it, about to "release" the healthcheck        *)
                (* server, or "returned" or "panicked"                      *)
  result,       (* the RunResult of run_once, or "None"                     *)
  shutdown,     (* the shutdown watch of the process: "no" or "yes"         *)
  coordinator,  (* its task: "none", "running", "stopping" (past its loop), *)
                (* "done" or "panicked"                                     *)
  output,       (* its output: "kept", or "taken" from the JoinHandle       *)
  stop,         (* the shutdown watch of the coordinator: "no" or "yes"     *)
  handles,      (* its two connection handles: "held" or "dropped"          *)
  task,         (* of each: "none", "running" or "over", ended or panicked  *)
  server        (* the healthcheck server's task: "none", "running", "over" *)

vars == <<supervisor, result, shutdown, coordinator, output, stop, handles, task, server>>

Init ==
  /\ supervisor = "loop"
  /\ result = "None"
  /\ shutdown = "no"
  /\ coordinator = "none"
  /\ output = "kept"
  /\ stop = "no"
  /\ handles = "held"
  /\ task = [t \in Tasks |-> "none"]
  /\ server = "none"

Over(t) == task[t] = "over"

CoordinatorOver == coordinator \in {"done", "panicked"}

-----------------------------------------------------------------------------
(* supervisor::run and run_once.                                             *)

ReturnAtOnce ==
  /\ supervisor = "loop"
  /\ shutdown = "yes"
  /\ supervisor' = "returned"
  /\ UNCHANGED <<result, shutdown, coordinator, output, stop, handles, task, server>>

(* The connections, the healthcheck server if the configuration asks for it, *)
(* and the coordinator are made and their tasks spawned.                     *)
SpawnAll ==
  /\ supervisor = "loop"
  /\ shutdown = "no"
  /\ supervisor' = "watch"
  /\ coordinator' = "running"
  /\ task' = [t \in Tasks |-> "running"]
  /\ server' \in {"none", "running"}
  /\ UNCHANGED <<result, shutdown, output, stop, handles>>

(* The select! of run_once: the coordinator task is over.                    *)
SeeExit ==
  /\ supervisor = "watch"
  /\ CoordinatorOver
  /\ output' = "taken"
  /\ result' = IF shutdown = "yes" THEN "Shutdown" ELSE "Restart"
  /\ supervisor' = "stop"
  /\ UNCHANGED <<shutdown, coordinator, stop, handles, task, server>>

(* The other branch.                                                         *)
SeeShutdown ==
  /\ supervisor = "watch"
  /\ shutdown = "yes"
  /\ result' = "Shutdown"
  /\ supervisor' = "stop"
  /\ UNCHANGED <<shutdown, coordinator, output, stop, handles, task, server>>

StopIgnored == UNCHANGED stop  (* mutant: the watch is not fired *)

FireStop == stop' = "yes"

(* CoordinatorHandle::stop.                                                  *)
StopCoordinator ==
  /\ supervisor = "stop"
  /\ FireStop
  /\ supervisor' = "await"
  /\ UNCHANGED <<result, shutdown, coordinator, output, handles, task, server>>

(* The await of the JoinHandle that stop returned, and then run with the     *)
(* result.  A result of Restart comes only from SeeExit, which has taken the *)
(* output, so the await returns only for Shutdown: the backoff of run and    *)
(* its next iteration, and the stop of the healthcheck server before them,   *)
(* are never reached.                                                        *)
AwaitCoordinator ==
  /\ supervisor = "await"
  /\ \/ /\ output = "kept"
        /\ CoordinatorOver
        /\ output' = "taken"
        /\ supervisor' = "release"
     \/ /\ output = "taken"
        /\ supervisor' = "panicked"
        /\ UNCHANGED output
  /\ UNCHANGED <<result, shutdown, coordinator, stop, handles, task, server>>

ServerLeft == UNCHANGED server  (* mutant: hc_server is dropped, not stopped *)

(* HealthcheckServer::stop: its task is aborted and awaited.                 *)
ServerStopped == server' = IF server = "none" THEN "none" ELSE "over"

StopServer ==
  /\ supervisor = "release"
  /\ ServerStopped
  /\ supervisor' = "returned"
  /\ UNCHANGED <<result, shutdown, coordinator, output, stop, handles, task>>

-----------------------------------------------------------------------------
(* Coordinator::run.                                                         *)

(* An event channel closed, or the watch fired.                              *)
MustBreak == stop = "yes" \/ \E t \in Tasks : Over(t)

BreakLoop ==
  /\ coordinator = "running"
  /\ MustBreak
  /\ coordinator' = "stopping"
  /\ handles' = "dropped"
  /\ UNCHANGED <<supervisor, result, shutdown, output, stop, task, server>>

NoAwait == TRUE  (* mutant: the connection tasks are not awaited *)

TasksAwaited == \A t \in Tasks : Over(t)

EndCoordinator ==
  /\ coordinator = "stopping"
  /\ TasksAwaited
  /\ coordinator' = "done"
  /\ UNCHANGED <<supervisor, result, shutdown, output, stop, handles, task, server>>

(* A panic unwinds the task and drops what it owns.                          *)
CoordinatorPanics ==
  /\ coordinator \in {"running", "stopping"}
  /\ coordinator' = "panicked"
  /\ handles' = "dropped"
  /\ UNCHANGED <<supervisor, result, shutdown, output, stop, task, server>>

(* A connection task ends when its handle is dropped.                        *)
TaskEnds(t) ==
  /\ task[t] = "running"
  /\ handles = "dropped"
  /\ task' = [task EXCEPT ![t] = "over"]
  /\ UNCHANGED <<supervisor, result, shutdown, coordinator, output, stop, handles, server>>

TaskPanics(t) ==
  /\ task[t] = "running"
  /\ task' = [task EXCEPT ![t] = "over"]
  /\ UNCHANGED <<supervisor, result, shutdown, coordinator, output, stop, handles, server>>

(* await_shutdown_signal.                                                    *)
Signal ==
  /\ shutdown = "no"
  /\ shutdown' = "yes"
  /\ UNCHANGED <<supervisor, result, coordinator, output, stop, handles, task, server>>

(* No listener could be made, or an accept failed.                           *)
ServerFails ==
  /\ server = "running"
  /\ server' = "over"
  /\ UNCHANGED <<supervisor, result, shutdown, coordinator, output, stop, handles, task>>

ProcessOver == supervisor \in {"returned", "panicked"}

Terminated == ProcessOver /\ UNCHANGED vars

-----------------------------------------------------------------------------
SupervisorStep ==
  \/ ReturnAtOnce \/ SpawnAll \/ SeeExit \/ SeeShutdown
  \/ StopCoordinator \/ AwaitCoordinator \/ StopServer

CoordinatorStep == BreakLoop \/ EndCoordinator

(* Nothing runs on when main returns or panics.                              *)
Next ==
  \/ /\ ~ProcessOver
     /\ \/ SupervisorStep
        \/ CoordinatorStep
        \/ CoordinatorPanics
        \/ \E t \in Tasks : TaskEnds(t) \/ TaskPanics(t)
        \/ ServerFails
        \/ Signal
  \/ Terminated

Spec == Init /\ [][Next]_vars

(* The supervisor and the coordinator wait for nothing but what their guards *)
(* say; a connection task honours the drop of its handle (StopHonoured of    *)
(* JkBmsManager).  Nothing has to panic and no signal has to come.           *)
FairSpec ==
  /\ Spec
  /\ WF_vars(~ProcessOver /\ SupervisorStep)
  /\ WF_vars(~ProcessOver /\ CoordinatorStep)
  /\ \A t \in Tasks : WF_vars(~ProcessOver /\ TaskEnds(t))

-----------------------------------------------------------------------------
(* The supervisor returns only with every task over, so that nothing is cut  *)
(* off in the middle of a write, except the connection tasks of a            *)
(* coordinator that panicked, which are on their own; and the listener of    *)
(* the healthcheck server is released.                                       *)
NoTaskLeftBehind ==
  supervisor = "returned" /\ coordinator # "none" =>
    /\ CoordinatorOver
    /\ coordinator = "done" => \A t \in Tasks : Over(t)
    /\ handles = "dropped"
    /\ server # "running"

(* A coordinator that is stopping is not waited for by anybody who waits for *)
(* it: shutdown ends the process, however it meets the panics of tasks.      *)
ShutdownHonoured == shutdown = "yes" ~> ProcessOver

(* What the doc comment of run says: a coordinator task that exits or panics *)
(* is restarted until the shutdown watch fires.                              *)
RestartsCoordinator ==
  CoordinatorOver /\ shutdown = "no" ~> coordinator = "running" \/ shutdown = "yes"
=============================================================================
