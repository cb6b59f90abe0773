---------------------------- MODULE JkBmsManager ----------------------------
(***************************************************************************)
(* The BMS connection actor: JkBmsConnectionManager                        *)
(* (src/jkbms/connection_manager.rs) and its handle JkBmsConnection        *)
(* (src/jkbms/connection.rs).                                              *)
(*                                                                         *)
(* One task owns the serial link.  It selects between the command channel, *)
(* the internal channel it posts to itself, and a DelayQueue, and runs the *)
(* chosen handler to completion.  An action is a stretch of code between   *)
(* two awaits: pc says at which await the actor stands, and while it is    *)
(* not "idle" only the other parties move (the caller sends, time passes). *)
(*                                                                         *)
(* Time is abstract.  A delayed command may come due whenever the actor is *)
(* idle.  queued_at is kept as the number of queue heads older than        *)
(* WRITE_TTL: entries are appended with the current time, so those that    *)
(* are too old are always a prefix of the queue.                           *)
(***************************************************************************)
EXTENDS Naturals, Sequences, Functions

CONSTANTS
  PENDING_WRITES_CAP,        (* capacity of pending_writes                  *)
  RECONNECT_THRESHOLD,       (* soft failures that force a disconnect       *)
  BACKOFF_LEN,               (* RECONNECT_BACKOFF.len()                     *)
  COMMAND_CHANNEL_CAPACITY,  (* capacity of the command channel             *)
  MaxSeq,                    (* bound: writes the caller asks for           *)
  Futures                    (* what the line may settle to, see Lines      *)

(* What the serial line does: "flaky" answers anything; the others answer    *)
(* the same way for ever ("good" works, "silent" opens and never answers,    *)
(* "mute02" answers everything but the polls of OperationalData (Frame       *)
(* 0x02), "gone" does not open).                                             *)
Lines == {"flaky", "good", "silent", "mute02", "gone"}

ASSUME ManagerAssumption ==
  /\ PENDING_WRITES_CAP \in Nat \ {0}
  /\ RECONNECT_THRESHOLD \in Nat \ {0}
  /\ BACKOFF_LEN \in Nat
  /\ COMMAND_CHANNEL_CAPACITY \in Nat \ {0}
  /\ MaxSeq \in Nat
  /\ Futures \subseteq Lines

VARIABLES
  transport,               (* "Some" iff a transport is held                *)
  reconnect_attempt,       (* saturates at BACKOFF_LEN + 1                  *)
  consecutive_failures,
  link,                    (* last ConnectionState emitted, or "None"       *)
  scheduled,               (* the commands whose _scheduled flag is set     *)
  internal,                (* the internal command channel                  *)
  delayed,                 (* how many of each command the DelayQueue holds *)
  op_polled_by,            (* since the delayed polling was armed: "resync" *)
                           (* if one polled OperationalData, else "cycle"   *)
  pending_writes,          (* seqs, oldest first                            *)
  expired,                 (* how many heads of it are older than WRITE_TTL *)
  commands,                (* the command channel: seqs                     *)
  sender,                  (* of the command channel: "open" or "dropped"   *)
  next_seq,                (* the caller's next seq                         *)
  accepted, confirmed, failed, (* writes taken, and how they were answered  *)
  pc,                      (* the await the actor stands at                 *)
  plan,                    (* polls the running handler has still to make   *)
  hand,                    (* write taken off the channel, not queued; or 0 *)
  wire,                    (* seq of the write last put on the wire, or 0   *)
  line                     (* the serial line, see Lines                    *)

linkVars  == <<transport, reconnect_attempt, consecutive_failures, link>>
timerVars == <<scheduled, internal, delayed, op_polled_by>>
queueVars == <<pending_writes, expired>>
callVars  == <<commands, sender, next_seq, accepted>>
replyVars == <<confirmed, failed>>
workVars  == <<pc, plan, hand, wire>>

vars == <<linkVars, timerVars, queueVars, callVars, replyVars, workVars, line>>

(* JkBmsInternalCommands.                                                    *)
Kinds == {"Connect", "RunDataPolling", "RetryWrites"}

(* JkBmsDataType, in the order in which connect and run_data_polling poll.   *)
PollTypes == {"DeviceInfo", "ConfigOptions", "OperationalData", "Alarms"}

PollRank ==
  [DeviceInfo |-> 1, ConfigOptions |-> 2, OperationalData |-> 3, Alarms |-> 4]

NextPoll == CHOOSE d \in plan : \A e \in plan : PollRank[d] <= PollRank[e]

ResyncPlan == {"DeviceInfo", "ConfigOptions", "OperationalData"}

Init ==
  /\ transport = "None"
  /\ reconnect_attempt = 0
  /\ consecutive_failures = 0
  /\ link = "None"
  /\ scheduled = {}
  /\ internal = <<>>
  /\ delayed = [k \in Kinds |-> 0]
  /\ op_polled_by = "cycle"
  /\ pending_writes = <<>>
  /\ expired = 0
  /\ commands = <<>>
  /\ sender = "open"
  /\ next_seq = 1
  /\ accepted = {}
  /\ confirmed = {}
  /\ failed = {}
  /\ pc = "connect"
  /\ plan = {}
  /\ hand = 0
  /\ wire = 0
  /\ line = "flaky"

-----------------------------------------------------------------------------
(* The caller and the world.                                                 *)

(* JkBmsConnection::write: try_send, which refuses when the channel is full; *)
(* the caller has used the seq up either way.                                *)
Submit ==
  /\ sender = "open"
  /\ next_seq <= MaxSeq
  /\ next_seq' = next_seq + 1
  /\ IF Len(commands) < COMMAND_CHANNEL_CAPACITY
       THEN /\ commands' = Append(commands, next_seq)
            /\ accepted' = accepted \union {next_seq}
       ELSE UNCHANGED <<commands, accepted>>
  /\ UNCHANGED <<linkVars, timerVars, queueVars, sender, replyVars, workVars, line>>

(* JkBmsConnection::stop drops the sender.                                   *)
Close ==
  /\ sender = "open"
  /\ sender' = "dropped"
  /\ UNCHANGED <<linkVars, timerVars, queueVars, commands, next_seq, accepted,
                 replyVars, workVars, line>>

(* queued_at.elapsed() of one more head passes WRITE_TTL.                    *)
WriteTtlElapses ==
  /\ expired < Len(pending_writes)
  /\ expired' = expired + 1
  /\ UNCHANGED <<linkVars, timerVars, pending_writes, callVars, replyVars, workVars, line>>

LineSettles ==
  /\ line = "flaky"
  /\ line' \in Futures
  /\ line' # line
  /\ UNCHANGED <<linkVars, timerVars, queueVars, callVars, replyVars, workVars>>

OpenResults ==
  [flaky |-> {"ok", "err"}, good |-> {"ok"}, silent |-> {"ok"}, mute02 |-> {"ok"},
   gone |-> {"err"}]

(* The result of a call of the protocol, a poll of type d or a write: "hard" *)
(* is is_hard_io, "soft" is any other JkBmsError (a read that timed out, a   *)
(* frame that does not parse).                                               *)
ExchangeResults(d) ==
  CASE line = "flaky"  -> {"ok", "soft", "hard"}
    [] line = "good"   -> {"ok"}
    [] line = "silent" -> {"soft"}
    [] line = "mute02" -> IF d = "OperationalData" THEN {"soft"} ELSE {"ok"}
    [] line = "gone"   -> {"hard"}

-----------------------------------------------------------------------------
(* The helpers of the actor.                                                 *)

Capped(n) == n > BACKOFF_LEN

(* Mutant: saturates one short, so that the schedule is never exhausted.     *)
NextAttemptShort == IF reconnect_attempt = BACKOFF_LEN THEN reconnect_attempt
                                                       ELSE reconnect_attempt + 1

(* reconnect_attempt += 1, saturating: past BACKOFF_LEN nothing tells its    *)
(* values apart (RECONNECT_BACKOFF_MAX is the delay from there on).          *)
NextAttempt == IF Capped(reconnect_attempt) THEN reconnect_attempt
                                            ELSE reconnect_attempt + 1

(* Mutant: no more attempts once the schedule is exhausted.                  *)
ReconnectGivesUp ==
  /\ reconnect_attempt' = NextAttempt
  /\ link' = IF Capped(reconnect_attempt') THEN "Disconnected" ELSE "Reconnecting"
  /\ delayed' = IF Capped(reconnect_attempt') THEN delayed
                ELSE [delayed EXCEPT !["Connect"] = @ + 1]
  /\ UNCHANGED <<scheduled, internal, op_polled_by>>

ScheduleReconnect ==
  /\ reconnect_attempt' = NextAttempt
  /\ link' = IF Capped(reconnect_attempt') THEN "Disconnected" ELSE "Reconnecting"
  /\ delayed' = [delayed EXCEPT !["Connect"] = @ + 1]
  /\ UNCHANGED <<scheduled, internal, op_polled_by>>

(* Mutant: the polling flag is reset with the connection.                    *)
DisconnectResetsFlag ==
  /\ transport' = "None"
  /\ consecutive_failures' = 0
  /\ reconnect_attempt' = NextAttempt
  /\ link' = IF Capped(reconnect_attempt') THEN "Disconnected" ELSE "Reconnecting"
  /\ delayed' = [delayed EXCEPT !["Connect"] = @ + 1]
  /\ scheduled' = scheduled \ {"RunDataPolling"}
  /\ UNCHANGED <<internal, op_polled_by>>

(* Mutant: the transport is dropped and nobody reopens it.                   *)
DisconnectForgets ==
  /\ transport' = "None"
  /\ consecutive_failures' = 0
  /\ UNCHANGED <<reconnect_attempt, link, timerVars>>

(* Sets linkVars and timerVars.                                              *)
HandleDisconnect ==
  IF transport = "Some"
    THEN /\ transport' = "None"
         /\ consecutive_failures' = 0
         /\ ScheduleReconnect
    ELSE UNCHANGED <<linkVars, timerVars>>

ScheduleDataPollingDelayed ==
  /\ scheduled' = scheduled \union {"RunDataPolling"}
  /\ delayed' = IF "RunDataPolling" \in scheduled THEN delayed
                ELSE [delayed EXCEPT !["RunDataPolling"] = @ + 1]
  /\ op_polled_by' = "cycle"
  /\ internal' = internal

(* Mutant: not deduped.                                                      *)
RetryNowUndeduped ==
  /\ scheduled' = scheduled \union {"RetryWrites"}
  /\ internal' = Append(internal, "RetryWrites")
  /\ UNCHANGED <<delayed, op_polled_by>>

ScheduleRetryWritesNow ==
  /\ scheduled' = scheduled \union {"RetryWrites"}
  /\ internal' = IF "RetryWrites" \in scheduled THEN internal
                 ELSE Append(internal, "RetryWrites")
  /\ UNCHANGED <<delayed, op_polled_by>>

(* Mutant: a soft write failure arms no retry.                               *)
NoRetryAfterSoftError == UNCHANGED timerVars

ScheduleRetryWritesDelayed ==
  /\ scheduled' = scheduled \union {"RetryWrites"}
  /\ delayed' = IF "RetryWrites" \in scheduled THEN delayed
                ELSE [delayed EXCEPT !["RetryWrites"] = @ + 1]
  /\ UNCHANGED <<internal, op_polled_by>>

(* A failed exchange after the link was declared up: a hard error or the     *)
(* RECONNECT_THRESHOLD-th soft one in a row gives the link up.               *)
GivesUp(r) == r = "hard" \/ consecutive_failures + 1 >= RECONNECT_THRESHOLD

CountFailure ==
  /\ consecutive_failures' = consecutive_failures + 1
  /\ UNCHANGED <<transport, reconnect_attempt, link>>

ClearFailures ==
  /\ consecutive_failures' = 0
  /\ UNCHANGED <<transport, reconnect_attempt, link>>

Idle == /\ pc' = "idle"
        /\ plan' = {}
        /\ hand' = 0
        /\ wire' = wire

-----------------------------------------------------------------------------
(* connect and resync.                                                       *)

(* opener.open() returns.                                                    *)
Open ==
  /\ pc = "connect"
  /\ \E r \in OpenResults[line] :
       \/ /\ r = "ok"
          /\ transport' = "Some"
          /\ consecutive_failures' = 0
          /\ pc' = "resync"
          /\ plan' = ResyncPlan
          /\ UNCHANGED <<reconnect_attempt, link, timerVars, hand, wire>>
       \/ /\ r = "err"
          /\ ScheduleReconnect
          /\ Idle
          /\ UNCHANGED <<transport, consecutive_failures>>
  /\ UNCHANGED <<queueVars, callVars, replyVars, line>>

(* Mutant: the backoff is not reset.                                         *)
DeclareConnectedOnly ==
  /\ link' = "Connected"
  /\ UNCHANGED <<reconnect_attempt, transport, consecutive_failures>>

DeclareConnected ==
  /\ reconnect_attempt' = 0
  /\ link' = "Connected"
  /\ UNCHANGED <<transport, consecutive_failures>>

(* The end of connect: arm polling and, for the writes that waited for the   *)
(* link, the retries.                                                        *)
ArmAfterConnect ==
  LET wanted == {"RunDataPolling"}
                  \union (IF pending_writes = <<>> THEN {} ELSE {"RetryWrites"})
      Post(k) == IF k \in wanted \ scheduled THEN <<k>> ELSE <<>>
  IN /\ scheduled' = scheduled \union wanted
     /\ internal' = internal \o Post("RunDataPolling") \o Post("RetryWrites")
     /\ op_polled_by' = "resync"
     /\ delayed' = delayed

(* One poll_data of resync returns; any error ends it in a disconnect.       *)
ResyncPoll ==
  /\ pc = "resync"
  /\ \E r \in ExchangeResults(NextPoll) :
       \/ /\ r = "ok"
          /\ plan # {NextPoll}
          /\ plan' = plan \ {NextPoll}
          /\ UNCHANGED <<linkVars, timerVars, pc, hand, wire>>
       \/ /\ r = "ok"
          /\ plan = {NextPoll}
          /\ DeclareConnected
          /\ ArmAfterConnect
          /\ Idle
       \/ /\ r # "ok"
          /\ HandleDisconnect
          /\ Idle
  /\ UNCHANGED <<queueVars, callVars, replyVars, line>>

-----------------------------------------------------------------------------
(* run_data_polling and poll_with_escalation.                                *)

(* The polls that may be due.  The delayed command fires MIN_POLL_INTERVAL   *)
(* after the cycle that armed it, which is also the interval of the alarms   *)
(* and of OperationalData: the alarms, polled by this handler alone, are due *)
(* then, and so is OperationalData unless a resync has polled it since.  The *)
(* rest depends on how long ago things were.                                 *)
DuePlans(late) ==
  {S \in SUBSET PollTypes :
     late => /\ "Alarms" \in S
             /\ op_polled_by = "cycle" => "OperationalData" \in S}

(* The handler from its start to its first await; keeps internal' and        *)
(* delayed' for its caller, which has removed the command from q or d.       *)
RunDataPolling(q, d, late) ==
  /\ internal' = q
  /\ \/ /\ transport = "None"
        /\ scheduled' = scheduled \ {"RunDataPolling"}
        /\ delayed' = d
        /\ op_polled_by' = op_polled_by
        /\ Idle
     \/ /\ transport = "Some"
        /\ {} \in DuePlans(late)
        /\ scheduled' = scheduled \union {"RunDataPolling"}
        /\ delayed' = [d EXCEPT !["RunDataPolling"] = @ + 1]
        /\ op_polled_by' = "cycle"
        /\ Idle
     \/ /\ transport = "Some"
        /\ scheduled' = scheduled \ {"RunDataPolling"}
        /\ delayed' = d
        /\ op_polled_by' = op_polled_by
        /\ plan' \in DuePlans(late) \ {{}}
        /\ pc' = "polling"
        /\ UNCHANGED <<hand, wire>>
  /\ UNCHANGED <<linkVars, queueVars, replyVars>>

(* The cycle goes on to the next poll that is due, or ends and arms the next *)
(* cycle.  Sets timerVars and workVars.                                      *)
NextPollOrEnd ==
  \/ /\ plan # {NextPoll}
     /\ plan' = plan \ {NextPoll}
     /\ UNCHANGED <<timerVars, pc, hand, wire>>
  \/ /\ plan = {NextPoll}
     /\ ScheduleDataPollingDelayed
     /\ Idle

Poll ==
  /\ pc = "polling"
  /\ \E r \in ExchangeResults(NextPoll) :
       \/ /\ r = "ok"
          /\ ClearFailures
          /\ NextPollOrEnd
       \/ /\ r = "soft" /\ ~GivesUp(r)
          /\ CountFailure
          /\ NextPollOrEnd
       \/ /\ r # "ok" /\ GivesUp(r)
          /\ HandleDisconnect
          /\ Idle
  /\ UNCHANGED <<queueVars, callVars, replyVars, line>>

-----------------------------------------------------------------------------
(* write_command, retry_writes, do_write and handle_write_error.             *)

StartWrite(s, h) ==
  /\ pc' = "write"
  /\ hand' = h
  /\ wire' = s
  /\ UNCHANGED plan

(* write_command for the head of the command channel.                        *)
MustQueueIfDown == transport = "None"  (* mutant: writes overtake the queue *)

MustQueue == transport = "None" \/ pending_writes # <<>>

RefusedOneLate ==  (* mutant: off by one *)
  Capped(reconnect_attempt) \/ Len(pending_writes) > PENDING_WRITES_CAP

Refused == Capped(reconnect_attempt) \/ Len(pending_writes) >= PENDING_WRITES_CAP

WriteCommand ==
  LET s == Head(commands)
  IN \/ /\ MustQueue
        /\ Refused
        /\ failed' = failed \union {s}
        /\ Idle
        /\ UNCHANGED <<timerVars, pending_writes>>
     \/ /\ MustQueue
        /\ ~Refused
        /\ pending_writes' = Append(pending_writes, s)
        /\ IF transport = "Some" THEN ScheduleRetryWritesNow ELSE UNCHANGED timerVars
        /\ Idle
        /\ UNCHANGED failed
     \/ /\ ~MustQueue
        /\ StartWrite(s, s)
        /\ UNCHANGED <<timerVars, pending_writes, failed>>

RecvCommand ==
  /\ pc = "idle"
  /\ commands # <<>>
  /\ commands' = Tail(commands)
  /\ WriteCommand
  /\ UNCHANGED <<linkVars, expired, confirmed, sender, next_seq, accepted, line>>

EvictOne == IF expired > 0 THEN 1 ELSE 0  (* mutant: if let, not while let *)

(* How many heads the eviction loop of retry_writes takes, which they are,   *)
(* and what is left of the queue.                                            *)
Evictions == expired

Evicted == Range(SubSeq(pending_writes, 1, Evictions))

NotPopped == pending_writes  (* mutant: WriteError without pop_front *)

Unexpired == SubSeq(pending_writes, Evictions + 1, Len(pending_writes))

(* retry_writes up to the write of the head that is left, if there is one.   *)
RetryWrites ==
  /\ scheduled' = scheduled \ {"RetryWrites"}
  /\ \/ /\ transport = "None"
        /\ Idle
        /\ UNCHANGED <<queueVars, failed>>
     \/ /\ transport = "Some"
        /\ pending_writes' = Unexpired
        /\ expired' = expired - Evictions
        /\ failed' = failed \union Evicted
        /\ IF Unexpired = <<>> THEN Idle ELSE StartWrite(Head(Unexpired), 0)
  /\ UNCHANGED <<linkVars, op_polled_by, confirmed>>

(* The write do_write is busy with.                                          *)
Current == IF hand # 0 THEN hand ELSE Head(pending_writes)

WriteDropped == pending_writes  (* mutant: the failed write is lost *)

(* write_command queues the write it had in hand; in retry_writes it is      *)
(* still the head.                                                           *)
Requeued == IF hand # 0 THEN Append(pending_writes, hand) ELSE pending_writes

(* The end of both handlers when do_write returned Err: handle_write_error.  *)
WriteFailed(r) ==
  /\ pending_writes' = Requeued
  /\ IF GivesUp(r) THEN HandleDisconnect
                   ELSE CountFailure /\ ScheduleRetryWritesDelayed
  /\ Idle
  /\ UNCHANGED <<expired, replyVars>>

(* do_write returned Ok.                                                     *)
WriteDone ==
  /\ confirmed' = confirmed \union {Current}
  /\ ClearFailures
  /\ IF hand # 0
       THEN UNCHANGED <<queueVars, timerVars>>
       ELSE /\ pending_writes' = Tail(pending_writes)
            /\ expired' = IF expired = 0 THEN 0 ELSE expired - 1
            /\ IF Len(pending_writes) > 1 THEN ScheduleRetryWritesNow
                                          ELSE UNCHANGED timerVars
  /\ Idle
  /\ UNCHANGED failed

(* protocol.write returns.                                                   *)
WriteAck ==
  /\ pc = "write"
  /\ \E r \in ExchangeResults("Write") :
       \/ /\ r = "ok"
          /\ pc' = "readback"
          /\ UNCHANGED <<linkVars, timerVars, queueVars, replyVars, plan, hand, wire>>
       \/ /\ r # "ok"
          /\ WriteFailed(r)
  /\ UNCHANGED <<callVars, line>>

(* POST_WRITE_SETTLE has passed and poll_config returns.                     *)
Readback ==
  /\ pc = "readback"
  /\ \E r \in ExchangeResults("ConfigOptions") :
       \/ /\ r = "ok"
          /\ WriteDone
       \/ /\ r # "ok"
          /\ WriteFailed(r)
  /\ UNCHANGED <<callVars, line>>

-----------------------------------------------------------------------------
(* The select! of run.                                                       *)

RecvConnect ==
  /\ pc = "idle"
  /\ delayed["Connect"] > 0
  /\ delayed' = [delayed EXCEPT !["Connect"] = @ - 1]
  /\ pc' = IF transport = "Some" THEN "idle" ELSE "connect"
  /\ UNCHANGED <<linkVars, scheduled, internal, op_polled_by, queueVars, callVars, replyVars, plan, hand, wire, line>>

RecvInternal ==
  /\ pc = "idle"
  /\ internal # <<>>
  /\ \/ /\ Head(internal) = "RunDataPolling"
        /\ RunDataPolling(Tail(internal), delayed, FALSE)
     \/ /\ Head(internal) = "RetryWrites"
        /\ internal' = Tail(internal)
        /\ delayed' = delayed
        /\ RetryWrites
  /\ UNCHANGED <<callVars, line>>

RecvDelayedPolling ==
  /\ pc = "idle"
  /\ delayed["RunDataPolling"] > 0
  /\ RunDataPolling(internal, [delayed EXCEPT !["RunDataPolling"] = @ - 1], TRUE)
  /\ UNCHANGED <<callVars, line>>

RecvDelayedRetry ==
  /\ pc = "idle"
  /\ delayed["RetryWrites"] > 0
  /\ delayed' = [delayed EXCEPT !["RetryWrites"] = @ - 1]
  /\ internal' = internal
  /\ RetryWrites
  /\ UNCHANGED <<callVars, line>>

(* Mutant: the task first works its queue off.                               *)
RecvClosedWhenFlushed ==
  /\ pc = "idle"
  /\ sender = "dropped"
  /\ commands = <<>>
  /\ pending_writes = <<>>
  /\ pc' = "done"
  /\ UNCHANGED <<linkVars, timerVars, queueVars, callVars, replyVars,
                 plan, hand, wire, line>>

(* recv() returns None once the channel is closed and drained: the task ends *)
(* and drops what it holds.                                                  *)
RecvClosed ==
  /\ pc = "idle"
  /\ sender = "dropped"
  /\ commands = <<>>
  /\ pc' = "done"
  /\ UNCHANGED <<linkVars, timerVars, queueVars, callVars, replyVars,
                 plan, hand, wire, line>>

(* The task is over; every other disabled state is a deadlock.               *)
Terminated == pc = "done" /\ UNCHANGED vars

Busy == Open \/ ResyncPoll \/ Poll \/ WriteAck \/ Readback

Select ==
  \/ RecvCommand
  \/ RecvConnect
  \/ RecvInternal
  \/ RecvDelayedPolling
  \/ RecvDelayedRetry
  \/ RecvClosed

World == Submit \/ Close \/ WriteTtlElapses \/ LineSettles

Next == Busy \/ Select \/ World \/ Terminated

Spec == Init /\ [][Next]_vars

(* Every await of a handler returns: reads are under a timeout.  select!     *)
(* picks at random among the branches that are ready, so one that is ready   *)
(* again and again is taken; a delayed command comes due after a finite      *)
(* delay and the DelayQueue yields in order of the deadlines.                *)
Fairness ==
  /\ WF_vars(Busy)
  /\ SF_vars(RecvCommand)
  /\ SF_vars(RecvConnect)
  /\ SF_vars(RecvInternal)
  /\ SF_vars(RecvDelayedPolling)
  /\ SF_vars(RecvDelayedRetry)
  /\ SF_vars(RecvClosed)

FairSpec == Spec /\ Fairness

-----------------------------------------------------------------------------
(* Types.                                                                    *)

Seqs == 1 .. MaxSeq

LinkTypeOK ==
  /\ transport \in {"None", "Some"}
  /\ reconnect_attempt \in 0 .. BACKOFF_LEN + 1
  /\ consecutive_failures \in 0 .. RECONNECT_THRESHOLD - 1
  /\ link \in {"None", "Connected", "Reconnecting", "Disconnected"}

TimerTypeOK ==
  /\ scheduled \subseteq {"RunDataPolling", "RetryWrites"}
  /\ internal \in Seq(Kinds)
  /\ delayed \in [Kinds -> Nat]
  /\ op_polled_by \in {"cycle", "resync"}

QueueTypeOK ==
  /\ pending_writes \in Seq(Seqs)
  /\ Len(pending_writes) <= PENDING_WRITES_CAP
  /\ expired \in 0 .. Len(pending_writes)

CallTypeOK ==
  /\ commands \in Seq(Seqs)
  /\ Len(commands) <= COMMAND_CHANNEL_CAPACITY
  /\ sender \in {"open", "dropped"}
  /\ next_seq \in 1 .. MaxSeq + 1
  /\ accepted \subseteq Seqs

ReplyTypeOK == confirmed \subseteq Seqs /\ failed \subseteq Seqs

WorkTypeOK ==
  /\ pc \in {"connect", "resync", "polling", "idle", "write", "readback", "done"}
  /\ plan \subseteq PollTypes
  /\ hand \in 0 .. MaxSeq
  /\ wire \in 0 .. MaxSeq

(* Every variable of the actor keeps its type; in particular the failure     *)
(* counter never reaches the threshold between two handlers' awaits          *)
(* (poll_with_escalation, handle_write_error) and the queue never outgrows   *)
(* PENDING_WRITES_CAP, though a failed direct write is pushed unchecked.     *)
TypeOK ==
  /\ LinkTypeOK
  /\ TimerTypeOK
  /\ QueueTypeOK
  /\ CallTypeOK
  /\ ReplyTypeOK
  /\ WorkTypeOK
  /\ line \in Lines

-----------------------------------------------------------------------------
(* Self-scheduling: the actor lives on commands it posts to itself.  If one  *)
(* is lost, polling, retrying or reconnecting stops for ever; if one is      *)
(* doubled, it never stops multiplying.                                      *)

(* Exactly one command k is on its way, in one of the two queues.            *)
Armed(k) ==
  \/ k \in Range(internal) /\ delayed[k] = 0
  \/ k \notin Range(internal) /\ delayed[k] = 1

Disarmed(k) == k \notin Range(internal) /\ delayed[k] = 0

FlagTrue(k) == IF k \in scheduled THEN Armed(k) ELSE Disarmed(k)

(* The polling loop is alive: data_polling_scheduled is set exactly when     *)
(* one RunDataPolling is on its way, and whenever the actor rests with the   *)
(* link up one is, whatever mix of write errors, reconnects and early        *)
(* returns of run_data_polling came before.                                  *)
PollingArmed ==
  /\ IsInjective(internal)
  /\ FlagTrue("RunDataPolling")
  /\ pc \in {"idle", "write", "readback"} /\ transport = "Some"
       => "RunDataPolling" \in scheduled

(* No queued write is forgotten: retry_writes_scheduled is set exactly when  *)
(* one RetryWrites is on its way, and whenever the actor rests with the link *)
(* up and writes pending, one is (schedule_retry_writes_now and _delayed     *)
(* share one flag, cleared by retry_writes even when it returns early).      *)
RetryArmed ==
  /\ IsInjective(internal)
  /\ FlagTrue("RetryWrites")
  /\ pc \in {"idle", "polling"} /\ transport = "Some" /\ pending_writes # <<>>
       => "RetryWrites" \in scheduled

(* The link is always either held or being reopened: with the transport gone *)
(* exactly one Connect is in the DelayQueue (no second reconnect loop starts *)
(* however many errors a session ends with), with it held there is none.     *)
ReconnectArmed ==
  /\ "Connect" \notin Range(internal)
  /\ pc \in {"idle", "done"} /\ transport = "None" => delayed["Connect"] = 1
  /\ transport = "Some" \/ pc = "connect" => delayed["Connect"] = 0
  /\ pc = "connect" => transport = "None"
  /\ pc \in {"resync", "polling", "write", "readback"} => transport = "Some"

(* What was last emitted is true of the link: Connected exactly while a      *)
(* transport is held whose resync completed, Disconnected exactly while the  *)
(* backoff is exhausted, which is when write_command refuses writes, so the  *)
(* consumer sees the bridge offline exactly while its writes are refused.    *)
LinkTruthful ==
  /\ (link = "Connected") <=> (transport = "Some" /\ pc # "resync")
  /\ (link = "Disconnected") <=> Capped(reconnect_attempt)
  /\ (link \in {"None", "Connected"}) => reconnect_attempt = 0
  /\ transport = "None" => consecutive_failures = 0

-----------------------------------------------------------------------------
(* Writes.                                                                   *)

(* A write is in hand only while it is being made and only if nothing is     *)
(* queued; a write being made that is not in hand is the head of the queue.  *)
HandOK ==
  /\ hand # 0 => pending_writes = <<>> /\ pc \in {"write", "readback"}
  /\ pc \in {"write", "readback"} /\ hand = 0 => pending_writes # <<>>

Ascending(q) == \A i, j \in 1 .. Len(q) : i < j => q[i] < q[j]

InHand == IF hand = 0 THEN {} ELSE {hand}

Answered == confirmed \union failed

(* Every write that was taken is in exactly one place: answered, queued, in  *)
(* hand or still in the command channel; and those not answered stand in the *)
(* order of their seqs along pending_writes, the hand and the channel.       *)
WritesConserved ==
  /\ confirmed \intersect failed = {}
  /\ Answered \subseteq accepted
  /\ accepted \ Answered = Range(pending_writes) \union InHand \union Range(commands)
  /\ Ascending(pending_writes)
  /\ Ascending(commands)
  /\ \A p \in Range(pending_writes), c \in Range(commands) : p < c
  /\ \A c \in Range(commands) : hand < c
  /\ HandOK

(* The manager keeps the promise of WriteService: at most one answer per     *)
(* write, and confirmations in the order of the requests, through any number *)
(* of retries, evictions, refusals and reconnects.                           *)
Promise == INSTANCE WriteService

RefinesWriteService == Promise!Spec

(* No write is put on the wire after a later one: a retry of an old request  *)
(* can never overwrite the switch a newer request has set (FIFO queueing     *)
(* behind earlier pending writes, write_command and retry_writes).           *)
WireInOrder == [][wire' >= wire]_wire

(* A write older than WRITE_TTL is never put on the wire: retry_writes       *)
(* evicts every stale head first, not only one.                              *)
NoStaleWrite == [][pc # "write" /\ pc' = "write" => expired' = 0]_vars

-----------------------------------------------------------------------------
(* Progress.                                                                 *)

(* Once the line works, the link comes up and stays up (unless the handle is *)
(* dropped), whatever state the outage left the actor in.                    *)
Recovers == line = "good" ~> [](link = "Connected" \/ sender = "dropped")

(* An outage that lasts is reported: Disconnected is emitted and nothing     *)
(* takes it back, also when the port opens and the BMS stays silent          *)
(* (stuck-state escalation, then resyncs that fail without ever resetting    *)
(* the backoff).                                                             *)
OutageReported == line \in {"silent", "gone"} ~> [](link = "Disconnected" \/ sender = "dropped")

(* Once the line works, every write that was taken is answered.              *)
WritesAnswered ==
  \A s \in Seqs : s \in accepted /\ line = "good" ~> s \in Answered \/ sender = "dropped"

(* Dropping the handle ends the task (JkBmsConnection::stop and the await of *)
(* the JoinHandle), also in the middle of an outage with writes queued.      *)
StopHonoured == sender = "dropped" ~> pc = "done"

(* What ARCHITECTURE.md says of soft errors: alarm and config successes do   *)
(* not suppress the escalation, so a BMS that never answers the polls of     *)
(* OperationalData again loses its Connected state.                          *)
MissingDataEscalates == line = "mute02" ~> link # "Connected" \/ sender = "dropped"
=============================================================================
