------------------------- MODULE JkBmsManagerProofs -------------------------
(***************************************************************************)
(* What TLAPS proves of JkBmsManager, for every capacity, threshold and    *)
(* backoff length and any number of writes: the types, the timers by which *)
(* the actor keeps itself going, what becomes of the writes, and that it   *)
(* implements WriteService.                                                *)
(***************************************************************************)
EXTENDS JkBmsManager, QueueLemmas

-----------------------------------------------------------------------------
(* Queues in ascending order.                                                *)

LEMMA AscendingAppend ==
  ASSUME NEW q \in Seq(Nat), NEW e \in Nat, Ascending(q), \A x \in Range(q) : x < e
  PROVE  Ascending(Append(q, e))
<1> DEFINE r == Append(q, e)
<1>1. /\ Len(r) = Len(q) + 1 /\ r[Len(q) + 1] = e
      /\ \A i \in 1 .. Len(q) : r[i] = q[i]
      /\ Len(q) \in Nat
  BY AppendProperties, LenProperties
<1>2. \A i \in 1 .. Len(q) : q[i] < e
  BY RangeEquality
<1> HIDE DEF r
<1> SUFFICES ASSUME NEW i \in 1 .. Len(r), NEW j \in 1 .. Len(r), i < j PROVE r[i] < r[j]
  BY DEF Ascending, r
<1>3. i \in 1 .. Len(q)
  BY <1>1
<1>4. CASE j \in 1 .. Len(q)
  BY <1>1, <1>3, <1>4 DEF Ascending
<1>5. CASE j = Len(q) + 1
  BY <1>1, <1>2, <1>3, <1>5
<1> QED
  BY <1>1, <1>4, <1>5

LEMMA AscendingTail ==
  ASSUME NEW q \in Seq(Nat), q # <<>>, Ascending(q)
  PROVE  Ascending(Tail(q)) /\ \A x \in Range(Tail(q)) : Head(q) < x
<1> DEFINE r == Tail(q)
<1>1. /\ r \in Seq(Nat) /\ Len(r) = Len(q) - 1
      /\ \A i \in 1 .. Len(r) : r[i] = q[i + 1]
      /\ Len(q) \in Nat \ {0} /\ Head(q) = q[1]
  BY HeadTailProperties, LenProperties, EmptySeq
<1>2. Range(r) = {r[i] : i \in 1 .. Len(r)}
  BY <1>1, RangeEquality
<1> HIDE DEF r
<1>3. \A i \in 1 .. Len(r) : i + 1 \in 1 .. Len(q) /\ 1 < i + 1 /\ 1 \in 1 .. Len(q)
  BY <1>1
<1>4. \A x \in Range(r) : q[1] < x
  BY <1>1, <1>2, <1>3 DEF Ascending
<1>5. Ascending(r)
  <2> SUFFICES ASSUME NEW i \in 1 .. Len(r), NEW j \in 1 .. Len(r), i < j PROVE r[i] < r[j]
    BY DEF Ascending
  <2>1. i + 1 \in 1 .. Len(q) /\ j + 1 \in 1 .. Len(q) /\ i + 1 < j + 1
    BY <1>1
  <2> QED
    BY <2>1, <1>1 DEF Ascending
<1> QED
  BY <1>1, <1>4, <1>5 DEF r

-----------------------------------------------------------------------------
(* Types.  TypeOK alone is not inductive: that a failed direct write still   *)
(* fits in the queue rests on the queue being empty while a write is in hand.*)

TypeInv == TypeOK /\ HandOK

LEMMA TypeInit == Init => TypeInv
<1> SUFFICES ASSUME Init PROVE TypeInv
  OBVIOUS
<1> USE ManagerAssumption DEF ManagerAssumption, Init
<1>1. LinkTypeOK
  BY DEF LinkTypeOK
<1>2. TimerTypeOK
  BY DEF TimerTypeOK, Kinds
<1>3. QueueTypeOK
  BY DEF QueueTypeOK
<1>4. CallTypeOK
  BY DEF CallTypeOK
<1>5. ReplyTypeOK /\ line \in Lines
  BY DEF ReplyTypeOK, Lines
<1>6. WorkTypeOK
  BY DEF WorkTypeOK
<1>7. HandOK
  BY DEF HandOK
<1> HIDE DEF Init
<1> QED
  BY <1>1, <1>2, <1>3, <1>4, <1>5, <1>6, <1>7 DEF TypeInv, TypeOK

(* The helpers of the actor, group by group of the variables they set.       *)

LEMMA ReconnectType ==
  ASSUME LinkTypeOK, TimerTypeOK, ScheduleReconnect
  PROVE  /\ reconnect_attempt' \in 0 .. BACKOFF_LEN + 1
         /\ link' \in {"Reconnecting", "Disconnected"}
         /\ TimerTypeOK'
<1> USE ManagerAssumption DEF ManagerAssumption, ScheduleReconnect
<1>1. reconnect_attempt' \in 0 .. BACKOFF_LEN + 1
  BY DEF LinkTypeOK, NextAttempt, Capped
<1>2. link' \in {"Reconnecting", "Disconnected"}
  OBVIOUS
<1>3. TimerTypeOK'
  BY DEF TimerTypeOK, Kinds
<1> QED
  BY <1>1, <1>2, <1>3

LEMMA DisconnectType ==
  ASSUME LinkTypeOK, TimerTypeOK, HandleDisconnect
  PROVE  LinkTypeOK' /\ TimerTypeOK'
<1>1. CASE transport = "Some"
  BY <1>1, ReconnectType, ManagerAssumption
  DEF ManagerAssumption, HandleDisconnect, LinkTypeOK
<1>2. CASE transport # "Some"
  BY <1>2 DEF HandleDisconnect, linkVars, timerVars, LinkTypeOK, TimerTypeOK
<1> QED
  BY <1>1, <1>2

LEMMA ScheduleType ==
  ASSUME TimerTypeOK
  PROVE  /\ ScheduleDataPollingDelayed => TimerTypeOK'
         /\ ScheduleRetryWritesNow => TimerTypeOK'
         /\ ScheduleRetryWritesDelayed => TimerTypeOK'
         /\ ArmAfterConnect => TimerTypeOK'
         /\ UNCHANGED timerVars => TimerTypeOK'
<1> USE DEF TimerTypeOK
<1>1. ScheduleDataPollingDelayed => TimerTypeOK'
  BY DEF ScheduleDataPollingDelayed, Kinds
<1>2. ScheduleRetryWritesNow => TimerTypeOK'
  BY DEF ScheduleRetryWritesNow, Kinds
<1>3. ScheduleRetryWritesDelayed => TimerTypeOK'
  BY DEF ScheduleRetryWritesDelayed, Kinds
<1>4. ArmAfterConnect => TimerTypeOK'
  <2> SUFFICES ASSUME ArmAfterConnect PROVE TimerTypeOK'
    OBVIOUS
  <2> DEFINE Posts(p, q) == internal \o p \o q
  <2>1. \A p, q \in Seq(Kinds) : Posts(p, q) \in Seq(Kinds)
    BY ConcatProperties
  <2>2. <<>> \in Seq(Kinds) /\ <<"RunDataPolling">> \in Seq(Kinds) /\ <<"RetryWrites">> \in Seq(Kinds)
    BY DEF Kinds
  <2>3. \E p, q \in {<<>>, <<"RunDataPolling">>, <<"RetryWrites">>} : internal' = Posts(p, q)
    BY DEF ArmAfterConnect
  <2>4. internal' \in Seq(Kinds)
    BY <2>1, <2>2, <2>3
  <2>5. scheduled' \subseteq {"RunDataPolling", "RetryWrites"} /\ delayed' = delayed /\ op_polled_by' = "resync"
    BY DEF ArmAfterConnect
  <2> QED
    BY <2>4, <2>5
<1>5. UNCHANGED timerVars => TimerTypeOK'
  BY DEF timerVars
<1> QED
  BY <1>1, <1>2, <1>3, <1>4, <1>5

LEMMA TypeOpen == TypeInv /\ Open => TypeInv'
<1> SUFFICES ASSUME TypeInv, Open PROVE TypeInv'
  OBVIOUS
<1> USE DEF TypeInv, TypeOK
<1>1. LinkTypeOK'
  BY ReconnectType, ManagerAssumption DEF ManagerAssumption, Open, LinkTypeOK
<1>2. TimerTypeOK'
  BY ReconnectType, ScheduleType DEF Open
<1>3. QueueTypeOK' /\ CallTypeOK' /\ ReplyTypeOK' /\ (line \in Lines)'
  BY DEF Open, QueueTypeOK, CallTypeOK, ReplyTypeOK, queueVars, callVars, replyVars
<1>4. WorkTypeOK'
  BY ManagerAssumption DEF ManagerAssumption, Open, WorkTypeOK, Idle, ResyncPlan, PollTypes
<1>5. HandOK'
  BY DEF Open, HandOK, Idle, queueVars
<1> QED
  BY <1>1, <1>2, <1>3, <1>4, <1>5

LEMMA TypeResync == TypeInv /\ ResyncPoll => TypeInv'
<1> SUFFICES ASSUME TypeInv, ResyncPoll PROVE TypeInv'
  OBVIOUS
<1> USE DEF TypeInv, TypeOK
<1>1. LinkTypeOK'
  BY DisconnectType, ManagerAssumption
  DEF ManagerAssumption, ResyncPoll, DeclareConnected, linkVars, LinkTypeOK
<1>2. TimerTypeOK'
  BY DisconnectType, ScheduleType DEF ResyncPoll
<1>3. QueueTypeOK' /\ CallTypeOK' /\ ReplyTypeOK' /\ (line \in Lines)'
  BY DEF ResyncPoll, QueueTypeOK, CallTypeOK, ReplyTypeOK, queueVars, callVars, replyVars
<1>4. WorkTypeOK'
  BY ManagerAssumption DEF ManagerAssumption, ResyncPoll, WorkTypeOK, Idle
<1>5. HandOK'
  BY DEF ResyncPoll, HandOK, Idle, queueVars
<1> QED
  BY <1>1, <1>2, <1>3, <1>4, <1>5

LEMMA CountType ==
  ASSUME LinkTypeOK
  PROVE  /\ ClearFailures => LinkTypeOK'
         /\ \A r : CountFailure /\ ~GivesUp(r) => LinkTypeOK'
BY ManagerAssumption DEF ManagerAssumption, LinkTypeOK, ClearFailures, CountFailure, GivesUp

LEMMA TypePoll == TypeInv /\ Poll => TypeInv'
<1> SUFFICES ASSUME TypeInv, Poll PROVE TypeInv'
  OBVIOUS
<1> USE DEF TypeInv, TypeOK
<1>1. LinkTypeOK'
  BY DisconnectType, CountType DEF Poll
<1>2. TimerTypeOK'
  BY DisconnectType, ScheduleType DEF Poll, NextPollOrEnd
<1>3. QueueTypeOK' /\ CallTypeOK' /\ ReplyTypeOK' /\ (line \in Lines)'
  BY DEF Poll, QueueTypeOK, CallTypeOK, ReplyTypeOK, queueVars, callVars, replyVars
<1>4. WorkTypeOK'
  BY ManagerAssumption DEF ManagerAssumption, Poll, NextPollOrEnd, WorkTypeOK, Idle
<1>5. HandOK'
  BY DEF Poll, NextPollOrEnd, HandOK, Idle, queueVars
<1> QED
  BY <1>1, <1>2, <1>3, <1>4, <1>5

(* The cap holds here because nothing is queued while a write is in hand.    *)
LEMMA WriteFailedType ==
  ASSUME TypeInv, NEW r, WriteFailed(r)
  PROVE  /\ LinkTypeOK' /\ TimerTypeOK' /\ QueueTypeOK'
         /\ ReplyTypeOK' /\ WorkTypeOK' /\ HandOK'
<1> USE DEF TypeInv, TypeOK, WriteFailed
<1>1. LinkTypeOK' /\ TimerTypeOK'
  BY DisconnectType, CountType, ScheduleType
<1>2. QueueTypeOK'
  <2>1. CASE hand = 0
    BY <2>1 DEF Requeued, QueueTypeOK
  <2>2. CASE hand # 0
    <3>1. pending_writes = <<>> /\ expired = 0 /\ hand \in Seqs
      BY <2>2 DEF HandOK, QueueTypeOK, WorkTypeOK, Seqs
    <3> QED
      BY <2>2, <3>1, ManagerAssumption DEF Requeued, QueueTypeOK, ManagerAssumption
  <2> QED
    BY <2>1, <2>2
<1>3. ReplyTypeOK'
  BY DEF ReplyTypeOK, replyVars
<1>4. WorkTypeOK' /\ HandOK'
  BY ManagerAssumption DEF ManagerAssumption, WorkTypeOK, HandOK, Idle
<1> QED
  BY <1>1, <1>2, <1>3, <1>4

LEMMA WriteDoneType ==
  ASSUME TypeInv, WriteDone, pc = "readback"
  PROVE  /\ LinkTypeOK' /\ TimerTypeOK' /\ QueueTypeOK'
         /\ ReplyTypeOK' /\ WorkTypeOK' /\ HandOK'
<1> USE DEF TypeInv, TypeOK, WriteDone
<1>1. LinkTypeOK' /\ TimerTypeOK'
  BY CountType, ScheduleType
<1>2. QueueTypeOK' /\ Current \in Seqs
  <2>1. CASE hand = 0
    <3>1. pending_writes # <<>>
      BY <2>1 DEF HandOK
    <3>2. /\ Head(pending_writes) \in Seqs
          /\ Tail(pending_writes) \in Seq(Seqs)
          /\ Len(Tail(pending_writes)) = Len(pending_writes) - 1
      BY <3>1, HeadTailProperties DEF QueueTypeOK
    <3> QED
      BY <2>1, <3>1, <3>2, ManagerAssumption DEF ManagerAssumption, QueueTypeOK, Current
  <2>2. CASE hand # 0
    BY <2>2 DEF QueueTypeOK, queueVars, Current, WorkTypeOK, Seqs
  <2> QED
    BY <2>1, <2>2
<1>3. ReplyTypeOK'
  BY <1>2 DEF ReplyTypeOK
<1>4. WorkTypeOK' /\ HandOK'
  BY ManagerAssumption DEF ManagerAssumption, WorkTypeOK, HandOK, Idle
<1> QED
  BY <1>1, <1>2, <1>3, <1>4

LEMMA TypeWrite == TypeInv /\ (WriteAck \/ Readback) => TypeInv'
<1> SUFFICES ASSUME TypeInv, WriteAck \/ Readback PROVE TypeInv'
  OBVIOUS
<1>1. CallTypeOK' /\ (line \in Lines)'
  BY DEF WriteAck, Readback, callVars, CallTypeOK, TypeInv, TypeOK
<1>2. CASE pc = "write" /\ pc' = "readback" /\ UNCHANGED <<linkVars, timerVars, queueVars, replyVars, plan, hand, wire>>
  BY <1>1, <1>2
  DEF TypeInv, TypeOK, linkVars, timerVars, queueVars, replyVars, LinkTypeOK, TimerTypeOK, QueueTypeOK, ReplyTypeOK, WorkTypeOK, HandOK
<1>3. CASE pc = "readback" /\ WriteDone
  BY <1>1, <1>3, WriteDoneType DEF TypeInv, TypeOK
<1>4. ASSUME NEW r, WriteFailed(r) PROVE TypeInv'
  BY <1>1, <1>4, WriteFailedType DEF TypeInv, TypeOK
<1> QED
  BY <1>2, <1>3, <1>4 DEF WriteAck, Readback

LEMMA TypeCommand == TypeInv /\ RecvCommand => TypeInv'
<1> SUFFICES ASSUME TypeInv, RecvCommand PROVE TypeInv'
  OBVIOUS
<1> USE DEF TypeInv, TypeOK
<1>1. /\ Head(commands) \in Seqs /\ Head(commands) # 0
      /\ Tail(commands) \in Seq(Seqs)
      /\ Len(Tail(commands)) = Len(commands) - 1
  <2>1. commands \in Seq(Seqs) /\ commands # <<>>
    BY DEF RecvCommand, CallTypeOK
  <2>2. /\ Head(commands) \in Seqs
        /\ Tail(commands) \in Seq(Seqs)
        /\ Len(Tail(commands)) = Len(commands) - 1
    BY <2>1, HeadTailProperties
  <2> QED
    BY <2>2 DEF Seqs
<1>2. LinkTypeOK' /\ (line \in Lines)'
  BY DEF RecvCommand, linkVars, LinkTypeOK
<1>3. TimerTypeOK'
  BY ScheduleType DEF RecvCommand, WriteCommand
<1>4. CallTypeOK'
  BY <1>1, ManagerAssumption DEF ManagerAssumption, RecvCommand, CallTypeOK
<1>5. ReplyTypeOK'
  BY <1>1 DEF RecvCommand, WriteCommand, ReplyTypeOK
<1>6. QueueTypeOK'
  <2>1. /\ Append(pending_writes, Head(commands)) \in Seq(Seqs)
        /\ Len(Append(pending_writes, Head(commands))) = Len(pending_writes) + 1
    BY <1>1, AppendProperties DEF QueueTypeOK
  <2> QED
    <3>1. expired' = expired
      BY DEF RecvCommand
    <3>2. CASE pending_writes' = pending_writes
      BY <3>1, <3>2 DEF QueueTypeOK
    <3>3. CASE ~Refused /\ pending_writes' = Append(pending_writes, Head(commands))
      BY <2>1, <3>1, <3>3, ManagerAssumption DEF ManagerAssumption, QueueTypeOK, Refused
    <3> QED
      BY <3>2, <3>3 DEF RecvCommand, WriteCommand
<1>7. WorkTypeOK'
  BY <1>1, ManagerAssumption
  DEF ManagerAssumption, RecvCommand, WriteCommand, WorkTypeOK, Idle, StartWrite, Seqs
<1>8. HandOK'
  BY <1>1 DEF RecvCommand, WriteCommand, HandOK, Idle, StartWrite, MustQueue
<1> QED
  BY <1>2, <1>3, <1>4, <1>5, <1>6, <1>7, <1>8

(* What is left of the queue and what is evicted.                            *)
LEMMA UnexpiredProperties ==
  ASSUME QueueTypeOK
  PROVE  /\ Unexpired \in Seq(Seqs)
         /\ Len(Unexpired) = Len(pending_writes) - expired
         /\ \A i \in 1 .. Len(Unexpired) : Unexpired[i] = pending_writes[expired + i]
         /\ Evicted = {pending_writes[i] : i \in 1 .. expired}
<1> DEFINE n == Len(pending_writes)
<1>1. n \in Nat /\ expired \in 0 .. n /\ \A i \in 1 .. n : pending_writes[i] \in Seqs
  BY ElementOfSeq, LenProperties DEF QueueTypeOK
<1> DEFINE lft == SubSeq(pending_writes, expired + 1, n)
           evd == SubSeq(pending_writes, 1, expired)
<1>2. /\ lft \in Seq(Seqs)
      /\ Len(lft) = IF expired + 1 <= n THEN n - (expired + 1) + 1 ELSE 0
      /\ \A i \in 1 .. n - (expired + 1) + 1 : lft[i] = pending_writes[expired + 1 + i - 1]
  <2>1. \A i \in expired + 1 .. n : pending_writes[i] \in Seqs
    BY <1>1
  <2> QED
    BY <2>1, <1>1, SubSeqProperties
<1>3. /\ evd \in Seq(Seqs)
      /\ Len(evd) = IF 1 <= expired THEN expired - 1 + 1 ELSE 0
      /\ \A i \in 1 .. expired - 1 + 1 : evd[i] = pending_writes[1 + i - 1]
  <2>1. \A i \in 1 .. expired : pending_writes[i] \in Seqs
    BY <1>1
  <2> QED
    BY <2>1, <1>1, SubSeqProperties
<1>4. Len(lft) = n - expired /\ \A i \in 1 .. Len(lft) : lft[i] = pending_writes[expired + i]
  BY <1>1, <1>2
<1>5. Len(evd) = expired /\ \A i \in 1 .. expired : evd[i] = pending_writes[i]
  BY <1>1, <1>3
<1>6. Range(evd) = {evd[i] : i \in 1 .. Len(evd)}
  BY <1>3, RangeEquality
<1>7. Range(evd) = {pending_writes[i] : i \in 1 .. expired}
  BY <1>5, <1>6
<1> QED
  BY <1>2, <1>4, <1>7 DEF Unexpired, Evicted, Evictions

LEMMA RetryWritesType ==
  ASSUME TypeInv, RetryWrites, pc = "idle"
  PROVE  /\ LinkTypeOK' /\ QueueTypeOK'
         /\ ReplyTypeOK' /\ WorkTypeOK' /\ HandOK'
         /\ scheduled' = scheduled \ {"RetryWrites"} /\ op_polled_by' = op_polled_by
<1> USE DEF TypeInv, TypeOK, RetryWrites
<1>1. LinkTypeOK'
  BY DEF linkVars, LinkTypeOK
<1>2. QueueTypeOK'
  <2>1. CASE UNCHANGED queueVars
    BY <2>1 DEF QueueTypeOK, queueVars
  <2>2. CASE pending_writes' = Unexpired /\ expired' = expired - Evictions
    <3>1. expired' = 0
      BY <2>2 DEF QueueTypeOK, Evictions
    <3> QED
      BY <2>2, <3>1, UnexpiredProperties, ManagerAssumption DEF ManagerAssumption, QueueTypeOK
  <2> QED
    BY <2>1, <2>2
<1>3. ReplyTypeOK'
  <2>1. Evicted \subseteq Seqs
    BY UnexpiredProperties, ElementOfSeq DEF QueueTypeOK
  <2> QED
    BY <2>1 DEF ReplyTypeOK
<1>4. WorkTypeOK'
  <2>1. Unexpired # <<>> => Head(Unexpired) \in Seqs
    BY UnexpiredProperties, HeadTailProperties
  <2> QED
    BY <2>1, ManagerAssumption DEF ManagerAssumption, WorkTypeOK, Idle, StartWrite, Seqs
<1>5. HandOK'
  BY DEF HandOK, Idle, StartWrite
<1> QED
  BY <1>1, <1>2, <1>3, <1>4, <1>5

LEMMA RunDataPollingType ==
  ASSUME TypeInv, pc = "idle",
         NEW q \in Seq(Kinds), NEW d \in [Kinds -> Nat], NEW late,
         RunDataPolling(q, d, late)
  PROVE  /\ LinkTypeOK' /\ TimerTypeOK' /\ QueueTypeOK'
         /\ ReplyTypeOK' /\ WorkTypeOK' /\ HandOK'
<1> USE DEF TypeInv, TypeOK, RunDataPolling
<1>1. LinkTypeOK' /\ QueueTypeOK' /\ ReplyTypeOK'
  BY DEF linkVars, queueVars, replyVars, LinkTypeOK, QueueTypeOK, ReplyTypeOK
<1>2. TimerTypeOK'
  <2>1. internal' \in Seq(Kinds)
    OBVIOUS
  <2>2. delayed' \in [Kinds -> Nat]
    BY DEF Kinds
  <2>3. scheduled' \subseteq {"RunDataPolling", "RetryWrites"}
    BY DEF TimerTypeOK
  <2>4. op_polled_by' \in {"cycle", "resync"}
    BY DEF TimerTypeOK
  <2> QED
    BY <2>1, <2>2, <2>3, <2>4 DEF TimerTypeOK
<1>3. WorkTypeOK'
  BY ManagerAssumption DEF ManagerAssumption, WorkTypeOK, Idle, DuePlans
<1>4. HandOK'
  BY DEF HandOK, Idle, queueVars
<1> QED
  BY <1>1, <1>2, <1>3, <1>4

LEMMA TypeInternal == TypeInv /\ RecvInternal => TypeInv'
<1> SUFFICES ASSUME TypeInv, RecvInternal PROVE TypeInv'
  OBVIOUS
<1>1. internal # <<>> /\ Tail(internal) \in Seq(Kinds) /\ delayed \in [Kinds -> Nat]
  BY HeadTailProperties DEF RecvInternal, TypeInv, TypeOK, TimerTypeOK
<1>2. CallTypeOK' /\ (line \in Lines)'
  BY DEF RecvInternal, callVars, CallTypeOK, TypeInv, TypeOK
<1>3. CASE RunDataPolling(Tail(internal), delayed, FALSE)
  BY <1>1, <1>2, <1>3, RunDataPollingType DEF RecvInternal, TypeInv, TypeOK
<1>4. CASE internal' = Tail(internal) /\ delayed' = delayed /\ RetryWrites
  <2>1. TimerTypeOK'
    BY <1>1, <1>4 DEF TypeInv, TypeOK, TimerTypeOK, RetryWrites
  <2> QED
    BY <2>1, <1>2, <1>4, RetryWritesType DEF RecvInternal, TypeInv, TypeOK
<1> QED
  BY <1>3, <1>4 DEF RecvInternal

LEMMA TypeDelayed ==
  TypeInv /\ (RecvDelayedPolling \/ RecvDelayedRetry \/ RecvConnect) => TypeInv'
<1> SUFFICES ASSUME TypeInv, RecvDelayedPolling \/ RecvDelayedRetry \/ RecvConnect PROVE TypeInv'
  OBVIOUS
<1>1. CallTypeOK' /\ (line \in Lines)' /\ pc = "idle"
  BY DEF RecvDelayedPolling, RecvDelayedRetry, RecvConnect, callVars, CallTypeOK, TypeInv, TypeOK
<1>2. \A k \in Kinds : delayed[k] > 0 => [delayed EXCEPT ![k] = @ - 1] \in [Kinds -> Nat]
  BY DEF TypeInv, TypeOK, TimerTypeOK
<1>3. CASE RecvDelayedPolling
  <2> DEFINE d == [delayed EXCEPT !["RunDataPolling"] = @ - 1]
  <2>1. d \in [Kinds -> Nat] /\ internal \in Seq(Kinds)
    BY <1>2, <1>3 DEF Kinds, RecvDelayedPolling, TypeInv, TypeOK, TimerTypeOK
  <2>2. RunDataPolling(internal, d, TRUE)
    BY <1>3 DEF RecvDelayedPolling
  <2> HIDE DEF d
  <2> QED
    BY <1>1, <2>1, <2>2, RunDataPollingType DEF TypeInv, TypeOK
<1>4. CASE RecvDelayedRetry
  <2>1. TimerTypeOK'
    BY <1>2, <1>4 DEF TypeInv, TypeOK, TimerTypeOK, RecvDelayedRetry, RetryWrites, Kinds
  <2> QED
    BY <2>1, <1>1, <1>4, RetryWritesType DEF RecvDelayedRetry, TypeInv, TypeOK
<1>5. CASE RecvConnect
  <2>1. TimerTypeOK'
    BY <1>2, <1>5 DEF TypeInv, TypeOK, TimerTypeOK, RecvConnect, Kinds
  <2> QED
    BY <2>1, <1>1, <1>5
    DEF RecvConnect, TypeInv, TypeOK, LinkTypeOK, QueueTypeOK, ReplyTypeOK, WorkTypeOK, HandOK, linkVars, queueVars, replyVars
<1> QED
  BY <1>3, <1>4, <1>5

LEMMA TypeWorld ==
  TypeInv /\ (World \/ RecvClosed \/ UNCHANGED vars) => TypeInv'
<1> SUFFICES ASSUME TypeInv, World \/ RecvClosed \/ UNCHANGED vars PROVE TypeInv'
  OBVIOUS
<1> USE DEF TypeInv, TypeOK, linkVars, timerVars, queueVars, callVars, replyVars, workVars
<1>1. CASE Submit
  <2>1. next_seq \in Seqs /\ next_seq' \in 1 .. MaxSeq + 1
    BY <1>1, ManagerAssumption DEF ManagerAssumption, Submit, Seqs, CallTypeOK
  <2>2. CallTypeOK'
    <3>1. /\ Append(commands, next_seq) \in Seq(Seqs)
          /\ Len(Append(commands, next_seq)) = Len(commands) + 1
      BY <2>1, AppendProperties DEF CallTypeOK
    <3> QED
      <4>1. CASE Len(commands) < COMMAND_CHANNEL_CAPACITY
        <5>1. commands' \in Seq(Seqs) /\ Len(commands') = Len(commands) + 1
          BY <1>1, <3>1, <4>1 DEF Submit
        <5>2. Len(commands') <= COMMAND_CHANNEL_CAPACITY
          BY <5>1, <4>1, ManagerAssumption DEF ManagerAssumption, CallTypeOK
        <5>3. accepted' \subseteq Seqs /\ sender' \in {"open", "dropped"}
          BY <1>1, <2>1, <4>1 DEF Submit, CallTypeOK
        <5> QED
          BY <2>1, <5>1, <5>2, <5>3 DEF CallTypeOK
      <4>2. CASE ~(Len(commands) < COMMAND_CHANNEL_CAPACITY)
        BY <1>1, <2>1, <4>2 DEF Submit, CallTypeOK
      <4> QED
        BY <4>1, <4>2
  <2> QED
    BY <1>1, <2>2 DEF Submit, LinkTypeOK, TimerTypeOK, QueueTypeOK, ReplyTypeOK, WorkTypeOK, HandOK
<1>2. CASE WriteTtlElapses
  <2>1. QueueTypeOK'
    BY <1>2 DEF WriteTtlElapses, QueueTypeOK
  <2> QED
    BY <1>2, <2>1 DEF WriteTtlElapses, LinkTypeOK, TimerTypeOK, CallTypeOK, ReplyTypeOK, WorkTypeOK, HandOK
<1>3. CASE Close
  BY <1>3 DEF Close, LinkTypeOK, TimerTypeOK, QueueTypeOK, CallTypeOK, ReplyTypeOK, WorkTypeOK, HandOK
<1>4. CASE LineSettles
  BY <1>4, ManagerAssumption
  DEF ManagerAssumption, LineSettles, LinkTypeOK, TimerTypeOK, QueueTypeOK, CallTypeOK, ReplyTypeOK, WorkTypeOK, HandOK
<1>5. CASE RecvClosed
  BY <1>5 DEF RecvClosed, LinkTypeOK, TimerTypeOK, QueueTypeOK, CallTypeOK, ReplyTypeOK, WorkTypeOK, HandOK
<1>6. CASE UNCHANGED vars
  BY <1>6 DEF vars, LinkTypeOK, TimerTypeOK, QueueTypeOK, CallTypeOK, ReplyTypeOK, WorkTypeOK, HandOK
<1> QED
  BY <1>1, <1>2, <1>3, <1>4, <1>5, <1>6 DEF World

LEMMA TypeNext == TypeInv /\ [Next]_vars => TypeInv'
BY TypeOpen, TypeResync, TypePoll, TypeWrite, TypeCommand, TypeInternal, TypeDelayed, TypeWorld
DEF Next, Busy, Select, Terminated

(* Every variable of the actor keeps its type in every behaviour: the soft   *)
(* failures never reach RECONNECT_THRESHOLD between two handlers, and the    *)
(* queue never outgrows PENDING_WRITES_CAP.                                  *)
THEOREM TypeCorrect == Spec => []TypeOK
<1>1. Spec => []TypeInv
  BY TypeInit, TypeNext, PTL DEF Spec
<1>2. TypeInv => TypeOK
  BY DEF TypeInv
<1> QED
  BY <1>1, <1>2, PTL

-----------------------------------------------------------------------------
(* Self-scheduling.  The flags, the channel and the DelayQueue agree         *)
(* (TimersOK), and who has armed what depends on where the actor stands      *)
(* (LoopsOK, ReconnectArmed, LinkTruthful).                                  *)

Loops == {"RunDataPolling", "RetryWrites"}

TimersOK ==
  /\ IsInjective(internal)
  /\ "Connect" \notin Range(internal)
  /\ \A k \in Loops : FlagTrue(k)

LoopsOK ==
  /\ pc \in {"idle", "write", "readback"} /\ transport = "Some"
       => "RunDataPolling" \in scheduled
  /\ pc \in {"idle", "polling"} /\ transport = "Some" /\ pending_writes # <<>>
       => "RetryWrites" \in scheduled

SchedInv == TimersOK /\ LoopsOK /\ ReconnectArmed /\ LinkTruthful

LEMMA SchedParts == SchedInv <=> PollingArmed /\ RetryArmed /\ ReconnectArmed /\ LinkTruthful
BY DEF SchedInv, TimersOK, LoopsOK, Loops, PollingArmed, RetryArmed, ReconnectArmed

LEMMA SchedInit == Init => SchedInv
<1> SUFFICES ASSUME Init PROVE SchedInv
  OBVIOUS
<1>1. internal = <<>> /\ Range(internal) = {} /\ IsInjective(internal)
  BY DEF Init, Range, IsInjective
<1>2. TimersOK
  BY <1>1 DEF TimersOK, Init, FlagTrue, Disarmed, Loops, Kinds
<1>3. LoopsOK
  BY DEF Init, LoopsOK
<1>4. ReconnectArmed
  BY <1>1 DEF ReconnectArmed, Init, Kinds
<1>5. LinkTruthful
  BY ManagerAssumption DEF ManagerAssumption, LinkTruthful, Init, Capped
<1> QED
  BY <1>2, <1>3, <1>4, <1>5 DEF SchedInv

(* A command is posted, or a delayed one armed, only when none is on its way.*)
LEMMA PostNow ==
  ASSUME TimerTypeOK, TimersOK, NEW k \in Loops, k \notin scheduled,
         internal' = Append(internal, k), delayed' = delayed,
         scheduled' = scheduled \union {k}
  PROVE  TimersOK'
<1>1. k \in Kinds /\ k \notin Range(internal) /\ delayed[k] = 0
  BY DEF TimersOK, FlagTrue, Disarmed, Kinds, Loops
<1>2. Range(internal') = Range(internal) \union {k} /\ IsInjective(internal')
  BY <1>1, QueueAppend DEF TimerTypeOK, TimersOK
<1>3. \A j \in Loops : FlagTrue(j)'
  BY <1>1, <1>2 DEF TimersOK, FlagTrue, Armed, Disarmed
<1> QED
  BY <1>2, <1>3 DEF TimersOK, Loops

LEMMA ArmDelayed ==
  ASSUME TimerTypeOK, TimersOK, NEW k \in Loops, k \notin scheduled,
         internal' = internal, delayed' = [delayed EXCEPT ![k] = @ + 1],
         scheduled' = scheduled \union {k}
  PROVE  TimersOK' /\ delayed'["Connect"] = delayed["Connect"]
<1>1. k \notin Range(internal) /\ delayed[k] = 0 /\ k # "Connect"
  BY DEF TimersOK, FlagTrue, Disarmed, Loops
<1>2. delayed'[k] = 1 /\ \A j \in Kinds \ {k} : delayed'[j] = delayed[j]
  BY <1>1 DEF TimerTypeOK, Kinds, Loops
<1>3. \A j \in Loops : FlagTrue(j)'
  BY <1>1, <1>2 DEF TimersOK, FlagTrue, Armed, Disarmed, Kinds, Loops
<1> QED
  BY <1>1, <1>2, <1>3 DEF TimersOK, Kinds

(* The command that was on its way is taken off and its flag cleared.        *)
LEMMA TakeInternal ==
  ASSUME TimerTypeOK, TimersOK, internal # <<>>, delayed' = delayed,
         internal' = Tail(internal), scheduled' = scheduled \ {Head(internal)}
  PROVE  TimersOK'
<1> DEFINE h == Head(internal)
<1>1. /\ Range(internal) = {h} \union Range(internal')
      /\ IsInjective(internal') /\ h \notin Range(internal')
  BY QueueTail DEF TimerTypeOK, TimersOK
<1>2. h \in Loops
  BY <1>1, RangeOfSeq DEF TimerTypeOK, TimersOK, Kinds, Loops
<1>3. delayed[h] = 0
  BY <1>1, <1>2 DEF TimersOK, FlagTrue, Armed, Disarmed
<1>4. \A k \in Loops : FlagTrue(k)'
  BY <1>1, <1>3 DEF TimersOK, FlagTrue, Armed, Disarmed
<1> QED
  BY <1>1, <1>4 DEF TimersOK

LEMMA TakeDelayed ==
  ASSUME TimerTypeOK, TimersOK, NEW k \in Loops, delayed[k] > 0, internal' = internal,
         delayed' = [delayed EXCEPT ![k] = @ - 1], scheduled' = scheduled \ {k}
  PROVE  TimersOK' /\ delayed'["Connect"] = delayed["Connect"]
<1>1. k \notin Range(internal) /\ delayed[k] = 1 /\ k # "Connect"
  BY DEF TimersOK, FlagTrue, Armed, Disarmed, Loops
<1>2. delayed'[k] = 0 /\ \A j \in Kinds \ {k} : delayed'[j] = delayed[j]
  BY <1>1 DEF TimerTypeOK, Kinds, Loops
<1>3. \A j \in Loops : FlagTrue(j)'
  BY <1>1, <1>2 DEF TimersOK, FlagTrue, Armed, Disarmed, Kinds, Loops
<1> QED
  BY <1>1, <1>2, <1>3 DEF TimersOK, Kinds

LEMMA ScheduleTimers ==
  ASSUME TimerTypeOK, TimersOK
  PROVE  /\ ScheduleDataPollingDelayed =>
              /\ TimersOK' /\ delayed'["Connect"] = delayed["Connect"]
              /\ scheduled' = scheduled \union {"RunDataPolling"}
         /\ ScheduleRetryWritesNow \/ ScheduleRetryWritesDelayed =>
              /\ TimersOK' /\ delayed'["Connect"] = delayed["Connect"]
              /\ scheduled' = scheduled \union {"RetryWrites"}
         /\ UNCHANGED timerVars =>
              /\ TimersOK' /\ delayed'["Connect"] = delayed["Connect"]
              /\ scheduled' = scheduled
<1>1. UNCHANGED <<scheduled, internal, delayed>> => TimersOK'
  BY DEF TimersOK, FlagTrue, Armed, Disarmed
<1>2. "RunDataPolling" \in Loops /\ "RetryWrites" \in Loops
  BY DEF Loops
<1>3. ASSUME ScheduleDataPollingDelayed
      PROVE  /\ TimersOK' /\ delayed'["Connect"] = delayed["Connect"]
             /\ scheduled' = scheduled \union {"RunDataPolling"}
  <2>1. CASE "RunDataPolling" \in scheduled
    BY <1>1, <1>3, <2>1 DEF ScheduleDataPollingDelayed
  <2>2. CASE "RunDataPolling" \notin scheduled
    BY <1>2, <1>3, <2>2, ArmDelayed DEF ScheduleDataPollingDelayed
  <2> QED
    BY <2>1, <2>2
<1>4. ASSUME ScheduleRetryWritesNow
      PROVE  /\ TimersOK' /\ delayed'["Connect"] = delayed["Connect"]
             /\ scheduled' = scheduled \union {"RetryWrites"}
  <2>1. CASE "RetryWrites" \in scheduled
    BY <1>1, <1>4, <2>1 DEF ScheduleRetryWritesNow
  <2>2. CASE "RetryWrites" \notin scheduled
    BY <1>2, <1>4, <2>2, PostNow DEF ScheduleRetryWritesNow
  <2> QED
    BY <2>1, <2>2
<1>5. ASSUME ScheduleRetryWritesDelayed
      PROVE  /\ TimersOK' /\ delayed'["Connect"] = delayed["Connect"]
             /\ scheduled' = scheduled \union {"RetryWrites"}
  <2>1. CASE "RetryWrites" \in scheduled
    BY <1>1, <1>5, <2>1 DEF ScheduleRetryWritesDelayed
  <2>2. CASE "RetryWrites" \notin scheduled
    BY <1>2, <1>5, <2>2, ArmDelayed DEF ScheduleRetryWritesDelayed
  <2> QED
    BY <2>1, <2>2
<1> QED
  BY <1>1, <1>3, <1>4, <1>5 DEF timerVars

LEMMA ReconnectTimers ==
  ASSUME LinkTypeOK, TimerTypeOK, TimersOK, ScheduleReconnect, delayed["Connect"] = 0
  PROVE  /\ TimersOK' /\ delayed'["Connect"] = 1 /\ scheduled' = scheduled
         /\ link' # "Connected" /\ link' # "None"
         /\ (link' = "Disconnected") <=> Capped(reconnect_attempt)'
<1>1. delayed'["Connect"] = 1 /\ \A k \in Loops : delayed'[k] = delayed[k]
  BY DEF ScheduleReconnect, TimerTypeOK, Kinds, Loops
<1>2. TimersOK' /\ scheduled' = scheduled
  BY <1>1 DEF ScheduleReconnect, TimersOK, FlagTrue, Armed, Disarmed
<1> QED
  BY <1>1, <1>2 DEF ScheduleReconnect, Capped

LEMMA DisconnectTimers ==
  ASSUME LinkTypeOK, TimerTypeOK, TimersOK, HandleDisconnect,
         transport = "Some", delayed["Connect"] = 0
  PROVE  /\ TimersOK' /\ delayed'["Connect"] = 1 /\ scheduled' = scheduled
         /\ link' # "Connected" /\ link' # "None"
         /\ (link' = "Disconnected") <=> Capped(reconnect_attempt)'
         /\ transport' = "None" /\ consecutive_failures' = 0
BY ReconnectTimers DEF HandleDisconnect

LEMMA ArmTimers ==
  ASSUME TimerTypeOK, TimersOK, ArmAfterConnect
  PROVE  /\ TimersOK' /\ delayed' = delayed
         /\ "RunDataPolling" \in scheduled'
         /\ pending_writes # <<>> => "RetryWrites" \in scheduled'
<1> DEFINE wanted == {"RunDataPolling"} \union (IF pending_writes = <<>> THEN {} ELSE {"RetryWrites"})
           Post(k) == IF k \in wanted \ scheduled THEN <<k>> ELSE <<>>
           mid == internal \o Post("RunDataPolling")
<1>1. /\ scheduled' = scheduled \union wanted
      /\ internal' = mid \o Post("RetryWrites")
      /\ delayed' = delayed
  BY DEF ArmAfterConnect
<1>2. \A k \in Loops \ scheduled : k \notin Range(internal) /\ delayed[k] = 0
  BY DEF TimersOK, FlagTrue, Disarmed
<1>3. internal \in Seq(Kinds) /\ "RunDataPolling" \in Kinds /\ "RetryWrites" \in Kinds
  BY DEF TimerTypeOK, Kinds
<1>4. ASSUME NEW q \in Seq(Kinds), NEW k \in Kinds, IsInjective(q), k \in wanted \ scheduled => k \notin Range(q)
      PROVE  /\ q \o Post(k) \in Seq(Kinds)
             /\ IsInjective(q \o Post(k))
             /\ Range(q \o Post(k)) = Range(q) \union ({k} \intersect (wanted \ scheduled))
  <2>1. CASE k \in wanted \ scheduled
    <3>1. Append(q, k) = q \o <<k>> /\ Append(q, k) \in Seq(Kinds)
      BY AppendIsConcat, AppendProperties
    <3>2. Post(k) = <<k>>
      BY <2>1
    <3>3. Range(Append(q, k)) = Range(q) \union {k} /\ IsInjective(Append(q, k))
      BY <2>1, <1>4, QueueAppend
    <3> HIDE DEF Post, wanted
    <3> QED
      BY <2>1, <3>1, <3>2, <3>3
  <2>2. CASE k \notin wanted \ scheduled
    <3>1. Post(k) = <<>> /\ q \o <<>> = q
      BY <2>2, ConcatEmptySeq
    <3> HIDE DEF Post, wanted
    <3> QED
      BY <2>2, <3>1, <1>4
  <2> QED
    BY <2>1, <2>2
<1>5. wanted \subseteq Loops /\ "RunDataPolling" \in wanted /\ (pending_writes # <<>> => "RetryWrites" \in wanted)
  BY DEF Loops
<1> HIDE DEF Post, wanted
<1>6. /\ mid \in Seq(Kinds) /\ IsInjective(mid)
      /\ Range(mid) = Range(internal) \union ({"RunDataPolling"} \intersect (wanted \ scheduled))
  BY <1>2, <1>3, <1>4, <1>5 DEF TimersOK
<1> HIDE DEF mid
<1>7. /\ IsInjective(internal')
      /\ Range(internal') = Range(mid) \union ({"RetryWrites"} \intersect (wanted \ scheduled))
  <2>1. "RetryWrites" \in wanted \ scheduled => "RetryWrites" \notin Range(mid)
    BY <1>2, <1>5, <1>6
  <2> QED
    BY <2>1, <1>1, <1>3, <1>4, <1>6
<1>8. Range(internal') = Range(internal) \union (wanted \ scheduled)
  BY <1>5, <1>6, <1>7 DEF Loops
<1>9. \A k \in Loops : FlagTrue(k)'
  BY <1>1, <1>2, <1>8 DEF TimersOK, FlagTrue, Armed, Disarmed
<1> QED
  BY <1>1, <1>5, <1>7, <1>8, <1>9 DEF TimersOK, Loops

LEMMA SchedOpen == TypeInv /\ SchedInv /\ Open => SchedInv'
<1> SUFFICES ASSUME TypeInv, SchedInv, Open PROVE SchedInv'
  OBVIOUS
<1>1. /\ TimersOK /\ LinkTypeOK /\ TimerTypeOK
      /\ pc = "connect" /\ transport = "None" /\ delayed["Connect"] = 0
      /\ link # "Connected" /\ pending_writes' = pending_writes
  BY DEF SchedInv, Open, ReconnectArmed, LinkTruthful, TypeInv, TypeOK, queueVars
<1>2. CASE /\ transport' = "Some" /\ consecutive_failures' = 0 /\ pc' = "resync"
           /\ UNCHANGED <<reconnect_attempt, link, timerVars, hand, wire>>
  <2>1. TimersOK' /\ delayed'["Connect"] = 0
    BY <1>1, <1>2, ScheduleTimers
  <2>2. LoopsOK' /\ ReconnectArmed' /\ LinkTruthful'
    BY <1>1, <1>2, <2>1 DEF SchedInv, TimersOK, LoopsOK, ReconnectArmed, LinkTruthful, Capped
  <2> QED
    BY <2>1, <2>2 DEF SchedInv
<1>3. CASE ScheduleReconnect /\ Idle /\ UNCHANGED <<transport, consecutive_failures>>
  <2>1. /\ TimersOK' /\ delayed'["Connect"] = 1
        /\ link' # "Connected" /\ link' # "None"
        /\ (link' = "Disconnected") <=> Capped(reconnect_attempt)'
    BY <1>1, <1>3, ReconnectTimers
  <2>2. LoopsOK' /\ ReconnectArmed' /\ LinkTruthful'
    BY <1>1, <1>3, <2>1 DEF SchedInv, TimersOK, LoopsOK, ReconnectArmed, LinkTruthful, Idle
  <2> QED
    BY <2>1, <2>2 DEF SchedInv
<1> QED
  BY <1>2, <1>3 DEF Open

(* How every session ends.                                                   *)
LEMMA SchedDisconnect ==
  ASSUME TypeInv, SchedInv, transport = "Some", HandleDisconnect, Idle
  PROVE  SchedInv'
<1>1. TimersOK /\ LinkTypeOK /\ TimerTypeOK /\ delayed["Connect"] = 0
  BY DEF SchedInv, ReconnectArmed, TypeInv, TypeOK
<1>2. /\ TimersOK' /\ delayed'["Connect"] = 1
      /\ link' # "Connected" /\ link' # "None"
      /\ (link' = "Disconnected") <=> Capped(reconnect_attempt)'
      /\ transport' = "None" /\ consecutive_failures' = 0
  BY <1>1, DisconnectTimers
<1> QED
  BY <1>2 DEF SchedInv, TimersOK, LoopsOK, ReconnectArmed, LinkTruthful, Idle

(* How a step within a session keeps what SchedInv says of the link.         *)
LEMMA SchedSession ==
  ASSUME SchedInv, transport = "Some", pc # "resync",
         UNCHANGED <<transport, reconnect_attempt, link>>,
         pc' \in {"idle", "polling", "write", "readback"}, TimersOK',
         delayed'["Connect"] = delayed["Connect"], LoopsOK'
  PROVE  SchedInv'
BY DEF SchedInv, TimersOK, ReconnectArmed, LinkTruthful, Capped

LEMMA SchedResync == TypeInv /\ SchedInv /\ ResyncPoll => SchedInv'
<1> SUFFICES ASSUME TypeInv, SchedInv, ResyncPoll PROVE SchedInv'
  OBVIOUS
<1>1. /\ TimersOK /\ LinkTypeOK /\ TimerTypeOK /\ pc = "resync" /\ transport = "Some"
      /\ delayed["Connect"] = 0 /\ pending_writes' = pending_writes
  BY DEF SchedInv, ResyncPoll, ReconnectArmed, TypeInv, TypeOK, queueVars
<1>2. CASE UNCHANGED <<linkVars, timerVars, pc, hand, wire>>
  <2>1. TimersOK' /\ delayed'["Connect"] = 0 /\ scheduled' = scheduled
    BY <1>1, <1>2, ScheduleTimers
  <2> QED
    BY <1>1, <1>2, <2>1 DEF SchedInv, TimersOK, LoopsOK, ReconnectArmed, LinkTruthful, linkVars, Capped
<1>3. CASE DeclareConnected /\ ArmAfterConnect /\ Idle
  <2>1. /\ TimersOK' /\ delayed' = delayed /\ "RunDataPolling" \in scheduled'
        /\ pending_writes # <<>> => "RetryWrites" \in scheduled'
    BY <1>1, <1>3, ArmTimers
  <2> QED
    BY <1>1, <1>3, <2>1, ManagerAssumption
    DEF ManagerAssumption, SchedInv, TimersOK, LoopsOK, ReconnectArmed, LinkTruthful, DeclareConnected, Idle, Capped
<1>4. CASE HandleDisconnect /\ Idle
  BY <1>1, <1>4, SchedDisconnect
<1> QED
  BY <1>2, <1>3, <1>4 DEF ResyncPoll

LEMMA SchedPoll == TypeInv /\ SchedInv /\ Poll => SchedInv'
<1> SUFFICES ASSUME TypeInv, SchedInv, Poll PROVE SchedInv'
  OBVIOUS
<1>1. /\ TimersOK /\ LoopsOK /\ TimerTypeOK /\ pc = "polling" /\ transport = "Some"
      /\ pending_writes' = pending_writes
  BY DEF SchedInv, Poll, ReconnectArmed, TypeInv, TypeOK, queueVars
<1>2. CASE (ClearFailures \/ CountFailure) /\ NextPollOrEnd
  <2>1. UNCHANGED <<transport, reconnect_attempt, link>>
    BY <1>2 DEF ClearFailures, CountFailure
  <2>2. CASE UNCHANGED <<timerVars, pc, hand, wire>>
    <3>1. TimersOK' /\ delayed'["Connect"] = delayed["Connect"] /\ scheduled' = scheduled
      BY <1>1, <2>2, ScheduleTimers
    <3> QED
      BY <1>1, <2>1, <2>2, <3>1, SchedSession DEF LoopsOK
  <2>3. CASE ScheduleDataPollingDelayed /\ Idle
    <3>1. /\ TimersOK' /\ delayed'["Connect"] = delayed["Connect"]
          /\ scheduled' = scheduled \union {"RunDataPolling"}
      BY <1>1, <2>3, ScheduleTimers
    <3> QED
      BY <1>1, <2>1, <2>3, <3>1, SchedSession DEF LoopsOK, Idle
  <2> QED
    BY <1>2, <2>2, <2>3 DEF NextPollOrEnd
<1>3. CASE HandleDisconnect /\ Idle
  BY <1>1, <1>3, SchedDisconnect
<1> QED
  BY <1>2, <1>3 DEF Poll

LEMMA SchedWrite == TypeInv /\ SchedInv /\ (WriteAck \/ Readback) => SchedInv'
<1> SUFFICES ASSUME TypeInv, SchedInv, WriteAck \/ Readback PROVE SchedInv'
  OBVIOUS
<1>1. /\ TimersOK /\ LoopsOK /\ TimerTypeOK /\ QueueTypeOK /\ HandOK /\ transport = "Some"
      /\ pc \in {"write", "readback"} /\ "RunDataPolling" \in scheduled
  BY DEF SchedInv, LoopsOK, WriteAck, Readback, ReconnectArmed, TypeInv, TypeOK
<1>2. CASE pc' = "readback" /\ UNCHANGED <<linkVars, timerVars, queueVars, replyVars, plan, hand, wire>>
  <2>1. TimersOK' /\ delayed'["Connect"] = delayed["Connect"] /\ scheduled' = scheduled
    BY <1>1, <1>2, ScheduleTimers
  <2> QED
    BY <1>1, <1>2, <2>1, SchedSession DEF LoopsOK, linkVars
<1>3. ASSUME NEW r, WriteFailed(r) PROVE SchedInv'
  <2>1. CASE HandleDisconnect /\ Idle
    BY <1>1, <2>1, SchedDisconnect
  <2>2. CASE CountFailure /\ ScheduleRetryWritesDelayed /\ Idle
    <3>1. /\ TimersOK' /\ delayed'["Connect"] = delayed["Connect"]
          /\ scheduled' = scheduled \union {"RetryWrites"}
      BY <1>1, <2>2, ScheduleTimers
    <3> QED
      BY <1>1, <2>2, <3>1, SchedSession DEF LoopsOK, Idle, CountFailure
  <2> QED
    BY <1>3, <2>1, <2>2 DEF WriteFailed
<1>4. CASE WriteDone
  <2>1. UNCHANGED <<transport, reconnect_attempt, link>> /\ pc' = "idle"
    BY <1>4 DEF WriteDone, ClearFailures, Idle
  <2>2. CASE ScheduleRetryWritesNow
    <3>1. /\ TimersOK' /\ delayed'["Connect"] = delayed["Connect"]
          /\ scheduled' = scheduled \union {"RetryWrites"}
      BY <1>1, <2>2, ScheduleTimers
    <3> QED
      BY <1>1, <2>1, <3>1, SchedSession DEF LoopsOK
  <2>3. CASE UNCHANGED timerVars
    <3>1. TimersOK' /\ delayed'["Connect"] = delayed["Connect"] /\ scheduled' = scheduled
      BY <1>1, <2>3, ScheduleTimers
    <3>2. pending_writes' # <<>> => "RetryWrites" \in scheduled'
      <4>1. CASE hand # 0
        BY <1>1, <1>4, <4>1 DEF HandOK, WriteDone, queueVars
      <4>2. CASE hand = 0 /\ Len(pending_writes) > 1
        BY <1>4, <3>1, <4>2 DEF WriteDone, ScheduleRetryWritesNow
      <4>3. CASE hand = 0 /\ ~(Len(pending_writes) > 1)
        <5>1. pending_writes # <<>>
          BY <1>1, <4>3 DEF HandOK
        <5>2. Tail(pending_writes) \in Seq(Seqs) /\ Len(Tail(pending_writes)) = 0
          <6>1. pending_writes \in Seq(Seqs) /\ Len(pending_writes) \in Nat \ {0}
            BY <1>1, <5>1, EmptySeq DEF QueueTypeOK
          <6>2. Tail(pending_writes) \in Seq(Seqs) /\ Len(Tail(pending_writes)) = Len(pending_writes) - 1
            BY <6>1, <5>1, HeadTailProperties
          <6> QED
            BY <4>3, <6>1, <6>2
        <5> QED
          BY <1>4, <4>3, <5>2, EmptySeq DEF WriteDone
      <4> QED
        BY <4>1, <4>2, <4>3
    <3> QED
      BY <1>1, <2>1, <3>1, <3>2, SchedSession DEF LoopsOK
  <2> QED
    BY <1>4, <2>2, <2>3 DEF WriteDone
<1> QED
  BY <1>2, <1>3, <1>4 DEF WriteAck, Readback

LEMMA SchedCommand == TypeInv /\ SchedInv /\ RecvCommand => SchedInv'
<1> SUFFICES ASSUME TypeInv, SchedInv, RecvCommand PROVE SchedInv'
  OBVIOUS
<1>1. /\ TimersOK /\ LoopsOK /\ TimerTypeOK /\ pc = "idle" /\ UNCHANGED linkVars
  BY DEF SchedInv, RecvCommand, TypeInv, TypeOK
<1>2. /\ TimersOK' /\ delayed'["Connect"] = delayed["Connect"] /\ scheduled \subseteq scheduled'
      /\ UNCHANGED timerVars \/ ("RetryWrites" \in scheduled' /\ transport = "Some")
  BY <1>1, ScheduleTimers DEF RecvCommand, WriteCommand
<1>3. /\ pc' \in {"idle", "write"} /\ (pc' = "write" => transport = "Some")
      /\ transport = "Some" /\ pc' = "idle" /\ pending_writes' # <<>> => "RetryWrites" \in scheduled'
  <2>1. CASE /\ MustQueue /\ ~Refused
             /\ IF transport = "Some" THEN ScheduleRetryWritesNow ELSE UNCHANGED timerVars
             /\ Idle
    BY <2>1 DEF ScheduleRetryWritesNow, Idle
  <2>2. CASE Idle /\ UNCHANGED <<timerVars, pending_writes>>
    BY <1>1, <2>2 DEF Idle, LoopsOK, timerVars
  <2>3. CASE ~MustQueue /\ StartWrite(Head(commands), Head(commands)) /\ UNCHANGED <<timerVars, pending_writes, failed>>
    BY <1>1, <2>3 DEF MustQueue, StartWrite, SchedInv, LinkTruthful, TypeInv, TypeOK, LinkTypeOK
  <2> QED
    BY <2>1, <2>2, <2>3 DEF RecvCommand, WriteCommand
<1> QED
  BY <1>1, <1>2, <1>3 DEF SchedInv, TimersOK, LoopsOK, ReconnectArmed, LinkTruthful, linkVars, Capped

LEMMA SchedRunDataPolling ==
  ASSUME TypeInv, SchedInv, pc = "idle", NEW q, NEW d \in [Kinds -> Nat], NEW late,
         RunDataPolling(q, d, late), d["Connect"] = delayed["Connect"],
         IsInjective(q), "Connect" \notin Range(q),
         "RunDataPolling" \notin Range(q), d["RunDataPolling"] = 0,
         "RetryWrites" \in Range(q) <=> "RetryWrites" \in Range(internal),
         d["RetryWrites"] = delayed["RetryWrites"]
  PROVE  SchedInv'
<1>1. TimersOK /\ LoopsOK /\ internal' = q /\ UNCHANGED linkVars /\ pending_writes' = pending_writes
  BY DEF SchedInv, RunDataPolling, queueVars
<1>2. CASE transport = "Some" /\ scheduled' = scheduled \union {"RunDataPolling"}
           /\ delayed' = [d EXCEPT !["RunDataPolling"] = @ + 1] /\ Idle
  <2>1. /\ delayed'["RunDataPolling"] = 1 /\ delayed'["Connect"] = delayed["Connect"]
        /\ delayed'["RetryWrites"] = delayed["RetryWrites"]
    BY <1>2 DEF Kinds
  <2>2. TimersOK'
    BY <1>1, <1>2, <2>1 DEF TimersOK, FlagTrue, Armed, Disarmed, Loops
  <2> QED
    BY <1>1, <1>2, <2>1, <2>2, SchedSession DEF LoopsOK, Idle, linkVars
<1>3. CASE scheduled' = scheduled \ {"RunDataPolling"} /\ delayed' = d
           /\ \/ transport = "None" /\ Idle
              \/ transport = "Some" /\ pc' = "polling"
  <2>1. TimersOK'
    BY <1>1, <1>3 DEF TimersOK, FlagTrue, Armed, Disarmed, Loops
  <2>2. CASE transport = "None" /\ Idle
    BY <1>1, <1>3, <2>1, <2>2 DEF SchedInv, TimersOK, LoopsOK, ReconnectArmed, LinkTruthful, linkVars, Capped, Idle
  <2>3. CASE transport = "Some" /\ pc' = "polling"
    BY <1>1, <1>3, <2>1, <2>3, SchedSession DEF LoopsOK, linkVars
  <2> QED
    BY <1>3, <2>2, <2>3
<1> QED
  BY <1>2, <1>3 DEF RunDataPolling

(* retry_writes, once its command has been taken off.                        *)
LEMMA SchedRetryWrites ==
  ASSUME TypeInv, SchedInv, pc = "idle", RetryWrites, TimersOK',
         delayed'["Connect"] = delayed["Connect"]
  PROVE  SchedInv'
<1>1. LoopsOK /\ UNCHANGED linkVars /\ scheduled' = scheduled \ {"RetryWrites"}
  BY DEF SchedInv, RetryWrites
<1>2. CASE transport = "None" /\ Idle
  BY <1>1, <1>2 DEF SchedInv, TimersOK, LoopsOK, ReconnectArmed, LinkTruthful, linkVars, Capped, Idle
<1>3. CASE transport = "Some" /\ pending_writes' = Unexpired /\ IF Unexpired = <<>> THEN Idle ELSE StartWrite(Head(Unexpired), 0)
  <2>1. pc' \in {"idle", "write"} /\ (pc' = "idle" => pending_writes' = <<>>)
    BY <1>3 DEF Idle, StartWrite
  <2> QED
    BY <1>1, <1>3, <2>1, SchedSession DEF LoopsOK, linkVars
<1> QED
  BY <1>2, <1>3 DEF RetryWrites

LEMMA SchedInternal == TypeInv /\ SchedInv /\ RecvInternal => SchedInv'
<1> SUFFICES ASSUME TypeInv, SchedInv, RecvInternal PROVE SchedInv'
  OBVIOUS
<1> DEFINE h == Head(internal)  q == Tail(internal)
<1>1. TimersOK /\ TimerTypeOK /\ pc = "idle" /\ internal # <<>> /\ internal \in Seq(Kinds) /\ delayed \in [Kinds -> Nat]
  BY DEF SchedInv, RecvInternal, TypeInv, TypeOK, TimerTypeOK
<1>2. Range(internal) = {h} \union Range(q) /\ IsInjective(q) /\ h \notin Range(q)
  BY <1>1, QueueTail DEF TimersOK
<1>3. CASE h = "RunDataPolling" /\ RunDataPolling(q, delayed, FALSE)
  <2>1. delayed["RunDataPolling"] = 0 /\ "Connect" \notin Range(q)
    BY <1>1, <1>2, <1>3 DEF TimersOK, FlagTrue, Armed, Disarmed, Loops
  <2> HIDE DEF q
  <2> QED
    BY <1>1, <1>2, <1>3, <2>1, SchedRunDataPolling
<1>4. CASE h = "RetryWrites" /\ internal' = q /\ delayed' = delayed /\ RetryWrites
  <2>1. TimersOK'
    BY <1>1, <1>4, TakeInternal DEF RetryWrites
  <2> QED
    BY <1>1, <1>4, <2>1, SchedRetryWrites
<1> QED
  BY <1>3, <1>4 DEF RecvInternal

LEMMA SchedDelayed ==
  TypeInv /\ SchedInv /\ (RecvDelayedPolling \/ RecvDelayedRetry \/ RecvConnect) => SchedInv'
<1> SUFFICES ASSUME TypeInv, SchedInv, RecvDelayedPolling \/ RecvDelayedRetry \/ RecvConnect PROVE SchedInv'
  OBVIOUS
<1>1. TimersOK /\ TimerTypeOK /\ pc = "idle"
  BY DEF SchedInv, RecvDelayedPolling, RecvDelayedRetry, RecvConnect, TypeInv, TypeOK
<1>2. CASE RecvDelayedPolling
  <2> DEFINE d == [delayed EXCEPT !["RunDataPolling"] = @ - 1]
  <2>1. "RunDataPolling" \notin Range(internal) /\ delayed["RunDataPolling"] = 1
    BY <1>1, <1>2 DEF RecvDelayedPolling, TimersOK, FlagTrue, Armed, Disarmed, Loops
  <2>2. /\ d \in [Kinds -> Nat] /\ d["RunDataPolling"] = 0
        /\ d["Connect"] = delayed["Connect"] /\ d["RetryWrites"] = delayed["RetryWrites"]
    BY <1>1, <2>1 DEF TimerTypeOK, Kinds
  <2>3. RunDataPolling(internal, d, TRUE) /\ IsInjective(internal) /\ "Connect" \notin Range(internal)
    BY <1>1, <1>2 DEF RecvDelayedPolling, TimersOK
  <2> HIDE DEF d
  <2> QED
    BY <1>1, <2>1, <2>2, <2>3, SchedRunDataPolling
<1>3. CASE RecvDelayedRetry
  <2>1. TimersOK' /\ delayed'["Connect"] = delayed["Connect"]
    BY <1>1, <1>3, TakeDelayed DEF RecvDelayedRetry, RetryWrites, Loops
  <2> QED
    BY <1>1, <1>3, <2>1, SchedRetryWrites DEF RecvDelayedRetry
<1>4. CASE RecvConnect
  <2>1. transport = "None" /\ delayed["Connect"] = 1
    BY <1>1, <1>4 DEF RecvConnect, SchedInv, ReconnectArmed, TypeInv, TypeOK, LinkTypeOK
  <2>2. /\ delayed'["Connect"] = 0 /\ \A k \in Loops : delayed'[k] = delayed[k]
        /\ pc' = "connect" /\ UNCHANGED <<linkVars, scheduled, internal, queueVars>>
    BY <1>1, <1>4, <2>1 DEF RecvConnect, TimerTypeOK, Kinds, Loops
  <2>3. TimersOK'
    BY <1>1, <2>2 DEF TimersOK, FlagTrue, Armed, Disarmed
  <2> QED
    BY <1>1, <2>1, <2>2, <2>3 DEF SchedInv, TimersOK, LoopsOK, ReconnectArmed, LinkTruthful, linkVars, Capped
<1> QED
  BY <1>2, <1>3, <1>4

LEMMA SchedWorld ==
  TypeInv /\ SchedInv /\ (World \/ RecvClosed \/ UNCHANGED vars) => SchedInv'
<1> SUFFICES ASSUME TypeInv, SchedInv, World \/ RecvClosed \/ UNCHANGED vars PROVE SchedInv'
  OBVIOUS
<1>1. /\ UNCHANGED linkVars /\ UNCHANGED timerVars /\ pending_writes' = pending_writes
      /\ pc' = pc \/ (pc = "idle" /\ pc' = "done")
  BY DEF World, Submit, Close, WriteTtlElapses, LineSettles, RecvClosed, vars, queueVars, workVars
<1>2. TimersOK' /\ delayed'["Connect"] = delayed["Connect"] /\ scheduled' = scheduled
  BY <1>1, ScheduleTimers DEF SchedInv, TypeInv, TypeOK
<1> QED
  BY <1>1, <1>2
  DEF SchedInv, TimersOK, LoopsOK, ReconnectArmed, LinkTruthful, linkVars, Capped, TypeInv, TypeOK, LinkTypeOK

LEMMA SchedNext == TypeInv /\ SchedInv /\ [Next]_vars => SchedInv'
BY SchedOpen, SchedResync, SchedPoll, SchedWrite, SchedCommand, SchedInternal, SchedDelayed, SchedWorld
DEF Next, Busy, Select, Terminated

LEMMA SchedInvariant == Spec => []SchedInv
<1>1. Spec => []TypeInv
  BY TypeInit, TypeNext, PTL DEF Spec
<1>2. Init => SchedInv
  BY SchedInit
<1>3. TypeInv /\ SchedInv /\ [Next]_vars => SchedInv'
  BY SchedNext
<1> QED
  BY <1>1, <1>2, <1>3, PTL DEF Spec

(* The polling loop never stops and never multiplies: one RunDataPolling is  *)
(* on its way exactly when data_polling_scheduled is set, and it is set      *)
(* whenever the actor rests with the link up.                                *)
THEOREM PollingNeverLost == Spec => []PollingArmed
BY SchedInvariant, SchedParts, PTL

(* No queued write is forgotten: one RetryWrites is on its way exactly when  *)
(* retry_writes_scheduled is set, and it is set whenever the actor rests     *)
(* with the link up and writes pending.                                      *)
THEOREM RetryNeverLost == Spec => []RetryArmed
BY SchedInvariant, SchedParts, PTL

(* Without a transport exactly one reconnect is scheduled, with one none.    *)
THEOREM ReconnectExactlyOnce == Spec => []ReconnectArmed
BY SchedInvariant, SchedParts, PTL

(* The ConnectionState last emitted is true of the link.                     *)
THEOREM LinkStateTruthful == Spec => []LinkTruthful
BY SchedInvariant, SchedParts, PTL

-----------------------------------------------------------------------------
(* The writes: none is lost or answered twice, none overtakes another on the *)
(* wire, none goes out when it is stale, and the actor implements            *)
(* WriteService.                                                             *)


(* The invariant: besides WritesConserved, seqs are handed out in ascending  *)
(* order, and nothing outstanding is older than what was last put on the     *)
(* wire.                                                                     *)
WriteInv ==
  /\ WritesConserved
  /\ \A s \in accepted : s < next_seq
  /\ wire < next_seq
  /\ \A s \in accepted \ Answered : wire <= s

(* What a step does that the abstract specification and the order on the     *)
(* wire allow.                                                               *)
StepOK == [Promise!Next]_Promise!vars /\ wire' >= wire

LEMMA SeqsAreNat ==
  ASSUME TypeInv
  PROVE  /\ Seqs \subseteq Nat /\ 0 \notin Seqs
         /\ pending_writes \in Seq(Seqs) /\ pending_writes \in Seq(Nat)
         /\ commands \in Seq(Seqs) /\ commands \in Seq(Nat)
         /\ accepted \subseteq Nat /\ hand \in Nat /\ wire \in Nat /\ next_seq \in Nat
<1>1. Seqs \subseteq Nat /\ 0 \notin Seqs
  BY DEF Seqs
<1>2. /\ pending_writes \in Seq(Seqs) /\ commands \in Seq(Seqs)
      /\ accepted \subseteq Seqs
  BY DEF TypeInv, TypeOK, QueueTypeOK, CallTypeOK
<1>3. pending_writes \in Seq(Nat) /\ commands \in Seq(Nat)
  BY <1>1, <1>2, SeqMonotonic
<1>4. hand \in Nat /\ wire \in Nat /\ next_seq \in Nat
  BY ManagerAssumption DEF ManagerAssumption, TypeInv, TypeOK, CallTypeOK, WorkTypeOK
<1> QED
  BY <1>1, <1>2, <1>3, <1>4

LEMMA CommandsPositive ==
  ASSUME TypeInv
  PROVE  \A c \in Range(commands) : 0 < c
<1>1. Range(commands) \subseteq Seqs
  BY SeqsAreNat, RangeOfSeq
<1> QED
  BY <1>1 DEF Seqs

LEMMA WriteInit == Init => WriteInv /\ Promise!Init
<1> SUFFICES ASSUME Init PROVE WriteInv /\ Promise!Init
  OBVIOUS
<1>1. Range(pending_writes) = {} /\ Range(commands) = {}
  BY DEF Init, Range
<1>2. Ascending(pending_writes) /\ Ascending(commands)
  BY DEF Init, Ascending
<1> QED
  BY <1>1, <1>2 DEF Init, WriteInv, WritesConserved, HandOK, Answered, InHand, Promise!Init

(* Steps that have nothing to do with writes.                                *)
LEMMA WriteQuiet ==
  ASSUME TypeInv, WriteInv, HandOK',
         UNCHANGED <<pending_writes, commands, next_seq, accepted, confirmed, failed, hand, wire>>
  PROVE  WriteInv' /\ StepOK
<1>1. WriteInv'
  BY DEF WriteInv, WritesConserved, Answered, InHand, Ascending
<1>2. wire' >= wire
  BY SeqsAreNat
<1> QED
  BY <1>1, <1>2 DEF StepOK, Promise!vars

LEMMA WriteSubmit == TypeInv /\ WriteInv /\ Submit => WriteInv' /\ StepOK
<1> SUFFICES ASSUME TypeInv, WriteInv, Submit PROVE WriteInv' /\ StepOK
  OBVIOUS
<1>1. /\ next_seq' = next_seq + 1
      /\ UNCHANGED <<pending_writes, pc, hand, wire, confirmed, failed>>
      /\ next_seq \in Seqs
  BY ManagerAssumption
  DEF ManagerAssumption, Submit, queueVars, workVars, replyVars, TypeInv, TypeOK, CallTypeOK, Seqs
<1>2. wire' >= wire /\ wire' < next_seq'
  BY <1>1, SeqsAreNat DEF WriteInv
<1>3. HandOK'
  BY <1>1 DEF WriteInv, WritesConserved, HandOK
<1>4. CASE UNCHANGED <<commands, accepted>>
  <2>1. \A s \in accepted' : s < next_seq'
    BY <1>1, <1>4, SeqsAreNat DEF WriteInv
  <2>2. WritesConserved' /\ \A s \in accepted' \ Answered' : wire' <= s
    BY <1>1, <1>3, <1>4 DEF WriteInv, WritesConserved, Answered, InHand, Ascending
  <2> QED
    BY <1>1, <1>2, <1>4, <2>1, <2>2 DEF WriteInv, StepOK, Promise!vars
<1>5. CASE commands' = Append(commands, next_seq) /\ accepted' = accepted \union {next_seq}
  <2>1. next_seq \in Nat /\ \A s \in accepted : s < next_seq /\ s \in Nat
    BY SeqsAreNat DEF WriteInv
  <2>2. next_seq \notin accepted /\ next_seq \notin Answered
    BY <2>1 DEF WriteInv, WritesConserved
  <2>3. /\ Range(pending_writes) \subseteq accepted
        /\ Range(commands) \subseteq accepted
        /\ hand # 0 => hand \in accepted
    BY DEF WriteInv, WritesConserved, InHand
  <2>4. Range(commands') = Range(commands) \union {next_seq}
    BY <1>1, <1>5, QueueAppend, SeqsAreNat
  <2>5. Ascending(commands')
    BY <1>5, <2>1, <2>3, AscendingAppend, SeqsAreNat DEF WriteInv, WritesConserved
  <2>6. hand < next_seq
    BY <2>1, <2>3, SeqsAreNat DEF Seqs, TypeInv, TypeOK, CallTypeOK
  <2>7. accepted' \ Answered' = (accepted \ Answered) \union {next_seq}
    BY <1>1, <1>5, <2>2 DEF Answered
  <2>8. WritesConserved'
    <3>1. accepted' \ Answered' = Range(pending_writes') \union InHand' \union Range(commands')
      BY <1>1, <2>4, <2>7 DEF WriteInv, WritesConserved, InHand
    <3>2. \A p \in Range(pending_writes'), c \in Range(commands') : p < c
      BY <1>1, <2>1, <2>3, <2>4 DEF WriteInv, WritesConserved
    <3>3. \A c \in Range(commands') : hand' < c
      BY <1>1, <2>4, <2>6 DEF WriteInv, WritesConserved
    <3>4. Answered' \subseteq accepted' /\ confirmed' \intersect failed' = {} /\ Ascending(pending_writes')
      BY <1>1, <1>5 DEF WriteInv, WritesConserved, Answered
    <3> QED
      BY <1>3, <2>5, <3>1, <3>2, <3>3, <3>4 DEF WritesConserved
  <2>9. /\ \A s \in accepted' : s < next_seq'
        /\ \A s \in accepted' \ Answered' : wire' <= s
    BY <1>1, <1>5, <2>1, <2>7, SeqsAreNat DEF WriteInv
  <2>10. Promise!Next
    BY <1>1, <1>5, <2>1 DEF Promise!Next, Promise!Accept
  <2> QED
    BY <1>2, <2>8, <2>9, <2>10 DEF WriteInv, StepOK
<1> QED
  BY <1>4, <1>5 DEF Submit

(* A write goes on the wire: the oldest outstanding one.                     *)
LEMMA WriteStart ==
  ASSUME TypeInv, WriteInv, NEW s \in accepted' \ Answered', wire' = s,
         accepted' = accepted, next_seq' = next_seq, Answered \subseteq Answered',
         \A r \in accepted' \ Answered' : s <= r
  PROVE  /\ wire' >= wire /\ wire' < next_seq'
         /\ \A r \in accepted' \ Answered' : wire' <= r
BY SeqsAreNat DEF WriteInv

LEMMA WriteCommandStep == TypeInv /\ WriteInv /\ HandOK' /\ RecvCommand => WriteInv' /\ StepOK
<1> SUFFICES ASSUME TypeInv, WriteInv, HandOK', RecvCommand PROVE WriteInv' /\ StepOK
  OBVIOUS
<1> DEFINE s == Head(commands)  rest == Tail(commands)
<1>1. /\ pc = "idle" /\ commands # <<>> /\ commands' = rest
      /\ UNCHANGED <<confirmed, accepted, next_seq>>
  BY DEF RecvCommand
<1>2. hand = 0 /\ InHand = {}
  BY <1>1 DEF WriteInv, WritesConserved, HandOK, InHand
<1>3. /\ Range(commands) = {s} \union Range(rest)
      /\ Ascending(rest) /\ \A x \in Range(rest) : s < x
  BY <1>1, QueueTail, AscendingTail, SeqsAreNat DEF WriteInv, WritesConserved
<1>4. s \in Nat /\ s \in Seqs /\ rest \in Seq(Seqs) /\ s # 0
  BY <1>1, HeadTailProperties, SeqsAreNat
<1>5. /\ accepted \ Answered = Range(pending_writes) \union {s} \union Range(rest)
      /\ \A p \in Range(pending_writes) : p < s /\ p \in Nat /\ \A c \in Range(rest) : p < c
      /\ Ascending(pending_writes)
  BY <1>2, <1>3, RangeOfSeq, SeqsAreNat DEF WriteInv, WritesConserved
<1>6. \A x \in Range(rest) : x \in Nat /\ x # 0
  BY <1>4, RangeOfSeq, SeqsAreNat
<1> HIDE DEF s, rest
<1>7. s \in accepted /\ s \notin Answered /\ s \notin Range(pending_writes) /\ s \notin Range(rest)
  BY <1>3, <1>4, <1>5
<1>8. CASE failed' = failed \union {s} /\ Idle /\ pending_writes' = pending_writes
  <2>1. hand' = 0 /\ InHand' = {} /\ wire' = wire
    BY <1>8 DEF Idle, InHand
  <2>2. accepted' \ Answered' = Range(pending_writes) \union Range(rest)
    BY <1>1, <1>5, <1>7, <1>8 DEF Answered
  <2>3. WritesConserved'
    <3>1. confirmed' \intersect failed' = {} /\ Answered' \subseteq accepted'
      BY <1>1, <1>7, <1>8 DEF WriteInv, WritesConserved, Answered
    <3> QED
      BY <1>1, <1>3, <1>5, <1>6, <1>8, <2>1, <2>2, <3>1 DEF WritesConserved
  <2>4. WriteInv' /\ wire' >= wire
    BY <1>1, <1>5, <2>1, <2>2, <2>3, SeqsAreNat DEF WriteInv
  <2>5. Promise!Next
    <3>1. {s} \in SUBSET Promise!Outstanding
      BY <1>7 DEF Promise!Outstanding, Promise!Answered, Answered
    <3>2. Promise!Fail({s})
      BY <1>1, <1>8 DEF Promise!Fail
    <3> QED
      BY <3>1, <3>2 DEF Promise!Next
  <2> QED
    BY <2>4, <2>5 DEF StepOK
<1>9. CASE failed' = failed /\ Idle /\ pending_writes' = Append(pending_writes, s)
  <2>1. hand' = 0 /\ InHand' = {} /\ wire' = wire
    BY <1>9 DEF Idle, InHand
  <2>2. accepted' \ Answered' = accepted \ Answered /\ Answered' = Answered
    BY <1>1, <1>9 DEF Answered
  <2>3. Range(pending_writes') = Range(pending_writes) \union {s}
    BY <1>4, <1>9, QueueAppend, SeqsAreNat
  <2>4. Ascending(pending_writes')
    BY <1>4, <1>5, <1>9, AscendingAppend, SeqsAreNat
  <2>5. WritesConserved'
    <3>1. confirmed' \intersect failed' = {} /\ Answered' \subseteq accepted'
      BY <1>1, <1>9, <2>2 DEF WriteInv, WritesConserved
    <3>2. accepted' \ Answered' = Range(pending_writes') \union InHand' \union Range(commands')
      BY <1>1, <1>5, <2>1, <2>2, <2>3
    <3>3. \A p \in Range(pending_writes'), c \in Range(commands') : p < c
      BY <1>1, <1>3, <1>5, <2>3
    <3> QED
      BY <1>1, <1>3, <1>6, <2>1, <2>4, <3>1, <3>2, <3>3 DEF WritesConserved
  <2>6. WriteInv' /\ wire' >= wire
    BY <1>1, <2>1, <2>2, <2>5, SeqsAreNat DEF WriteInv
  <2> QED
    BY <1>1, <1>9, <2>6 DEF StepOK, Promise!vars
<1>10. CASE ~MustQueue /\ failed' = failed /\ StartWrite(s, s) /\ pending_writes' = pending_writes
  <2>1. /\ pending_writes = <<>> /\ Range(pending_writes) = {} /\ hand' = s /\ wire' = s
        /\ InHand' = {s}
    BY <1>4, <1>10 DEF MustQueue, StartWrite, InHand, Range
  <2>2. accepted' \ Answered' = accepted \ Answered /\ Answered' = Answered
    BY <1>1, <1>10 DEF Answered
  <2>3. WritesConserved'
    <3>1. confirmed' \intersect failed' = {} /\ Answered' \subseteq accepted'
      BY <1>1, <1>10, <2>2 DEF WriteInv, WritesConserved
    <3>2. accepted' \ Answered' = Range(pending_writes') \union InHand' \union Range(commands')
      BY <1>1, <1>5, <1>10, <2>1, <2>2
    <3> QED
      BY <1>1, <1>3, <1>5, <1>10, <2>1, <3>1, <3>2 DEF WritesConserved
  <2>4. \A r \in accepted' \ Answered' : s <= r
    BY <1>3, <1>4, <1>5, <1>6, <2>1, <2>2
  <2>5. /\ wire' >= wire /\ wire' < next_seq'
        /\ \A r \in accepted' \ Answered' : wire' <= r
    BY <1>1, <1>7, <2>1, <2>2, <2>4, WriteStart
  <2>6. WriteInv'
    BY <1>1, <2>3, <2>5 DEF WriteInv
  <2> QED
    BY <1>1, <1>10, <2>5, <2>6 DEF StepOK, Promise!vars
<1> QED
  BY <1>8, <1>9, <1>10 DEF RecvCommand, WriteCommand, s

(* The eviction splits the queue in two.                                     *)
LEMMA EvictionSplits ==
  ASSUME TypeInv, Ascending(pending_writes)
  PROVE  /\ Range(pending_writes) = Evicted \union Range(Unexpired)
         /\ Evicted \intersect Range(Unexpired) = {}
         /\ Ascending(Unexpired) /\ Unexpired \in Seq(Seqs)
<1> DEFINE n == Len(pending_writes)
<1>1. /\ n \in Nat /\ expired \in 0 .. n
      /\ Unexpired \in Seq(Seqs) /\ Len(Unexpired) = n - expired
      /\ \A i \in 1 .. Len(Unexpired) : Unexpired[i] = pending_writes[expired + i]
      /\ Evicted = {pending_writes[i] : i \in 1 .. expired}
  BY UnexpiredProperties, LenProperties DEF TypeInv, TypeOK, QueueTypeOK
<1>2. /\ Range(pending_writes) = {pending_writes[i] : i \in 1 .. n}
      /\ Range(Unexpired) = {Unexpired[i] : i \in 1 .. Len(Unexpired)}
  BY <1>1, RangeEquality, SeqsAreNat
<1> HIDE DEF n
<1>3. \A i \in 1 .. n : pending_writes[i] \in Nat
  BY SeqsAreNat, ElementOfSeq DEF n
<1>4. \A i, j \in 1 .. n : i < j => pending_writes[i] < pending_writes[j]
  BY DEF Ascending, n
<1>5. \A i \in 1 .. n : i \in 1 .. expired \/ (i - expired \in 1 .. Len(Unexpired) /\ pending_writes[i] = Unexpired[i - expired])
  BY <1>1
<1>6. \A i \in 1 .. Len(Unexpired) : expired + i \in 1 .. n /\ \A j \in 1 .. expired : j < expired + i /\ j \in 1 .. n
  BY <1>1
<1>7. Range(pending_writes) = Evicted \union Range(Unexpired)
  <2>1. Range(pending_writes) \subseteq Evicted \union Range(Unexpired)
    BY <1>1, <1>2, <1>5
  <2>2. Evicted \subseteq Range(pending_writes)
    BY <1>1, <1>2
  <2>3. Range(Unexpired) \subseteq Range(pending_writes)
    BY <1>1, <1>2, <1>6
  <2> QED
    BY <2>1, <2>2, <2>3
<1>8. \A x \in Evicted, y \in Range(Unexpired) : x < y /\ x \in Nat /\ y \in Nat
  BY <1>1, <1>2, <1>3, <1>4, <1>6
<1>9. Evicted \intersect Range(Unexpired) = {}
  BY <1>8
<1>10. Ascending(Unexpired)
  <2> SUFFICES ASSUME NEW i \in 1 .. Len(Unexpired), NEW j \in 1 .. Len(Unexpired), i < j
               PROVE  Unexpired[i] < Unexpired[j]
    BY DEF Ascending
  <2>1. expired + i \in 1 .. n /\ expired + j \in 1 .. n /\ expired + i < expired + j
    BY <1>1
  <2> QED
    BY <2>1, <1>1, <1>4
<1> QED
  BY <1>1, <1>7, <1>9, <1>10

LEMMA WriteRetryStep ==
  ASSUME TypeInv, WriteInv, HandOK', pc = "idle", RetryWrites, UNCHANGED callVars
  PROVE  WriteInv' /\ StepOK
<1>1. hand = 0 /\ InHand = {} /\ confirmed' = confirmed /\ UNCHANGED <<accepted, commands, next_seq>>
  BY DEF WriteInv, WritesConserved, HandOK, InHand, RetryWrites, callVars
<1>2. CASE Idle /\ UNCHANGED <<queueVars, failed>>
  BY <1>1, <1>2, WriteQuiet DEF Idle, queueVars, callVars, replyVars
<1>3. CASE /\ pending_writes' = Unexpired /\ failed' = failed \union Evicted
           /\ IF Unexpired = <<>> THEN Idle ELSE StartWrite(Head(Unexpired), 0)
  <2>1. /\ Range(pending_writes) = Evicted \union Range(Unexpired)
        /\ Evicted \intersect Range(Unexpired) = {}
        /\ Ascending(Unexpired) /\ Unexpired \in Seq(Seqs)
    BY EvictionSplits DEF WriteInv, WritesConserved
  <2>2. accepted \ Answered = Evicted \union Range(Unexpired) \union Range(commands)
    BY <1>1, <2>1 DEF WriteInv, WritesConserved
  <2>3. Evicted \intersect Range(commands) = {} /\ Evicted \intersect Answered = {} /\ Evicted \subseteq accepted
    <3>1. \A p \in Evicted, c \in Range(commands) : p < c /\ p \in Nat
      BY <2>1, RangeOfSeq, SeqsAreNat DEF WriteInv, WritesConserved
    <3> QED
      BY <2>2, <3>1
  <2>4. accepted' \ Answered' = Range(Unexpired) \union Range(commands)
    BY <1>1, <1>3, <2>1, <2>2, <2>3 DEF Answered
  <2>5. hand' = 0 /\ InHand' = {}
    BY <1>3 DEF Idle, StartWrite, InHand
  <2>6. WritesConserved'
    <3>1. confirmed' \intersect failed' = {} /\ Answered' \subseteq accepted'
      BY <1>1, <1>3, <2>3 DEF WriteInv, WritesConserved, Answered
    <3>2. \A p \in Range(pending_writes'), c \in Range(commands') : p < c
      BY <1>1, <1>3, <2>1 DEF WriteInv, WritesConserved
    <3>3. \A c \in Range(commands') : hand' < c
      BY <1>1, <2>5 DEF WriteInv, WritesConserved
    <3> QED
      BY <1>1, <1>3, <2>1, <2>4, <2>5, <3>1, <3>2, <3>3 DEF WriteInv, WritesConserved
  <2>7. /\ wire' >= wire /\ wire' < next_seq'
        /\ \A r \in accepted' \ Answered' : wire' <= r
    <3>1. CASE Unexpired = <<>>
      <4>1. wire' = wire
        BY <1>3, <3>1 DEF Idle
      <4> QED
        BY <1>1, <2>2, <2>4, <4>1, SeqsAreNat DEF WriteInv
    <3>2. CASE Unexpired # <<>>
      <4> DEFINE h == Head(Unexpired)
      <4>1. wire' = h
        BY <1>3, <3>2 DEF StartWrite
      <4>2. /\ Range(Unexpired) = {h} \union Range(Tail(Unexpired))
            /\ h \in Seqs
        BY <2>1, <3>2, QueueTail, HeadTailProperties
      <4>3. \A x \in Range(Tail(Unexpired)) : h < x
        <5>1. Unexpired \in Seq(Nat)
          BY <2>1, SeqsAreNat, SeqMonotonic
        <5> QED
          BY <2>1, <3>2, <5>1, AscendingTail
      <4>4. \A c \in Range(commands) : h < c
        BY <2>1, <4>2 DEF WriteInv, WritesConserved
      <4>5. accepted' \subseteq Nat
        BY <1>1, SeqsAreNat
      <4> HIDE DEF h
      <4>6. h \in accepted' \ Answered' /\ \A r \in accepted' \ Answered' : h <= r
        <5>1. h \in Range(Unexpired) /\ h \in Nat
          BY <4>2, SeqsAreNat
        <5>2. \A r \in Range(Unexpired) \union Range(commands) : r = h \/ h < r
          BY <4>2, <4>3, <4>4
        <5>3. \A r \in accepted' \ Answered' : r \in Nat /\ r \in Range(Unexpired) \union Range(commands)
          BY <2>4, <4>5
        <5>4. \A r \in accepted' \ Answered' : h <= r
          BY <5>1, <5>2, <5>3
        <5> QED
          BY <2>4, <5>1, <5>4
      <4> QED
        BY <1>1, <1>3, <4>1, <4>6, WriteStart DEF Answered
    <3> QED
      BY <3>1, <3>2
  <2>8. WriteInv'
    BY <1>1, <2>6, <2>7 DEF WriteInv
  <2>9. [Promise!Next]_Promise!vars
    <3>1. CASE Evicted = {}
      BY <1>1, <1>3, <3>1 DEF Promise!vars
    <3>2. CASE Evicted # {}
      <4>1. Evicted \in SUBSET Promise!Outstanding
        BY <2>3 DEF Promise!Outstanding, Promise!Answered, Answered
      <4>2. Promise!Fail(Evicted)
        BY <1>1, <1>3, <3>2 DEF Promise!Fail
      <4> QED
        BY <4>1, <4>2 DEF Promise!Next
    <3> QED
      BY <3>1, <3>2
  <2> QED
    BY <2>7, <2>8, <2>9 DEF StepOK
<1> QED
  BY <1>2, <1>3 DEF RetryWrites

LEMMA WriteFailedStep ==
  ASSUME TypeInv, WriteInv, HandOK', NEW r, WriteFailed(r), UNCHANGED callVars
  PROVE  WriteInv' /\ StepOK
<1>1. /\ pending_writes' = Requeued /\ hand' = 0 /\ wire' = wire /\ InHand' = {}
      /\ UNCHANGED <<confirmed, failed, accepted, commands, next_seq>>
  BY DEF WriteFailed, Idle, InHand, replyVars, callVars
<1>2. CASE hand = 0
  BY <1>1, <1>2, WriteQuiet DEF Requeued, callVars, replyVars
<1>3. CASE hand # 0
  <2>1. pending_writes = <<>> /\ Range(pending_writes) = {} /\ hand \in Seqs /\ InHand = {hand}
    BY <1>3 DEF WriteInv, WritesConserved, HandOK, Range, InHand, TypeInv, TypeOK, WorkTypeOK, Seqs
  <2>2. pending_writes' = Append(pending_writes, hand)
    BY <1>1, <1>3 DEF Requeued
  <2>3. Range(pending_writes') = {hand}
    <3>1. Range(Append(pending_writes, hand)) = Range(pending_writes) \union {hand}
      <4>1. pending_writes \in Seq(Seqs) /\ hand \in Seqs
        BY <2>1, SeqsAreNat
      <4> QED
        BY <4>1, QueueAppend
    <3> QED
      BY <2>1, <2>2, <3>1
  <2>4. Ascending(pending_writes')
    BY <2>1, <2>2, AscendingAppend, SeqsAreNat DEF WriteInv, WritesConserved
  <2>5. Answered' = Answered
    BY <1>1 DEF Answered
  <2>6. WritesConserved'
    <3>1. \A c \in Range(commands') : hand' < c
      BY <1>1, CommandsPositive
    <3> QED
      BY <1>1, <2>1, <2>3, <2>4, <2>5, <3>1 DEF WriteInv, WritesConserved
  <2> QED
    BY <1>1, <2>5, <2>6, SeqsAreNat DEF WriteInv, StepOK, Promise!vars
<1> QED
  BY <1>2, <1>3

LEMMA WriteDoneStep ==
  ASSUME TypeInv, WriteInv, HandOK', pc = "readback", WriteDone, UNCHANGED callVars
  PROVE  WriteInv' /\ StepOK
<1> DEFINE w == Current
<1>1. /\ confirmed' = confirmed \union {w} /\ failed' = failed
      /\ hand' = 0 /\ wire' = wire /\ InHand' = {}
      /\ UNCHANGED <<accepted, commands, next_seq>>
  BY DEF WriteDone, Idle, InHand, callVars
<1>2. /\ w \in Seqs /\ Range(pending_writes) \union InHand = {w} \union Range(pending_writes')
      /\ \A x \in Range(pending_writes') : w < x
      /\ Ascending(pending_writes')
      /\ \A c \in Range(commands) : w < c
      /\ \A p \in Range(pending_writes'), c \in Range(commands') : p < c
  <2>1. CASE hand = 0
    <3>1. w = Head(pending_writes) /\ pending_writes' = Tail(pending_writes) /\ pending_writes # <<>> /\ InHand = {}
      BY <2>1 DEF Current, WriteDone, WriteInv, WritesConserved, HandOK, InHand
    <3>2. /\ Range(pending_writes) = {w} \union Range(pending_writes')
          /\ Ascending(pending_writes') /\ \A x \in Range(pending_writes') : w < x
      BY <3>1, QueueTail, AscendingTail, SeqsAreNat DEF WriteInv, WritesConserved
    <3>3. w \in Seqs
      BY <3>2, RangeOfSeq, SeqsAreNat
    <3> HIDE DEF w
    <3> QED
      BY <1>1, <3>1, <3>2, <3>3 DEF WriteInv, WritesConserved
  <2>2. CASE hand # 0
    <3>1. w = hand /\ pending_writes' = pending_writes /\ Range(pending_writes) = {} /\ InHand = {hand}
      BY <2>2 DEF Current, WriteDone, queueVars, WriteInv, WritesConserved, HandOK, InHand, Range
    <3>2. w \in Seqs
      BY <2>2, <3>1 DEF TypeInv, TypeOK, WorkTypeOK, Seqs
    <3> HIDE DEF w
    <3> QED
      BY <1>1, <3>1, <3>2 DEF WriteInv, WritesConserved
  <2> QED
    BY <2>1, <2>2
<1> HIDE DEF w
<1>3. /\ accepted \ Answered = {w} \union Range(pending_writes') \union Range(commands)
      /\ w \in accepted /\ w \notin Answered
  <2>1. accepted \ Answered = {w} \union Range(pending_writes') \union Range(commands)
    BY <1>2 DEF WriteInv, WritesConserved
  <2> QED
    BY <2>1
<1>4. w \in Nat /\ w \notin Range(pending_writes') /\ w \notin Range(commands)
  BY <1>2, SeqsAreNat
<1>5. accepted' \ Answered' = Range(pending_writes') \union Range(commands')
  BY <1>1, <1>3, <1>4 DEF Answered
<1>6. WritesConserved'
  <2>1. confirmed' \intersect failed' = {} /\ Answered' \subseteq accepted'
    BY <1>1, <1>3 DEF WriteInv, WritesConserved, Answered
  <2>2. \A c \in Range(commands') : hand' < c
    BY <1>1, CommandsPositive
  <2> QED
    BY <1>1, <1>2, <1>5, <2>1, <2>2 DEF WriteInv, WritesConserved
<1>7. WriteInv' /\ wire' >= wire
  <2>1. \A r \in accepted' \ Answered' : wire' <= r
    BY <1>1, <1>3, <1>5 DEF WriteInv
  <2> QED
    BY <1>1, <1>6, <2>1, SeqsAreNat DEF WriteInv
<1>8. Promise!Next
  <2>1. w \in Promise!Outstanding
    BY <1>3 DEF Promise!Outstanding, Promise!Answered, Answered
  <2>2. \A r \in Promise!Outstanding : w <= r
    <3>1. accepted \subseteq Nat
      BY SeqsAreNat
    <3> QED
      BY <1>1, <1>2, <1>3, <1>4, <3>1 DEF Promise!Outstanding, Promise!Answered, Answered
  <2>3. Promise!Confirm(w)
    BY <1>1, <2>2 DEF Promise!Confirm
  <2> QED
    BY <2>1, <2>3 DEF Promise!Next
<1> QED
  BY <1>7, <1>8 DEF StepOK

LEMMA WriteStep == TypeInv /\ WriteInv /\ [Next]_vars => WriteInv' /\ StepOK
<1> SUFFICES ASSUME TypeInv, WriteInv, [Next]_vars PROVE WriteInv' /\ StepOK
  OBVIOUS
<1>1. HandOK'
  BY TypeNext DEF TypeInv
<1>2. CASE Open \/ ResyncPoll \/ Poll \/ RecvConnect \/ Close \/ WriteTtlElapses \/ LineSettles \/ RecvClosed \/ UNCHANGED vars
  <2>1. hand = 0 \/ UNCHANGED hand
    BY <1>2 DEF WriteInv, WritesConserved, HandOK, Open, ResyncPoll, Poll, RecvConnect, Close, WriteTtlElapses, LineSettles, RecvClosed, vars, workVars
  <2>2. UNCHANGED <<pending_writes, hand, wire>>
    BY <1>2, <2>1 DEF Open, ResyncPoll, Poll, NextPollOrEnd, RecvConnect, Close, WriteTtlElapses, LineSettles, RecvClosed, vars, queueVars, workVars, Idle
  <2>3. UNCHANGED <<commands, next_seq, accepted, confirmed, failed>>
    BY <1>2 DEF Open, ResyncPoll, Poll, RecvConnect, Close, WriteTtlElapses, LineSettles, RecvClosed, vars, callVars, replyVars
  <2> QED
    BY <1>1, <2>2, <2>3, WriteQuiet
<1>3. CASE Submit
  BY <1>3, WriteSubmit
<1>4. CASE RecvCommand
  BY <1>1, <1>4, WriteCommandStep
<1>5. CASE WriteAck \/ Readback
  <2>1. UNCHANGED callVars
    BY <1>5 DEF WriteAck, Readback
  <2>2. CASE UNCHANGED <<linkVars, timerVars, queueVars, replyVars, plan, hand, wire>>
    BY <1>1, <2>1, <2>2, WriteQuiet DEF queueVars, callVars, replyVars
  <2>3. ASSUME NEW r, WriteFailed(r) PROVE WriteInv' /\ StepOK
    BY <1>1, <2>1, <2>3, WriteFailedStep
  <2>4. CASE pc = "readback" /\ WriteDone
    BY <1>1, <2>1, <2>4, WriteDoneStep
  <2> QED
    BY <1>5, <2>2, <2>3, <2>4 DEF WriteAck, Readback
<1>6. CASE RecvInternal \/ RecvDelayedPolling \/ RecvDelayedRetry
  <2>1. UNCHANGED callVars /\ pc = "idle"
    BY <1>6 DEF RecvInternal, RecvDelayedPolling, RecvDelayedRetry
  <2>2. CASE RetryWrites
    BY <1>1, <2>1, <2>2, WriteRetryStep
  <2>3. ASSUME NEW q, NEW d, NEW late, RunDataPolling(q, d, late) PROVE WriteInv' /\ StepOK
    <3>1. UNCHANGED <<pending_writes, replyVars, hand, wire>>
      <4>1. hand = 0
        BY <2>1 DEF WriteInv, WritesConserved, HandOK
      <4> QED
        BY <2>3, <4>1 DEF RunDataPolling, queueVars, Idle
    <3> QED
      BY <1>1, <2>1, <3>1, WriteQuiet DEF callVars, replyVars
  <2> QED
    BY <1>6, <2>2, <2>3 DEF RecvInternal, RecvDelayedPolling, RecvDelayedRetry
<1> QED
  BY <1>2, <1>3, <1>4, <1>5, <1>6 DEF Next, Busy, Select, World, Terminated

LEMMA WriteInvariant == Spec => [](TypeInv /\ WriteInv)
<1>1. Init => TypeInv /\ WriteInv
  BY TypeInit, WriteInit
<1>2. (TypeInv /\ WriteInv) /\ [Next]_vars => (TypeInv /\ WriteInv)'
  BY TypeNext, WriteStep
<1> QED
  BY <1>1, <1>2, PTL DEF Spec

(* Every write that was taken is in exactly one place, and those not yet     *)
(* answered stand in the order of the requests.                              *)
THEOREM NoWriteLost == Spec => []WritesConserved
<1>1. TypeInv /\ WriteInv => WritesConserved
  BY DEF WriteInv
<1> QED
  BY <1>1, WriteInvariant, PTL

(* No write is put on the wire after a later one.                            *)
THEOREM NoOvertaking == Spec => WireInOrder
<1>1. TypeInv /\ WriteInv /\ [Next]_vars => [wire' >= wire]_wire
  BY WriteStep DEF StepOK
<1> QED
  BY <1>1, WriteInvariant, PTL DEF Spec, WireInOrder

(* No write older than WRITE_TTL is put on the wire.                         *)
THEOREM StaleNeverWritten == Spec => NoStaleWrite
<1>1. TypeInv /\ [Next]_vars => [pc # "write" /\ pc' = "write" => expired' = 0]_vars
  <2> SUFFICES ASSUME TypeInv, Next, pc # "write", pc' = "write" PROVE expired' = 0
    OBVIOUS
  <2>1. CASE RecvCommand
    <3>1. pending_writes = <<>> /\ expired' = expired
      BY <2>1 DEF RecvCommand, WriteCommand, Idle, MustQueue
    <3> QED
      BY <3>1 DEF TypeInv, TypeOK, QueueTypeOK
  <2>2. CASE RetryWrites
    BY <2>2 DEF RetryWrites, Idle, Evictions, TypeInv, TypeOK, QueueTypeOK
  <2>3. ASSUME NEW q, NEW d, NEW late, RunDataPolling(q, d, late), pc = "idle" PROVE FALSE
    BY <2>3 DEF RunDataPolling, Idle
  <2>4. CASE Open \/ ResyncPoll \/ Poll
    BY <2>4 DEF Open, ResyncPoll, Poll, NextPollOrEnd, Idle
  <2>5. CASE WriteAck \/ Readback
    BY <2>5 DEF WriteAck, Readback, WriteFailed, WriteDone, Idle
  <2>6. CASE RecvConnect \/ RecvClosed \/ World \/ Terminated
    BY <2>6 DEF RecvConnect, RecvClosed, World, Submit, Close, WriteTtlElapses, LineSettles, Terminated, workVars, vars
  <2> QED
    BY <2>1, <2>2, <2>3, <2>4, <2>5, <2>6 DEF Next, Busy, Select, RecvInternal, RecvDelayedPolling, RecvDelayedRetry
<1>2. Spec => []TypeInv
  BY TypeInit, TypeNext, PTL DEF Spec
<1> QED
  BY <1>1, <1>2, PTL DEF Spec, NoStaleWrite

(* The actor implements WriteService: at most one answer for each write, and *)
(* confirmations in the order of the requests.                               *)
THEOREM ImplementsWriteService == Spec => RefinesWriteService
<1>1. Init => Promise!Init
  BY WriteInit
<1>2. TypeInv /\ WriteInv /\ [Next]_vars => [Promise!Next]_Promise!vars
  BY WriteStep DEF StepOK
<1> QED
  BY <1>1, <1>2, WriteInvariant, PTL DEF Spec, RefinesWriteService, Promise!Spec
=============================================================================
