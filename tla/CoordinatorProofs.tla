-------------------------- MODULE CoordinatorProofs --------------------------
(***************************************************************************)
(* What TLAPS proves of Coordinator, for any switches and values, any      *)
(* number of requests and events: the types, that a switch stays frozen    *)
(* exactly while its newest request is under way, and that every snapshot  *)
(* shows that.                                                             *)
(***************************************************************************)
EXTENDS Coordinator, QueueLemmas

-----------------------------------------------------------------------------
(* The types.  TypeOK is inductive together with the types of the events in  *)
(* the two channels, and with what bounds next_seq: Home Assistant makes a   *)
(* request only when the one before has been seen.                           *)

JkbmsEvents ==
  [type : {"Data"}, of : {"DeviceInfo", "OperationalData", "Alarms"}]
    \union [type : {"Data"}, of : {"ConfigOptions"}, switches : SwitchStates]
    \union [type : {"Connection"}, state : {"Connected", "Reconnecting", "Disconnected"}]
    \union [type : {"WriteConfirmation"}, seq : Seqs, switches : SwitchStates]
    \union [type : {"WriteError"}, seq : Seqs]

MqttEvents ==
  [type : {"BrokerConnected", "BrokerDisconnected"}]
    \union [type : {"Incoming"}, switch : Switches, value : Values]

IsIncoming(i) == i \in 1 .. Len(mqtt_events) /\ mqtt_events[i].type = "Incoming"

(* What a handler has still to say, when it holds the fragments h and shows  *)
(* the switches x: a snapshot shows them as they are now.                    *)
CallsShowing(h, x) ==
  {Subscribe, Discovery} \union {Availability(o) : o \in {"online", "offline"}}
    \union (IF "ConfigOptions" \in h THEN {Snapshot(x)} ELSE {})

Saying(q, h, x) ==
  /\ q \in Seq(CallsShowing(h, x))
  /\ Len(q) <= 4
  /\ \A i \in 1 .. Len(q) : q[i] = Subscribe => i = 1

OutboxOK == Saying(outbox, have, SwitchesShown(config, freeze))

FreezeStates == [Switches -> [seq : Seqs, value : Values] \union {Unfrozen}]

StateTypeOK ==
  /\ have \subseteq Fragments
  /\ config \in IF "ConfigOptions" \in have THEN SwitchStates ELSE {Unknown}
  /\ freeze \in FreezeStates
  /\ flags \subseteq Flags

SeqTypeOK ==
  /\ next_seq \in 0 .. MaxSeq
  /\ request \in Seq([switch : Switches, value : Values])
  /\ next_seq = Len(request)
  /\ \A i : IsIncoming(i) => next_seq < MaxSeq
  /\ \A i, j : IsIncoming(i) /\ IsIncoming(j) => i = j

ChannelTypeOK ==
  /\ jkbms_events \in Seq(JkbmsEvents)
  /\ mqtt_events \in Seq(MqttEvents)
  /\ Len(jkbms_events) + Len(mqtt_events) <= MaxEvents

SideTypeOK ==
  /\ accepted \subseteq Seqs /\ confirmed \subseteq Seqs /\ failed \subseteq Seqs
  /\ link \in DOMAIN LinkSteps
  /\ session \in {"up", "down"}

TypeInv == StateTypeOK /\ OutboxOK /\ SeqTypeOK /\ ChannelTypeOK /\ SideTypeOK

-----------------------------------------------------------------------------
(* The calls.                                                                *)

LEMMA CallKinds ==
  ASSUME NEW h, NEW x
  PROVE  /\ Subscribe \in CallsShowing(h, x) /\ Discovery \in CallsShowing(h, x)
         /\ \A o \in {"online", "offline"} :
              Availability(o) \in CallsShowing(h, x) /\ Availability(o) # Subscribe
         /\ "ConfigOptions" \in h => Snapshot(x) \in CallsShowing(h, x)
         /\ Snapshot(x) # Subscribe /\ Discovery # Subscribe
<1>1. Subscribe.type = "SubscribeToCommands" /\ Discovery.type = "PublishDiscovery"
  BY DEF Subscribe, Discovery
<1>2. \A o : Availability(o).type = "PublishAvailability"
  BY DEF Availability
<1>3. Snapshot(x).type = "PublishSnapshot"
  BY DEF Snapshot
<1> QED
  BY <1>1, <1>2, <1>3 DEF CallsShowing

LEMMA ShownIsState ==
  ASSUME NEW c \in SwitchStates,
         NEW f \in FreezeStates
  PROVE  SwitchesShown(c, f) \in SwitchStates
BY DEF SwitchesShown, SwitchStates, Frozen, Unfrozen, FreezeStates

(* A handler that has nothing, or one call less, to say.                     *)
LEMMA SayingNothing ==
  ASSUME NEW h, NEW x
  PROVE  Saying(<<>>, h, x)
<1>1. <<>> \in Seq(CallsShowing(h, x)) /\ Len(<<>>) = 0
  BY EmptySeq
<1> QED
  BY <1>1 DEF Saying

LEMMA SayingLess ==
  ASSUME NEW h, NEW x, NEW q, Saying(q, h, x), q # <<>>
  PROVE  Saying(Tail(q), h, x)
<1>1. q \in Seq(CallsShowing(h, x)) /\ Len(q) <= 4
      /\ \A i \in 1 .. Len(q) : q[i] = Subscribe => i = 1
  BY DEF Saying
<1>2. /\ Tail(q) \in Seq(CallsShowing(h, x))
      /\ Len(q) \in Nat \ {0} /\ Len(Tail(q)) = Len(q) - 1
      /\ \A i \in 1 .. Len(Tail(q)) : i + 1 \in 1 .. Len(q) /\ Tail(q)[i] = q[i + 1]
  BY <1>1, TailAt
<1>3. \A i \in 1 .. Len(Tail(q)) : Tail(q)[i] # Subscribe
  BY <1>1, <1>2
<1>4. Len(Tail(q)) <= 4
  BY <1>1, <1>2
<1> QED
  BY <1>2, <1>3, <1>4 DEF Saying

(* At most n calls, none of them the subscription.                           *)
Quiet(q, n, h, x) ==
  /\ q \in Seq(CallsShowing(h, x))
  /\ Len(q) <= n
  /\ \A i \in 1 .. Len(q) : q[i] # Subscribe

LEMMA QuietSteps ==
  ASSUME NEW h, NEW c, NEW f
  PROVE  /\ Quiet(<<>>, 0, h, SwitchesShown(c, f))
         /\ Quiet(<<Discovery>>, 1, h, SwitchesShown(c, f))
         /\ \A o \in {"online", "offline"} : Quiet(<<Availability(o)>>, 1, h, SwitchesShown(c, f))
         /\ Quiet(SnapshotIfAny(h, c, f), 1, h, SwitchesShown(c, f))
<1> DEFINE x == SwitchesShown(c, f)
<1>1. <<>> \in Seq(CallsShowing(h, x)) /\ Len(<<>>) = 0
  BY EmptySeq
<1>2. Quiet(<<>>, 0, h, x) /\ Quiet(<<>>, 1, h, x)
  BY <1>1 DEF Quiet
<1>3. ASSUME NEW e \in CallsShowing(h, x), e # Subscribe PROVE Quiet(<<e>>, 1, h, x)
  BY <1>3 DEF Quiet
<1>4. \/ SnapshotIfAny(h, c, f) = <<Snapshot(x)>> /\ "ConfigOptions" \in h
      \/ SnapshotIfAny(h, c, f) = <<>>
  BY DEF SnapshotIfAny, SnapshotParts
<1> HIDE DEF x
<1>5. Quiet(SnapshotIfAny(h, c, f), 1, h, x)
  BY <1>2, <1>3, <1>4, CallKinds
<1>6. /\ Quiet(<<Discovery>>, 1, h, x)
      /\ \A o \in {"online", "offline"} : Quiet(<<Availability(o)>>, 1, h, x)
  BY <1>3, CallKinds
<1> QED
  BY <1>2, <1>5, <1>6 DEF x

LEMMA QuietTogether ==
  ASSUME NEW h, NEW x, NEW m \in Nat, NEW n \in Nat, NEW p, NEW q,
         Quiet(p, m, h, x), Quiet(q, n, h, x)
  PROVE  Quiet(p \o q, m + n, h, x)
<1>1. /\ p \in Seq(CallsShowing(h, x)) /\ q \in Seq(CallsShowing(h, x))
      /\ Len(p) <= m /\ Len(q) <= n
      /\ \A i \in 1 .. Len(p) : p[i] # Subscribe
      /\ \A i \in 1 .. Len(q) : q[i] # Subscribe
  BY DEF Quiet
<1>2. /\ p \o q \in Seq(CallsShowing(h, x)) /\ Len(p \o q) = Len(p) + Len(q)
      /\ Len(p) \in Nat /\ Len(q) \in Nat
      /\ \A i \in 1 .. Len(p) + Len(q) :
           (p \o q)[i] = IF i <= Len(p) THEN p[i] ELSE q[i - Len(p)]
  BY <1>1, ConcatProperties, LenProperties
<1>3. ASSUME NEW i \in 1 .. Len(p) + Len(q) PROVE (p \o q)[i] # Subscribe
  <2>1. CASE i <= Len(p)
    BY <1>1, <1>2, <2>1
  <2>2. CASE ~(i <= Len(p))
    <3>1. i - Len(p) \in 1 .. Len(q)
      BY <1>2, <2>2
    <3> QED
      BY <1>1, <1>2, <2>2, <3>1
  <2> QED
    BY <2>1, <2>2
<1>4. Len(p \o q) <= m + n
  BY <1>1, <1>2
<1> QED
  BY <1>2, <1>3, <1>4 DEF Quiet

LEMMA QuietIsSaying ==
  ASSUME NEW h, NEW x, NEW n \in 0 .. 4, NEW q, Quiet(q, n, h, x)
  PROVE  Saying(q, h, x)
<1>1. q \in Seq(CallsShowing(h, x)) /\ Len(q) <= n /\ Len(q) \in Nat
  BY LenProperties DEF Quiet
<1>2. \A i \in 1 .. Len(q) : q[i] # Subscribe
  BY DEF Quiet
<1> QED
  BY <1>1, <1>2 DEF Saying

(* handle_broker_connected subscribes and says the rest.                     *)
LEMMA SubscribeFirst ==
  ASSUME NEW h, NEW x, NEW q, Quiet(q, 3, h, x)
  PROVE  Saying(<<Subscribe>> \o q, h, x)
<1> DEFINE p == <<Subscribe>>
<1>1. p \in Seq(CallsShowing(h, x)) /\ Len(p) = 1 /\ p[1] = Subscribe
  BY CallKinds
<1>2. /\ q \in Seq(CallsShowing(h, x)) /\ Len(q) <= 3
      /\ \A i \in 1 .. Len(q) : q[i] # Subscribe
  BY DEF Quiet
<1> HIDE DEF p
<1>3. /\ p \o q \in Seq(CallsShowing(h, x)) /\ Len(p \o q) = Len(p) + Len(q)
      /\ Len(q) \in Nat
      /\ \A i \in 1 .. Len(p) + Len(q) :
           (p \o q)[i] = IF i <= Len(p) THEN p[i] ELSE q[i - Len(p)]
  BY <1>1, <1>2, ConcatProperties, LenProperties
<1>4. ASSUME NEW i \in 1 .. 1 + Len(q), i # 1 PROVE (p \o q)[i] # Subscribe
  <2>1. i - 1 \in 1 .. Len(q) /\ ~(i <= 1)
    BY <1>3, <1>4
  <2> QED
    BY <1>1, <1>2, <1>3, <2>1
<1>5. Len(p \o q) <= 4
  BY <1>1, <1>2, <1>3
<1>6. Saying(p \o q, h, x)
  BY <1>1, <1>3, <1>4, <1>5 DEF Saying
<1> QED
  BY <1>6 DEF p

LEMMA SayingReshipped ==
  Saying(Reshipped, have, SwitchesShown(config, freeze))
<1> DEFINE x == SwitchesShown(config, freeze)
           a == <<Availability(OnlineIf(flags))>>
           d == IF DiscoveryParts \subseteq have THEN <<Discovery>> ELSE <<>>
           s == SnapshotIfAny(have, config, freeze)
<1>1. OnlineIf(flags) \in {"online", "offline"}
  BY DEF OnlineIf
<1>2. Quiet(a, 1, have, x) /\ (Quiet(d, 0, have, x) \/ Quiet(d, 1, have, x)) /\ Quiet(s, 1, have, x)
  BY <1>1, QuietSteps
<1>3. <<Subscribe, Availability(OnlineIf(flags))>> = <<Subscribe>> \o a
  OBVIOUS
<1>4. <<Subscribe>> \in Seq(CallsShowing(have, x))
  BY CallKinds
<1> HIDE DEF x, a, d, s
<1>5. Quiet((a \o d) \o s, 2, have, x) \/ Quiet((a \o d) \o s, 3, have, x)
  <2>1. Quiet(a \o d, 1 + 0, have, x) \/ Quiet(a \o d, 1 + 1, have, x)
    BY <1>2, QuietTogether
  <2>2. Quiet(a \o d, 1, have, x) \/ Quiet(a \o d, 2, have, x)
    BY <2>1
  <2>3. Quiet((a \o d) \o s, 1 + 1, have, x) \/ Quiet((a \o d) \o s, 2 + 1, have, x)
    BY <1>2, <2>2, QuietTogether
  <2> QED
    BY <2>3
<1>6. Quiet((a \o d) \o s, 3, have, x)
  <2>1. (a \o d) \o s \in Seq(CallsShowing(have, x)) /\ Len((a \o d) \o s) \in Nat
    BY <1>5, LenProperties DEF Quiet
  <2> QED
    BY <1>5, <2>1 DEF Quiet
<1>7. Saying(<<Subscribe>> \o ((a \o d) \o s), have, x)
  BY <1>6, SubscribeFirst
<1>8. /\ a \in Seq(CallsShowing(have, x)) /\ d \in Seq(CallsShowing(have, x))
      /\ s \in Seq(CallsShowing(have, x))
  BY <1>2 DEF Quiet
<1>9. a \o d \in Seq(CallsShowing(have, x))
  BY <1>8, ConcatProperties
<1>10. <<Subscribe>> \o ((a \o d) \o s) = (<<Subscribe>> \o (a \o d)) \o s
  BY <1>4, <1>8, <1>9, ConcatAssociative
<1>11. <<Subscribe>> \o (a \o d) = (<<Subscribe>> \o a) \o d
  BY <1>4, <1>8, ConcatAssociative
<1>12. Reshipped = ((<<Subscribe>> \o a) \o d) \o s
  BY <1>3 DEF Reshipped, d, s
<1> QED
  BY <1>7, <1>10, <1>11, <1>12 DEF x

(* The tail of handle_jkbms_event.                                           *)
LEMMA SayingTail ==
  ASSUME NEW h, NEW c, NEW f, PublishTail(h, c, f)
  PROVE  Saying(outbox', h, SwitchesShown(c, f))
<1> DEFINE x == SwitchesShown(c, f)
           s == SnapshotIfAny(h, c, f)
<1>1. outbox' = <<Discovery>> \o s \/ outbox' = <<>> \o s
  BY DEF PublishTail
<1>2. Quiet(<<Discovery>>, 1, h, x) /\ Quiet(<<>>, 0, h, x) /\ Quiet(s, 1, h, x)
  BY QuietSteps
<1> HIDE DEF x, s
<1>3. Quiet(<<Discovery>> \o s, 1 + 1, h, x) /\ Quiet(<<>> \o s, 0 + 1, h, x)
  BY <1>2, QuietTogether
<1>4. Saying(<<Discovery>> \o s, h, x) /\ Saying(<<>> \o s, h, x)
  BY <1>3, QuietIsSaying
<1> QED
  BY <1>1, <1>4 DEF x

-----------------------------------------------------------------------------
LEMMA TypeInvIsTypeOK == TypeInv => TypeOK
<1> SUFFICES ASSUME TypeInv PROVE TypeOK
  OBVIOUS
<1> DEFINE x == SwitchesShown(config, freeze)
<1>1. CallsShowing(have, x) \subseteq Calls
  BY ShownIsState DEF TypeInv, StateTypeOK, CallsShowing, Calls
<1>2. /\ outbox \in Seq(CallsShowing(have, x)) /\ Len(outbox) <= 4
      /\ \A i \in 1 .. Len(outbox) : outbox[i] = Subscribe => i = 1
  BY DEF TypeInv, OutboxOK, Saying
<1> HIDE DEF x
<1>3. Range(outbox) \subseteq Calls /\ DOMAIN outbox = 1 .. Len(outbox)
  BY <1>1, <1>2, RangeOfSeq, LenProperties
<1>4. \A w \in Switches :
        freeze[w] = Unfrozen \/ (freeze[w].seq \in Seqs /\ freeze[w].value \in Values)
  BY DEF TypeInv, StateTypeOK, FreezeStates
<1> QED
  BY <1>2, <1>3, <1>4 DEF TypeInv, TypeOK, StateTypeOK, SeqTypeOK, ChannelTypeOK, SideTypeOK

LEMMA TypeInit == Init => TypeInv
<1> SUFFICES ASSUME Init PROVE TypeInv
  OBVIOUS
<1>1. \A S : <<>> \in Seq(S) /\ Len(<<>>) = 0
  BY EmptySeq
<1>2. StateTypeOK
  BY DEF Init, StateTypeOK, FreezeStates, Unknown
<1>3. OutboxOK
  BY SayingNothing DEF Init, OutboxOK
<1>5. ChannelTypeOK /\ SideTypeOK
  BY <1>1, CoordinatorAssumption
  DEF Init, ChannelTypeOK, SideTypeOK, LinkSteps, CoordinatorAssumption
<1>4. SeqTypeOK
  BY <1>1, CoordinatorAssumption DEF Init, SeqTypeOK, IsIncoming, CoordinatorAssumption
<1> QED
  BY <1>2, <1>3, <1>4, <1>5 DEF TypeInv

(* What an event may be.                                                     *)
LEMMA EventTypes ==
  ASSUME NEW e \in JkbmsEvents
  PROVE  /\ e.type \in {"Data", "Connection", "WriteConfirmation", "WriteError"}
         /\ e.type = "Data" => /\ e.of \in DOMAIN PollsAfter
                               /\ e.of = "ConfigOptions" => e.switches \in SwitchStates
         /\ e.type = "Connection" => e.state \in {"Connected", "Reconnecting", "Disconnected"}
         /\ e.type = "WriteConfirmation" => e.seq \in Seqs /\ e.switches \in SwitchStates
         /\ e.type = "WriteError" => e.seq \in Seqs
BY DEF JkbmsEvents, PollsAfter

LEMMA CallStep ==
  ASSUME TypeInv, CallTaken \/ CallRefused
  PROVE  TypeInv'
<1>1. /\ outbox # <<>> /\ outbox' \in {Tail(outbox), <<>>}
      /\ UNCHANGED <<have, config, freeze, next_seq, flags, jkbms_events, mqtt_events,
                     request, bmsVars, session>>
  BY DEF CallTaken, CallRefused, coordVars
<1>2. Saying(outbox', have, SwitchesShown(config, freeze))
  BY <1>1, SayingLess, SayingNothing DEF TypeInv, OutboxOK
<1>3. OutboxOK'
  BY <1>1, <1>2 DEF OutboxOK
<1>4. StateTypeOK' /\ SeqTypeOK' /\ ChannelTypeOK' /\ SideTypeOK'
  BY <1>1 DEF TypeInv, StateTypeOK, SeqTypeOK, ChannelTypeOK, SideTypeOK, IsIncoming, bmsVars
<1> QED
  BY <1>3, <1>4 DEF TypeInv

(* An MQTT event leaves its channel.                                         *)
LEMMA MqttTaken ==
  ASSUME TypeInv, NEW type, RecvMqtt(type)
  PROVE  /\ outbox = <<>> /\ Len(mqtt_events) \in Nat \ {0}
         /\ mqtt_events' \in Seq(MqttEvents) /\ Len(mqtt_events') = Len(mqtt_events) - 1
         /\ Head(mqtt_events) = mqtt_events[1] /\ mqtt_events[1] \in MqttEvents
         /\ mqtt_events[1].type = type
         /\ \A i : IsIncoming(i)' => IsIncoming(i + 1) /\ i \in 1 .. Len(mqtt_events')
         /\ IsIncoming(1) <=> type = "Incoming"
<1> DEFINE q == mqtt_events
<1>1. q \in Seq(MqttEvents) /\ q # <<>> /\ outbox = <<>> /\ Head(q).type = type
      /\ mqtt_events' = Tail(q)
  BY DEF TypeInv, ChannelTypeOK, RecvMqtt
<1>2. /\ Tail(q) \in Seq(MqttEvents) /\ Len(q) \in Nat \ {0} /\ Len(Tail(q)) = Len(q) - 1
      /\ Head(q) = q[1] /\ Head(q) \in MqttEvents /\ 1 \in 1 .. Len(q)
      /\ \A i \in 1 .. Len(Tail(q)) : i + 1 \in 1 .. Len(q) /\ Tail(q)[i] = q[i + 1]
  BY <1>1, TailAt
<1>3. \A i : IsIncoming(i)' => IsIncoming(i + 1) /\ i \in 1 .. Len(mqtt_events')
  BY <1>1, <1>2 DEF IsIncoming
<1>4. IsIncoming(1) <=> type = "Incoming"
  BY <1>1, <1>2 DEF IsIncoming
<1> QED
  BY <1>1, <1>2, <1>3, <1>4

LEMMA BrokerStep ==
  ASSUME TypeInv, RecvBrokerConnected \/ RecvBrokerDisconnected
  PROVE  TypeInv'
<1> PICK type \in {"BrokerConnected", "BrokerDisconnected"} : RecvMqtt(type)
  BY DEF RecvBrokerConnected, RecvBrokerDisconnected
<1>1. /\ outbox = <<>> /\ outbox' \in {Reshipped, <<>>}
      /\ flags' \subseteq flags \union {"broker_connected"}
      /\ UNCHANGED <<have, config, freeze, next_seq, jkbms_events, request,
                     accepted, confirmed, failed, link, session>>
  BY DEF RecvBrokerConnected, RecvBrokerDisconnected, RecvMqtt, bmsVars
<1>2. OutboxOK'
  <2>1. Saying(outbox', have, SwitchesShown(config, freeze))
    BY <1>1, SayingReshipped, SayingNothing
  <2> QED
    BY <1>1, <2>1 DEF OutboxOK
<1>3. /\ mqtt_events' \in Seq(MqttEvents) /\ Len(mqtt_events') = Len(mqtt_events) - 1
      /\ Len(mqtt_events) \in Nat
      /\ \A i : IsIncoming(i)' => IsIncoming(i + 1) /\ i \in 1 .. Len(mqtt_events')
  BY MqttTaken
<1>4. SeqTypeOK'
  <2>1. ASSUME NEW i, NEW j, IsIncoming(i)', IsIncoming(j)'
        PROVE  i = j /\ next_seq < MaxSeq
    <3>1. i \in Int /\ j \in Int /\ IsIncoming(i + 1) /\ IsIncoming(j + 1)
      BY <1>3, <2>1
    <3>2. i + 1 = j + 1 /\ next_seq < MaxSeq
      BY <3>1 DEF TypeInv, SeqTypeOK
    <3> QED
      BY <3>1, <3>2
  <2> QED
    BY <1>1, <2>1 DEF TypeInv, SeqTypeOK
<1>5. StateTypeOK'
  BY <1>1 DEF TypeInv, StateTypeOK, Flags
<1>6. ChannelTypeOK' /\ SideTypeOK'
  <2>1. jkbms_events \in Seq(JkbmsEvents) /\ Len(jkbms_events) + Len(mqtt_events) <= MaxEvents
    BY DEF TypeInv, ChannelTypeOK
  <2>2. Len(jkbms_events) + Len(mqtt_events') <= MaxEvents
    BY <1>3, <2>1, LenProperties, CoordinatorAssumption DEF CoordinatorAssumption
  <2> QED
    BY <1>1, <1>3, <2>1, <2>2 DEF TypeInv, ChannelTypeOK, SideTypeOK
<1> QED
  BY <1>2, <1>4, <1>5, <1>6 DEF TypeInv

(* handle_incoming freezes the switch at the next seq, and unfreezes it when *)
(* the write is refused.                                                     *)
LEMMA IncomingTaken ==
  ASSUME TypeInv, RecvIncoming
  PROVE  LET r == mqtt_events[1]
             s == next_seq + 1
         IN /\ r.switch \in Switches /\ r.value \in Values
            /\ next_seq < MaxSeq /\ s \in Seqs /\ next_seq' = s
            /\ request' = Append(request, [switch |-> r.switch, value |-> r.value])
            /\ \/ /\ accepted' = accepted \union {s}
                  /\ freeze' = Freeze(freeze, s, r.switch, r.value)
               \/ /\ accepted' = accepted
                  /\ freeze' = Clear(Freeze(freeze, s, r.switch, r.value), s)
            /\ \A i : ~IsIncoming(i)'
<1> DEFINE r == mqtt_events[1]
           s == next_seq + 1
<1>1. RecvMqtt("Incoming")
  BY DEF RecvIncoming
<1>2. /\ Head(mqtt_events) = r /\ r \in MqttEvents /\ r.type = "Incoming" /\ IsIncoming(1)
      /\ \A i : IsIncoming(i)' => IsIncoming(i + 1) /\ i \in 1 .. Len(mqtt_events')
      /\ Len(mqtt_events') \in Nat
  BY <1>1, MqttTaken
<1>3. r.switch \in Switches /\ r.value \in Values
  BY <1>2 DEF MqttEvents
<1>4. next_seq < MaxSeq /\ s \in Seqs
  BY <1>2, CoordinatorAssumption DEF TypeInv, SeqTypeOK, Seqs, CoordinatorAssumption
<1>5. \A i : ~IsIncoming(i)'
  <2> SUFFICES ASSUME NEW i, IsIncoming(i)' PROVE FALSE
    OBVIOUS
  <2>1. i \in 1 .. Len(mqtt_events') /\ IsIncoming(i + 1)
    BY <1>2
  <2>2. i + 1 = 1
    BY <1>2, <2>1 DEF TypeInv, SeqTypeOK
  <2> QED
    BY <1>2, <2>1, <2>2
<1> QED
  BY <1>2, <1>3, <1>4, <1>5 DEF RecvIncoming

LEMMA FreezeTypes ==
  ASSUME NEW f \in FreezeStates, NEW s
  PROVE  /\ Apply(f, s) \in FreezeStates /\ Clear(f, s) \in FreezeStates
         /\ \A w \in Switches, v \in Values :
              s \in Seqs => Freeze(f, s, w, v) \in FreezeStates
<1>1. Apply(f, s) \in FreezeStates
  BY DEF Apply, FreezeStates
<1>2. Clear(f, s) \in FreezeStates
  BY DEF Clear, FreezeStates
<1>3. \A w \in Switches, v \in Values : s \in Seqs => Freeze(f, s, w, v) \in FreezeStates
  BY DEF Freeze, FreezeStates
<1> QED
  BY <1>1, <1>2, <1>3

LEMMA IncomingStep ==
  ASSUME TypeInv, RecvIncoming
  PROVE  TypeInv'
<1> DEFINE r == mqtt_events[1]
           s == next_seq + 1
<1>1. /\ outbox = <<>>
      /\ UNCHANGED <<have, config, flags, outbox, jkbms_events, confirmed, failed, link, session>>
  BY DEF RecvIncoming, RecvMqtt
<1>2. /\ mqtt_events' \in Seq(MqttEvents) /\ Len(mqtt_events') = Len(mqtt_events) - 1
      /\ Len(mqtt_events) \in Nat
  <2>1. RecvMqtt("Incoming")
    BY DEF RecvIncoming
  <2> QED
    BY <2>1, MqttTaken
<1>3. /\ r.switch \in Switches /\ r.value \in Values
      /\ s \in Seqs /\ next_seq' = s
      /\ request' = Append(request, [switch |-> r.switch, value |-> r.value])
      /\ accepted' \in {accepted, accepted \union {s}}
      /\ freeze' \in {Freeze(freeze, s, r.switch, r.value),
                      Clear(Freeze(freeze, s, r.switch, r.value), s)}
      /\ \A i : ~IsIncoming(i)'
  BY IncomingTaken
<1>4. OutboxOK'
  BY <1>1, SayingNothing DEF OutboxOK
<1>5. SeqTypeOK'
  <2>1. /\ request' \in Seq([switch : Switches, value : Values])
        /\ Len(request') = Len(request) + 1
    BY <1>3, AppendProperties DEF TypeInv, SeqTypeOK
  <2>2. next_seq' \in 0 .. MaxSeq
    BY <1>3 DEF Seqs
  <2> QED
    BY <1>3, <2>1, <2>2 DEF TypeInv, SeqTypeOK
<1>6. freeze' \in FreezeStates
  <2>1. freeze \in FreezeStates
    BY DEF TypeInv, StateTypeOK
  <2>2. Freeze(freeze, s, r.switch, r.value) \in FreezeStates
    BY <1>3, <2>1, FreezeTypes
  <2>3. Clear(Freeze(freeze, s, r.switch, r.value), s) \in FreezeStates
    BY <2>2, FreezeTypes
  <2> QED
    BY <1>3, <2>2, <2>3
<1>7. StateTypeOK'
  BY <1>1, <1>6 DEF TypeInv, StateTypeOK
<1>8. ChannelTypeOK' /\ SideTypeOK'
  <2>1. jkbms_events \in Seq(JkbmsEvents) /\ Len(jkbms_events) + Len(mqtt_events) <= MaxEvents
    BY DEF TypeInv, ChannelTypeOK
  <2>2. Len(jkbms_events) + Len(mqtt_events') <= MaxEvents
    BY <1>2, <2>1, LenProperties, CoordinatorAssumption DEF CoordinatorAssumption
  <2> QED
    BY <1>1, <1>2, <1>3, <2>1, <2>2 DEF TypeInv, ChannelTypeOK, SideTypeOK
<1> QED
  BY <1>4, <1>5, <1>7, <1>8 DEF TypeInv

(* A BMS event leaves its channel.                                           *)
LEMMA JkbmsTaken ==
  ASSUME TypeInv, RecvJkbms
  PROVE  /\ outbox = <<>> /\ Len(jkbms_events) \in Nat \ {0}
         /\ jkbms_events' \in Seq(JkbmsEvents) /\ Len(jkbms_events') = Len(jkbms_events) - 1
         /\ Head(jkbms_events) = jkbms_events[1] /\ jkbms_events[1] \in JkbmsEvents
         /\ \A i \in 1 .. Len(jkbms_events') :
              i + 1 \in 1 .. Len(jkbms_events) /\ jkbms_events'[i] = jkbms_events[i + 1]
         /\ SeqTypeOK' /\ ChannelTypeOK' /\ SideTypeOK'
         /\ UNCHANGED <<next_seq, mqtt_events, request, accepted, confirmed, failed, link, session>>
<1>1. /\ jkbms_events \in Seq(JkbmsEvents) /\ jkbms_events # <<>> /\ outbox = <<>>
      /\ jkbms_events' = Tail(jkbms_events)
      /\ mqtt_events \in Seq(MqttEvents)
      /\ Len(jkbms_events) + Len(mqtt_events) <= MaxEvents
      /\ UNCHANGED <<next_seq, mqtt_events, request, accepted, confirmed, failed, link, session>>
  BY DEF TypeInv, ChannelTypeOK, RecvJkbms, bmsVars
<1>2. /\ Tail(jkbms_events) \in Seq(JkbmsEvents) /\ Len(jkbms_events) \in Nat \ {0}
      /\ Len(Tail(jkbms_events)) = Len(jkbms_events) - 1
      /\ Head(jkbms_events) = jkbms_events[1] /\ jkbms_events[1] \in JkbmsEvents
      /\ \A i \in 1 .. Len(Tail(jkbms_events)) :
           i + 1 \in 1 .. Len(jkbms_events) /\ Tail(jkbms_events)[i] = jkbms_events[i + 1]
  BY <1>1, TailAt
<1>3. Len(jkbms_events') + Len(mqtt_events) <= MaxEvents
  BY <1>1, <1>2, LenProperties, CoordinatorAssumption DEF CoordinatorAssumption
<1>4. ChannelTypeOK'
  BY <1>1, <1>2, <1>3 DEF ChannelTypeOK
<1>5. SeqTypeOK' /\ SideTypeOK'
  BY <1>1 DEF TypeInv, SeqTypeOK, SideTypeOK, IsIncoming
<1> QED
  BY <1>1, <1>2, <1>4, <1>5

LEMMA ConnectionStep ==
  ASSUME TypeInv, RecvConnection
  PROVE  TypeInv'
<1>1. SeqTypeOK' /\ ChannelTypeOK' /\ SideTypeOK' /\ outbox = <<>>
  BY JkbmsTaken DEF RecvConnection
<1>2. /\ UNCHANGED <<have, config, freeze>>
      /\ flags' \subseteq flags \union {"jkbms_online"}
      /\ outbox' \in {<<>>, <<Availability("online")>>, <<Availability("offline")>>}
  BY <1>1 DEF RecvConnection, ConnectionChanges
<1>3. StateTypeOK'
  BY <1>2 DEF TypeInv, StateTypeOK, Flags
<1>4. OutboxOK'
  <2>1. Saying(outbox', have, SwitchesShown(config, freeze))
    BY <1>2, SayingNothing, QuietSteps, QuietIsSaying
  <2> QED
    BY <1>2, <2>1 DEF OutboxOK
<1> QED
  BY <1>1, <1>3, <1>4 DEF TypeInv

(* The fragments a BMS event brings, and the switches after it.              *)
LEMMA JkbmsDataTaken ==
  ASSUME TypeInv, RecvData \/ RecvWriteConfirmation \/ RecvWriteError
  PROVE  /\ RecvJkbms /\ PublishTail(have', config', freeze')
         /\ have' \subseteq Fragments
         /\ config' \in IF "ConfigOptions" \in have' THEN SwitchStates ELSE {Unknown}
         /\ \/ RecvData /\ freeze' = freeze
            \/ RecvWriteConfirmation /\ freeze' = Apply(freeze, jkbms_events[1].seq)
            \/ RecvWriteError /\ freeze' = Clear(freeze, jkbms_events[1].seq)
<1> DEFINE e == jkbms_events[1]
<1>1. RecvJkbms
  BY DEF RecvData, RecvWriteConfirmation, RecvWriteError
<1>2. Head(jkbms_events) = e /\ e \in JkbmsEvents
  BY <1>1, JkbmsTaken
<1>3. /\ have \subseteq Fragments
      /\ config \in IF "ConfigOptions" \in have THEN SwitchStates ELSE {Unknown}
  BY DEF TypeInv, StateTypeOK
<1>4. CASE RecvData
  <2>1. /\ e.type = "Data" /\ have' = have \union ({e.of} \intersect Fragments)
        /\ config' = IF e.of = "ConfigOptions" THEN e.switches ELSE config
        /\ freeze' = freeze /\ PublishTail(have', config', freeze')
    BY <1>2, <1>4 DEF RecvData
  <2>2. e.of = "ConfigOptions" => e.switches \in SwitchStates
    BY <1>2, <2>1, EventTypes
  <2>3. "ConfigOptions" \in Fragments
    BY DEF Fragments, SnapshotParts
  <2>4. config' \in IF "ConfigOptions" \in have' THEN SwitchStates ELSE {Unknown}
    BY <1>3, <2>1, <2>2, <2>3
  <2> QED
    BY <1>1, <1>3, <1>4, <2>1, <2>4
<1>5. CASE RecvWriteConfirmation
  <2>1. /\ e.type = "WriteConfirmation" /\ freeze' = Apply(freeze, e.seq)
        /\ config' = e.switches /\ have' = have \union {"ConfigOptions"}
        /\ PublishTail(have', config', freeze')
    BY <1>2, <1>5 DEF RecvWriteConfirmation
  <2>2. e.switches \in SwitchStates
    BY <1>2, <2>1, EventTypes
  <2>3. "ConfigOptions" \in Fragments
    BY DEF Fragments, SnapshotParts
  <2> QED
    BY <1>1, <1>3, <1>5, <2>1, <2>2, <2>3
<1>6. CASE RecvWriteError
  <2>1. /\ e.type = "WriteError" /\ freeze' = Clear(freeze, e.seq)
        /\ UNCHANGED <<have, config>> /\ PublishTail(have, config, freeze')
    BY <1>2, <1>6 DEF RecvWriteError
  <2>2. PublishTail(have', config', freeze')
    BY <2>1
  <2> QED
    BY <1>1, <1>3, <1>6, <2>1, <2>2
<1> QED
  BY <1>4, <1>5, <1>6

LEMMA JkbmsDataStep ==
  ASSUME TypeInv, RecvData \/ RecvWriteConfirmation \/ RecvWriteError
  PROVE  TypeInv'
<1>1. /\ RecvJkbms /\ PublishTail(have', config', freeze')
      /\ have' \subseteq Fragments
      /\ config' \in IF "ConfigOptions" \in have' THEN SwitchStates ELSE {Unknown}
      /\ freeze' \in {freeze, Apply(freeze, jkbms_events[1].seq), Clear(freeze, jkbms_events[1].seq)}
  BY JkbmsDataTaken
<1>2. SeqTypeOK' /\ ChannelTypeOK' /\ SideTypeOK'
  BY <1>1, JkbmsTaken
<1>3. OutboxOK'
  BY <1>1, SayingTail DEF OutboxOK
<1>4. freeze' \in FreezeStates
  BY <1>1, FreezeTypes DEF TypeInv, StateTypeOK
<1>5. flags' \subseteq Flags
  BY <1>1 DEF PublishTail, TypeInv, StateTypeOK, Flags
<1>6. StateTypeOK'
  BY <1>1, <1>4, <1>5 DEF StateTypeOK
<1> QED
  BY <1>2, <1>3, <1>6 DEF TypeInv

(* The BMS side puts an event into its channel.                              *)
LEMMA Emitted ==
  ASSUME TypeInv, NEW e \in JkbmsEvents, Emit(e)
  PROVE  /\ StateTypeOK' /\ OutboxOK' /\ SeqTypeOK' /\ ChannelTypeOK'
         /\ UNCHANGED <<have, config, freeze, next_seq, outbox, mqtt_events, request,
                        accepted, session>>
         /\ jkbms_events' = Append(jkbms_events, e)
<1>1. /\ UNCHANGED <<have, config, freeze, next_seq, flags, outbox, mqtt_events, request,
                     accepted, session>>
      /\ jkbms_events' = Append(jkbms_events, e)
      /\ Len(jkbms_events) + Len(mqtt_events) < MaxEvents
  BY DEF Emit, coordVars
<1>2. jkbms_events \in Seq(JkbmsEvents) /\ mqtt_events \in Seq(MqttEvents)
  BY DEF TypeInv, ChannelTypeOK
<1>3. /\ Append(jkbms_events, e) \in Seq(JkbmsEvents)
      /\ Len(Append(jkbms_events, e)) = Len(jkbms_events) + 1
      /\ Len(jkbms_events) \in Nat /\ Len(mqtt_events) \in Nat
  BY <1>2, AppendProperties, LenProperties
<1>4. Len(jkbms_events') + Len(mqtt_events) <= MaxEvents
  BY <1>1, <1>3, CoordinatorAssumption DEF CoordinatorAssumption
<1>5. ChannelTypeOK'
  BY <1>1, <1>2, <1>3, <1>4 DEF ChannelTypeOK
<1>6. StateTypeOK' /\ OutboxOK' /\ SeqTypeOK'
  BY <1>1 DEF TypeInv, StateTypeOK, OutboxOK, SeqTypeOK, IsIncoming
<1> QED
  BY <1>1, <1>5, <1>6

(* What the BMS side may emit, and what it notes of it.                      *)
BmsEmits(e) ==
  /\ Emit(e)
  /\ \/ /\ e.type \in {"Data", "Connection"}
        /\ UNCHANGED <<confirmed, failed>>
     \/ /\ e.type = "WriteConfirmation" /\ Oldest(e.seq)
        /\ confirmed' = confirmed \union {e.seq} /\ failed' = failed
     \/ /\ e.type = "WriteError" /\ e.seq \in Outstanding
        /\ failed' = failed \union {e.seq} /\ confirmed' = confirmed
  /\ link' \in DOMAIN LinkSteps

LEMMA BmsSideEmits ==
  ASSUME TypeInv, BmsSide
  PROVE  \E e \in JkbmsEvents : BmsEmits(e)
<1>1. link \in DOMAIN LinkSteps /\ Outstanding \subseteq Seqs
  BY DEF TypeInv, SideTypeOK, Outstanding
<1>2. ASSUME NEW d \in DOMAIN PollsAfter, EmitData(d)
      PROVE  \E e \in JkbmsEvents : BmsEmits(e)
  <2>1. PICK f \in SwitchStates :
          Emit(IF d = "ConfigOptions" THEN [type |-> "Data", of |-> d, switches |-> f]
                                      ELSE [type |-> "Data", of |-> d])
    BY <1>2 DEF EmitData
  <2>2. UNCHANGED <<confirmed, failed, link>>
    BY <1>2 DEF EmitData
  <2>3. CASE d = "ConfigOptions"
    <3> DEFINE e == [type |-> "Data", of |-> d, switches |-> f]
    <3>1. e \in JkbmsEvents /\ e.type = "Data"
      BY <2>3 DEF JkbmsEvents
    <3>2. Emit(e)
      BY <2>1, <2>3
    <3> QED
      BY <1>1, <2>2, <3>1, <3>2 DEF BmsEmits
  <2>4. CASE d # "ConfigOptions"
    <3> DEFINE e == [type |-> "Data", of |-> d]
    <3>1. e \in JkbmsEvents /\ e.type = "Data"
      BY <2>4 DEF JkbmsEvents, PollsAfter
    <3>2. Emit(e)
      BY <2>1, <2>4
    <3> QED
      BY <1>1, <2>2, <3>1, <3>2 DEF BmsEmits
  <2> QED
    BY <2>3, <2>4
<1>3. ASSUME NEW s \in DOMAIN LinkSteps, EmitLink(s)
      PROVE  \E e \in JkbmsEvents : BmsEmits(e)
  <2> DEFINE e == [type |-> "Connection", state |-> s]
  <2>1. Emit(e) /\ link' = s /\ UNCHANGED <<confirmed, failed>> /\ s \in LinkSteps[link]
    BY <1>3 DEF EmitLink
  <2>2. s \in {"Connected", "Reconnecting", "Disconnected"}
    BY <1>1, <2>1 DEF LinkSteps
  <2>3. e \in JkbmsEvents /\ e.type = "Connection"
    BY <2>2 DEF JkbmsEvents
  <2> QED
    BY <1>3, <2>1, <2>3 DEF BmsEmits
<1>4. ASSUME EmitConfirmation
      PROVE  \E e \in JkbmsEvents : BmsEmits(e)
  <2>1. PICK s \in Outstanding :
          /\ Oldest(s)
          /\ \E f \in SwitchStates :
               Emit([type |-> "WriteConfirmation", seq |-> s, switches |-> f])
          /\ confirmed' = confirmed \union {s}
          /\ UNCHANGED <<failed, link>>
    BY <1>4 DEF EmitConfirmation
  <2>2. PICK f \in SwitchStates :
          Emit([type |-> "WriteConfirmation", seq |-> s, switches |-> f])
    BY <2>1
  <2> DEFINE e == [type |-> "WriteConfirmation", seq |-> s, switches |-> f]
  <2>3. e \in JkbmsEvents /\ e.type = "WriteConfirmation" /\ e.seq = s
    BY <1>1 DEF JkbmsEvents
  <2> QED
    BY <1>1, <2>1, <2>2, <2>3 DEF BmsEmits
<1>5. ASSUME EmitError
      PROVE  \E e \in JkbmsEvents : BmsEmits(e)
  <2>1. PICK s \in Outstanding :
          /\ Emit([type |-> "WriteError", seq |-> s])
          /\ failed' = failed \union {s}
          /\ UNCHANGED <<confirmed, link>>
    BY <1>5 DEF EmitError
  <2> DEFINE e == [type |-> "WriteError", seq |-> s]
  <2>2. e \in JkbmsEvents /\ e.type = "WriteError" /\ e.seq = s
    BY <1>1 DEF JkbmsEvents
  <2> QED
    BY <1>1, <2>1, <2>2 DEF BmsEmits
<1> QED
  BY <1>2, <1>3, <1>4, <1>5 DEF BmsSide

LEMMA BmsSideStep ==
  ASSUME TypeInv, BmsSide
  PROVE  TypeInv'
<1>1. PICK e \in JkbmsEvents :
        /\ Emit(e)
        /\ \/ confirmed' = confirmed /\ failed' = failed
           \/ e.seq \in Outstanding /\ confirmed' = confirmed \union {e.seq} /\ failed' = failed
           \/ e.seq \in Outstanding /\ failed' = failed \union {e.seq} /\ confirmed' = confirmed
        /\ link' \in DOMAIN LinkSteps
  BY BmsSideEmits DEF BmsEmits, Oldest
<1>2. /\ StateTypeOK' /\ OutboxOK' /\ SeqTypeOK' /\ ChannelTypeOK'
      /\ UNCHANGED <<accepted, session>>
  BY <1>1, Emitted
<1>3. SideTypeOK'
  BY <1>1, <1>2 DEF TypeInv, SideTypeOK, Outstanding
<1> QED
  BY <1>2, <1>3 DEF TypeInv

LEMMA MqttSideStep ==
  ASSUME TypeInv, MqttSide
  PROVE  TypeInv'
<1> DEFINE n == Len(mqtt_events) + 1
<1>1. \E e \in MqttEvents :
        /\ Notify(e) /\ session' \in {"up", "down"}
        /\ e.type = "Incoming" =>
             next_seq < MaxSeq /\ \A i \in 1 .. Len(mqtt_events) : ~IsIncoming(i)
  <2>1. ASSUME BrokerConnects \/ BrokerDrops
        PROVE  \E type \in {"BrokerConnected", "BrokerDisconnected"} :
                 Notify([type |-> type]) /\ session' \in {"up", "down"}
    BY <2>1 DEF BrokerConnects, BrokerDrops
  <2>2. ASSUME NEW w \in Switches, NEW v \in Values, HaRequests(w, v)
        PROVE  /\ Notify([type |-> "Incoming", switch |-> w, value |-> v])
               /\ session' \in {"up", "down"} /\ next_seq < MaxSeq
               /\ \A i \in 1 .. Len(mqtt_events) : ~IsIncoming(i)
    <3>1. DOMAIN mqtt_events = 1 .. Len(mqtt_events)
      BY LenProperties DEF TypeInv, ChannelTypeOK
    <3> QED
      BY <2>2, <3>1 DEF HaRequests, Incoming, IsIncoming
  <2>3. \A type \in {"BrokerConnected", "BrokerDisconnected"} :
          [type |-> type] \in MqttEvents /\ [type |-> type].type # "Incoming"
    BY DEF MqttEvents
  <2>4. \A w \in Switches, v \in Values :
          [type |-> "Incoming", switch |-> w, value |-> v] \in MqttEvents
    BY DEF MqttEvents
  <2>5. CASE BrokerConnects \/ BrokerDrops
    BY <2>1, <2>3, <2>5
  <2>6. ASSUME NEW w \in Switches, NEW v \in Values, HaRequests(w, v)
        PROVE  \E e \in MqttEvents :
                 /\ Notify(e) /\ session' \in {"up", "down"}
                 /\ e.type = "Incoming" =>
                      next_seq < MaxSeq /\ \A i \in 1 .. Len(mqtt_events) : ~IsIncoming(i)
    BY <2>2, <2>4, <2>6
  <2> QED
    BY <2>5, <2>6 DEF MqttSide
<1>2. PICK e \in MqttEvents :
        /\ Notify(e) /\ session' \in {"up", "down"}
        /\ e.type = "Incoming" =>
             next_seq < MaxSeq /\ \A i \in 1 .. Len(mqtt_events) : ~IsIncoming(i)
  BY <1>1
<1>3. /\ UNCHANGED <<have, config, freeze, next_seq, flags, outbox, jkbms_events, request,
                     accepted, confirmed, failed, link>>
      /\ mqtt_events' = Append(mqtt_events, e)
      /\ Len(jkbms_events) + Len(mqtt_events) < MaxEvents
  BY <1>2 DEF Notify, coordVars, bmsVars
<1>4. jkbms_events \in Seq(JkbmsEvents) /\ mqtt_events \in Seq(MqttEvents)
  BY DEF TypeInv, ChannelTypeOK
<1>5. /\ mqtt_events' \in Seq(MqttEvents)
      /\ Len(mqtt_events') = n /\ Len(mqtt_events) \in Nat /\ Len(jkbms_events) \in Nat
      /\ \A i \in 1 .. Len(mqtt_events) : mqtt_events'[i] = mqtt_events[i]
      /\ mqtt_events'[n] = e
      /\ \A i \in 1 .. Len(mqtt_events') : i \in 1 .. Len(mqtt_events) \/ i = n
  <2>1. Len(jkbms_events) \in Nat
    BY <1>4, LenProperties
  <2> QED
    BY <1>3, <1>4, <2>1, AppendAt
<1>6. Len(jkbms_events) + Len(mqtt_events') <= MaxEvents
  BY <1>3, <1>5, CoordinatorAssumption DEF CoordinatorAssumption
<1>7. ChannelTypeOK'
  BY <1>3, <1>4, <1>5, <1>6 DEF ChannelTypeOK
<1>8. SeqTypeOK'
  <2> HIDE DEF n
  <2>1. \A i : IsIncoming(i)' => IsIncoming(i) \/ (i = n /\ e.type = "Incoming")
    BY <1>5 DEF IsIncoming
  <2>2. \A i : IsIncoming(i) => i \in 1 .. Len(mqtt_events)
    BY DEF IsIncoming
  <2> QED
    BY <1>2, <1>3, <2>1, <2>2 DEF TypeInv, SeqTypeOK
<1>9. StateTypeOK' /\ OutboxOK' /\ SideTypeOK'
  BY <1>2, <1>3 DEF TypeInv, StateTypeOK, OutboxOK, SideTypeOK
<1> QED
  BY <1>7, <1>8, <1>9 DEF TypeInv

LEMMA TypeStutter ==
  ASSUME TypeInv, UNCHANGED coordinatorVars
  PROVE  TypeInv'
BY DEF TypeInv, StateTypeOK, OutboxOK, SeqTypeOK, ChannelTypeOK, SideTypeOK, IsIncoming,
       coordinatorVars, coordVars, bmsVars

LEMMA TypeStep ==
  TypeInv /\ [Next]_coordinatorVars => TypeInv'
BY CallStep, BrokerStep, IncomingStep, ConnectionStep, JkbmsDataStep, BmsSideStep, MqttSideStep,
   TypeStutter
DEF Next, MqttEvent, JkbmsEvent

LEMMA TypeInvariant == Spec => []TypeInv
BY TypeInit, TypeStep, PTL DEF Spec

(* Every variable keeps its type; in particular a handler never has more     *)
(* than four calls of the MQTT connection to make, and the subscription of   *)
(* handle_broker_connected is the first of them.                             *)
THEOREM TypeCorrect == Spec => []TypeOK
BY TypeInvariant, TypeInvIsTypeOK, PTL

-----------------------------------------------------------------------------
(* The answers.  What the BMS side owes and what it has sent: each request   *)
(* taken is answered at most once, and a confirmation is older than every    *)
(* answer behind it and every request still outstanding.                     *)

IsAnswer(e) == e.type \in {"WriteConfirmation", "WriteError"}

AnswerAt(i) == i \in 1 .. Len(jkbms_events) /\ IsAnswer(jkbms_events[i])

ConfirmationAt(i) ==
  i \in 1 .. Len(jkbms_events) /\ jkbms_events[i].type = "WriteConfirmation"

AnswerInv ==
  /\ Answered \subseteq accepted /\ accepted \subseteq 1 .. next_seq
  /\ \A i : AnswerAt(i) => jkbms_events[i].seq \in Answered
  /\ \A i, j : /\ AnswerAt(i) /\ AnswerAt(j)
               /\ jkbms_events[i].seq = jkbms_events[j].seq
             => i = j
  /\ \A i : ConfirmationAt(i) => \A s \in Outstanding : jkbms_events[i].seq < s
  /\ \A i, j : ConfirmationAt(i) /\ AnswerAt(j) /\ i < j =>
                 jkbms_events[i].seq < jkbms_events[j].seq

LEMMA AnswerInit == Init => AnswerInv
<1> SUFFICES ASSUME Init PROVE AnswerInv
  OBVIOUS
<1>1. Len(jkbms_events) = 0
  BY EmptySeq DEF Init
<1>2. \A i : ~AnswerAt(i) /\ ~ConfirmationAt(i)
  BY <1>1 DEF AnswerAt, ConfirmationAt
<1> QED
  BY <1>2 DEF Init, AnswerInv, Answered, Outstanding

LEMMA AnswerTaken ==
  ASSUME TypeInv, AnswerInv, RecvJkbms
  PROVE  AnswerInv'
<1>1. /\ Len(jkbms_events) \in Nat
      /\ \A i \in 1 .. Len(jkbms_events') :
           i + 1 \in 1 .. Len(jkbms_events) /\ jkbms_events'[i] = jkbms_events[i + 1]
      /\ UNCHANGED <<next_seq, accepted, confirmed, failed>>
  BY JkbmsTaken
<1>2. Answered' = Answered /\ Outstanding' = Outstanding
  BY <1>1 DEF Answered, Outstanding
<1>3. \A i : AnswerAt(i)' => i \in Int /\ AnswerAt(i + 1) /\ jkbms_events'[i] = jkbms_events[i + 1]
  BY <1>1 DEF AnswerAt
<1>4. \A i : ConfirmationAt(i)' =>
        i \in Int /\ ConfirmationAt(i + 1) /\ jkbms_events'[i] = jkbms_events[i + 1]
  BY <1>1 DEF ConfirmationAt
<1>5. \A i : AnswerAt(i)' => jkbms_events'[i].seq \in Answered'
  BY <1>2, <1>3 DEF AnswerInv
<1>6. ASSUME NEW i, NEW j, AnswerAt(i)', AnswerAt(j)', jkbms_events'[i].seq = jkbms_events'[j].seq
      PROVE  i = j
  <2>1. i + 1 = j + 1 /\ i \in Int /\ j \in Int
    BY <1>3, <1>6 DEF AnswerInv
  <2> QED
    BY <2>1
<1>7. \A i : ConfirmationAt(i)' => \A s \in Outstanding' : jkbms_events'[i].seq < s
  BY <1>2, <1>4 DEF AnswerInv
<1>8. ASSUME NEW i, NEW j, ConfirmationAt(i)', AnswerAt(j)', i < j
      PROVE  jkbms_events'[i].seq < jkbms_events'[j].seq
  <2>1. i + 1 < j + 1 /\ ConfirmationAt(i + 1) /\ AnswerAt(j + 1)
    BY <1>3, <1>4, <1>8
  <2>2. jkbms_events[i + 1].seq < jkbms_events[j + 1].seq
    BY <2>1 DEF AnswerInv
  <2> QED
    BY <1>3, <1>4, <1>8, <2>2
<1> QED
  BY <1>1, <1>2, <1>5, <1>6, <1>7, <1>8 DEF AnswerInv

(* An answer is emitted for an outstanding request, which it settles.        *)
LEMMA AnswerEmitted ==
  ASSUME TypeInv, AnswerInv, NEW e \in JkbmsEvents, BmsEmits(e)
  PROVE  AnswerInv'
<1> DEFINE n == Len(jkbms_events) + 1
<1>1. /\ UNCHANGED <<next_seq, accepted>> /\ jkbms_events' = Append(jkbms_events, e)
      /\ jkbms_events \in Seq(JkbmsEvents)
  BY Emitted DEF BmsEmits, TypeInv, ChannelTypeOK
<1>2. /\ Len(jkbms_events) \in Nat /\ Len(jkbms_events') = n
      /\ \A i \in 1 .. Len(jkbms_events) : jkbms_events'[i] = jkbms_events[i]
      /\ jkbms_events'[n] = e
      /\ \A i \in 1 .. Len(jkbms_events') : i \in 1 .. Len(jkbms_events) \/ i = n
  BY <1>1, AppendAt
<1>3. /\ IsAnswer(e) => /\ e.seq \in Outstanding
                       /\ Answered' = Answered \union {e.seq}
                       /\ Outstanding' = Outstanding \ {e.seq}
      /\ ~IsAnswer(e) => Answered' = Answered /\ Outstanding' = Outstanding
      /\ e.type = "WriteConfirmation" => \A r \in Outstanding : e.seq <= r
  BY <1>1 DEF BmsEmits, IsAnswer, Oldest, Outstanding, Answered
<1>4. n \notin 1 .. Len(jkbms_events) /\ n \in Nat
  BY <1>2
<1> HIDE DEF n
<1>5. \A i : AnswerAt(i)' =>
        \/ AnswerAt(i) /\ jkbms_events'[i] = jkbms_events[i]
        \/ i = n /\ IsAnswer(e) /\ jkbms_events'[i] = e
  BY <1>2 DEF AnswerAt
<1>6. \A i : ConfirmationAt(i)' =>
        \/ ConfirmationAt(i) /\ jkbms_events'[i] = jkbms_events[i]
        \/ i = n /\ e.type = "WriteConfirmation" /\ jkbms_events'[i] = e
  BY <1>2 DEF ConfirmationAt
<1>7. /\ Answered \subseteq accepted /\ accepted \subseteq Seqs /\ Seqs \subseteq Int
      /\ Outstanding \subseteq Int /\ Answered \intersect Outstanding = {}
  BY DEF AnswerInv, TypeInv, SideTypeOK, Seqs, Outstanding
<1>8. Answered' \subseteq accepted' /\ accepted' \subseteq 1 .. next_seq'
  BY <1>1, <1>3 DEF AnswerInv, Outstanding
<1>9. \A i : AnswerAt(i)' => jkbms_events'[i].seq \in Answered'
  BY <1>3, <1>5 DEF AnswerInv
<1>10. ASSUME NEW i, NEW j, AnswerAt(i)', AnswerAt(j)', jkbms_events'[i].seq = jkbms_events'[j].seq
       PROVE  i = j
  <2>1. CASE AnswerAt(i) /\ AnswerAt(j)
    <3>1. i # n /\ j # n
      BY <1>4, <2>1 DEF AnswerAt
    <3> QED
      BY <1>5, <1>10, <2>1, <3>1 DEF AnswerInv
  <2>2. CASE i = n /\ j = n
    BY <2>2
  <2>3. CASE AnswerAt(i) /\ j = n
    <3>1. i # n /\ ~AnswerAt(n)
      BY <1>4, <2>3 DEF AnswerAt
    <3>2. jkbms_events'[i].seq \in Answered /\ jkbms_events'[j].seq \in Outstanding
      BY <1>3, <1>5, <1>10, <2>3, <3>1 DEF AnswerInv
    <3> QED
      BY <1>7, <1>10, <3>2
  <2>4. CASE i = n /\ AnswerAt(j)
    <3>1. j # n /\ ~AnswerAt(n)
      BY <1>4, <2>4 DEF AnswerAt
    <3>2. jkbms_events'[j].seq \in Answered /\ jkbms_events'[i].seq \in Outstanding
      BY <1>3, <1>5, <1>10, <2>4, <3>1 DEF AnswerInv
    <3> QED
      BY <1>7, <1>10, <3>2
  <2> QED
    BY <1>5, <1>10, <2>1, <2>2, <2>3, <2>4
<1>11. ASSUME NEW i, ConfirmationAt(i)', NEW s \in Outstanding'
       PROVE  jkbms_events'[i].seq < s
  <2>1. s \in Outstanding /\ (IsAnswer(e) => s # e.seq)
    BY <1>3, <1>11
  <2>2. CASE ConfirmationAt(i) /\ jkbms_events'[i] = jkbms_events[i]
    BY <2>1, <2>2 DEF AnswerInv
  <2>3. CASE e.type = "WriteConfirmation" /\ jkbms_events'[i] = e
    <3>1. e.seq \in Outstanding /\ e.seq <= s /\ s # e.seq
      BY <1>3, <2>1, <2>3 DEF IsAnswer
    <3>2. e.seq \in Int /\ s \in Int
      BY <1>7, <2>1, <3>1
    <3> QED
      BY <2>3, <3>1, <3>2
  <2> QED
    BY <1>6, <1>11, <2>2, <2>3
<1>12. ASSUME NEW i, NEW j, ConfirmationAt(i)', AnswerAt(j)', i < j
       PROVE  jkbms_events'[i].seq < jkbms_events'[j].seq
  <2>1. ConfirmationAt(i) /\ jkbms_events'[i] = jkbms_events[i]
    <3>1. i # n
      BY <1>2, <1>4, <1>12 DEF AnswerAt
    <3> QED
      BY <1>6, <1>12, <3>1
  <2>2. CASE AnswerAt(j) /\ jkbms_events'[j] = jkbms_events[j]
    BY <1>12, <2>1, <2>2 DEF AnswerInv
  <2>3. CASE IsAnswer(e) /\ jkbms_events'[j] = e
    BY <1>3, <2>1, <2>3 DEF AnswerInv
  <2> QED
    BY <1>5, <1>12, <2>2, <2>3
<1> QED
  BY <1>8, <1>9, <1>10, <1>11, <1>12 DEF AnswerInv

(* A new request is younger than every answer.                               *)
LEMMA AnswerRequested ==
  ASSUME TypeInv, AnswerInv, RecvIncoming
  PROVE  AnswerInv'
<1> DEFINE s == next_seq + 1
<1>1. /\ next_seq' = s /\ accepted' \in {accepted, accepted \union {s}}
      /\ UNCHANGED <<jkbms_events, confirmed, failed>>
  BY DEF RecvIncoming
<1>2. next_seq \in Nat /\ Answered \subseteq 1 .. next_seq
  BY CoordinatorAssumption DEF TypeInv, SeqTypeOK, AnswerInv, CoordinatorAssumption
<1>3. Answered' = Answered /\ Outstanding' \subseteq Outstanding \union {s}
  BY <1>1 DEF Answered, Outstanding
<1>4. \A i : (AnswerAt(i)' <=> AnswerAt(i)) /\ (ConfirmationAt(i)' <=> ConfirmationAt(i))
  BY <1>1 DEF AnswerAt, ConfirmationAt
<1>5. ASSUME NEW i, ConfirmationAt(i) PROVE jkbms_events[i].seq < s
  <2>1. AnswerAt(i)
    BY <1>5 DEF AnswerAt, ConfirmationAt, IsAnswer
  <2>2. jkbms_events[i].seq \in 1 .. next_seq
    BY <1>2, <2>1 DEF AnswerInv
  <2> QED
    BY <1>2, <2>2
<1>6. accepted' \subseteq 1 .. next_seq' /\ Answered' \subseteq accepted'
  BY <1>1, <1>2, <1>3 DEF AnswerInv
<1> QED
  BY <1>1, <1>3, <1>4, <1>5, <1>6 DEF AnswerInv

LEMMA AnswerStutter ==
  ASSUME AnswerInv, UNCHANGED <<next_seq, accepted, confirmed, failed, jkbms_events>>
  PROVE  AnswerInv'
BY DEF AnswerInv, AnswerAt, ConfirmationAt, Outstanding, Answered

(* The steps that leave the requests and their answers alone.                *)
LEMMA OtherSteps ==
  ASSUME [Next]_coordinatorVars, ~JkbmsEvent, ~BmsSide, ~RecvIncoming
  PROVE  UNCHANGED <<config, freeze, next_seq, request, accepted, confirmed, failed, jkbms_events>>
<1>1. CASE CallTaken \/ CallRefused
  BY <1>1 DEF CallTaken, CallRefused, coordVars, bmsVars
<1>2. CASE RecvBrokerConnected \/ RecvBrokerDisconnected
  BY <1>2 DEF RecvBrokerConnected, RecvBrokerDisconnected, bmsVars
<1>3. CASE MqttSide
  <2>1. PICK e : Notify(e)
    BY <1>3 DEF MqttSide, BrokerConnects, BrokerDrops, HaRequests
  <2> QED
    BY <2>1 DEF Notify, coordVars, bmsVars
<1>4. CASE UNCHANGED coordinatorVars
  BY <1>4 DEF coordinatorVars, coordVars, bmsVars
<1> QED
  BY <1>1, <1>2, <1>3, <1>4 DEF Next, MqttEvent

LEMMA AnswerStep ==
  TypeInv /\ AnswerInv /\ [Next]_coordinatorVars => AnswerInv'
<1> SUFFICES ASSUME TypeInv, AnswerInv, [Next]_coordinatorVars PROVE AnswerInv'
  OBVIOUS
<1>1. CASE JkbmsEvent
  BY <1>1, AnswerTaken
  DEF JkbmsEvent, RecvConnection, RecvData, RecvWriteConfirmation, RecvWriteError
<1>2. CASE BmsSide
  BY <1>2, BmsSideEmits, AnswerEmitted
<1>3. CASE RecvIncoming
  BY <1>3, AnswerRequested
<1>4. CASE ~JkbmsEvent /\ ~BmsSide /\ ~RecvIncoming
  BY <1>4, OtherSteps, AnswerStutter
<1> QED
  BY <1>1, <1>2, <1>3, <1>4

-----------------------------------------------------------------------------
(* Which requests are awaited.                                               *)

LEMMA QueuedIsAt ==
  TypeInv => \A s : AnswerQueued(s) <=> \E i : AnswerAt(i) /\ jkbms_events[i].seq = s
<1> SUFFICES ASSUME TypeInv, NEW s
             PROVE  AnswerQueued(s) <=> \E i : AnswerAt(i) /\ jkbms_events[i].seq = s
  OBVIOUS
<1>1. Range(jkbms_events) = {jkbms_events[i] : i \in 1 .. Len(jkbms_events)}
  BY RangeEquality DEF TypeInv, ChannelTypeOK
<1> QED
  BY <1>1 DEF AnswerQueued, AnswerAt, IsAnswer

LEMMA QueuedIsAtNext ==
  TypeInv' => \A s : AnswerQueued(s)' <=> \E i : AnswerAt(i)' /\ (jkbms_events[i].seq)' = s
<1>1. (TypeInv => \A s : AnswerQueued(s) <=> \E i : AnswerAt(i) /\ jkbms_events[i].seq = s)'
  BY QueuedIsAt, PTL
<1> QED
  BY <1>1

(* The coordinator sees an answer once, and then waits for it no more.       *)
LEMMA AwaitedTaken ==
  ASSUME TypeInv, TypeInv', AnswerInv, RecvJkbms
  PROVE  \A s : Awaited(s)' <=> Awaited(s) /\ ~(AnswerAt(1) /\ jkbms_events[1].seq = s)
<1> TAKE s
<1>1. /\ Len(jkbms_events) \in Nat \ {0} /\ Len(jkbms_events') = Len(jkbms_events) - 1
      /\ \A i \in 1 .. Len(jkbms_events') :
           i + 1 \in 1 .. Len(jkbms_events) /\ jkbms_events'[i] = jkbms_events[i + 1]
      /\ UNCHANGED <<accepted, confirmed, failed>>
  BY JkbmsTaken
<1>2. Outstanding' = Outstanding /\ Outstanding \intersect Answered = {}
  BY <1>1 DEF Outstanding, Answered
<1>3. (\E i : AnswerAt(i)' /\ jkbms_events'[i].seq = s)
        <=> \E i : AnswerAt(i) /\ jkbms_events[i].seq = s /\ i # 1
  <2>1. \A i \in 1 .. Len(jkbms_events') : AnswerAt(i)' <=> AnswerAt(i + 1)
    BY <1>1 DEF AnswerAt
  <2>2. \A i : AnswerAt(i)' => i \in 1 .. Len(jkbms_events')
    BY DEF AnswerAt
  <2>3. ASSUME NEW i, AnswerAt(i)', jkbms_events'[i].seq = s
        PROVE  AnswerAt(i + 1) /\ jkbms_events[i + 1].seq = s /\ i + 1 # 1
    BY <1>1, <2>1, <2>2, <2>3
  <2>4. ASSUME NEW i, AnswerAt(i), jkbms_events[i].seq = s, i # 1
        PROVE  AnswerAt(i - 1)' /\ jkbms_events'[i - 1].seq = s
    <3>1. i - 1 \in 1 .. Len(jkbms_events') /\ (i - 1) + 1 = i
      BY <1>1, <2>4 DEF AnswerAt
    <3> QED
      BY <1>1, <2>1, <2>4, <3>1
  <2> QED
    BY <2>3, <2>4
<1>4. AnswerQueued(s)' <=> AnswerQueued(s) /\ ~(AnswerAt(1) /\ jkbms_events[1].seq = s)
  <2>1. AnswerQueued(s)' <=> \E i : AnswerAt(i) /\ jkbms_events[i].seq = s /\ i # 1
    BY <1>3, QueuedIsAtNext
  <2>2. AnswerQueued(s) <=> \E i : AnswerAt(i) /\ jkbms_events[i].seq = s
    BY QueuedIsAt
  <2>3. AnswerAt(1) /\ jkbms_events[1].seq = s =>
          \A i : AnswerAt(i) /\ jkbms_events[i].seq = s => i = 1
    BY DEF AnswerInv
  <2> QED
    BY <2>1, <2>2, <2>3
<1>5. AnswerAt(1) /\ jkbms_events[1].seq = s => s \notin Outstanding
  BY <1>2 DEF AnswerInv
<1> QED
  BY <1>2, <1>4, <1>5 DEF Awaited

(* The BMS side answers only what is outstanding.                            *)
LEMMA AwaitedEmitted ==
  ASSUME TypeInv, TypeInv', NEW e \in JkbmsEvents, BmsEmits(e)
  PROVE  \A s : Awaited(s)' <=> Awaited(s)
<1> TAKE s
<1>1. /\ accepted' = accepted /\ jkbms_events' = Append(jkbms_events, e)
      /\ jkbms_events \in Seq(JkbmsEvents)
  BY Emitted DEF BmsEmits, TypeInv, ChannelTypeOK
<1>2. Range(Append(jkbms_events, e)) = Range(jkbms_events) \union {e}
  BY <1>1, QueueAppend
<1>3. AnswerQueued(s)' <=> AnswerQueued(s) \/ (IsAnswer(e) /\ e.seq = s)
  BY <1>1, <1>2 DEF AnswerQueued, IsAnswer
<1>4. /\ IsAnswer(e) => e.seq \in Outstanding /\ Outstanding' = Outstanding \ {e.seq}
      /\ ~IsAnswer(e) => Outstanding' = Outstanding
  BY <1>1 DEF BmsEmits, IsAnswer, Oldest, Outstanding, Answered
<1> QED
  BY <1>3, <1>4 DEF Awaited

LEMMA AwaitedAccepted ==
  ASSUME TypeInv, AnswerInv, NEW s, Awaited(s)
  PROVE  s \in accepted /\ s \in Seqs /\ s <= next_seq /\ s \in Int
<1>1. s \in accepted
  <2>1. CASE s \in Outstanding
    BY <2>1 DEF Outstanding
  <2>2. CASE AnswerQueued(s)
    <3>1. PICK i : AnswerAt(i) /\ jkbms_events[i].seq = s
      BY <2>2, QueuedIsAt
    <3> QED
      BY <3>1 DEF AnswerInv
  <2> QED
    BY <2>1, <2>2 DEF Awaited
<1>2. next_seq \in Nat
  BY CoordinatorAssumption DEF TypeInv, SeqTypeOK, CoordinatorAssumption
<1> QED
  BY <1>1, <1>2 DEF TypeInv, SideTypeOK, AnswerInv, Seqs

LEMMA AwaitedRequested ==
  ASSUME TypeInv, AnswerInv, RecvIncoming
  PROVE  \A s : Awaited(s)' <=> Awaited(s) \/ (s = next_seq + 1 /\ s \in accepted')
<1> TAKE s
<1>1. /\ accepted' \in {accepted, accepted \union {next_seq + 1}}
      /\ UNCHANGED <<jkbms_events, confirmed, failed>>
  BY DEF RecvIncoming
<1>2. /\ next_seq \in Nat /\ Answered \subseteq accepted /\ accepted \subseteq 1 .. next_seq
  BY CoordinatorAssumption DEF TypeInv, SeqTypeOK, AnswerInv, CoordinatorAssumption
<1>3. next_seq + 1 \notin accepted /\ next_seq + 1 \notin Answered
  BY <1>2
<1>4. Outstanding' = Outstanding \union ({next_seq + 1} \intersect accepted')
  BY <1>1, <1>3 DEF Outstanding, Answered
<1>5. AnswerQueued(s)' <=> AnswerQueued(s)
  BY <1>1 DEF AnswerQueued
<1> QED
  BY <1>4, <1>5 DEF Awaited

-----------------------------------------------------------------------------
(* The freeze.  FrozenUntilAnswered is inductive with the above; the newest  *)
(* request for a switch is one of its requests.                              *)

NewestIsRequest == \A w \in Switches : RequestsOf(w) # {} => Newest(w) \in RequestsOf(w)

FrozenSwitch(w) ==
  freeze[w] = IF NewestAwaited(w)
                THEN [seq |-> Newest(w), value |-> request[Newest(w)].value]
                ELSE Unfrozen

FreezeInv == NewestIsRequest /\ \A w \in Switches : FrozenSwitch(w)

LEMMA FreezeInit == Init => FreezeInv
<1> SUFFICES ASSUME Init PROVE FreezeInv
  OBVIOUS
<1>1. \A w : RequestsOf(w) = {}
  BY DEF Init, RequestsOf
<1> QED
  BY <1>1 DEF Init, FreezeInv, NewestIsRequest, FrozenSwitch, NewestAwaited

(* As long as no request comes, what is newest and what it asked stay.       *)
LEMMA SameRequests ==
  ASSUME request' = request
  PROVE  /\ \A w : RequestsOf(w)' = RequestsOf(w) /\ Newest(w)' = Newest(w)
         /\ NewestIsRequest => NewestIsRequest'
<1>1. \A w : RequestsOf(w)' = RequestsOf(w)
  BY DEF RequestsOf
<1>2. \A w : Newest(w)' = Newest(w)
  BY <1>1 DEF Newest
<1> QED
  BY <1>1, <1>2 DEF NewestIsRequest

LEMMA FreezeStutter ==
  ASSUME FreezeInv, UNCHANGED <<freeze, request>>, \A s : Awaited(s)' <=> Awaited(s)
  PROVE  FreezeInv'
<1>1. /\ \A w : RequestsOf(w)' = RequestsOf(w) /\ Newest(w)' = Newest(w)
      /\ NewestIsRequest'
  BY SameRequests DEF FreezeInv
<1>2. \A w : NewestAwaited(w)' <=> NewestAwaited(w)
  BY <1>1 DEF NewestAwaited
<1>3. \A w \in Switches : FrozenSwitch(w)'
  BY <1>1, <1>2 DEF FreezeInv, FrozenSwitch
<1> QED
  BY <1>1, <1>3 DEF FreezeInv

(* Of the first waiting answer: it is awaited, and, when it confirms,        *)
(* nothing awaited is older.                                                 *)
LEMMA FirstAnswer ==
  ASSUME TypeInv, AnswerInv, AnswerAt(1)
  PROVE  /\ Awaited(jkbms_events[1].seq)
         /\ ConfirmationAt(1) => \A s : Awaited(s) => jkbms_events[1].seq <= s
<1> DEFINE c == jkbms_events[1].seq
<1>1. Awaited(c)
  BY QueuedIsAt DEF Awaited
<1>2. ASSUME ConfirmationAt(1), NEW s, Awaited(s) PROVE c <= s
  <2>1. s \in Int /\ c \in Int
    BY <1>1, <1>2, AwaitedAccepted
  <2>2. CASE s \in Outstanding
    <3>1. c < s
      BY <1>2, <2>2 DEF AnswerInv
    <3> QED
      BY <2>1, <3>1
  <2>3. CASE AnswerQueued(s)
    <3>1. PICK i : AnswerAt(i) /\ jkbms_events[i].seq = s
      BY <2>3, QueuedIsAt
    <3>2. i = 1 \/ 1 < i
      BY <3>1 DEF AnswerAt
    <3>3. c = s \/ c < s
      BY <1>2, <3>1, <3>2 DEF AnswerInv
    <3> QED
      BY <2>1, <3>3
  <2> QED
    BY <1>2, <2>2, <2>3 DEF Awaited
<1> QED
  BY <1>1, <1>2

(* SwitchFreeze.apply on a confirmation: what it clears is what the          *)
(* confirmation answers, since nothing older is awaited.                     *)
LEMMA FreezeConfirmed ==
  ASSUME TypeInv, TypeInv', AnswerInv, FreezeInv, RecvWriteConfirmation
  PROVE  FreezeInv'
<1> DEFINE c == jkbms_events[1].seq
<1>1. RecvJkbms /\ freeze' = Apply(freeze, c) /\ request' = request /\ AnswerAt(1) /\ ConfirmationAt(1)
  <2>1. RecvJkbms /\ Head(jkbms_events).type = "WriteConfirmation"
        /\ freeze' = Apply(freeze, Head(jkbms_events).seq)
    BY DEF RecvWriteConfirmation
  <2>2. Head(jkbms_events) = jkbms_events[1] /\ Len(jkbms_events) \in Nat \ {0}
        /\ request' = request
    BY <2>1, JkbmsTaken
  <2> QED
    BY <2>1, <2>2 DEF AnswerAt, ConfirmationAt, IsAnswer
<1>2. /\ \A w : RequestsOf(w)' = RequestsOf(w) /\ Newest(w)' = Newest(w)
      /\ NewestIsRequest'
  BY <1>1, SameRequests DEF FreezeInv
<1>3. \A s : Awaited(s)' <=> Awaited(s) /\ s # c
  BY <1>1, AwaitedTaken
<1>4. \A s : Awaited(s) => c <= s /\ s \in Int /\ s # 0
  BY <1>1, FirstAnswer, AwaitedAccepted DEF Seqs
<1>5. c \in Int /\ 0 <= c
  BY <1>1, FirstAnswer, AwaitedAccepted DEF Seqs
<1> HIDE DEF c
<1>6. ASSUME NEW w \in Switches PROVE FrozenSwitch(w)'
  <2>1. NewestAwaited(w)' <=> NewestAwaited(w) /\ Newest(w) # c
    BY <1>2, <1>3 DEF NewestAwaited
  <2>2. freeze'[w] = IF freeze[w].seq <= c THEN Unfrozen ELSE freeze[w]
    BY <1>1 DEF Apply
  <2>3. FrozenSwitch(w)
    BY DEF FreezeInv
  <2>4. CASE NewestAwaited(w)
    <3>1. freeze[w] = [seq |-> Newest(w), value |-> request[Newest(w)].value]
      BY <2>3, <2>4 DEF FrozenSwitch
    <3>2. c <= Newest(w) /\ Newest(w) \in Int
      BY <1>4, <2>4 DEF NewestAwaited
    <3>3. freeze[w].seq <= c <=> Newest(w) = c
      BY <1>5, <3>1, <3>2
    <3> QED
      BY <1>1, <1>2, <2>1, <2>2, <2>4, <3>1, <3>3 DEF FrozenSwitch
  <2>5. CASE ~NewestAwaited(w)
    <3>1. freeze'[w] = Unfrozen
      BY <2>2, <2>3, <2>5 DEF FrozenSwitch
    <3> QED
      BY <2>1, <2>5, <3>1 DEF FrozenSwitch
  <2> QED
    BY <2>4, <2>5
<1> QED
  BY <1>2, <1>6 DEF FreezeInv

(* SwitchFreeze.clear on an error.                                           *)
LEMMA FreezeFailed ==
  ASSUME TypeInv, TypeInv', AnswerInv, FreezeInv, RecvWriteError
  PROVE  FreezeInv'
<1> DEFINE c == jkbms_events[1].seq
<1>1. RecvJkbms /\ freeze' = Clear(freeze, c) /\ request' = request /\ AnswerAt(1)
  <2>1. RecvJkbms /\ Head(jkbms_events).type = "WriteError"
        /\ freeze' = Clear(freeze, Head(jkbms_events).seq)
    BY DEF RecvWriteError
  <2>2. Head(jkbms_events) = jkbms_events[1] /\ Len(jkbms_events) \in Nat \ {0}
        /\ request' = request
    BY <2>1, JkbmsTaken
  <2> QED
    BY <2>1, <2>2 DEF AnswerAt, IsAnswer
<1>2. /\ \A w : RequestsOf(w)' = RequestsOf(w) /\ Newest(w)' = Newest(w)
      /\ NewestIsRequest'
  BY <1>1, SameRequests DEF FreezeInv
<1>3. \A s : Awaited(s)' <=> Awaited(s) /\ s # c
  BY <1>1, AwaitedTaken
<1> HIDE DEF c
<1>6. ASSUME NEW w \in Switches PROVE FrozenSwitch(w)'
  <2>1. NewestAwaited(w)' <=> NewestAwaited(w) /\ Newest(w) # c
    BY <1>2, <1>3 DEF NewestAwaited
  <2>2. freeze'[w] = IF freeze[w].seq = c THEN Unfrozen ELSE freeze[w]
    BY <1>1 DEF Clear
  <2>3. FrozenSwitch(w)
    BY DEF FreezeInv
  <2>4. CASE NewestAwaited(w)
    <3>1. freeze[w] = [seq |-> Newest(w), value |-> request[Newest(w)].value]
      BY <2>3, <2>4 DEF FrozenSwitch
    <3> QED
      BY <1>1, <1>2, <2>1, <2>2, <2>4, <3>1 DEF FrozenSwitch
  <2>5. CASE ~NewestAwaited(w)
    <3>1. freeze'[w] = Unfrozen
      BY <2>2, <2>3, <2>5 DEF FrozenSwitch
    <3> QED
      BY <2>1, <2>5, <3>1 DEF FrozenSwitch
  <2> QED
    BY <2>4, <2>5
<1> QED
  BY <1>2, <1>6 DEF FreezeInv

(* handle_incoming: the new request is the newest for its switch, and the    *)
(* switch is frozen at it if the BMS side took it, and not at all if not.    *)
LEMMA FreezeRequested ==
  ASSUME TypeInv, AnswerInv, FreezeInv, RecvIncoming
  PROVE  FreezeInv'
<1>0. PICK x \in Switches, v \in Values, s \in Seqs :
        /\ s = next_seq + 1
        /\ request' = Append(request, [switch |-> x, value |-> v])
        /\ \/ /\ accepted' = accepted \union {s}
              /\ freeze' = Freeze(freeze, s, x, v)
           \/ /\ accepted' = accepted
              /\ freeze' = Clear(Freeze(freeze, s, x, v), s)
  BY IncomingTaken
<1>1. s = next_seq + 1
  BY <1>0
<1>2. /\ request \in Seq([switch : Switches, value : Values]) /\ Len(request) = next_seq
      /\ next_seq \in Nat /\ freeze \in FreezeStates /\ accepted \subseteq 1 .. next_seq
  BY CoordinatorAssumption
  DEF TypeInv, SeqTypeOK, StateTypeOK, AnswerInv, CoordinatorAssumption
<1>3. /\ DOMAIN request = 1 .. next_seq /\ DOMAIN request' = 1 .. s
      /\ request'[s] = [switch |-> x, value |-> v]
      /\ \A i \in 1 .. next_seq : request'[i] = request[i]
  <2> DEFINE r == [switch |-> x, value |-> v]
  <2>1. r \in [switch : Switches, value : Values]
    OBVIOUS
  <2> HIDE DEF r
  <2>2. /\ Append(request, r) \in Seq([switch : Switches, value : Values])
        /\ Len(Append(request, r)) = Len(request) + 1
        /\ \A i \in 1 .. Len(request) : Append(request, r)[i] = request[i]
        /\ Append(request, r)[Len(request) + 1] = r
    BY <1>2, <2>1, AppendAt
  <2>3. request' = Append(request, r)
    BY <1>0 DEF r
  <2>4. request' \in Seq([switch : Switches, value : Values]) /\ Len(request') = s
    BY <1>1, <1>2, <2>2, <2>3
  <2> QED
    BY <1>1, <1>2, <2>2, <2>3, <2>4, LenProperties DEF r
<1>4. \A q : Awaited(q)' <=> Awaited(q) \/ (q = s /\ s \in accepted')
  BY <1>1, AwaitedRequested
<1>5. /\ s \notin accepted /\ ~Awaited(s) /\ s \in Nat /\ s # 0 /\ s \notin 1 .. next_seq
      /\ \A i \in 1 .. s : i \in 1 .. next_seq \/ i = s
      /\ \A i \in 1 .. next_seq : i \in 1 .. s /\ i <= s
  BY <1>1, <1>2, AwaitedAccepted
<1>6. freeze' \in [Switches -> [seq : Seqs, value : Values] \union {Unfrozen}]
      /\ freeze'[x] = (IF s \in accepted' THEN [seq |-> s, value |-> v] ELSE Unfrozen)
      /\ \A w \in Switches : w # x => freeze'[w] = freeze[w]
  <2> DEFINE f == Freeze(freeze, s, x, v)
  <2>1. f \in FreezeStates /\ Clear(f, s) \in FreezeStates
    BY <1>2, FreezeTypes
  <2>2. f[x] = [seq |-> s, value |-> v] /\ \A w \in Switches : w # x => f[w] = freeze[w]
    BY <1>2 DEF Freeze, FreezeStates
  <2>3. \A w \in Switches : freeze[w].seq # s
    <3> TAKE w \in Switches
    <3>1. FrozenSwitch(w)
      BY DEF FreezeInv
    <3>2. CASE NewestAwaited(w)
      <4>1. freeze[w].seq = Newest(w) /\ Awaited(Newest(w))
        BY <3>1, <3>2 DEF FrozenSwitch, NewestAwaited
      <4> QED
        BY <1>5, <4>1
    <3>3. CASE ~NewestAwaited(w)
      <4>1. freeze[w].seq = 0
        BY <3>1, <3>3 DEF FrozenSwitch, Unfrozen
      <4> QED
        BY <1>5, <4>1
    <3> QED
      BY <3>2, <3>3
  <2> HIDE DEF f
  <2>4. Clear(f, s)[x] = Unfrozen /\ \A w \in Switches : w # x => Clear(f, s)[w] = freeze[w]
    BY <2>2, <2>3 DEF Clear
  <2>5. CASE accepted' = accepted \union {s} /\ freeze' = f
    BY <2>1, <2>2, <2>5 DEF FreezeStates
  <2>6. CASE accepted' = accepted /\ freeze' = Clear(f, s)
    BY <1>5, <2>1, <2>4, <2>6 DEF FreezeStates
  <2> QED
    BY <1>0, <2>5, <2>6 DEF f
<1>7. /\ \A w \in Switches : RequestsOf(w) \subseteq 1 .. next_seq
      /\ \A w \in Switches : w # x => RequestsOf(w)' = RequestsOf(w)
      /\ RequestsOf(x)' = RequestsOf(x) \union {s}
  <2>1. \A w : RequestsOf(w) = {i \in 1 .. next_seq : request[i].switch = w}
    BY <1>3 DEF RequestsOf
  <2>2. \A w : RequestsOf(w)' = {i \in 1 .. s : request'[i].switch = w}
    BY <1>3 DEF RequestsOf
  <2>3. request'[s].switch = x
    BY <1>3
  <2>4. \A i \in 1 .. next_seq : i \in 1 .. s /\ request'[i].switch = request[i].switch
    BY <1>3, <1>5
  <2>5. s \in 1 .. s
    BY <1>5
  <2>6. ASSUME NEW w, w # x PROVE RequestsOf(w)' = RequestsOf(w)
    <3>1. \A i : i \in RequestsOf(w)' <=> i \in RequestsOf(w)
      BY <1>5, <2>1, <2>2, <2>3, <2>4, <2>6
    <3> QED
      BY <2>1, <2>2, <3>1
  <2>7. RequestsOf(x)' = RequestsOf(x) \union {s}
    <3>1. \A i : i \in RequestsOf(x)' <=> i \in RequestsOf(x) \/ i = s
      BY <1>5, <2>1, <2>2, <2>3, <2>4, <2>5
    <3> QED
      BY <2>1, <2>2, <3>1
  <2> QED
    BY <2>1, <2>6, <2>7
<1>8. Newest(x)' = s
  <2>1. Newest(x)' = CHOOSE i \in RequestsOf(x)' : \A r \in RequestsOf(x)' : r <= i
    BY DEF Newest
  <2>2. s \in RequestsOf(x)' /\ \A r \in RequestsOf(x)' : r <= s /\ r \in Int
    BY <1>5, <1>7
  <2>3. /\ Newest(x)' \in RequestsOf(x)'
        /\ \A r \in RequestsOf(x)' : r <= Newest(x)'
    BY <2>1, <2>2
  <2>4. s <= Newest(x)' /\ Newest(x)' <= s /\ Newest(x)' \in Int /\ s \in Int
    BY <1>5, <2>2, <2>3
  <2> QED
    BY <2>4
<1>9. \A w \in Switches : w # x => Newest(w)' = Newest(w)
  BY <1>7 DEF Newest
<1>10. NewestIsRequest'
  BY <1>7, <1>8, <1>9 DEF FreezeInv, NewestIsRequest
<1>11. FrozenSwitch(x)'
  <2>1. NewestAwaited(x)' <=> s \in accepted'
    BY <1>4, <1>5, <1>7, <1>8 DEF NewestAwaited
  <2>2. request'[s].value = v
    BY <1>3
  <2> QED
    BY <1>6, <1>8, <2>1, <2>2 DEF FrozenSwitch
<1>12. ASSUME NEW w \in Switches, w # x PROVE FrozenSwitch(w)'
  <2>1. RequestsOf(w)' = RequestsOf(w) /\ Newest(w)' = Newest(w) /\ freeze'[w] = freeze[w]
    BY <1>6, <1>7, <1>9, <1>12
  <2>2. RequestsOf(w) # {} => Newest(w) \in 1 .. next_seq
    BY <1>7 DEF FreezeInv, NewestIsRequest
  <2>3. RequestsOf(w) # {} => Newest(w) # s /\ request'[Newest(w)] = request[Newest(w)]
    BY <1>3, <1>5, <2>2
  <2>4. NewestAwaited(w)' <=> NewestAwaited(w)
    BY <1>4, <2>1, <2>3 DEF NewestAwaited
  <2>5. NewestAwaited(w) => RequestsOf(w) # {}
    BY DEF NewestAwaited
  <2>6. FrozenSwitch(w)
    BY DEF FreezeInv
  <2> QED
    BY <2>1, <2>3, <2>4, <2>5, <2>6 DEF FrozenSwitch
<1> QED
  BY <1>10, <1>11, <1>12 DEF FreezeInv

LEMMA FreezeStep ==
  TypeInv /\ TypeInv' /\ AnswerInv /\ FreezeInv /\ [Next]_coordinatorVars => FreezeInv'
<1> SUFFICES ASSUME TypeInv, TypeInv', AnswerInv, FreezeInv, [Next]_coordinatorVars
             PROVE  FreezeInv'
  OBVIOUS
<1>1. CASE RecvConnection \/ RecvData
  <2>1. RecvJkbms /\ UNCHANGED <<freeze, request>> /\ Head(jkbms_events).type \in {"Connection", "Data"}
    BY <1>1 DEF RecvConnection, RecvData, RecvJkbms
  <2>2. Head(jkbms_events) = jkbms_events[1]
    BY <2>1, JkbmsTaken
  <2>3. ~AnswerAt(1)
    BY <2>1, <2>2 DEF AnswerAt, IsAnswer
  <2>4. \A s : Awaited(s)' <=> Awaited(s)
    BY <2>1, <2>3, AwaitedTaken
  <2> QED
    BY <2>1, <2>4, FreezeStutter
<1>2. CASE RecvWriteConfirmation
  BY <1>2, FreezeConfirmed
<1>3. CASE RecvWriteError
  BY <1>3, FreezeFailed
<1>4. CASE BmsSide
  <2>1. PICK e \in JkbmsEvents : BmsEmits(e)
    BY <1>4, BmsSideEmits
  <2>2. UNCHANGED <<freeze, request>>
    BY <2>1, Emitted DEF BmsEmits
  <2> QED
    BY <2>1, <2>2, AwaitedEmitted, FreezeStutter
<1>5. CASE RecvIncoming
  BY <1>5, FreezeRequested
<1>6. CASE ~JkbmsEvent /\ ~BmsSide /\ ~RecvIncoming
  <2>1. UNCHANGED <<freeze, request, accepted, confirmed, failed, jkbms_events>>
    BY <1>6, OtherSteps
  <2>2. \A s : Awaited(s)' <=> Awaited(s)
    BY <2>1 DEF Awaited, AnswerQueued, Outstanding, Answered
  <2> QED
    BY <2>1, <2>2, FreezeStutter
<1> QED
  BY <1>1, <1>2, <1>3, <1>4, <1>5, <1>6 DEF JkbmsEvent

LEMMA CoordinatorInvariant == Spec => [](TypeInv /\ AnswerInv /\ FreezeInv)
<1>1. Init => TypeInv /\ AnswerInv /\ FreezeInv
  BY TypeInit, AnswerInit, FreezeInit
<1>2. TypeInv /\ AnswerInv /\ FreezeInv /\ [Next]_coordinatorVars
        => (TypeInv /\ AnswerInv /\ FreezeInv)'
  BY TypeStep, AnswerStep, FreezeStep
<1> QED
  BY <1>1, <1>2, PTL DEF Spec

(* A switch is frozen exactly while the newest request for it is under way,  *)
(* at the value it asked for (SwitchFreeze): apply, which clears by comparing*)
(* seqs across all switches, never clears a request that is still awaited,   *)
(* and nothing that has been answered stays frozen.                          *)
THEOREM SwitchFrozenUntilAnswered == Spec => []FrozenUntilAnswered
<1>1. FreezeInv => FrozenUntilAnswered
  BY DEF FreezeInv, FrozenSwitch, FrozenUntilAnswered
<1> QED
  BY <1>1, CoordinatorInvariant, PTL

(* Every snapshot that a handler is still to publish shows of each switch    *)
(* the value its newest request asks for while that is under way, and        *)
(* otherwise what was last read from the BMS (freeze.apply_to in             *)
(* build_snapshot).                                                          *)
THEOREM SnapshotsAsRequested == Spec => []SnapshotsShowRequested
<1>1. TypeInv /\ AnswerInv /\ FreezeInv => SnapshotsShowRequested
  <2> SUFFICES ASSUME TypeInv, AnswerInv, FreezeInv,
                      NEW c \in Range(outbox), c.type = "PublishSnapshot", NEW w \in Switches
               PROVE  c.switches[w] = IF NewestAwaited(w) THEN request[Newest(w)].value ELSE config[w]
    BY DEF SnapshotsShowRequested
  <2> DEFINE x == SwitchesShown(config, freeze)
  <2>1. c \in CallsShowing(have, x)
    <3>1. outbox \in Seq(CallsShowing(have, x))
      BY DEF TypeInv, OutboxOK, Saying
    <3> HIDE DEF x
    <3> QED
      BY <3>1, RangeOfSeq
  <2>2. c = Snapshot(x)
    BY <2>1 DEF CallsShowing, Subscribe, Discovery, Availability
  <2>3. c.switches[w] = IF Frozen(freeze, w) THEN freeze[w].value ELSE config[w]
    BY <2>2 DEF Snapshot, SwitchesShown
  <2>4. FrozenSwitch(w)
    BY DEF FreezeInv
  <2>5. CASE NewestAwaited(w)
    <3>1. freeze[w] = [seq |-> Newest(w), value |-> request[Newest(w)].value]
      BY <2>4, <2>5 DEF FrozenSwitch
    <3>2. Newest(w) # 0
      BY <2>5, AwaitedAccepted DEF NewestAwaited, Seqs
    <3> QED
      BY <2>3, <2>5, <3>1, <3>2 DEF Frozen
  <2>6. CASE ~NewestAwaited(w)
    BY <2>3, <2>4, <2>6 DEF FrozenSwitch, Frozen, Unfrozen
  <2> QED
    BY <2>5, <2>6
<1> QED
  BY <1>1, CoordinatorInvariant, PTL

-----------------------------------------------------------------------------
(* The contract about writes, the same that JkBmsManager implements.         *)

Promise == INSTANCE WriteService

LEMMA PromiseStep ==
  TypeInv /\ AnswerInv /\ [Next]_coordinatorVars => [Promise!Next]_Promise!vars
<1> SUFFICES ASSUME TypeInv, AnswerInv, [Next]_coordinatorVars
             PROVE  [Promise!Next]_Promise!vars
  OBVIOUS
<1>1. CASE RecvIncoming
  <2>1. PICK s : /\ s = next_seq + 1 /\ s \in Seqs
                 /\ accepted' = accepted \union {s} \/ accepted' = accepted
    BY <1>1, IncomingTaken
  <2>2. UNCHANGED <<confirmed, failed>>
    BY <1>1 DEF RecvIncoming
  <2>3. \A r \in accepted : r < s
    <3>1. accepted \subseteq 1 .. next_seq /\ next_seq \in Nat
      BY CoordinatorAssumption DEF AnswerInv, TypeInv, SeqTypeOK, CoordinatorAssumption
    <3> QED
      BY <2>1, <3>1
  <2> QED
    BY <2>1, <2>2, <2>3 DEF Promise!Next, Promise!Accept, Promise!vars
<1>2. CASE EmitConfirmation
  <2>1. PICK s \in Outstanding : /\ Oldest(s)
                                 /\ confirmed' = confirmed \union {s}
                                 /\ UNCHANGED <<accepted, failed>>
    BY <1>2 DEF EmitConfirmation, Emit
  <2>2. s \in Promise!Outstanding /\ \A r \in Promise!Outstanding : s <= r
    BY <2>1 DEF Oldest, Outstanding, Answered, Promise!Outstanding, Promise!Answered
  <2> QED
    BY <2>1, <2>2 DEF Promise!Next, Promise!Confirm
<1>3. CASE EmitError
  <2>1. PICK s \in Outstanding : /\ failed' = failed \union {s}
                                 /\ UNCHANGED <<accepted, confirmed>>
    BY <1>3 DEF EmitError, Emit
  <2>2. {s} \in SUBSET Promise!Outstanding /\ {s} # {}
    BY <2>1 DEF Outstanding, Answered, Promise!Outstanding, Promise!Answered
  <2> QED
    BY <2>1, <2>2 DEF Promise!Next, Promise!Fail
<1>4. CASE ~RecvIncoming /\ ~EmitConfirmation /\ ~EmitError
  <2>1. UNCHANGED <<accepted, confirmed, failed>>
    BY <1>4 DEF Next, coordinatorVars, bmsVars, CallTaken, CallRefused, MqttEvent,
       RecvBrokerConnected, RecvBrokerDisconnected, JkbmsEvent, RecvConnection, RecvData,
       RecvWriteConfirmation, RecvWriteError, RecvJkbms, BmsSide, EmitData, EmitLink, Emit,
       MqttSide, BrokerConnects, BrokerDrops, HaRequests, Notify
  <2> QED
    BY <2>1 DEF Promise!vars
<1> QED
  BY <1>1, <1>2, <1>3, <1>4

(* The coordinator is the caller that WriteService has in mind: the seqs     *)
(* that handle_incoming hands to JkBmsConnection::write only grow, whatever  *)
(* is refused in between, and every answer it gets is one that WriteService  *)
(* has.                                                                      *)
THEOREM KeepsWriteContract == Spec => Promise!Spec
<1>1. Init => Promise!Init
  BY DEF Init, Promise!Init
<1> QED
  BY <1>1, PromiseStep, CoordinatorInvariant, PTL DEF Spec, Promise!Spec

-----------------------------------------------------------------------------
(* The order of the polls, and of what is published because of them.         *)

IsData(i, d) == jkbms_events[i].type = "Data" /\ jkbms_events[i].of = d

(* d is held, or is in the channel before event i.                           *)
Before(d, i) == d \in have \/ \E k \in 1 .. i - 1 : IsData(k, d)

(* What the BMS side has read before it emits e.                             *)
Needs(e) ==
  IF e.type = "Data" THEN PollsAfter[e.of]
  ELSE IF e.type = "WriteConfirmation" THEN Fragments ELSE {}

(* No event comes before the polls that come before it, whatever of them the *)
(* coordinator has seen.                                                     *)
PollOrder ==
  /\ \A i \in 1 .. Len(jkbms_events) : \A d \in Needs(jkbms_events[i]) : Before(d, i)
  /\ link = "Connected" => \A d \in Fragments : Before(d, Len(jkbms_events) + 1)
  /\ \A d \in have : PollsAfter[d] \subseteq have

(* The first discovery is due with the last of its parts, and no snapshot is *)
(* published without its own.                                                *)
SnapshotDue == \E c \in Range(outbox) : c.type = "PublishSnapshot"

PublishOrder ==
  /\ Fragments \subseteq have <=> "discovery_published" \in flags
  /\ SnapshotDue => SnapshotParts \subseteq have

OrderInv == PollOrder /\ PublishOrder

LEMMA OrderInit == Init => OrderInv
<1> SUFFICES ASSUME Init PROVE OrderInv
  OBVIOUS
<1>1. Len(jkbms_events) = 0 /\ Range(outbox) = {} /\ have = {} /\ flags = {} /\ link = "None"
  BY DEF Init, Range
<1> QED
  BY <1>1 DEF OrderInv, PollOrder, PublishOrder, SnapshotDue, Fragments, SnapshotParts

LEMMA NeedsFragments ==
  ASSUME NEW e \in JkbmsEvents
  PROVE  Needs(e) \subseteq Fragments
<1>1. e.type = "Data" => e.of \in DOMAIN PollsAfter
  BY DEF JkbmsEvents, PollsAfter
<1>2. \A d \in DOMAIN PollsAfter : PollsAfter[d] \subseteq Fragments
  BY DEF PollsAfter, Fragments, SnapshotParts, DiscoveryParts
<1> QED
  BY <1>1, <1>2 DEF Needs

(* An event leaves the channel, and what it brings is held.                  *)
LEMMA PollTaken ==
  ASSUME TypeInv, PollOrder, RecvJkbms, have \subseteq have',
         \A d \in Fragments : IsData(1, d) => d \in have',
         \A d \in have' : PollsAfter[d] \subseteq have'
  PROVE  PollOrder'
<1>0. PICK n, m : n = Len(jkbms_events) /\ m = Len(jkbms_events')
  OBVIOUS
<1>1. /\ n \in Nat \ {0} /\ m = n - 1 /\ link' = link
      /\ jkbms_events' \in Seq(JkbmsEvents)
      /\ \A i \in 1 .. m : i + 1 \in 1 .. n /\ jkbms_events'[i] = jkbms_events[i + 1]
  BY <1>0, JkbmsTaken
<1>2. \A i \in 1 .. m + 1 : \A d \in Fragments : Before(d, i + 1) => Before(d, i)'
  <2> TAKE i \in 1 .. m + 1
  <2> TAKE d \in Fragments
  <2> HAVE Before(d, i + 1)
  <2>1. CASE d \in have
    BY <2>1 DEF Before
  <2>2. ASSUME NEW k \in 1 .. (i + 1) - 1, IsData(k, d) PROVE Before(d, i)'
    <3>1. CASE k = 1
      BY <2>2, <3>1 DEF Before
    <3>2. CASE k # 1
      <4>1. k - 1 \in 1 .. i - 1 /\ k - 1 \in 1 .. m /\ (k - 1) + 1 = k
        BY <1>1, <3>2
      <4>2. jkbms_events'[k - 1] = jkbms_events[k]
        BY <1>1, <4>1
      <4>3. IsData(k - 1, d)'
        BY <2>2, <4>2 DEF IsData
      <4> QED
        BY <4>1, <4>3 DEF Before
    <3> QED
      BY <3>1, <3>2
  <2> QED
    BY <2>1, <2>2 DEF Before
<1>3. ASSUME NEW i \in 1 .. m, NEW d \in Needs(jkbms_events'[i])
      PROVE  Before(d, i)'
  <2>1. jkbms_events'[i] \in JkbmsEvents /\ jkbms_events'[i] = jkbms_events[i + 1]
    BY <1>0, <1>1, ElementOfSeq
  <2>2. d \in Fragments
    BY <2>1, NeedsFragments
  <2>3. Before(d, i + 1)
    BY <1>0, <1>1, <2>1 DEF PollOrder
  <2>4. i \in 1 .. m + 1
    BY <1>1
  <2> QED
    BY <1>2, <2>2, <2>3, <2>4
<1>4. ASSUME link' = "Connected", NEW d \in Fragments
      PROVE  Before(d, m + 1)'
  <2>1. Before(d, n + 1) /\ n + 1 = (m + 1) + 1 /\ m + 1 \in 1 .. m + 1
    BY <1>0, <1>1, <1>4 DEF PollOrder
  <2> QED
    BY <1>2, <2>1
<1> QED
  BY <1>0, <1>3, <1>4 DEF PollOrder

LEMMA PolledIsBefore ==
  ASSUME TypeInv, NEW d \in Polled
  PROVE  Before(d, Len(jkbms_events) + 1)
<1>1. DOMAIN jkbms_events = 1 .. Len(jkbms_events) /\ Len(jkbms_events) \in Nat
  BY LenProperties DEF TypeInv, ChannelTypeOK
<1>2. CASE d \in have
  BY <1>2 DEF Before
<1>3. CASE d \notin have
  <2>1. PICK k \in DOMAIN jkbms_events :
          jkbms_events[k].type = "Data" /\ jkbms_events[k].of = d
    BY <1>3 DEF Polled, Range
  <2>2. k \in 1 .. (Len(jkbms_events) + 1) - 1
    BY <1>1, <2>1
  <2> QED
    BY <2>1, <2>2 DEF Before, IsData
<1> QED
  BY <1>2, <1>3

(* The BMS side emits nothing before what it needs.                          *)
LEMMA EmitsInOrder ==
  ASSUME TypeInv, PollOrder, BmsSide
  PROVE  \E e \in JkbmsEvents :
           /\ Emit(e)
           /\ \A d \in Needs(e) : Before(d, Len(jkbms_events) + 1)
           /\ link' = "Connected" => \A d \in Fragments : Before(d, Len(jkbms_events) + 1)
<1> DEFINE InOrder(e) ==
             /\ Emit(e)
             /\ \A d \in Needs(e) : Before(d, Len(jkbms_events) + 1)
             /\ link' = "Connected" => \A d \in Fragments : Before(d, Len(jkbms_events) + 1)
<1>1. link = "Connected" => \A d \in Fragments : Before(d, Len(jkbms_events) + 1)
  BY DEF PollOrder
<1>2. ASSUME NEW p \in DOMAIN PollsAfter, EmitData(p)
      PROVE  \E e \in JkbmsEvents : InOrder(e)
  <2>1. PICK f \in SwitchStates :
          Emit(IF p = "ConfigOptions" THEN [type |-> "Data", of |-> p, switches |-> f]
                                      ELSE [type |-> "Data", of |-> p])
    BY <1>2 DEF EmitData
  <2> DEFINE e == IF p = "ConfigOptions" THEN [type |-> "Data", of |-> p, switches |-> f]
                                         ELSE [type |-> "Data", of |-> p]
  <2>2. link' = link /\ PollsAfter[p] \subseteq Polled
    BY <1>2 DEF EmitData
  <2>3. e \in JkbmsEvents /\ e.type = "Data" /\ e.of = p
    BY DEF JkbmsEvents, PollsAfter
  <2>4. Emit(e)
    BY <2>1
  <2> HIDE DEF e
  <2>5. \A d \in Needs(e) : Before(d, Len(jkbms_events) + 1)
    BY <2>2, <2>3, PolledIsBefore DEF Needs
  <2> QED
    BY <1>1, <2>2, <2>3, <2>4, <2>5
<1>3. ASSUME NEW s \in DOMAIN LinkSteps, EmitLink(s)
      PROVE  \E e \in JkbmsEvents : InOrder(e)
  <2> DEFINE e == [type |-> "Connection", state |-> s]
  <2>1. /\ Emit(e) /\ link' = s /\ s \in LinkSteps[link]
        /\ s = "Connected" => Fragments \subseteq Polled
    BY <1>3 DEF EmitLink
  <2>2. s \in {"Connected", "Reconnecting", "Disconnected"}
    BY <2>1 DEF LinkSteps, TypeInv, SideTypeOK
  <2>3. e \in JkbmsEvents /\ e.type = "Connection"
    BY <2>2 DEF JkbmsEvents
  <2> HIDE DEF e
  <2>4. Needs(e) = {}
    BY <2>3 DEF Needs
  <2>5. link' = "Connected" => \A d \in Fragments : Before(d, Len(jkbms_events) + 1)
    BY <2>1, PolledIsBefore
  <2> QED
    BY <2>1, <2>3, <2>4, <2>5
<1>4. ASSUME EmitConfirmation
      PROVE  \E e \in JkbmsEvents : InOrder(e)
  <2>1. PICK s \in Outstanding :
          /\ link = "Connected" /\ link' = link
          /\ \E f \in SwitchStates :
               Emit([type |-> "WriteConfirmation", seq |-> s, switches |-> f])
    BY <1>4 DEF EmitConfirmation
  <2>2. PICK f \in SwitchStates :
          Emit([type |-> "WriteConfirmation", seq |-> s, switches |-> f])
    BY <2>1
  <2> DEFINE e == [type |-> "WriteConfirmation", seq |-> s, switches |-> f]
  <2>3. e \in JkbmsEvents /\ e.type = "WriteConfirmation"
    BY DEF JkbmsEvents, TypeInv, SideTypeOK, Outstanding
  <2>4. Emit(e)
    BY <2>2
  <2> HIDE DEF e
  <2>5. Needs(e) = Fragments
    BY <2>3 DEF Needs
  <2> QED
    BY <1>1, <2>1, <2>3, <2>4, <2>5
<1>5. ASSUME EmitError
      PROVE  \E e \in JkbmsEvents : InOrder(e)
  <2>1. PICK s \in Outstanding :
          Emit([type |-> "WriteError", seq |-> s]) /\ link' = link
    BY <1>5 DEF EmitError
  <2> DEFINE e == [type |-> "WriteError", seq |-> s]
  <2>2. e \in JkbmsEvents /\ e.type = "WriteError"
    BY DEF JkbmsEvents, TypeInv, SideTypeOK, Outstanding
  <2>3. Emit(e)
    BY <2>1
  <2> HIDE DEF e
  <2>4. Needs(e) = {}
    BY <2>2 DEF Needs
  <2> QED
    BY <1>1, <2>1, <2>2, <2>3, <2>4
<1> QED
  BY <1>2, <1>3, <1>4, <1>5 DEF BmsSide

LEMMA PollEmitted ==
  ASSUME TypeInv, PollOrder, BmsSide
  PROVE  PollOrder'
<1>0. PICK n : n = Len(jkbms_events)
  OBVIOUS
<1>1. PICK e \in JkbmsEvents :
        /\ Emit(e)
        /\ \A d \in Needs(e) : Before(d, n + 1)
        /\ link' = "Connected" => \A d \in Fragments : Before(d, n + 1)
  BY <1>0, EmitsInOrder
<1>2. jkbms_events' = Append(jkbms_events, e) /\ have' = have
  BY <1>1, Emitted
<1>3. jkbms_events \in Seq(JkbmsEvents)
  BY DEF TypeInv, ChannelTypeOK
<1>4. /\ n \in Nat /\ Len(jkbms_events') = n + 1
      /\ \A i \in 1 .. n : jkbms_events'[i] = jkbms_events[i]
      /\ jkbms_events'[n + 1] = e
      /\ \A i \in 1 .. Len(jkbms_events') : i \in 1 .. n \/ i = n + 1
  BY <1>0, <1>2, <1>3, AppendAt
<1>5. \A i \in 1 .. n + 2 : \A d : Before(d, i) /\ i <= n + 1 => Before(d, i)'
  BY <1>2, <1>4 DEF Before, IsData
<1>6. \A d : Before(d, n + 1)' => Before(d, n + 2)'
  BY <1>4 DEF Before
<1>7. ASSUME NEW i \in 1 .. n + 1, NEW d \in Needs(jkbms_events'[i])
      PROVE  Before(d, i)'
  <2>1. CASE i \in 1 .. n
    <3>1. Before(d, i)
      BY <1>0, <1>4, <1>7, <2>1 DEF PollOrder
    <3> QED
      BY <1>4, <1>5, <2>1, <3>1
  <2>2. CASE i = n + 1
    BY <1>1, <1>4, <1>5, <1>7, <2>2
  <2> QED
    BY <1>4, <2>1, <2>2
<1>8. ASSUME link' = "Connected", NEW d \in Fragments
      PROVE  Before(d, n + 2)'
  BY <1>1, <1>4, <1>5, <1>6, <1>8
<1>9. \A d \in have' : PollsAfter[d] \subseteq have'
  BY <1>2 DEF PollOrder
<1>10. Len(jkbms_events)' = n + 1 /\ (n + 1) + 1 = n + 2
  BY <1>4
<1> QED
  BY <1>7, <1>8, <1>9, <1>10 DEF PollOrder

(* Calls among which is no snapshot.                                         *)
LEMMA NoneDue ==
  ASSUME NEW q \in Seq({Subscribe, Discovery} \union {Availability(o) : o \in {"online", "offline"}}),
         NEW c \in Range(q)
  PROVE  c.type # "PublishSnapshot"
<1>1. c \in {Subscribe, Discovery} \union {Availability(o) : o \in {"online", "offline"}}
  BY RangeOfSeq
<1> QED
  BY <1>1 DEF Subscribe, Discovery, Availability

LEMMA PublishTailOrder ==
  ASSUME PublishOrder, have \subseteq have', PublishTail(have', config', freeze')
  PROVE  PublishOrder'
<1>1. SnapshotParts \subseteq Fragments
  BY DEF Fragments
<1>2. Fragments \subseteq have' <=> "discovery_published" \in flags'
  BY DEF PublishTail, PublishOrder
<1>3. ASSUME ~(SnapshotParts \subseteq have') PROVE ~SnapshotDue'
  <2>1. outbox' = <<>> \o <<>>
    BY <1>1, <1>3 DEF PublishTail, SnapshotIfAny
  <2>2. outbox' \in Seq({Subscribe, Discovery} \union {Availability(o) : o \in {"online", "offline"}})
    BY <2>1
  <2> QED
    BY <2>2, NoneDue DEF SnapshotDue
<1> QED
  BY <1>2, <1>3 DEF PublishOrder

LEMMA ReshippedOrder ==
  ASSUME PublishOrder, RecvBrokerConnected
  PROVE  PublishOrder'
<1>1. /\ have' = have /\ outbox' = Reshipped
      /\ "discovery_published" \in flags' <=> "discovery_published" \in flags
  BY DEF RecvBrokerConnected
<1>2. ASSUME ~(SnapshotParts \subseteq have) PROVE ~SnapshotDue'
  <2> DEFINE S == {Subscribe, Discovery} \union {Availability(o) : o \in {"online", "offline"}}
             p == <<Subscribe, Availability(OnlineIf(flags))>>
             r == IF DiscoveryParts \subseteq have THEN <<Discovery>> ELSE <<>>
  <2>1. outbox' = p \o r \o <<>>
    BY <1>1, <1>2 DEF Reshipped, SnapshotIfAny
  <2>2. p \in Seq(S) /\ r \in Seq(S) /\ <<>> \in Seq(S)
    <3>1. Subscribe \in S /\ Discovery \in S /\ Availability(OnlineIf(flags)) \in S
      BY DEF OnlineIf
    <3> HIDE DEF S
    <3> QED
      BY <3>1
  <2> HIDE DEF S, p, r
  <2>3. p \o r \in Seq(S)
    BY <2>2, ConcatProperties
  <2>4. outbox' \in Seq(S)
    BY <2>1, <2>2, <2>3, ConcatProperties
  <2> QED
    BY <2>4, NoneDue DEF SnapshotDue, S
<1> QED
  BY <1>1, <1>2 DEF PublishOrder

(* What a BMS event changes of this.                                         *)
LEMMA JkbmsOrder ==
  ASSUME TypeInv, OrderInv, JkbmsEvent
  PROVE  OrderInv'
<1> DEFINE e == jkbms_events[1]
<1>1. RecvJkbms
  BY DEF JkbmsEvent, RecvConnection, RecvData, RecvWriteConfirmation, RecvWriteError
<1>2. /\ Head(jkbms_events) = e /\ e \in JkbmsEvents /\ outbox = <<>>
      /\ 1 \in 1 .. Len(jkbms_events)
  BY <1>1, JkbmsTaken
<1>3. Needs(e) \subseteq have
  <2>1. \A d \in Needs(e) : Before(d, 1)
    BY <1>2 DEF OrderInv, PollOrder
  <2> QED
    BY <2>1 DEF Before
<1>4. \A d \in have : PollsAfter[d] \subseteq have
  BY DEF OrderInv, PollOrder
<1>5. CASE RecvConnection
  <2>1. have' = have /\ e.type # "Data"
    BY <1>2, <1>5 DEF RecvConnection
  <2>2. PollOrder'
    BY <1>1, <1>4, <2>1, PollTaken DEF OrderInv, IsData
  <2>3. /\ "discovery_published" \in flags' <=> "discovery_published" \in flags
        /\ outbox' \in {<<>>, <<Availability("online")>>, <<Availability("offline")>>}
    BY <1>2, <1>5 DEF RecvConnection, ConnectionChanges
  <2>4. ~SnapshotDue'
    <3> DEFINE S == {Subscribe, Discovery} \union {Availability(o) : o \in {"online", "offline"}}
    <3>1. Availability("online") \in S /\ Availability("offline") \in S
      OBVIOUS
    <3> HIDE DEF S
    <3>2. <<>> \in Seq(S) /\ <<Availability("online")>> \in Seq(S)
                            /\ <<Availability("offline")>> \in Seq(S)
      BY <3>1
    <3>3. outbox' \in Seq(S)
      BY <2>3, <3>2
    <3> QED
      BY <3>3, NoneDue DEF SnapshotDue, S
  <2>5. PublishOrder'
    BY <2>1, <2>3, <2>4 DEF OrderInv, PublishOrder
  <2> QED
    BY <2>2, <2>5 DEF OrderInv
<1>6. CASE RecvData \/ RecvWriteConfirmation \/ RecvWriteError
  <2>1. PublishTail(have', config', freeze')
    BY <1>6, JkbmsDataTaken
  <2>2. /\ have \subseteq have'
        /\ \A d \in Fragments : IsData(1, d) => d \in have'
        /\ \A d \in have' : PollsAfter[d] \subseteq have'
    <3>1. CASE RecvData
      <4>1. e.type = "Data" /\ have' = have \union ({e.of} \intersect Fragments)
        BY <1>2, <3>1 DEF RecvData
      <4>2. PollsAfter[e.of] \subseteq have
        BY <1>3, <4>1 DEF Needs
      <4> QED
        BY <1>4, <4>1, <4>2 DEF IsData
    <3>2. CASE RecvWriteConfirmation
      <4>1. e.type = "WriteConfirmation" /\ have' = have \union {"ConfigOptions"}
        BY <1>2, <3>2 DEF RecvWriteConfirmation
      <4>2. Fragments \subseteq have
        BY <1>3, <4>1 DEF Needs
      <4>3. have' = have
        BY <4>1, <4>2 DEF Fragments, SnapshotParts
      <4> QED
        BY <1>4, <4>1, <4>3 DEF IsData
    <3>3. CASE RecvWriteError
      <4>1. e.type = "WriteError" /\ have' = have
        BY <1>2, <3>3 DEF RecvWriteError
      <4> QED
        BY <1>4, <4>1 DEF IsData
    <3> QED
      BY <1>6, <3>1, <3>2, <3>3
  <2>3. PollOrder'
    BY <1>1, <2>2, PollTaken DEF OrderInv
  <2>4. PublishOrder'
    BY <2>1, <2>2, PublishTailOrder DEF OrderInv
  <2> QED
    BY <2>3, <2>4 DEF OrderInv
<1> QED
  BY <1>5, <1>6 DEF JkbmsEvent

LEMMA PollsUnchanged ==
  ASSUME UNCHANGED <<have, jkbms_events, link>>, PollOrder
  PROVE  PollOrder'
BY DEF PollOrder, Before, IsData

LEMMA OrderStep ==
  TypeInv /\ OrderInv /\ [Next]_coordinatorVars => OrderInv'
<1> SUFFICES ASSUME TypeInv, OrderInv, [Next]_coordinatorVars
             PROVE  OrderInv'
  OBVIOUS
<1>1. CASE CallTaken \/ CallRefused
  <2>1. /\ UNCHANGED <<have, flags, jkbms_events, link>>
        /\ outbox # <<>> /\ outbox' \in {Tail(outbox), <<>>}
    BY <1>1 DEF CallTaken, CallRefused, coordVars, bmsVars
  <2>2. Range(outbox') \subseteq Range(outbox)
    <3>1. PICK S : outbox \in Seq(S)
      BY DEF TypeInv, OutboxOK, Saying
    <3>2. Range(<<>>) = {}
      BY DEF Range
    <3>3. Range(Tail(outbox)) \subseteq Range(outbox)
      BY <2>1, <3>1, QueueTail
    <3>4. CASE outbox' = <<>>
      BY <3>2, <3>4
    <3>5. CASE outbox' = Tail(outbox)
      BY <3>3, <3>5
    <3> QED
      BY <2>1, <3>4, <3>5
  <2> QED
    BY <2>1, <2>2, PollsUnchanged DEF OrderInv, PublishOrder, SnapshotDue
<1>2. CASE RecvBrokerConnected
  <2>1. UNCHANGED <<have, jkbms_events, link>>
    BY <1>2 DEF RecvBrokerConnected, bmsVars
  <2> QED
    BY <1>2, <2>1, PollsUnchanged, ReshippedOrder DEF OrderInv
<1>3. CASE RecvBrokerDisconnected \/ RecvIncoming
  <2>1. /\ UNCHANGED <<have, outbox, jkbms_events, link>>
        /\ "discovery_published" \in flags' <=> "discovery_published" \in flags
    BY <1>3 DEF RecvBrokerDisconnected, RecvIncoming, RecvMqtt, bmsVars
  <2> QED
    BY <2>1, PollsUnchanged DEF OrderInv, PublishOrder, SnapshotDue
<1>4. CASE JkbmsEvent
  BY <1>4, JkbmsOrder
<1>5. CASE BmsSide
  <2>1. UNCHANGED <<have, flags, outbox>>
    BY <1>5 DEF BmsSide, EmitData, EmitLink, EmitConfirmation, EmitError, Emit, coordVars
  <2> QED
    BY <1>5, <2>1, PollEmitted DEF OrderInv, PublishOrder, SnapshotDue
<1>6. CASE MqttSide \/ UNCHANGED coordinatorVars
  <2>1. UNCHANGED <<have, flags, outbox, jkbms_events, link>>
    BY <1>6 DEF MqttSide, BrokerConnects, BrokerDrops, HaRequests, Notify, coordVars, bmsVars,
                coordinatorVars
  <2> QED
    BY <2>1, PollsUnchanged DEF OrderInv, PublishOrder, SnapshotDue
<1> QED
  BY <1>1, <1>2, <1>3, <1>4, <1>5, <1>6 DEF Next, MqttEvent

(* Whatever is lost of a resync, or sits in the channel when it is repeated, *)
(* the coordinator takes in a fragment only after those that its poll comes  *)
(* after, and a confirmed write only after them all (resync, handle_write);  *)
(* so it has announced the entities, or is about to, exactly when it holds   *)
(* all that the announcement and a snapshot need (handle_jkbms_event), and   *)
(* no snapshot is published before.                                          *)
THEOREM PollsInOrder == Spec => [](TypeInv /\ OrderInv)
BY TypeInvariant, OrderInit, OrderStep, PTL DEF Spec

-----------------------------------------------------------------------------
(* What a handler says.                                                      *)

LEMMA SmallRanges ==
  /\ Range(<<>>) = {}
  /\ \A c : Range(<<c>>) = {c}
  /\ \A c, d : Range(<<c, d>>) = {c, d}
<1>1. Range(<<>>) = {}
  <2> DEFINE q == <<>>
  <2>1. q \in Seq(Nat) /\ Len(q) = 0
    BY EmptySeq
  <2> HIDE DEF q
  <2>2. Range(q) = {q[i] : i \in 1 .. Len(q)}
    BY <2>1, RangeEquality
  <2>3. Range(q) = {}
    BY <2>1, <2>2
  <2> QED
    BY <2>3 DEF q
<1>2. ASSUME NEW c PROVE Range(<<c>>) = {c}
  <2> DEFINE q == <<c>>
  <2>1. q \in Seq({c}) /\ Len(q) = 1 /\ q[1] = c
    OBVIOUS
  <2> HIDE DEF q
  <2>2. Range(q) = {q[i] : i \in 1 .. Len(q)}
    BY <2>1, RangeEquality
  <2>3. Range(q) = {c}
    BY <2>1, <2>2
  <2> QED
    BY <2>3 DEF q
<1>3. ASSUME NEW c, NEW d PROVE Range(<<c, d>>) = {c, d}
  <2> DEFINE q == <<c, d>>
  <2>1. q \in Seq({c, d}) /\ Len(q) = 2 /\ q[1] = c /\ q[2] = d
    OBVIOUS
  <2> HIDE DEF q
  <2>2. Range(q) = {q[i] : i \in 1 .. Len(q)} /\ 1 .. Len(q) = {1, 2}
    BY <2>1, RangeEquality
  <2>3. Range(q) = {c, d}
    BY <2>1, <2>2
  <2> QED
    BY <2>3 DEF q
<1> QED
  BY <1>1, <1>2, <1>3

SnapshotCalls(h, x) == IF SnapshotParts \subseteq h THEN {Snapshot(x)} ELSE {}

LEMMA ReshippedRange ==
  Range(Reshipped) =
    {Subscribe, Availability(OnlineIf(flags))}
      \union (IF DiscoveryParts \subseteq have THEN {Discovery} ELSE {})
      \union SnapshotCalls(have, SwitchesShown(config, freeze))
<1> DEFINE p == <<Subscribe, Availability(OnlineIf(flags))>>
           d == IF DiscoveryParts \subseteq have THEN <<Discovery>> ELSE <<>>
           s == SnapshotIfAny(have, config, freeze)
           x == Snapshot(SwitchesShown(config, freeze))
           S == {Subscribe, Availability(OnlineIf(flags)), Discovery, x}
<1>1. /\ Range(p) = {Subscribe, Availability(OnlineIf(flags))}
      /\ Range(d) = IF DiscoveryParts \subseteq have THEN {Discovery} ELSE {}
      /\ Range(s) = SnapshotCalls(have, SwitchesShown(config, freeze))
  BY SmallRanges DEF SnapshotIfAny, SnapshotCalls
<1>2. p \in Seq(S) /\ d \in Seq(S) /\ s \in Seq(S)
  <2>1. <<>> \in Seq(S)
    BY EmptySeq
  <2>2. \A e \in S : <<e>> \in Seq(S)
    OBVIOUS
  <2>3. p \in Seq(S)
    OBVIOUS
  <2> QED
    BY <2>1, <2>2, <2>3 DEF SnapshotIfAny
<1>3. Reshipped = (p \o d) \o s
  BY DEF Reshipped
<1> HIDE DEF p, d, s, S
<1>4. p \o d \in Seq(S)
  BY <1>2, ConcatProperties
<1>5. Range(p \o d) = Range(p) \union Range(d)
  BY <1>2, RangeConcatenation
<1>6. Range((p \o d) \o s) = Range(p \o d) \union Range(s)
  BY <1>2, <1>4, RangeConcatenation
<1> QED
  BY <1>1, <1>3, <1>5, <1>6

LEMMA TailRange ==
  ASSUME NEW h, NEW c, NEW f, PublishTail(h, c, f)
  PROVE  LET first == /\ "discovery_published" \notin flags
                      /\ Fragments \subseteq h
                      /\ ~ (Fragments \subseteq have)
         IN /\ Range(outbox') = (IF first THEN {Discovery} ELSE {})
                                  \union SnapshotCalls(h, SwitchesShown(c, f))
            /\ flags' = IF first THEN flags \union {"discovery_published"} ELSE flags
<1> DEFINE first == /\ "discovery_published" \notin flags
                    /\ Fragments \subseteq h
                    /\ ~ (Fragments \subseteq have)
           d == IF first THEN <<Discovery>> ELSE <<>>
           s == SnapshotIfAny(h, c, f)
           S == {Discovery, Snapshot(SwitchesShown(c, f))}
<1>1. /\ Range(d) = IF first THEN {Discovery} ELSE {}
      /\ Range(s) = SnapshotCalls(h, SwitchesShown(c, f))
  BY SmallRanges DEF SnapshotIfAny, SnapshotCalls
<1>2. d \in Seq(S) /\ s \in Seq(S)
  <2>1. <<>> \in Seq(S)
    BY EmptySeq
  <2>2. \A e \in S : <<e>> \in Seq(S)
    OBVIOUS
  <2> QED
    BY <2>1, <2>2 DEF SnapshotIfAny
<1>3. /\ outbox' = d \o s
      /\ flags' = IF first THEN flags \union {"discovery_published"} ELSE flags
  BY DEF PublishTail
<1> HIDE DEF d, s, S, first
<1>4. Range(d \o s) = Range(d) \union Range(s)
  BY <1>2, RangeConcatenation
<1> QED
  BY <1>1, <1>3, <1>4 DEF first

=============================================================================
