---------------------------- MODULE BridgeProofs ----------------------------
(***************************************************************************)
(* What TLAPS proves of Bridge, for any finite set of switches, any values *)
(* and any capacities: that the coordinator in it keeps the specification  *)
(* of Coordinator, with all that is proved of that, the types, and that    *)
(* Home Assistant sees the coordinator's view whenever things have settled.*)
(***************************************************************************)
EXTENDS Bridge, CoordinatorProofs, FiniteSetTheorems

-----------------------------------------------------------------------------
(* Home Assistant's view is one value per topic: of the availability, the    *)
(* discovery, the session's subscriptions, and of the state of each switch.  *)

Topics ==
  [kind : {"PublishAvailability", "SubscribeToCommands", "PublishDiscovery"}]
    \union [kind : {"PublishSnapshot"}, of : Switches]

(* What a call or request does to a topic.                                   *)
Touches(r, t) ==
  IF t.kind = "PublishSnapshot"
    THEN r.type = "PublishSnapshot" \/ (r.type = "State" /\ r.switch = t.of)
    ELSE r.type = t.kind

Says(r, t) ==
  IF r.type = "PublishSnapshot" THEN r.switches[t.of]
  ELSE IF r.type = "State" THEN r.value
  ELSE IF r.type = "PublishAvailability" THEN r.online
  ELSE "yes"

Effect(r, t, x) == IF Touches(r, t) THEN Says(r, t) ELSE x

Mute(q, t) == \A i \in 1 .. Len(q) : ~Touches(q[i], t)

(* A topic at x is at y after all of q.                                      *)
Leaves(q, t, x, y) ==
  \/ \E i \in 1 .. Len(q) : /\ Touches(q[i], t) /\ Says(q[i], t) = y
                            /\ \A j \in 1 .. Len(q) : j > i => ~Touches(q[j], t)
  \/ Mute(q, t) /\ x = y

LEMMA EmptyLeaves ==
  ASSUME NEW t, NEW x, NEW y
  PROVE  Mute(<<>>, t) /\ (Leaves(<<>>, t, x, y) <=> x = y)
<1>1. Len(<<>>) = 0
  BY EmptySeq
<1> QED
  BY <1>1 DEF Leaves, Mute

LEMMA LeavesFromElsewhere ==
  ASSUME NEW q, NEW t, NEW x, NEW y, NEW z, Leaves(q, t, x, y)
  PROVE  \E b : Leaves(q, t, z, b)
<1>1. Mute(q, t) => Leaves(q, t, z, z)
  BY DEF Leaves
<1>2. ~Mute(q, t) => Leaves(q, t, z, y)
  BY DEF Leaves
<1> QED
  BY <1>1, <1>2

LEMMA LeavesAppend ==
  ASSUME NEW S, NEW q \in Seq(S), NEW e \in S, NEW t, NEW x, NEW y, Leaves(q, t, x, y)
  PROVE  /\ Leaves(Append(q, e), t, x, Effect(e, t, y))
         /\ Mute(q, t) /\ ~Touches(e, t) => Mute(Append(q, e), t)
<1> DEFINE r == Append(q, e)
           n == Len(q) + 1
<1>1. /\ Len(q) \in Nat /\ Len(r) = n
      /\ \A i \in 1 .. Len(q) : r[i] = q[i] /\ i \in 1 .. Len(r) /\ i < n
      /\ r[n] = e /\ n \in 1 .. Len(r)
      /\ \A i \in 1 .. Len(r) : i \in 1 .. Len(q) \/ i = n
      /\ \A i \in 1 .. Len(r) : ~(i > n)
  BY AppendAt
<1> HIDE DEF r, n
<1>2. ASSUME Mute(q, t), ~Touches(e, t) PROVE Mute(r, t)
  BY <1>1, <1>2 DEF Mute
<1>3. ASSUME Touches(e, t) PROVE Leaves(r, t, x, Effect(e, t, y))
  <2>1. n \in 1 .. Len(r) /\ Touches(r[n], t) /\ Says(r[n], t) = Says(e, t)
        /\ \A j \in 1 .. Len(r) : j > n => ~Touches(r[j], t)
    BY <1>1, <1>3
  <2>2. Leaves(r, t, x, Says(e, t))
    BY <2>1 DEF Leaves
  <2> QED
    BY <1>3, <2>2 DEF Effect
<1>4. ASSUME ~Touches(e, t) PROVE Leaves(r, t, x, Effect(e, t, y))
  <2>1. CASE Mute(q, t) /\ x = y
    BY <1>2, <1>4, <2>1 DEF Leaves, Effect
  <2>2. ASSUME NEW i \in 1 .. Len(q), Touches(q[i], t), Says(q[i], t) = y,
               \A j \in 1 .. Len(q) : j > i => ~Touches(q[j], t)
        PROVE  Leaves(r, t, x, y)
    <3>1. i \in 1 .. Len(r) /\ r[i] = q[i]
      BY <1>1
    <3>2. ASSUME NEW j \in 1 .. Len(r), j > i PROVE ~Touches(r[j], t)
      <4>1. CASE j \in 1 .. Len(q)
        BY <1>1, <2>2, <3>2, <4>1
      <4>2. CASE j = n
        BY <1>1, <1>4, <4>2
      <4> QED
        BY <1>1, <4>1, <4>2
    <3> QED
      BY <2>2, <3>1, <3>2 DEF Leaves
  <2> QED
    BY <1>4, <2>1, <2>2 DEF Leaves, Effect
<1> QED
  BY <1>2, <1>3, <1>4 DEF r

LEMMA LeavesTail ==
  ASSUME NEW S, NEW q \in Seq(S), q # <<>>, NEW t
  PROVE  /\ \A x, y : Leaves(q, t, x, y) => Leaves(Tail(q), t, Effect(Head(q), t, x), y)
         /\ Mute(q, t) => Mute(Tail(q), t) /\ ~Touches(Head(q), t)
         /\ ~Mute(q, t) => ~Mute(Tail(q), t) \/ Touches(Head(q), t)
<1> DEFINE r == Tail(q)
           e == Head(q)
<1>1. /\ Len(q) \in Nat \ {0} /\ Len(r) = Len(q) - 1 /\ e = q[1] /\ 1 \in 1 .. Len(q)
      /\ \A i \in 1 .. Len(r) : i + 1 \in 1 .. Len(q) /\ r[i] = q[i + 1]
  BY TailAt
<1> HIDE DEF r, e
<1>2. \A i \in 1 .. Len(q) : i = 1 \/ (i - 1 \in 1 .. Len(r) /\ r[i - 1] = q[i])
  <2> TAKE i \in 1 .. Len(q)
  <2>1. CASE i # 1
    <3>1. i - 1 \in 1 .. Len(r) /\ (i - 1) + 1 = i
      BY <1>1, <2>1
    <3> QED
      BY <1>1, <3>1
  <2> QED
    BY <2>1
<1>3. ASSUME Mute(q, t) PROVE Mute(r, t) /\ ~Touches(e, t)
  BY <1>1, <1>3 DEF Mute
<1>4. ASSUME Mute(r, t), ~Touches(e, t) PROVE Mute(q, t)
  BY <1>1, <1>2, <1>4 DEF Mute
<1>5. ASSUME NEW x, NEW y, Leaves(q, t, x, y)
      PROVE  Leaves(r, t, Effect(e, t, x), y)
  <2>1. CASE Mute(q, t) /\ x = y
    BY <1>3, <2>1 DEF Leaves, Effect
  <2>2. ASSUME NEW i \in 1 .. Len(q), Touches(q[i], t), Says(q[i], t) = y,
               \A j \in 1 .. Len(q) : j > i => ~Touches(q[j], t)
        PROVE  Leaves(r, t, Effect(e, t, x), y)
    <3>1. CASE i = 1
      <4>1. \A j \in 1 .. Len(r) : j + 1 \in 1 .. Len(q) /\ j + 1 > i
        BY <1>1, <3>1
      <4>2. Mute(r, t)
        BY <1>1, <2>2, <4>1 DEF Mute
      <4> QED
        BY <1>1, <2>2, <3>1, <4>2 DEF Leaves, Effect
    <3>2. CASE i # 1
      <4>1. i - 1 \in 1 .. Len(r) /\ r[i - 1] = q[i]
        BY <1>2, <3>2
      <4>2. \A j \in 1 .. Len(r) : j > i - 1 => j + 1 \in 1 .. Len(q) /\ j + 1 > i
        BY <1>1
      <4>3. \A j \in 1 .. Len(r) : j > i - 1 => ~Touches(r[j], t)
        BY <1>1, <2>2, <4>2
      <4> QED
        BY <2>2, <4>1, <4>3 DEF Leaves
    <3> QED
      BY <3>1, <3>2
  <2> QED
    BY <1>5, <2>1, <2>2 DEF Leaves
<1> QED
  BY <1>3, <1>4, <1>5 DEF r, e


LEMMA LeavesConcat ==
  ASSUME NEW S, NEW p \in Seq(S), NEW q \in Seq(S), NEW t, NEW x, NEW y, NEW z,
         Leaves(p, t, x, y), Leaves(q, t, y, z)
  PROVE  /\ Leaves(p \o q, t, x, z)
         /\ Mute(p, t) /\ Mute(q, t) => Mute(p \o q, t)
<1> DEFINE m == Len(p)
           n == Len(q)
           r == p \o q
<1>1. /\ m \in Nat /\ n \in Nat /\ Len(r) = m + n
      /\ \A i \in 1 .. m + n : r[i] = IF i <= m THEN p[i] ELSE q[i - m]
  BY ConcatProperties, LenProperties
<1>2. /\ Mute(p, t) <=> \A i \in 1 .. m : ~Touches(p[i], t)
      /\ Mute(q, t) <=> \A i \in 1 .. n : ~Touches(q[i], t)
      /\ Leaves(p, t, x, y) <=>
           \/ \E i \in 1 .. m : /\ Touches(p[i], t) /\ Says(p[i], t) = y
                                /\ \A j \in 1 .. m : j > i => ~Touches(p[j], t)
           \/ Mute(p, t) /\ x = y
      /\ Leaves(q, t, y, z) <=>
           \/ \E i \in 1 .. n : /\ Touches(q[i], t) /\ Says(q[i], t) = z
                                /\ \A j \in 1 .. n : j > i => ~Touches(q[j], t)
           \/ Mute(q, t) /\ y = z
  BY DEF Mute, Leaves
<1> HIDE DEF m, n, r
<1>3. /\ \A i \in 1 .. m : i \in 1 .. m + n /\ r[i] = p[i]
      /\ \A i \in 1 .. n : m + i \in 1 .. m + n /\ r[m + i] = q[i]
      /\ \A i \in 1 .. m + n : \/ i \in 1 .. m /\ r[i] = p[i]
                               \/ i - m \in 1 .. n /\ r[i] = q[i - m] /\ i > m
  <2>1. ASSUME NEW i \in 1 .. m PROVE i \in 1 .. m + n /\ r[i] = p[i]
    BY <1>1
  <2>2. ASSUME NEW i \in 1 .. n PROVE m + i \in 1 .. m + n /\ r[m + i] = q[i]
    <3>1. m + i \in 1 .. m + n /\ ~(m + i <= m) /\ (m + i) - m = i
      BY <1>1
    <3> QED
      BY <1>1, <3>1
  <2>3. ASSUME NEW i \in 1 .. m + n, ~(i <= m)
        PROVE  i - m \in 1 .. n /\ r[i] = q[i - m] /\ i > m
    <3>1. i - m \in 1 .. n /\ i > m
      BY <1>1, <2>3
    <3> QED
      BY <1>1, <2>3, <3>1
  <2>4. \A i \in 1 .. m + n : i <= m => i \in 1 .. m
    BY <1>1
  <2> QED
    BY <2>1, <2>2, <2>3, <2>4
<1>4. ASSUME Mute(p, t), Mute(q, t) PROVE Mute(r, t)
  BY <1>1, <1>2, <1>3, <1>4 DEF Mute
<1>5. ASSUME NEW i \in 1 .. n, Touches(q[i], t), Says(q[i], t) = z,
             \A j \in 1 .. n : j > i => ~Touches(q[j], t)
      PROVE  Leaves(r, t, x, z)
  <2>1. m + i \in 1 .. Len(r) /\ r[m + i] = q[i]
    BY <1>1, <1>3
  <2>2. ASSUME NEW j \in 1 .. Len(r), j > m + i PROVE ~Touches(r[j], t)
    <3>1. ~(j \in 1 .. m) /\ j - m > i /\ j \in 1 .. m + n
      BY <1>1, <2>2
    <3>2. j - m \in 1 .. n /\ r[j] = q[j - m]
      BY <1>3, <3>1
    <3> QED
      BY <1>5, <3>1, <3>2
  <2> QED
    BY <1>5, <2>1, <2>2 DEF Leaves
<1>6. ASSUME NEW i \in 1 .. m, Touches(p[i], t), Says(p[i], t) = y,
             \A j \in 1 .. m : j > i => ~Touches(p[j], t),
             Mute(q, t), y = z
      PROVE  Leaves(r, t, x, z)
  <2>1. i \in 1 .. Len(r) /\ r[i] = p[i]
    BY <1>1, <1>3
  <2>2. ASSUME NEW j \in 1 .. Len(r), j > i PROVE ~Touches(r[j], t)
    BY <1>1, <1>2, <1>3, <1>6, <2>2
  <2> QED
    BY <1>6, <2>1, <2>2 DEF Leaves
<1>7. Leaves(r, t, x, z)
  <2>1. ASSUME Mute(p, t), x = y, Mute(q, t), y = z PROVE Leaves(r, t, x, z)
    BY <1>4, <2>1 DEF Leaves
  <2> QED
    BY <1>2, <1>5, <1>6, <2>1
<1> QED
  BY <1>4, <1>7 DEF r

(* Each switch is in the order SetToSeq makes of them, once.                 *)
LEMMA SwitchOrder ==
  LET ws == SetToSeq(Switches)
  IN /\ ws \in Seq(Switches) /\ DOMAIN ws = 1 .. Len(ws) /\ Len(ws) \in Nat
     /\ \A w \in Switches : \E i \in 1 .. Len(ws) :
          ws[i] = w /\ \A j \in 1 .. Len(ws) : ws[j] = w => j = i
<1> DEFINE n == Cardinality(Switches)
           F == [1 .. n -> Switches]
           ws == SetToSeq(Switches)
<1>1. IsFiniteSet(Switches) /\ n \in Nat /\ ExistsBijection(1 .. n, Switches)
  BY BridgeAssumption, FS_CardinalityType DEF BridgeAssumption
<1>2. \E f \in F : IsInjective(f)
  BY <1>1 DEF ExistsBijection, Bijection, Injection
<1>3. ws \in F /\ IsInjective(ws)
  BY <1>2 DEF SetToSeq
<1> HIDE DEF ws
<1>4. ws \in Seq(Switches) /\ DOMAIN ws = 1 .. n /\ Len(ws) = n
  BY <1>1, <1>3
<1>5. Cardinality(1 .. n) = n
  BY <1>1, FS_Interval
<1>6. ws \in Surjection(1 .. n, Switches)
  BY <1>1, <1>3, <1>5, FS_Injection DEF Injection
<1>7. \A w \in Switches : \E i \in 1 .. n : ws[i] = w
  BY <1>6 DEF Surjection
<1>8. \A i, j \in 1 .. n : ws[i] = ws[j] => i = j
  BY <1>3, <1>4 DEF IsInjective
<1> QED
  BY <1>1, <1>4, <1>7, <1>8 DEF ws

-----------------------------------------------------------------------------
(* Calls, and the requests dispatch makes of them.                           *)

Reqs ==
  {c \in Calls : c.type # "PublishSnapshot"}
    \union {State(w, v) : w \in Switches, v \in Values}

LEMMA CallTypes ==
  ASSUME NEW c \in Calls
  PROVE  /\ c.type \in {"SubscribeToCommands", "PublishDiscovery", "PublishAvailability",
                        "PublishSnapshot"}
         /\ c = Subscribe <=> c.type = "SubscribeToCommands"
         /\ c = Discovery <=> c.type = "PublishDiscovery"
         /\ c.type = "PublishAvailability" => c.online \in {"online", "offline"}
         /\ c.type = "PublishSnapshot" => c.switches \in SwitchStates
         /\ \A t \in Topics : Touches(c, t) <=> c.type = t.kind
<1>1. /\ Subscribe.type = "SubscribeToCommands" /\ Discovery.type = "PublishDiscovery"
      /\ \A o : Availability(o).type = "PublishAvailability" /\ Availability(o).online = o
      /\ \A f : Snapshot(f).type = "PublishSnapshot" /\ Snapshot(f).switches = f
  BY DEF Subscribe, Discovery, Availability, Snapshot
<1>2. \/ c = Subscribe \/ c = Discovery
      \/ \E o \in {"online", "offline"} : c = Availability(o)
      \/ \E f \in SwitchStates : c = Snapshot(f)
  BY DEF Calls
<1>3. /\ c.type \in {"SubscribeToCommands", "PublishDiscovery", "PublishAvailability",
                     "PublishSnapshot"}
      /\ c = Subscribe <=> c.type = "SubscribeToCommands"
      /\ c = Discovery <=> c.type = "PublishDiscovery"
      /\ c.type = "PublishAvailability" => c.online \in {"online", "offline"}
      /\ c.type = "PublishSnapshot" => c.switches \in SwitchStates
  BY <1>1, <1>2
<1>4. \A t \in Topics : Touches(c, t) <=> c.type = t.kind
  BY <1>3 DEF Topics, Touches
<1> QED
  BY <1>3, <1>4

LEMMA StateTypes ==
  ASSUME NEW w, NEW v
  PROVE  /\ State(w, v).type = "State" /\ State(w, v).switch = w /\ State(w, v).value = v
         /\ \A t \in Topics :
              Touches(State(w, v), t) <=> t.kind = "PublishSnapshot" /\ t.of = w
<1>1. State(w, v).type = "State" /\ State(w, v).switch = w /\ State(w, v).value = v
  BY DEF State
<1>2. \A t \in Topics : t.kind # "State"
  BY DEF Topics
<1> QED
  BY <1>1, <1>2 DEF Touches

(* A call and what dispatch makes of it do the same to every topic.          *)
LEMMA DispatchedLeaves ==
  ASSUME NEW c \in Calls
  PROVE  /\ Dispatched(c) \in Seq(Reqs)
         /\ \A t \in Topics : \A x : Leaves(Dispatched(c), t, x, Effect(c, t, x))
         /\ \A t \in Topics : ~Touches(c, t) => Mute(Dispatched(c), t)
<1> DEFINE d == Dispatched(c)
<1>1. ASSUME c.type # "PublishSnapshot"
      PROVE  /\ d \in Seq(Reqs)
             /\ \A t \in Topics : \A x : Leaves(d, t, x, Effect(c, t, x))
             /\ \A t \in Topics : ~Touches(c, t) => Mute(d, t)
  <2>1. d = <<c>> /\ c \in Reqs
    BY <1>1 DEF Dispatched, Reqs
  <2>2. d \in Seq(Reqs) /\ Len(d) = 1 /\ d[1] = c
    BY <2>1
  <2> HIDE DEF d
  <2>3. ASSUME NEW t \in Topics, ~Touches(c, t) PROVE Mute(d, t)
    BY <2>2, <2>3 DEF Mute
  <2>4. ASSUME NEW t \in Topics, NEW x PROVE Leaves(d, t, x, Effect(c, t, x))
    BY <2>2, <2>3 DEF Leaves, Effect
  <2> QED
    BY <2>2, <2>3, <2>4
<1>2. ASSUME c.type = "PublishSnapshot"
      PROVE  /\ d \in Seq(Reqs)
             /\ \A t \in Topics : \A x : Leaves(d, t, x, Effect(c, t, x))
             /\ \A t \in Topics : ~Touches(c, t) => Mute(d, t)
  <2> DEFINE ws == SetToSeq(Switches)
             n == Len(ws)
  <2>1. /\ DOMAIN ws = 1 .. n /\ n \in Nat
        /\ \A i \in 1 .. n : ws[i] \in Switches
        /\ \A w \in Switches : \E i \in 1 .. n :
             ws[i] = w /\ \A j \in 1 .. n : ws[j] = w => j = i
    BY SwitchOrder, ElementOfSeq
  <2>2. d = [i \in DOMAIN ws |-> State(ws[i], c.switches[ws[i]])]
    BY <1>2 DEF Dispatched
  <2> HIDE DEF d, ws, n
  <2>3. \A i \in 1 .. n : d[i] = State(ws[i], c.switches[ws[i]]) /\ d[i] \in Reqs
    BY <1>2, <2>1, <2>2, CallTypes DEF Reqs, SwitchStates
  <2>4. d \in Seq(Reqs) /\ Len(d) = n
    <3>1. d \in [1 .. n -> Reqs]
      BY <2>1, <2>2, <2>3
    <3> QED
      BY <2>1, <3>1
  <2>5. ASSUME NEW t \in Topics, t.kind # "PublishSnapshot" PROVE Mute(d, t)
    BY <2>3, <2>4, <2>5, StateTypes DEF Mute
  <2>6. \A t \in Topics : Touches(c, t) <=> t.kind = "PublishSnapshot"
    BY <1>2, CallTypes
  <2>7. ASSUME NEW t \in Topics, NEW x, t.kind = "PublishSnapshot"
        PROVE  Leaves(d, t, x, Says(c, t))
    <3>1. t.of \in Switches
      BY <2>7 DEF Topics
    <3>2. PICK i \in 1 .. n : ws[i] = t.of /\ \A j \in 1 .. n : ws[j] = t.of => j = i
      BY <2>1, <3>1
    <3>3. Touches(d[i], t) /\ d[i].type = "State" /\ d[i].value = c.switches[t.of]
      BY <2>3, <2>7, <3>2, StateTypes
    <3>4. Says(d[i], t) = Says(c, t)
      BY <1>2, <3>3 DEF Says
    <3>5. ASSUME NEW j \in 1 .. Len(d), j > i PROVE ~Touches(d[j], t)
      BY <2>3, <2>4, <3>2, <3>5, StateTypes
    <3> QED
      BY <2>4, <3>3, <3>4, <3>5 DEF Leaves
  <2>8. ASSUME NEW t \in Topics, NEW x PROVE Leaves(d, t, x, Effect(c, t, x))
    BY <2>5, <2>6, <2>7 DEF Leaves, Effect
  <2> QED
    BY <2>4, <2>5, <2>6, <2>8
<1> QED
  BY <1>1, <1>2

-----------------------------------------------------------------------------
(* The coordinator in Bridge is Coordinator's.                               *)

LEMMA CoordinatorStep == [BridgeNext]_vars => [Next]_coordinatorVars
<1>1. CASE TrySend
  BY <1>1 DEF TrySend, Next
<1>2. CASE Handle
  BY <1>2 DEF Handle, Next
<1>3. CASE BmsStep
  BY <1>3 DEF BmsStep, Next
<1>4. CASE SessionUp \/ SessionDown
  BY <1>4 DEF SessionUp, SessionDown, Next, MqttSide
<1>5. CASE LoseCommands \/ Dispatch \/ BrokerReceives
  BY <1>5 DEF LoseCommands, Dispatch, BrokerReceives
<1>6. CASE Request
  BY <1>6 DEF Request, Next, MqttSide
<1>7. CASE UNCHANGED vars
  BY <1>7 DEF vars
<1> QED
  BY <1>1, <1>2, <1>3, <1>4, <1>5, <1>6, <1>7 DEF BridgeNext

(* Between the MQTT connection and the BMS side as Bridge has them, the      *)
(* coordinator does nothing that Coordinator does not allow: what is proved  *)
(* of it there holds here.                                                   *)
THEOREM BridgeKeepsCoordinator == BridgeSpec => Spec
BY CoordinatorStep, PTL DEF BridgeSpec, BridgeInit, Spec

(* In particular a switch stays frozen exactly while its newest request is   *)
(* under way, and every snapshot handed to the MQTT connection shows that,   *)
(* with the sessions and the full channels that Bridge adds.                 *)
THEOREM BridgeShowsRequested == BridgeSpec => [](FrozenUntilAnswered /\ SnapshotsShowRequested)
BY BridgeKeepsCoordinator, SwitchFrozenUntilAnswered, SnapshotsAsRequested, PTL

-----------------------------------------------------------------------------
(* The types.                                                                *)

QueuesOK ==
  /\ mqtt_commands \in Seq(Calls)
  /\ Len(mqtt_commands) <= COMMAND_CHANNEL_CAPACITY
  /\ in_flight \in Seq(Reqs)

SeenOK ==
  /\ subscribed \in {"yes", "no"} /\ discovered \in {"yes", "no"}
  /\ state \in [Switches -> Values \union {"None"}]
  /\ availability \in {"None", "online", "offline"}

ViewOK ==
  /\ latest \in [Switches -> Values \union {"None"}]
  /\ refused \subseteq {c.type : c \in Calls}

BridgeTypes == QueuesOK /\ SeenOK /\ ViewOK

LEMMA BridgeTypesInit == BridgeInit => BridgeTypes
<1>1. \A S : <<>> \in Seq(S) /\ Len(<<>>) = 0
  BY EmptySeq
<1> QED
  BY <1>1, BridgeAssumption
  DEF BridgeInit, BridgeTypes, QueuesOK, SeenOK, ViewOK, Unknown, BridgeAssumption

(* The calls of a running handler.                                           *)
OutboxShows ==
  /\ outbox \in Seq(Calls)
  /\ \A i \in 1 .. Len(outbox) : outbox[i].type = "PublishSnapshot" =>
       /\ outbox[i] = Snapshot(SwitchesShown(config, freeze))
       /\ SwitchesShown(config, freeze) \in SwitchStates

LEMMA OutboxCalls == TypeInv => OutboxShows
<1> SUFFICES ASSUME TypeInv PROVE OutboxShows
  OBVIOUS
<1> DEFINE x == SwitchesShown(config, freeze)
<1>1. "ConfigOptions" \in have => x \in SwitchStates
  BY ShownIsState DEF TypeInv, StateTypeOK
<1>2. outbox \in Seq(CallsShowing(have, x))
  BY DEF TypeInv, OutboxOK, Saying
<1> HIDE DEF x
<1>3. CallsShowing(have, x) \subseteq Calls
  BY <1>1 DEF CallsShowing, Calls
<1>4. outbox \in Seq(Calls)
  BY <1>2, <1>3, SeqMonotone
<1>5. ASSUME NEW i \in 1 .. Len(outbox), outbox[i].type = "PublishSnapshot"
      PROVE  outbox[i] = Snapshot(x) /\ x \in SwitchStates
  <2>1. outbox[i] \in CallsShowing(have, x)
    BY <1>2, ElementOfSeq
  <2>2. \A o : Availability(o).type # "PublishSnapshot"
    BY DEF Availability
  <2>3. Subscribe.type # "PublishSnapshot" /\ Discovery.type # "PublishSnapshot"
    BY DEF Subscribe, Discovery
  <2> QED
    BY <1>1, <1>5, <2>1, <2>2, <2>3 DEF CallsShowing
<1> QED
  BY <1>4, <1>5 DEF x, OutboxShows

LEMMA OutboxCallsNext == TypeInv' => OutboxShows'
BY OutboxCalls, PTL

(* What a handler's step makes of latest.                                    *)
LEMMA LatestAfter ==
  ASSUME TypeInv', Handle
  PROVE  /\ \A i \in 1 .. Len(outbox') :
              outbox'[i].type = "PublishSnapshot" => outbox'[i].switches = latest'
         /\ latest' = latest \/ latest' \in SwitchStates
         /\ (\A i \in 1 .. Len(outbox') : outbox'[i].type # "PublishSnapshot")
              => latest' = latest
<1> DEFINE q == outbox'
           x == SwitchesShown(config', freeze')
           snapshots == SnapshotsIn(q)
<1>1. /\ q \in Seq(Calls)
      /\ \A i \in 1 .. Len(q) : q[i].type = "PublishSnapshot" =>
           q[i] = Snapshot(x) /\ x \in SwitchStates
  BY OutboxCallsNext DEF OutboxShows, SwitchesShown, Frozen
<1>2. latest' = IF snapshots = {} THEN latest ELSE CHOOSE f \in snapshots : TRUE
  BY DEF Handle
<1>3. Range(q) = {q[i] : i \in 1 .. Len(q)}
  BY <1>1, RangeEquality
<1> HIDE DEF q, x
<1>4. Snapshot(x).switches = x
  BY DEF Snapshot
<1>5. snapshots \subseteq {x} /\ (snapshots # {} => x \in SwitchStates)
      /\ \A i \in 1 .. Len(q) : q[i].type = "PublishSnapshot" => q[i].switches \in snapshots
  BY <1>1, <1>3, <1>4 DEF SnapshotsIn
<1>6. (\A i \in 1 .. Len(q) : q[i].type # "PublishSnapshot") => snapshots = {}
  BY <1>3 DEF SnapshotsIn
<1> HIDE DEF snapshots
<1>7. snapshots # {} => latest' = x
  BY <1>2, <1>5
<1>8. \A i \in 1 .. Len(q) : q[i].type = "PublishSnapshot" => q[i].switches = latest'
  BY <1>5, <1>7
<1> QED
  BY <1>2, <1>5, <1>6, <1>7, <1>8 DEF q

(* A request in flight, and what it does at the broker.                      *)
LEMMA ReqTypes ==
  ASSUME NEW r \in Reqs
  PROVE  /\ r.type \in {"SubscribeToCommands", "PublishDiscovery", "PublishAvailability", "State"}
         /\ r = Subscribe <=> r.type = "SubscribeToCommands"
         /\ r = Discovery <=> r.type = "PublishDiscovery"
         /\ r.type = "PublishAvailability" => r.online \in {"online", "offline"}
         /\ r.type = "State" => r.switch \in Switches /\ r.value \in Values
<1>1. CASE r \in Calls /\ r.type # "PublishSnapshot"
  BY <1>1, CallTypes
<1>2. ASSUME NEW w \in Switches, NEW v \in Values, r = State(w, v)
      PROVE  r.type = "State" /\ r.switch = w /\ r.value = v
  BY <1>2, StateTypes
<1>3. Subscribe.type = "SubscribeToCommands" /\ Discovery.type = "PublishDiscovery"
  BY DEF Subscribe, Discovery
<1> QED
  BY <1>1, <1>2, <1>3 DEF Reqs

LEMMA DispatchTaken ==
  ASSUME BridgeTypes, Dispatch
  PROVE  /\ mqtt_commands # <<>> /\ Head(mqtt_commands) \in Calls
         /\ mqtt_commands' = Tail(mqtt_commands)
         /\ in_flight' = in_flight \o Dispatched(Head(mqtt_commands))
         /\ UNCHANGED <<coordinatorVars, topicVars, viewVars>>
<1>1. mqtt_commands # <<>> /\ mqtt_commands \in Seq(Calls)
  BY DEF Dispatch, Mqtt!Take, BridgeTypes, QueuesOK
<1>2. Head(mqtt_commands) \in Calls
  BY <1>1, TailAt
<1>3. [c \in Calls |-> Dispatched(c)][Head(mqtt_commands)] = Dispatched(Head(mqtt_commands))
  BY <1>2
<1> QED
  BY <1>1, <1>2, <1>3 DEF Dispatch, Mqtt!Take

LEMMA BrokerReceived ==
  ASSUME BridgeTypes, BrokerReceives
  PROVE  /\ in_flight # <<>> /\ Head(in_flight) \in Reqs
         /\ in_flight' = Tail(in_flight)
         /\ Reached(Head(in_flight))
         /\ UNCHANGED <<mqtt_commands, coordinatorVars, viewVars>>
<1>1. in_flight # <<>> /\ in_flight \in Seq(Reqs)
  BY DEF BrokerReceives, Mqtt!Receive, BridgeTypes, QueuesOK
<1>2. Head(in_flight) \in Reqs
  BY <1>1, TailAt
<1> QED
  BY <1>1, <1>2 DEF BrokerReceives, Mqtt!Receive

LEMMA SendTypes ==
  ASSUME TypeInv, BridgeTypes, TrySend
  PROVE  BridgeTypes'
<1> DEFINE h == Head(outbox)
           T == {c.type : c \in Calls}
           unmade == IF h = Subscribe THEN outbox ELSE <<h>>
<1>1. outbox \in Seq(Calls) /\ outbox # <<>>
  BY OutboxCalls DEF OutboxShows, TrySend, CallTaken, CallRefused
<1>2. h \in Calls
  BY <1>1, TailAt
<1>3. <<h>> \in Seq(Calls)
  BY <1>2
<1>4. Range(unmade) \subseteq Calls
  BY <1>1, <1>3, RangeOfSeq
<1>5. UNCHANGED <<in_flight, topicVars, latest>>
  BY DEF TrySend
<1>6. mqtt_commands \in Seq(Calls) /\ Len(mqtt_commands) <= COMMAND_CHANNEL_CAPACITY
  BY DEF BridgeTypes, QueuesOK
<1>7. /\ Append(mqtt_commands, h) \in Seq(Calls) /\ Len(mqtt_commands) \in Nat
      /\ Len(Append(mqtt_commands, h)) = Len(mqtt_commands) + 1
  BY <1>2, <1>6, AppendAt
<1>8. /\ \/ mqtt_commands' = mqtt_commands
         \/ /\ mqtt_commands' = Append(mqtt_commands, h)
            /\ Len(mqtt_commands) < COMMAND_CHANNEL_CAPACITY
      /\ refused' = refused \ {h.type} \/ refused' = refused \union {c.type : c \in Range(unmade)}
  BY DEF TrySend, Room
<1> HIDE DEF h, unmade
<1>9. mqtt_commands' \in Seq(Calls) /\ Len(mqtt_commands') <= COMMAND_CHANNEL_CAPACITY
  BY <1>6, <1>7, <1>8, BridgeAssumption DEF BridgeAssumption
<1>10. {c.type : c \in Range(unmade)} \subseteq T
  BY <1>4
<1>11. refused' \subseteq T
  BY <1>8, <1>10 DEF BridgeTypes, ViewOK
<1> QED
  BY <1>5, <1>9, <1>11 DEF BridgeTypes, QueuesOK, SeenOK, ViewOK, topicVars

LEMMA BridgeTypesStep ==
  TypeInv /\ TypeInv' /\ BridgeTypes /\ [BridgeNext]_vars => BridgeTypes'
<1> SUFFICES ASSUME TypeInv, TypeInv', BridgeTypes, [BridgeNext]_vars PROVE BridgeTypes'
  OBVIOUS
<1>1. CASE TrySend
  BY <1>1, SendTypes
<1>2. CASE Handle
  <2>1. latest' = latest \/ latest' \in SwitchStates
    BY <1>2, LatestAfter
  <2>2. UNCHANGED <<mqtt_commands, in_flight, topicVars, refused>>
    BY <1>2 DEF Handle
  <2>3. latest' \in [Switches -> Values \union {"None"}]
    BY <2>1 DEF SwitchStates, BridgeTypes, ViewOK
  <2> QED
    BY <2>2, <2>3 DEF BridgeTypes, QueuesOK, SeenOK, ViewOK, topicVars
<1>3. CASE BmsStep \/ SessionUp \/ Request \/ UNCHANGED vars
  BY <1>3 DEF BmsStep, SessionUp, Mqtt!SessionUp, Request, vars, viewVars, topicVars,
              BridgeTypes, QueuesOK, SeenOK, ViewOK
<1>4. CASE SessionDown \/ LoseCommands
  <2>1. in_flight' = <<>> /\ mqtt_commands' = mqtt_commands
    BY <1>4 DEF SessionDown, LoseCommands, Mqtt!SessionDown, Mqtt!Lose
  <2>2. in_flight' \in Seq(Reqs)
    BY <2>1, EmptySeq
  <2>3. SeenOK' /\ ViewOK'
    BY <1>4 DEF SessionDown, LoseCommands, viewVars, topicVars, BridgeTypes, SeenOK, ViewOK
  <2> QED
    BY <2>1, <2>2, <2>3 DEF BridgeTypes, QueuesOK
<1>5. CASE Dispatch
  <2> DEFINE c == Head(mqtt_commands)
  <2>1. /\ mqtt_commands # <<>> /\ c \in Calls
        /\ mqtt_commands' = Tail(mqtt_commands) /\ in_flight' = in_flight \o Dispatched(c)
        /\ UNCHANGED <<topicVars, viewVars>>
    BY <1>5, DispatchTaken
  <2>2. /\ Tail(mqtt_commands) \in Seq(Calls) /\ Len(mqtt_commands) \in Nat
        /\ Len(Tail(mqtt_commands)) = Len(mqtt_commands) - 1
    BY <2>1, TailAt DEF BridgeTypes, QueuesOK
  <2>3. Len(mqtt_commands') <= COMMAND_CHANNEL_CAPACITY
    BY <2>1, <2>2, BridgeAssumption DEF BridgeTypes, QueuesOK, BridgeAssumption
  <2>4. Dispatched(c) \in Seq(Reqs)
    BY <2>1, DispatchedLeaves
  <2>5. in_flight \o Dispatched(c) \in Seq(Reqs)
    BY <2>4, ConcatProperties DEF BridgeTypes, QueuesOK
  <2> QED
    BY <2>1, <2>2, <2>3, <2>5 DEF BridgeTypes, QueuesOK, SeenOK, ViewOK, topicVars, viewVars
<1>6. CASE BrokerReceives
  <2> DEFINE r == Head(in_flight)
  <2>1. /\ in_flight # <<>> /\ r \in Reqs /\ in_flight' = Tail(in_flight) /\ Reached(r)
        /\ UNCHANGED <<mqtt_commands, viewVars>>
    BY <1>6, BrokerReceived
  <2>2. Tail(in_flight) \in Seq(Reqs)
    BY <2>1, TailAt DEF BridgeTypes, QueuesOK
  <2> HIDE DEF r
  <2>3. SeenOK'
    <3>1. SeenOK
      BY DEF BridgeTypes
    <3>2. r.type = "State" =>
            [state EXCEPT ![r.switch] = r.value] \in [Switches -> Values \union {"None"}]
      BY <2>1, <3>1, ReqTypes DEF SeenOK
    <3> QED
      BY <2>1, <3>1, <3>2, ReqTypes DEF Reached, SeenOK
  <2> QED
    BY <2>1, <2>2, <2>3 DEF BridgeTypes, QueuesOK, ViewOK, viewVars
<1> QED
  BY <1>1, <1>2, <1>3, <1>4, <1>5, <1>6 DEF BridgeNext

LEMMA BridgeTypesInvariant == BridgeSpec => [](TypeInv /\ BridgeTypes)
BY BridgeKeepsCoordinator, TypeInvariant, BridgeTypesInit, BridgeTypesStep, PTL DEF BridgeSpec

(* The command channel, what is in flight and the topics keep their types,   *)
(* and the command channel never outgrows its capacity, however many calls a *)
(* handler makes.                                                            *)
THEOREM BridgeTypeCorrect == BridgeSpec => []BridgeTypeOK
<1>1. BridgeTypes => BridgeTypeOK
  <2> SUFFICES ASSUME BridgeTypes PROVE BridgeTypeOK
    OBVIOUS
  <2>1. Range(mqtt_commands) \subseteq Calls /\ Range(in_flight) \subseteq Reqs
    BY RangeOfSeq DEF BridgeTypes, QueuesOK
  <2> QED
    BY <2>1 DEF BridgeTypes, QueuesOK, SeenOK, ViewOK, BridgeTypeOK, Reqs
<1> QED
  BY <1>1, BridgeTypesInvariant, PTL

-----------------------------------------------------------------------------
(* The inductive invariant.  For each topic: what Home Assistant sees now    *)
(* becomes a after what is in flight and b after the command channel; and    *)
(* when the topic is due, b is what is meant, or the running handler has     *)
(* still to say it.                                                          *)

Seen(t) ==
  IF t.kind = "PublishAvailability" THEN availability
  ELSE IF t.kind = "SubscribeToCommands" THEN subscribed
  ELSE IF t.kind = "PublishDiscovery" THEN discovered
  ELSE state[t.of]

Meant(t) ==
  IF t.kind = "PublishAvailability" THEN OnlineIf(flags)
  ELSE IF t.kind = "PublishSnapshot" THEN latest[t.of]
  ELSE "yes"

ConnectPending ==
  \E i \in 1 .. Len(mqtt_events) : mqtt_events[i].type = "BrokerConnected"

Due(t) ==
  /\ session = "up" /\ ~ConnectPending /\ t.kind \notin refused
  /\ t.kind = "PublishDiscovery" => Fragments \subseteq have

TopicInv(t) ==
  \E a, b : /\ Leaves(in_flight, t, Seen(t), a)
            /\ Leaves(mqtt_commands, t, a, b)
            /\ Due(t) => b = Meant(t) \/ ~Mute(outbox, t)

OutboxRight(t) ==
  \A i \in 1 .. Len(outbox) : Touches(outbox[i], t) => Says(outbox[i], t) = Meant(t)

(* Before there is a snapshot nothing says anything of a switch.             *)
Silent(t) == t.kind = "PublishSnapshot" /\ ~(SnapshotParts \subseteq have)

SilentInv(t) ==
  Silent(t) => /\ Seen(t) = "None" /\ Meant(t) = "None"
               /\ Mute(outbox, t) /\ Mute(mqtt_commands, t) /\ Mute(in_flight, t)

TopicOK(t) == TopicInv(t) /\ OutboxRight(t) /\ SilentInv(t)

FlagInv == "discovery_published" \in flags => Fragments \subseteq have

HomeInv == FlagInv /\ \A t \in Topics : TopicOK(t)

LEMMA HomeInit == BridgeInit => HomeInv
<1> SUFFICES ASSUME BridgeInit PROVE HomeInv
  OBVIOUS
<1>1. FlagInv
  BY DEF BridgeInit, Init, FlagInv
<1>2. ASSUME NEW t \in Topics PROVE TopicOK(t)
  <2>1. outbox = <<>> /\ mqtt_commands = <<>> /\ in_flight = <<>> /\ session = "down"
    BY DEF BridgeInit, Init
  <2>2. Mute(outbox, t) /\ Mute(mqtt_commands, t) /\ Mute(in_flight, t)
    BY <2>1, EmptyLeaves
  <2>3. t.kind = "PublishSnapshot" => Seen(t) = "None" /\ Meant(t) = "None"
    BY DEF Topics, Seen, Meant, BridgeInit, Unknown
  <2>4. Leaves(in_flight, t, Seen(t), Seen(t)) /\ Leaves(mqtt_commands, t, Seen(t), Seen(t))
    BY <2>1, EmptyLeaves
  <2>5. TopicInv(t)
    BY <2>1, <2>4 DEF TopicInv, Due
  <2>6. OutboxRight(t)
    BY <2>2 DEF OutboxRight, Mute
  <2> QED
    BY <2>2, <2>3, <2>5, <2>6 DEF TopicOK, SilentInv, Silent
<1> QED
  BY <1>1, <1>2 DEF HomeInv

(* A try_send: the call leaves the outbox for the channel, or is refused.    *)
LEMMA SendStep ==
  ASSUME TypeInv, BridgeTypes, NEW t \in Topics, TopicOK(t), TrySend
  PROVE  TopicOK(t)'
<1> DEFINE h == Head(outbox)
<1>1. outbox \in Seq(Calls) /\ outbox # <<>>
  BY OutboxCalls DEF OutboxShows, TrySend, CallTaken, CallRefused
<1>2. /\ h \in Calls /\ h = outbox[1] /\ 1 \in 1 .. Len(outbox)
      /\ Len(outbox) \in Nat \ {0} /\ Len(Tail(outbox)) = Len(outbox) - 1
      /\ \A i \in 1 .. Len(Tail(outbox)) :
           i + 1 \in 1 .. Len(outbox) /\ Tail(outbox)[i] = outbox[i + 1]
  BY <1>1, TailAt
<1>3. /\ Mute(outbox, t) => Mute(Tail(outbox), t) /\ ~Touches(h, t)
      /\ ~Mute(outbox, t) => ~Mute(Tail(outbox), t) \/ Touches(h, t)
  BY <1>1, LeavesTail
<1>4. /\ UNCHANGED <<in_flight, topicVars, latest, have, flags, mqtt_events, session>>
      /\ outbox' \in {Tail(outbox), <<>>}
  BY DEF TrySend, CallTaken, CallRefused, coordVars
<1>5. Seen(t)' = Seen(t) /\ Meant(t)' = Meant(t) /\ Silent(t)' = Silent(t)
      /\ ConnectPending' = ConnectPending
  BY <1>4 DEF topicVars, Seen, Meant, Silent, ConnectPending
<1>6. Touches(h, t) <=> h.type = t.kind
  BY <1>2, CallTypes
<1>7. PICK a, b : /\ Leaves(in_flight, t, Seen(t), a)
                  /\ Leaves(mqtt_commands, t, a, b)
                  /\ Due(t) => b = Meant(t) \/ ~Mute(outbox, t)
  BY DEF TopicOK, TopicInv
<1>8. OutboxRight(t)
  BY DEF TopicOK
<1>9. Touches(h, t) => Says(h, t) = Meant(t)
  BY <1>2, <1>8 DEF OutboxRight
<1>10. OutboxRight(t)'
  <2>1. Len(<<>>) = 0
    BY EmptySeq
  <2> HIDE DEF h
  <2> QED
    BY <1>2, <1>4, <1>5, <1>8, <2>1 DEF OutboxRight
<1>11. Mute(outbox, t) => Mute(outbox', t)
  BY <1>3, <1>4, EmptyLeaves
<1>12. CASE /\ Room /\ CallTaken
            /\ mqtt_commands' = Append(mqtt_commands, h)
            /\ refused' = refused \ {h.type}
  <2>1. /\ Leaves(mqtt_commands', t, a, Effect(h, t, b))
        /\ Mute(mqtt_commands, t) /\ ~Touches(h, t) => Mute(mqtt_commands', t)
    BY <1>2, <1>7, <1>12, LeavesAppend DEF BridgeTypes, QueuesOK
  <2>2. outbox' = Tail(outbox)
    BY <1>12 DEF CallTaken
  <2>3. ASSUME Due(t)' PROVE Effect(h, t, b) = Meant(t) \/ ~Mute(outbox', t)
    <3>1. CASE Touches(h, t)
      BY <1>9, <3>1 DEF Effect
    <3>2. CASE ~Touches(h, t)
      <4>1. Due(t)
        BY <1>4, <1>5, <1>6, <1>12, <2>3, <3>2 DEF Due
      <4> QED
        BY <1>3, <1>7, <2>2, <3>2, <4>1 DEF Effect
    <3> QED
      BY <3>1, <3>2
  <2>4. TopicInv(t)'
    BY <1>4, <1>5, <1>7, <2>1, <2>3 DEF TopicInv
  <2>5. SilentInv(t)'
    BY <1>3, <1>4, <1>5, <1>11, <2>1 DEF TopicOK, SilentInv
  <2> QED
    BY <1>10, <2>4, <2>5 DEF TopicOK
<1>13. ASSUME CallRefused, mqtt_commands' = mqtt_commands,
              LET unmade == IF h = Subscribe THEN outbox ELSE <<h>>
              IN refused' = refused \union {c.type : c \in Range(unmade)}
       PROVE  TopicOK(t)'
  <2> DEFINE unmade == IF h = Subscribe THEN outbox ELSE <<h>>
  <2>1. refused' = refused \union {c.type : c \in Range(unmade)}
    BY <1>13
  <2>2. ASSUME h = Subscribe, ~Mute(outbox, t) PROVE t.kind \in refused'
    <3>1. PICK i \in 1 .. Len(outbox) : Touches(outbox[i], t)
      BY <2>2 DEF Mute
    <3>2. outbox[i] \in Calls
      BY <1>1, ElementOfSeq
    <3>3. outbox[i].type = t.kind
      BY <3>1, <3>2, CallTypes
    <3>4. outbox[i] \in Range(outbox)
      BY <1>1, RangeEquality
    <3> QED
      BY <2>1, <2>2, <3>3, <3>4
  <2>3. ASSUME h # Subscribe, Touches(h, t) PROVE t.kind \in refused'
    <3>1. Range(<<h>>) = {h}
      BY SmallRanges
    <3> QED
      BY <1>6, <2>1, <2>3, <3>1
  <2> HIDE DEF unmade
  <2>4. outbox' = IF h = Subscribe THEN <<>> ELSE Tail(outbox)
    BY <1>13 DEF CallRefused
  <2>5. ASSUME Due(t)' PROVE b = Meant(t) \/ ~Mute(outbox', t)
    <3>1. Due(t) /\ t.kind \notin refused'
      BY <1>4, <1>5, <2>1, <2>5 DEF Due
    <3> QED
      BY <1>3, <1>7, <2>2, <2>3, <2>4, <3>1
  <2>6. TopicInv(t)'
    BY <1>4, <1>5, <1>7, <1>13, <2>5 DEF TopicInv
  <2>7. SilentInv(t)'
    BY <1>4, <1>5, <1>11, <1>13 DEF TopicOK, SilentInv
  <2> QED
    BY <1>10, <2>6, <2>7 DEF TopicOK
<1> QED
  BY <1>12, <1>13 DEF TrySend

-----------------------------------------------------------------------------
(* What each event leaves.                                                   *)

(* The event taken was not a BrokerConnected.                                *)
LEMMA StillPending ==
  ASSUME TypeInv, NEW type, RecvMqtt(type), type # "BrokerConnected", ~ConnectPending'
  PROVE  ~ConnectPending
<1>1. /\ mqtt_events \in Seq(MqttEvents) /\ mqtt_events # <<>>
      /\ mqtt_events' = Tail(mqtt_events) /\ Head(mqtt_events).type = type
  BY DEF TypeInv, ChannelTypeOK, RecvMqtt
<1>2. /\ Len(mqtt_events) \in Nat \ {0} /\ Len(mqtt_events') = Len(mqtt_events) - 1
      /\ Head(mqtt_events) = mqtt_events[1]
      /\ \A i \in 1 .. Len(mqtt_events') : mqtt_events'[i] = mqtt_events[i + 1]
  BY <1>1, TailAt
<1>3. ASSUME NEW i \in 1 .. Len(mqtt_events), mqtt_events[i].type = "BrokerConnected" PROVE FALSE
  <2>1. i # 1
    BY <1>1, <1>2, <1>3
  <2>2. i - 1 \in 1 .. Len(mqtt_events') /\ (i - 1) + 1 = i
    BY <1>2, <2>1
  <2>3. mqtt_events'[i - 1] = mqtt_events[i]
    BY <1>2, <2>2
  <2> QED
    BY <1>3, <2>2, <2>3 DEF ConnectPending
<1> QED
  BY <1>3 DEF ConnectPending

(* What every handler does.  The calls it makes agree with what it leaves;   *)
(* it says what it changes; and if no BrokerConnected waits behind it, none  *)
(* waited before it, or it says everything.                                  *)
SaysSome(type) == \E c \in Range(outbox') : c.type = type

SaysAll ==
  /\ SaysSome("SubscribeToCommands") /\ SaysSome("PublishAvailability")
  /\ Fragments \subseteq have => SaysSome("PublishDiscovery")
  /\ SnapshotParts \subseteq have => SaysSome("PublishSnapshot")

Handled ==
  /\ outbox = <<>> /\ session' = session /\ have \subseteq have'
  /\ ~(SnapshotParts \subseteq have') => ~SaysSome("PublishSnapshot")
  /\ \A c \in Range(outbox') : c.type = "PublishAvailability" => c.online = OnlineIf(flags')
  /\ OnlineIf(flags') = OnlineIf(flags) \/ SaysSome("PublishAvailability")
  /\ Fragments \subseteq have' => Fragments \subseteq have \/ SaysSome("PublishDiscovery")
  /\ ~ConnectPending' => ~ConnectPending \/ (SaysAll /\ have' = have)
  /\ FlagInv'

LEMMA CallTypeNames ==
  /\ Subscribe.type = "SubscribeToCommands" /\ Discovery.type = "PublishDiscovery"
  /\ \A o : Availability(o).type = "PublishAvailability" /\ Availability(o).online = o
  /\ \A f : Snapshot(f).type = "PublishSnapshot" /\ Snapshot(f).switches = f
BY DEF Subscribe, Discovery, Availability, Snapshot

LEMMA BrokerHandled ==
  ASSUME TypeInv, FlagInv, RecvBrokerConnected
  PROVE  Handled
<1>1. /\ outbox = <<>> /\ outbox' = Reshipped /\ UNCHANGED <<have, session>>
      /\ flags' = flags \union {"broker_connected"}
  BY DEF RecvBrokerConnected, RecvMqtt
<1>2. OnlineIf(flags') = OnlineIf(flags)
  BY <1>1 DEF OnlineIf
<1>3. Range(outbox') = {Subscribe, Availability(OnlineIf(flags))}
                         \union (IF DiscoveryParts \subseteq have THEN {Discovery} ELSE {})
                         \union SnapshotCalls(have, SwitchesShown(config, freeze))
  BY <1>1, ReshippedRange
<1> DEFINE x == SwitchesShown(config, freeze)
           a == Availability(OnlineIf(flags))
<1> HIDE DEF x, a
<1>4. /\ Subscribe \in Range(outbox') /\ a \in Range(outbox')
      /\ DiscoveryParts \subseteq have => Discovery \in Range(outbox')
      /\ SnapshotParts \subseteq have => Snapshot(x) \in Range(outbox')
      /\ \A c \in Range(outbox') : \/ c = Subscribe \/ c = a \/ c = Discovery
                                   \/ SnapshotParts \subseteq have /\ c = Snapshot(x)
  BY <1>3 DEF x, a, SnapshotCalls
<1>5. a.type = "PublishAvailability" /\ a.online = OnlineIf(flags)
  BY CallTypeNames DEF a
<1>6. Fragments \subseteq have => DiscoveryParts \subseteq have
  BY DEF Fragments
<1>7. SaysAll
  BY <1>4, <1>5, <1>6, CallTypeNames DEF SaysAll, SaysSome
<1>8. /\ ~(SnapshotParts \subseteq have) => ~SaysSome("PublishSnapshot")
      /\ \A c \in Range(outbox') : c.type = "PublishAvailability" => c.online = OnlineIf(flags)
  BY <1>4, <1>5, CallTypeNames DEF SaysSome
<1>9. FlagInv'
  BY <1>1 DEF FlagInv
<1> QED
  BY <1>1, <1>2, <1>7, <1>8, <1>9 DEF Handled

LEMMA QuietHandled ==
  ASSUME TypeInv, FlagInv, RecvBrokerDisconnected \/ RecvIncoming
  PROVE  Handled
<1> PICK type \in {"BrokerDisconnected", "Incoming"} : RecvMqtt(type)
  BY DEF RecvBrokerDisconnected, RecvIncoming
<1>1. /\ outbox = <<>> /\ outbox' = <<>> /\ UNCHANGED <<have, session>>
      /\ flags' \in {flags, flags \ {"broker_connected"}}
  BY DEF RecvBrokerDisconnected, RecvIncoming, RecvMqtt
<1>2. Range(outbox') = {}
  BY <1>1, SmallRanges
<1>3. OnlineIf(flags') = OnlineIf(flags)
  BY <1>1 DEF OnlineIf
<1>4. ~ConnectPending' => ~ConnectPending
  BY StillPending
<1>5. FlagInv'
  BY <1>1 DEF FlagInv
<1> QED
  BY <1>1, <1>2, <1>3, <1>4, <1>5 DEF Handled, SaysSome

LEMMA ConnectionHandled ==
  ASSUME TypeInv, FlagInv, RecvConnection
  PROVE  Handled
<1>1. /\ outbox = <<>> /\ UNCHANGED <<have, session, mqtt_events>> /\ ConnectionChanges
  BY DEF RecvConnection, RecvJkbms
<1>2. \/ outbox' = <<Availability("online")>> /\ "jkbms_online" \in flags'
      \/ outbox' = <<Availability("offline")>> /\ "jkbms_online" \notin flags'
      \/ outbox' = <<>> /\ flags' = flags
  BY <1>1 DEF ConnectionChanges
<1>3. "discovery_published" \in flags' => "discovery_published" \in flags
  BY <1>1 DEF ConnectionChanges
<1>4. \/ \E c : /\ Range(outbox') = {c} /\ c.type = "PublishAvailability"
                /\ c.online = OnlineIf(flags')
      \/ Range(outbox') = {} /\ flags' = flags
  BY <1>2, SmallRanges, CallTypeNames DEF OnlineIf
<1>5. ConnectPending' = ConnectPending
  BY <1>1 DEF ConnectPending
<1>6. /\ ~SaysSome("PublishSnapshot")
      /\ \A c \in Range(outbox') : c.type = "PublishAvailability" => c.online = OnlineIf(flags')
      /\ OnlineIf(flags') = OnlineIf(flags) \/ SaysSome("PublishAvailability")
  BY <1>4 DEF SaysSome
<1>7. FlagInv'
  BY <1>1, <1>3 DEF FlagInv
<1> QED
  BY <1>1, <1>5, <1>6, <1>7 DEF Handled

LEMMA DataHandled ==
  ASSUME TypeInv, FlagInv, RecvData \/ RecvWriteConfirmation \/ RecvWriteError
  PROVE  Handled
<1>1. RecvJkbms /\ PublishTail(have', config', freeze')
  BY JkbmsDataTaken
<1>2. /\ outbox = <<>> /\ UNCHANGED <<session, mqtt_events>>
      /\ have \subseteq have'
  BY <1>1 DEF RecvJkbms, RecvData, RecvWriteConfirmation, RecvWriteError
<1> DEFINE first == /\ "discovery_published" \notin flags
                    /\ Fragments \subseteq have'
                    /\ ~ (Fragments \subseteq have)
           x == SwitchesShown(config', freeze')
<1>3. /\ Range(outbox') = (IF first THEN {Discovery} ELSE {}) \union SnapshotCalls(have', x)
      /\ flags' = IF first THEN flags \union {"discovery_published"} ELSE flags
  BY <1>1, TailRange
<1> HIDE DEF x
<1>4. OnlineIf(flags') = OnlineIf(flags)
  BY <1>3 DEF OnlineIf
<1>5. ConnectPending' = ConnectPending
  BY <1>2 DEF ConnectPending
<1>6. FlagInv'
  BY <1>2, <1>3 DEF FlagInv
<1>7. Fragments \subseteq have' => Fragments \subseteq have \/ first
  BY DEF FlagInv
<1>8. /\ first => Discovery \in Range(outbox')
      /\ \A c \in Range(outbox') :
           c = Discovery \/ (SnapshotParts \subseteq have' /\ c = Snapshot(x))
  BY <1>3 DEF SnapshotCalls
<1> HIDE DEF first
<1>9. /\ first => SaysSome("PublishDiscovery")
      /\ ~(SnapshotParts \subseteq have') => ~SaysSome("PublishSnapshot")
      /\ \A c \in Range(outbox') : c.type # "PublishAvailability"
  BY <1>8, CallTypeNames DEF SaysSome
<1> QED
  BY <1>2, <1>4, <1>5, <1>6, <1>7, <1>9 DEF Handled

LEMMA HandlerHandled ==
  ASSUME TypeInv, FlagInv, Handle
  PROVE  Handled
BY BrokerHandled, QuietHandled, ConnectionHandled, DataHandled DEF Handle, MqttEvent, JkbmsEvent

LEMMA HandleStep ==
  ASSUME TypeInv, TypeInv', FlagInv, NEW t \in Topics, TopicOK(t), Handle
  PROVE  TopicOK(t)'
<1>1. Handled
  BY HandlerHandled
<1>2. UNCHANGED <<mqtt_commands, in_flight, subscribed, discovered, state, availability, refused>>
  BY DEF Handle, topicVars
<1>3. Seen(t)' = Seen(t) /\ Mute(outbox, t)
  BY <1>1, <1>2, EmptyLeaves DEF Seen, Handled
<1>4. /\ outbox' \in Seq(Calls) /\ Range(outbox') = {outbox'[i] : i \in 1 .. Len(outbox')}
      /\ \A i \in 1 .. Len(outbox') : Touches(outbox'[i], t) <=> outbox'[i].type = t.kind
  <2>1. outbox' \in Seq(Calls)
    BY OutboxCallsNext DEF OutboxShows
  <2> QED
    BY <2>1, RangeEquality, ElementOfSeq, CallTypes
<1>5. Mute(outbox', t) <=> ~SaysSome(t.kind)
  BY <1>4 DEF Mute, SaysSome
<1>6. /\ \A i \in 1 .. Len(outbox') :
           outbox'[i].type = "PublishSnapshot" => outbox'[i].switches = latest'
      /\ ~SaysSome("PublishSnapshot") => latest' = latest
  BY <1>4, LatestAfter DEF SaysSome
<1>7. t.kind \in {"PublishAvailability", "SubscribeToCommands", "PublishDiscovery", "PublishSnapshot"}
  BY DEF Topics
<1>8. OutboxRight(t)'
  <2> SUFFICES ASSUME NEW i \in 1 .. Len(outbox'), Touches(outbox'[i], t)
               PROVE  Says(outbox'[i], t) = Meant(t)'
    BY DEF OutboxRight
  <2>1. outbox'[i].type = t.kind /\ outbox'[i] \in Range(outbox')
    BY <1>4
  <2>2. CASE t.kind = "PublishSnapshot"
    BY <1>6, <2>1, <2>2 DEF Says, Meant
  <2>3. CASE t.kind = "PublishAvailability"
    BY <1>1, <2>1, <2>3 DEF Says, Meant, Handled
  <2>4. CASE t.kind \in {"SubscribeToCommands", "PublishDiscovery"}
    BY <2>1, <2>4 DEF Says, Meant
  <2> QED
    BY <1>7, <2>2, <2>3, <2>4
<1>9. Meant(t)' = Meant(t) \/ ~Mute(outbox', t)
  BY <1>1, <1>5, <1>6 DEF Handled, Meant
<1>10. Silent(t)' => Silent(t) /\ Mute(outbox', t)
  BY <1>1, <1>5 DEF Silent, Handled
<1>11. Due(t)' => Due(t) \/ Silent(t) \/ ~Mute(outbox', t)
  <2> SUFFICES ASSUME Due(t)', Mute(outbox', t), ~Silent(t) PROVE Due(t)
    OBVIOUS
  <2>1. ~SaysSome(t.kind)
    BY <1>5
  <2>2. session = "up" /\ ~ConnectPending' /\ t.kind \notin refused
        /\ (t.kind = "PublishDiscovery" => Fragments \subseteq have')
    BY <1>1, <1>2 DEF Due, Handled
  <2>3. ASSUME SaysAll, have' = have PROVE SaysSome(t.kind)
    BY <1>7, <2>2, <2>3 DEF SaysAll, Silent
  <2>4. ~ConnectPending /\ (t.kind = "PublishDiscovery" => Fragments \subseteq have)
    BY <1>1, <2>1, <2>2, <2>3 DEF Handled
  <2> QED
    BY <2>2, <2>4 DEF Due
<1>12. SilentInv(t)'
  BY <1>2, <1>3, <1>9, <1>10 DEF TopicOK, SilentInv
<1>13. PICK a, b : /\ Leaves(in_flight, t, Seen(t), a)
                   /\ Leaves(mqtt_commands, t, a, b)
                   /\ Due(t) => b = Meant(t) \/ ~Mute(outbox, t)
  BY DEF TopicOK, TopicInv
<1>14. Due(t) => b = Meant(t)
  BY <1>3, <1>13
<1>15. Silent(t) => b = Meant(t)
  BY <1>13 DEF TopicOK, SilentInv, Leaves, Mute
<1>16. Due(t)' => b = Meant(t)' \/ ~Mute(outbox', t)
  BY <1>9, <1>11, <1>14, <1>15
<1>17. TopicInv(t)'
  BY <1>2, <1>3, <1>13, <1>16 DEF TopicInv
<1> QED
  BY <1>8, <1>12, <1>17 DEF TopicOK

(* The BMS side, a request and a new session leave the topics, the queues    *)
(* and the coordinator as they are, but for the events that wait.            *)
LEMMA EventStep ==
  ASSUME TypeInv, NEW t \in Topics, TopicOK(t),
         BmsStep \/ Request \/ SessionUp \/ UNCHANGED vars
  PROVE  TopicOK(t)'
<1>1. /\ UNCHANGED <<mqtt_commands, in_flight, subscribed, discovered, state, availability,
                     latest, refused, outbox, have, flags>>
  <2>1. CASE BmsStep
    <3>1. PICK e \in JkbmsEvents : Emit(e)
      BY <2>1, BmsSideEmits DEF BmsStep, BmsEmits
    <3> QED
      BY <2>1, <3>1 DEF BmsStep, Emit, topicVars, viewVars, coordVars
  <2>2. CASE Request \/ SessionUp
    BY <2>2 DEF Request, HaRequests, SessionUp, Mqtt!SessionUp, BrokerConnects, Notify,
                topicVars, viewVars, coordVars
  <2>3. CASE UNCHANGED vars
    BY <2>3 DEF vars, coordinatorVars, topicVars, viewVars, coordVars
  <2> QED
    BY <2>1, <2>2, <2>3
<1>2. mqtt_events \in Seq(MqttEvents)
  BY DEF TypeInv, ChannelTypeOK
<1>3. Due(t)' => Due(t)
  <2>1. CASE BmsStep
    <3>1. PICK e \in JkbmsEvents : Emit(e)
      BY <2>1, BmsSideEmits DEF BmsStep, BmsEmits
    <3> QED
      BY <1>1, <3>1 DEF Emit, Due, ConnectPending
  <2>2. CASE Request
    <3>1. PICK e \in MqttEvents : mqtt_events' = Append(mqtt_events, e) /\ session = "up"
      BY <2>2 DEF Request, HaRequests, Notify, MqttEvents
    <3>2. \A i \in 1 .. Len(mqtt_events) :
            i \in 1 .. Len(mqtt_events') /\ mqtt_events'[i] = mqtt_events[i]
      BY <1>2, <3>1, AppendAt
    <3>3. ConnectPending => ConnectPending'
      BY <3>2 DEF ConnectPending
    <3> QED
      BY <1>1, <3>1, <3>3 DEF Due
  <2>3. CASE SessionUp
    <3> DEFINE e == [type |-> "BrokerConnected"]
    <3>1. mqtt_events' = Append(mqtt_events, e) /\ e \in MqttEvents
      BY <2>3 DEF SessionUp, BrokerConnects, Notify, MqttEvents
    <3>2. Len(mqtt_events) + 1 \in 1 .. Len(mqtt_events') /\ mqtt_events'[Len(mqtt_events) + 1] = e
      BY <1>2, <3>1, AppendAt
    <3>3. ConnectPending'
      BY <3>2 DEF ConnectPending
    <3> QED
      BY <3>3 DEF Due
  <2>4. CASE UNCHANGED vars
    BY <2>4 DEF vars, viewVars, coordinatorVars, coordVars, Due, ConnectPending
  <2> QED
    BY <2>1, <2>2, <2>3, <2>4
<1>4. Seen(t)' = Seen(t) /\ Meant(t)' = Meant(t) /\ Silent(t)' = Silent(t)
  BY <1>1 DEF Seen, Meant, Silent
<1>5. OutboxRight(t)' /\ SilentInv(t)'
  BY <1>1, <1>4 DEF TopicOK, OutboxRight, SilentInv
<1>6. TopicInv(t)'
  BY <1>1, <1>3, <1>4 DEF TopicOK, TopicInv
<1> QED
  BY <1>5, <1>6 DEF TopicOK

(* A session ends, and with it what was in flight.                           *)
LEMMA SessionEndStep ==
  ASSUME NEW t \in Topics, TopicOK(t), SessionDown \/ LoseCommands
  PROVE  TopicOK(t)'
<1>1. /\ in_flight' = <<>> /\ session' = "down" /\ state' = state
      /\ UNCHANGED <<mqtt_commands, latest, refused, outbox, have, flags>>
  BY DEF SessionDown, LoseCommands, Mqtt!SessionDown, Mqtt!Lose, BrokerDrops, Notify,
         topicVars, viewVars, coordVars, coordinatorVars
<1>2. Meant(t)' = Meant(t) /\ Silent(t)' = Silent(t)
  BY <1>1 DEF Meant, Silent
<1>3. t.kind = "PublishSnapshot" => Seen(t)' = Seen(t)
  BY <1>1 DEF Seen
<1>4. OutboxRight(t)'
  BY <1>1, <1>2 DEF TopicOK, OutboxRight
<1>5. SilentInv(t)'
  BY <1>1, <1>2, <1>3, EmptyLeaves DEF TopicOK, SilentInv, Silent
<1>6. PICK z : z = Seen(t)'
  OBVIOUS
<1>7. \E b : Leaves(mqtt_commands, t, z, b)
  BY LeavesFromElsewhere DEF TopicOK, TopicInv
<1>8. Leaves(in_flight', t, z, z)
  BY <1>1, EmptyLeaves
<1>9. TopicInv(t)'
  BY <1>1, <1>6, <1>7, <1>8 DEF TopicInv, Due
<1> QED
  BY <1>4, <1>5, <1>9 DEF TopicOK

LEMMA DispatchStep ==
  ASSUME BridgeTypes, NEW t \in Topics, TopicOK(t), Dispatch
  PROVE  TopicOK(t)'
<1> DEFINE c == Head(mqtt_commands)
           d == Dispatched(c)
<1>1. /\ mqtt_commands # <<>> /\ c \in Calls
      /\ mqtt_commands' = Tail(mqtt_commands) /\ in_flight' = in_flight \o d
      /\ UNCHANGED <<coordinatorVars, topicVars, viewVars>>
  BY DispatchTaken
<1>2. /\ Seen(t)' = Seen(t) /\ Meant(t)' = Meant(t) /\ Silent(t)' = Silent(t) /\ Due(t)' = Due(t)
      /\ outbox' = outbox
  BY <1>1 DEF coordinatorVars, coordVars, topicVars, viewVars, Seen, Meant, Silent, Due,
              ConnectPending
<1>3. in_flight \in Seq(Reqs) /\ mqtt_commands \in Seq(Calls)
  BY DEF BridgeTypes, QueuesOK
<1>4. /\ d \in Seq(Reqs) /\ \A x : Leaves(d, t, x, Effect(c, t, x))
      /\ ~Touches(c, t) => Mute(d, t)
  BY <1>1, DispatchedLeaves
<1>5. /\ \A x, y : Leaves(mqtt_commands, t, x, y) =>
                     Leaves(Tail(mqtt_commands), t, Effect(c, t, x), y)
      /\ Mute(mqtt_commands, t) => Mute(Tail(mqtt_commands), t) /\ ~Touches(c, t)
  BY <1>1, <1>3, LeavesTail
<1> HIDE DEF c, d
<1>6. PICK a, b : /\ Leaves(in_flight, t, Seen(t), a)
                  /\ Leaves(mqtt_commands, t, a, b)
                  /\ Due(t) => b = Meant(t) \/ ~Mute(outbox, t)
  BY DEF TopicOK, TopicInv
<1>7. /\ Leaves(in_flight \o d, t, Seen(t), Effect(c, t, a))
      /\ Mute(in_flight, t) /\ Mute(d, t) => Mute(in_flight \o d, t)
  BY <1>3, <1>4, <1>6, LeavesConcat
<1>8. Leaves(mqtt_commands', t, Effect(c, t, a), b)
  BY <1>1, <1>5, <1>6
<1>9. TopicInv(t)'
  BY <1>1, <1>2, <1>6, <1>7, <1>8 DEF TopicInv
<1>10. SilentInv(t)'
  BY <1>1, <1>2, <1>4, <1>5, <1>7 DEF TopicOK, SilentInv
<1>11. OutboxRight(t)'
  BY <1>2 DEF TopicOK, OutboxRight
<1> QED
  BY <1>9, <1>10, <1>11 DEF TopicOK

(* What reaches the broker does to the topic what it says.                   *)
LEMMA ReachedEffect ==
  ASSUME SeenOK, NEW r \in Reqs, NEW t \in Topics, Reached(r)
  PROVE  Seen(t)' = Effect(r, t, Seen(t))
<1>1. CASE t.kind = "PublishAvailability"
  BY <1>1, ReqTypes DEF Reached, Seen, Effect, Touches, Says
<1>2. CASE t.kind = "SubscribeToCommands"
  BY <1>2, ReqTypes DEF Reached, Seen, Effect, Touches, Says
<1>3. CASE t.kind = "PublishDiscovery"
  BY <1>3, ReqTypes DEF Reached, Seen, Effect, Touches, Says
<1>4. CASE t.kind = "PublishSnapshot"
  <2>1. t.of \in Switches /\ DOMAIN state = Switches
    BY <1>4 DEF Topics, SeenOK
  <2>2. state' = IF r.type = "State" THEN [state EXCEPT ![r.switch] = r.value] ELSE state
    BY DEF Reached
  <2>3. state'[t.of] = IF r.type = "State" /\ r.switch = t.of THEN r.value ELSE state[t.of]
    BY <2>1, <2>2
  <2>4. Seen(t) = state[t.of] /\ Seen(t)' = state'[t.of]
    BY <1>4 DEF Seen
  <2>5. r.type # "PublishSnapshot"
    BY ReqTypes
  <2> QED
    BY <1>4, <2>3, <2>4, <2>5 DEF Effect, Touches, Says
<1> QED
  BY <1>1, <1>2, <1>3, <1>4 DEF Topics

LEMMA ReceiveStep ==
  ASSUME BridgeTypes, NEW t \in Topics, TopicOK(t), BrokerReceives
  PROVE  TopicOK(t)'
<1> DEFINE r == Head(in_flight)
<1>1. /\ in_flight # <<>> /\ r \in Reqs /\ in_flight' = Tail(in_flight) /\ Reached(r)
      /\ UNCHANGED <<mqtt_commands, coordinatorVars, viewVars>>
  BY BrokerReceived
<1>2. /\ Meant(t)' = Meant(t) /\ Silent(t)' = Silent(t) /\ Due(t)' = Due(t)
      /\ outbox' = outbox /\ mqtt_commands' = mqtt_commands
  BY <1>1 DEF coordinatorVars, coordVars, viewVars, Meant, Silent, Due, ConnectPending
<1>3. in_flight \in Seq(Reqs) /\ SeenOK
  BY DEF BridgeTypes, QueuesOK
<1>4. /\ \A x, y : Leaves(in_flight, t, x, y) => Leaves(in_flight', t, Effect(r, t, x), y)
      /\ Mute(in_flight, t) => Mute(in_flight', t) /\ ~Touches(r, t)
  BY <1>1, <1>3, LeavesTail
<1> HIDE DEF r
<1>5. Seen(t)' = Effect(r, t, Seen(t))
  BY <1>1, <1>3, ReachedEffect
<1>6. PICK a, b : /\ Leaves(in_flight, t, Seen(t), a)
                  /\ Leaves(mqtt_commands, t, a, b)
                  /\ Due(t) => b = Meant(t) \/ ~Mute(outbox, t)
  BY DEF TopicOK, TopicInv
<1>7. Leaves(in_flight', t, Seen(t)', a)
  BY <1>4, <1>5, <1>6
<1>8. TopicInv(t)'
  BY <1>2, <1>6, <1>7 DEF TopicInv
<1>9. SilentInv(t)'
  BY <1>2, <1>4, <1>5 DEF TopicOK, SilentInv, Effect
<1>10. OutboxRight(t)'
  BY <1>2 DEF TopicOK, OutboxRight
<1> QED
  BY <1>8, <1>9, <1>10 DEF TopicOK

(* discovery_published is set by the handlers of the fragments only.         *)
LEMMA FlagStep ==
  ASSUME TypeInv, FlagInv, [BridgeNext]_vars
  PROVE  FlagInv'
<1>1. CASE Handle
  BY <1>1, HandlerHandled DEF Handled
<1>2. CASE BmsStep
  <2>1. PICK e \in JkbmsEvents : Emit(e)
    BY <1>2, BmsSideEmits DEF BmsStep, BmsEmits
  <2> QED
    BY <2>1 DEF Emit, coordVars, FlagInv
<1>3. ASSUME ~Handle, ~BmsStep PROVE UNCHANGED coordVars
  BY <1>3 DEF BridgeNext, TrySend, CallTaken, CallRefused, SessionUp, SessionDown, BrokerConnects,
              BrokerDrops, Request, HaRequests, Notify, LoseCommands, Dispatch, BrokerReceives,
              vars, coordinatorVars
<1>4. CASE ~Handle /\ ~BmsStep
  BY <1>3, <1>4 DEF coordVars, FlagInv
<1> QED
  BY <1>1, <1>2, <1>4

LEMMA HomeStep ==
  TypeInv /\ TypeInv' /\ BridgeTypes /\ HomeInv /\ [BridgeNext]_vars => HomeInv'
<1> SUFFICES ASSUME TypeInv, TypeInv', BridgeTypes, HomeInv, [BridgeNext]_vars
             PROVE  HomeInv'
  OBVIOUS
<1>1. FlagInv /\ FlagInv'
  BY FlagStep DEF HomeInv
<1>2. ASSUME NEW t \in Topics PROVE TopicOK(t)'
  <2>1. TopicOK(t)
    BY DEF HomeInv
  <2> QED
    BY <1>1, <2>1, SendStep, HandleStep, EventStep, SessionEndStep, DispatchStep, ReceiveStep
    DEF BridgeNext
<1> QED
  BY <1>1, <1>2 DEF HomeInv

LEMMA HomeInvariant == BridgeSpec => [](BridgeTypes /\ HomeInv)
BY BridgeTypesInvariant, HomeInit, HomeStep, PTL DEF BridgeSpec

(* Whenever things have settled in a session, Home Assistant sees the        *)
(* availability, the subscriptions, the discovery and the switches that the  *)
(* coordinator means it to see, whatever sessions failed with whatever in    *)
(* flight, except where the full command channel refused the publication.    *)
THEOREM HomeAssistantSeesTheBms == BridgeSpec => []HomeAssistantUpToDate
<1>1. BridgeTypes /\ HomeInv => HomeAssistantUpToDate
  <2> SUFFICES ASSUME BridgeTypes, HomeInv, Settled
               PROVE  /\ availability = OnlineIf(flags) \/ "PublishAvailability" \in refused
                      /\ subscribed = "yes" \/ "SubscribeToCommands" \in refused
                      /\ Fragments \subseteq have =>
                           discovered = "yes" \/ "PublishDiscovery" \in refused
                      /\ state = latest \/ "PublishSnapshot" \in refused
    BY DEF HomeAssistantUpToDate
  <2>1. session = "up" /\ ~ConnectPending
    <3>1. Len(<<>>) = 0
      BY EmptySeq
    <3> QED
      BY <3>1 DEF Settled, ConnectPending
  <2>2. ASSUME NEW t \in Topics, Due(t) PROVE Seen(t) = Meant(t)
    <3>1. TopicInv(t)
      BY DEF HomeInv, TopicOK
    <3>2. PICK a, b : /\ Leaves(in_flight, t, Seen(t), a)
                      /\ Leaves(mqtt_commands, t, a, b)
                      /\ b = Meant(t) \/ ~Mute(outbox, t)
      BY <2>2, <3>1 DEF TopicInv
    <3>3. in_flight = <<>> /\ mqtt_commands = <<>> /\ outbox = <<>>
      BY DEF Settled
    <3> QED
      BY <3>2, <3>3, EmptyLeaves
  <2>3. availability = OnlineIf(flags) \/ "PublishAvailability" \in refused
    <3> DEFINE t == [kind |-> "PublishAvailability"]
    <3>1. t \in Topics
      BY DEF Topics
    <3> QED
      BY <2>1, <2>2, <3>1 DEF Due, Seen, Meant
  <2>4. subscribed = "yes" \/ "SubscribeToCommands" \in refused
    <3> DEFINE t == [kind |-> "SubscribeToCommands"]
    <3>1. t \in Topics
      BY DEF Topics
    <3> QED
      BY <2>1, <2>2, <3>1 DEF Due, Seen, Meant
  <2>5. Fragments \subseteq have => discovered = "yes" \/ "PublishDiscovery" \in refused
    <3> DEFINE t == [kind |-> "PublishDiscovery"]
    <3>1. t \in Topics
      BY DEF Topics
    <3> QED
      BY <2>1, <2>2, <3>1 DEF Due, Seen, Meant
  <2>6. ASSUME "PublishSnapshot" \notin refused PROVE state = latest
    <3>1. ASSUME NEW w \in Switches PROVE state[w] = latest[w]
      <4> DEFINE t == [kind |-> "PublishSnapshot", of |-> w]
      <4>1. t \in Topics
        BY DEF Topics
      <4> QED
        BY <2>1, <2>2, <2>6, <4>1 DEF Due, Seen, Meant
    <3> QED
      BY <3>1 DEF BridgeTypes, SeenOK, ViewOK
  <2> QED
    BY <2>3, <2>4, <2>5, <2>6
<1> QED
  BY <1>1, HomeInvariant, PTL

-----------------------------------------------------------------------------
(* The MQTT side of Bridge is MqttService, which MqttManager implements:     *)
(* what the coordinator does to the command channel and to the session is no *)
(* more than a try_send, and the topics add nothing to what may be lost.     *)
THEOREM BridgeIsBuiltOnMqttService == BridgeSpec => Mqtt!Spec
<1>1. BridgeInit => Mqtt!Init
  BY DEF BridgeInit, Init, Mqtt!Init
<1>2. TypeInv /\ [BridgeNext]_vars => [Mqtt!Next]_Mqtt!vars
  <2> SUFFICES ASSUME TypeInv, [BridgeNext]_vars PROVE [Mqtt!Next]_Mqtt!vars
    OBVIOUS
  <2>1. CASE TrySend
    <3>1. outbox # <<>> /\ outbox \in Seq(Calls)
      BY <2>1, OutboxCalls DEF OutboxShows, TrySend, CallTaken, CallRefused
    <3>2. Head(outbox) \in Calls
      BY <3>1, TailAt
    <3>3. UNCHANGED <<in_flight, session>>
      BY <2>1 DEF TrySend, CallTaken, CallRefused
    <3>4. CASE Room /\ mqtt_commands' = Append(mqtt_commands, Head(outbox))
      <4>1. Mqtt!Send(Head(outbox))
        BY <3>3, <3>4 DEF Mqtt!Send, Mqtt!Room, Room
      <4> QED
        BY <3>2, <4>1 DEF Mqtt!Next
    <3>5. CASE mqtt_commands' = mqtt_commands
      BY <3>3, <3>5 DEF Mqtt!vars
    <3> QED
      BY <2>1, <3>4, <3>5 DEF TrySend
  <2>2. CASE Handle
    <3>1. session' = session
      BY <2>2 DEF Handle, MqttEvent, RecvBrokerConnected, RecvBrokerDisconnected, RecvIncoming,
                  JkbmsEvent, RecvConnection, RecvData, RecvWriteConfirmation, RecvWriteError,
                  RecvJkbms
    <3> QED
      BY <2>2, <3>1 DEF Handle, Mqtt!vars
  <2>3. CASE BmsStep
    <3>1. PICK e \in JkbmsEvents : Emit(e)
      BY <2>3, BmsSideEmits DEF BmsStep, BmsEmits
    <3> QED
      BY <2>3, <3>1 DEF BmsStep, Emit, Mqtt!vars
  <2>4. CASE SessionUp \/ SessionDown \/ LoseCommands \/ Dispatch \/ BrokerReceives
    BY <2>4 DEF SessionUp, SessionDown, LoseCommands, Dispatch, BrokerReceives, Mqtt!Next
  <2>5. CASE Request
    BY <2>5 DEF Request, HaRequests, Mqtt!vars
  <2>6. CASE UNCHANGED vars
    BY <2>6 DEF vars, coordinatorVars, Mqtt!vars
  <2> QED
    BY <2>1, <2>2, <2>3, <2>4, <2>5, <2>6 DEF BridgeNext
<1> QED
  BY <1>1, <1>2, BridgeTypesInvariant, PTL DEF BridgeSpec, Mqtt!Spec

=============================================================================
