-------------------------- MODULE MqttManagerProofs --------------------------
(***************************************************************************)
(* What TLAPS proves of MqttManager, for every capacity, backoff and size  *)
(* of a command and any number of commands: the types, that sessions begin *)
(* and end alternately for the coordinator, that the broker receives whole *)
(* commands without a gap, and that the manager implements MqttService.    *)
(***************************************************************************)
EXTENDS MqttManager, QueueLemmas

-----------------------------------------------------------------------------
(* The types.                                                                *)

LEMMA TypeInit == Init => TypeOK
<1>1. \A S : <<>> \in Seq(S) /\ Len(<<>>) = 0
  BY EmptySeq
<1> QED
  BY <1>1, MqttAssumption DEF Init, TypeOK, MqttAssumption, Brokers

LEMMA RequestsOfType ==
  ASSUME NEW c \in Commands
  PROVE  /\ RequestsOf(c) \in Seq(RequestType) /\ Len(RequestsOf(c)) = c.size
         /\ c.size \in Nat \ {0} /\ c.id \in 1 .. MaxCommands
         /\ \A i \in 1 .. c.size : RequestsOf(c)[i] = [of |-> c.id, at |-> i, size |-> c.size]
<1>1. c.size \in Sizes /\ c.size \in Nat \ {0} /\ c.id \in 1 .. MaxCommands
  BY MqttAssumption DEF MqttAssumption, Commands
<1>2. \A i \in 1 .. c.size : [of |-> c.id, at |-> i, size |-> c.size] \in RequestType
  BY <1>1 DEF RequestType
<1> QED
  BY <1>1, <1>2 DEF RequestsOf

LEMMA FirstRequest ==
  ASSUME NEW c \in Commands
  PROVE  /\ RequestsOf(c)[1] \in RequestType
         /\ RequestsOf(c)[1].of = c.id /\ RequestsOf(c)[1].at = 1
<1>1. 1 \in 1 .. c.size /\ 1 \in 1 .. Len(RequestsOf(c))
  BY RequestsOfType
<1>2. RequestsOf(c)[1] = [of |-> c.id, at |-> 1, size |-> c.size]
  BY <1>1, RequestsOfType
<1>3. RequestsOf(c)[1] \in RequestType
  BY <1>1, RequestsOfType, ElementOfSeq
<1> QED
  BY <1>2, <1>3

LEMMA TypeEndSession ==
  ASSUME TypeOK, NEW o, EndSession(o)
  PROVE  TypeOK'
<1>1. /\ UNCHANGED <<commands, sent, sender, dispatch_outcome, loop, stop, broker>>
      /\ pc' \in {"done", "sleep"} /\ session' \in {"up", "down"} /\ connected' \in {"no", "yes"}
  BY DEF EndSession, TellEnd, Sleep, commandVars, TypeOK
<1>2. backoff' \in INITIAL_BACKOFF .. MAX_BACKOFF
  BY MqttAssumption DEF EndSession, Sleep, Least, TypeOK, MqttAssumption
<1>3. UNCHANGED requestVars \/ (todo' = <<>> /\ requests' = <<>> /\ wire' = <<>> /\ received' = <<>>)
  BY DEF EndSession, Fresh
<1>4. \A S : <<>> \in Seq(S) /\ Len(<<>>) = 0
  BY EmptySeq
<1>5. /\ todo' \in Seq(RequestType) /\ requests' \in Seq(RequestType)
      /\ wire' \in Seq(RequestType) /\ received' \in Seq(RequestType)
      /\ Len(requests') <= REQUEST_CHANNEL_CAPACITY /\ Len(wire') <= INFLIGHT /\ Len(received') <= 1
  <2>1. CASE UNCHANGED requestVars
    BY <2>1 DEF requestVars, TypeOK
  <2>2. CASE todo' = <<>> /\ requests' = <<>> /\ wire' = <<>> /\ received' = <<>>
    BY <1>4, <2>2, MqttAssumption DEF MqttAssumption
  <2> QED
    BY <1>3, <2>1, <2>2
<1> QED
  BY <1>1, <1>2, <1>5 DEF TypeOK

LEMMA TypeRequests ==
  ASSUME TypeOK, Publish \/ Flush \/ Receive \/ RecvCommand
  PROVE  TypeOK'
<1>1. /\ todo \in Seq(RequestType) /\ requests \in Seq(RequestType) /\ wire \in Seq(RequestType)
      /\ commands \in Seq(Commands)
      /\ Len(requests) \in Nat /\ Len(wire) \in Nat /\ Len(commands) \in Nat
  BY LenProperties DEF TypeOK
<1>2. /\ UNCHANGED <<sent, sender, pc, dispatch_outcome, backoff, loop, connected, stop, session, broker>>
  BY DEF Publish, Flush, Receive, RecvCommand, commandVars, managerVars, loopVars
<1>3. CASE Publish
  <2>1. /\ todo # <<>> /\ todo' = Tail(todo) /\ requests' = Append(requests, Head(todo))
        /\ Len(requests) < REQUEST_CHANNEL_CAPACITY
        /\ UNCHANGED <<commands, wire, received>>
    BY <1>3 DEF Publish, Dispatching, RequestRoom, commandVars
  <2>2. todo' \in Seq(RequestType) /\ Head(todo) \in RequestType
    BY <1>1, <2>1, HeadThenTail
  <2>3. requests' \in Seq(RequestType) /\ Len(requests') = Len(requests) + 1
    BY <1>1, <2>1, <2>2, AppendProperties
  <2> QED
    BY <1>1, <1>2, <2>1, <2>2, <2>3, MqttAssumption DEF TypeOK, MqttAssumption
<1>4. CASE Flush
  <2>1. /\ requests # <<>> /\ requests' = Tail(requests) /\ wire' = Append(wire, Head(requests))
        /\ Len(wire) < INFLIGHT /\ UNCHANGED <<commands, todo, received>>
    BY <1>4 DEF Flush, commandVars
  <2>2. requests' \in Seq(RequestType) /\ Head(requests) \in RequestType /\ Len(requests') = Len(requests) - 1
    BY <1>1, <2>1, HeadTailProperties
  <2>3. wire' \in Seq(RequestType) /\ Len(wire') = Len(wire) + 1
    BY <1>1, <2>1, <2>2, AppendProperties
  <2> QED
    BY <1>1, <1>2, <2>1, <2>2, <2>3, MqttAssumption DEF TypeOK, MqttAssumption
<1>5. CASE Receive
  <2>1. /\ wire # <<>> /\ wire' = Tail(wire) /\ received' = <<Head(wire)>>
        /\ UNCHANGED <<commands, todo, requests>>
    BY <1>5 DEF Receive, commandVars
  <2>2. wire' \in Seq(RequestType) /\ Head(wire) \in RequestType /\ Len(wire') = Len(wire) - 1
    BY <1>1, <2>1, HeadTailProperties
  <2>3. received' \in Seq(RequestType) /\ Len(received') = 1
    BY <2>1, <2>2
  <2> QED
    BY <1>1, <1>2, <2>1, <2>2, <2>3, MqttAssumption DEF TypeOK, MqttAssumption
<1>6. CASE RecvCommand
  <2>1. /\ commands # <<>> /\ commands' = Tail(commands) /\ todo' = RequestsOf(Head(commands))
        /\ UNCHANGED <<requests, wire, received>>
    BY <1>6 DEF RecvCommand
  <2>2. commands' \in Seq(Commands) /\ Head(commands) \in Commands /\ Len(commands') = Len(commands) - 1
    BY <1>1, <2>1, HeadTailProperties
  <2>3. todo' \in Seq(RequestType)
    BY <2>1, <2>2, RequestsOfType
  <2> QED
    BY <1>1, <1>2, <2>1, <2>2, <2>3, MqttAssumption DEF TypeOK, MqttAssumption
<1> QED
  BY <1>3, <1>4, <1>5, <1>6

LEMMA TypeSend ==
  ASSUME TypeOK, Send
  PROVE  /\ TypeOK'
         /\ \E n \in Sizes : LET c == [id |-> sent + 1, size |-> n]
                             IN c \in Commands /\ commands' = Append(commands, c)
<1>1. PICK n \in Sizes : commands' = Append(commands, [id |-> sent + 1, size |-> n])
  BY DEF Send
<1>2. /\ sent' = sent + 1 /\ sent < MaxCommands /\ Len(commands) < COMMAND_CHANNEL_CAPACITY
      /\ UNCHANGED <<sender, managerVars, loopVars, requestVars, broker>>
  BY DEF Send
<1>3. [id |-> sent + 1, size |-> n] \in Commands
  BY <1>2, MqttAssumption DEF TypeOK, MqttAssumption, Commands
<1>4. commands' \in Seq(Commands) /\ Len(commands') = Len(commands) + 1 /\ Len(commands) \in Nat
  BY <1>1, <1>3, AppendProperties, LenProperties DEF TypeOK
<1>5. TypeOK'
  BY <1>2, <1>4, MqttAssumption DEF TypeOK, MqttAssumption, managerVars, loopVars, requestVars
<1> QED
  BY <1>1, <1>3, <1>5

LEMMA TypeNext == TypeOK /\ [Next]_vars => TypeOK'
<1> SUFFICES ASSUME TypeOK, [Next]_vars PROVE TypeOK'
  OBVIOUS
<1>1. CASE Send
  BY <1>1, TypeSend
<1>2. CASE Close \/ BrokerSettles
  BY <1>2, MqttAssumption
  DEF Close, BrokerSettles, TypeOK, commandVars, managerVars, loopVars, requestVars, MqttAssumption
<1>3. CASE StartSession
  <2>1. \A S : <<>> \in Seq(S) /\ Len(<<>>) = 0
    BY EmptySeq
  <2> QED
    BY <1>3, <2>1, MqttAssumption DEF StartSession, Fresh, TypeOK, commandVars, MqttAssumption
<1>4. CASE Publish \/ Flush \/ Receive \/ RecvCommand
  BY <1>4, TypeRequests
<1>5. CASE PublishFails \/ RecvNone
  BY <1>5 DEF PublishFails, RecvNone, DispatchEnds, TypeOK, commandVars, requestVars, Outcomes
<1>6. CASE LoopFirst \/ Joined
  BY <1>6, TypeEndSession DEF LoopFirst, Joined
<1>7. CASE WakeUp \/ ConnAck
  BY <1>7 DEF WakeUp, ConnAck, TypeOK, commandVars, managerVars, loopVars, requestVars
<1>8. CASE PollFails \/ NobodyListens \/ SeeStop
  BY <1>8 DEF PollFails, NobodyListens, SeeStop, LoopEnds, TypeOK, commandVars, managerVars, requestVars, Outcomes
<1>9. CASE UNCHANGED vars
  BY <1>9 DEF TypeOK, vars, commandVars, managerVars, loopVars, requestVars
<1> QED
  BY <1>1, <1>2, <1>3, <1>4, <1>5, <1>6, <1>7, <1>8, <1>9
  DEF Next, Manager, Recv, Loop, Terminated

(* The types, and with them the bounds: neither channel nor the wire holds   *)
(* more than its capacity, and the backoff stays between its two constants.  *)
THEOREM TypeCorrect == Spec => []TypeOK
BY TypeInit, TypeNext, PTL DEF Spec

-----------------------------------------------------------------------------
(* The events of a session.                                                  *)

(* The invariant: outside of a session nobody polls and the coordinator has  *)
(* been told of the last one's end; the event loop is joined only with an    *)
(* outcome of dispatch; and nothing is on the wire without a connection.     *)
SessionInv ==
  /\ EventsAlternate
  /\ pc \in {"start", "sleep", "done"} => loop # "polling"
  /\ pc = "join" => dispatch_outcome \in Outcomes
  /\ wire # <<>> => connected = "yes"

LEMMA SessionInit == Init => SessionInv
BY DEF Init, SessionInv, EventsAlternate

LEMMA SessionNext == TypeOK /\ SessionInv /\ [Next]_vars => SessionInv'
<1> SUFFICES ASSUME TypeOK, SessionInv, [Next]_vars PROVE SessionInv'
  OBVIOUS
<1> USE DEF SessionInv, EventsAlternate
<1>1. CASE Send \/ Close \/ BrokerSettles \/ UNCHANGED vars
  BY <1>1 DEF Send, Close, BrokerSettles, vars, managerVars, loopVars, requestVars
<1>2. CASE StartSession
  BY <1>2 DEF StartSession
<1>3. CASE Publish \/ RecvCommand \/ WakeUp
  BY <1>3 DEF Publish, RecvCommand, WakeUp, managerVars, loopVars, requestVars
<1>4. CASE PublishFails \/ RecvNone
  BY <1>4 DEF PublishFails, RecvNone, DispatchEnds, Dispatching, Receiving, requestVars, Outcomes
<1>5. CASE LoopFirst \/ Joined
  <2>1. PICK o : EndSession(o) /\ loop # "polling"
    BY <1>5 DEF LoopFirst, Joined
  <2>2. CASE o = "HandleDropped"
    BY <2>1, <2>2 DEF EndSession, TellEnd, requestVars
  <2>3. CASE o = "Disconnected"
    BY <2>1, <2>3 DEF EndSession, TellEnd, Sleep, TypeOK
  <2> QED
    BY <2>1, <2>2, <2>3 DEF EndSession
<1>6. CASE ConnAck
  BY <1>6 DEF ConnAck, managerVars, requestVars
<1>7. CASE Flush \/ Receive
  BY <1>7, EmptySeq DEF Flush, Receive, managerVars, loopVars
<1>8. CASE PollFails \/ NobodyListens \/ SeeStop
  BY <1>8 DEF PollFails, NobodyListens, SeeStop, LoopEnds, managerVars, requestVars
<1> QED
  BY <1>1, <1>2, <1>3, <1>4, <1>5, <1>6, <1>7, <1>8 DEF Next, Manager, Recv, Loop, Terminated

LEMMA SessionInvariant == Spec => [](TypeOK /\ SessionInv)
BY TypeInit, TypeNext, SessionInit, SessionNext, PTL DEF Spec

(* BrokerConnected and BrokerDisconnected alternate, whichever of the two    *)
(* tasks ended the session (run_new_session, connected_at).                  *)
THEOREM SessionsToldApart == Spec => []EventsAlternate
<1>1. SessionInv => EventsAlternate
  BY DEF SessionInv
<1> QED
  BY <1>1, SessionInvariant, PTL

-----------------------------------------------------------------------------
(* What reaches the broker.                                                  *)

Chain(q) == \A i \in 1 .. Len(q) - 1 : Follows(q[i], q[i + 1])

(* The first request of the command that is taken next.                      *)
NextRequest == IF commands = <<>> THEN <<>> ELSE <<RequestsOf(Head(commands))[1]>>

Line == received \o InFlight \o NextRequest

(* NothingSkipped is inductive: it speaks of the whole line from the request *)
(* received last up to the command that is taken next.                       *)
LineOK ==
  /\ Chain(Line)
  /\ received = <<>> /\ Line # <<>> => Line[1].at = 1
  /\ commands = <<>> /\ Line # <<>> => IsLast(Line[Len(Line)]) /\ Line[Len(Line)].of = sent
  /\ \A i \in 1 .. Len(commands) : commands[i].id = sent - Len(commands) + i

LEMMA NothingSkippedIs == NothingSkipped <=> LineOK
BY DEF NothingSkipped, LineOK, Chain, Line, NextRequest

LEMMA ChainConcat ==
  ASSUME NEW S, NEW p \in Seq(S), NEW q \in Seq(S)
  PROVE  Chain(p \o q) <=>
           /\ Chain(p) /\ Chain(q)
           /\ p # <<>> /\ q # <<>> => Follows(p[Len(p)], q[1])
<1> DEFINE m == Len(p)  n == Len(q)  r == p \o q
<1>1. /\ m \in Nat /\ n \in Nat /\ r \in Seq(S) /\ Len(r) = m + n
      /\ \A i \in 1 .. m + n : r[i] = IF i <= m THEN p[i] ELSE q[i - m]
      /\ p = <<>> <=> m = 0
      /\ q = <<>> <=> n = 0
  BY ConcatProperties, LenProperties, EmptySeq
<1> HIDE DEF m, n, r
<1>2. ASSUME Chain(r) PROVE Chain(p) /\ Chain(q) /\ (m # 0 /\ n # 0 => Follows(p[m], q[1]))
  <2>1. ASSUME NEW i \in 1 .. m - 1 PROVE Follows(p[i], p[i + 1])
    <3>1. i \in 1 .. m + n - 1 /\ i <= m /\ i + 1 <= m /\ i + 1 \in 1 .. m + n /\ i \in 1 .. m + n
      BY <1>1
    <3> QED
      BY <1>1, <1>2, <3>1 DEF Chain
  <2>2. ASSUME NEW i \in 1 .. n - 1 PROVE Follows(q[i], q[i + 1])
    <3>1. /\ m + i \in 1 .. m + n - 1 /\ m + i \in 1 .. m + n /\ m + i + 1 \in 1 .. m + n
          /\ ~(m + i <= m) /\ ~(m + i + 1 <= m) /\ (m + i) - m = i /\ (m + i + 1) - m = i + 1
      BY <1>1
    <3>2. r[m + i] = q[i] /\ r[m + i + 1] = q[i + 1]
      BY <1>1, <3>1
    <3> QED
      BY <1>1, <1>2, <3>1, <3>2 DEF Chain
  <2>3. ASSUME m # 0, n # 0 PROVE Follows(p[m], q[1])
    <3>1. /\ m \in 1 .. m + n - 1 /\ m \in 1 .. m + n /\ m + 1 \in 1 .. m + n
          /\ m <= m /\ ~(m + 1 <= m) /\ (m + 1) - m = 1
      BY <1>1, <2>3
    <3>2. r[m] = p[m] /\ r[m + 1] = q[1]
      BY <1>1, <3>1
    <3> QED
      BY <1>1, <1>2, <3>1, <3>2 DEF Chain
  <2> QED
    BY <2>1, <2>2, <2>3 DEF Chain, m, n
<1>3. ASSUME Chain(p), Chain(q), m # 0 /\ n # 0 => Follows(p[m], q[1]) PROVE Chain(r)
  <2> SUFFICES ASSUME NEW i \in 1 .. m + n - 1 PROVE Follows(r[i], r[i + 1])
    BY <1>1 DEF Chain
  <2>1. i \in 1 .. m + n /\ i + 1 \in 1 .. m + n
    BY <1>1
  <2>2. CASE i < m
    <3>1. i \in 1 .. m - 1 /\ i <= m /\ i + 1 <= m
      BY <1>1, <2>2
    <3> QED
      BY <1>1, <1>3, <2>1, <3>1 DEF Chain, m
  <2>3. CASE i = m
    <3>1. i <= m /\ ~(i + 1 <= m) /\ (i + 1) - m = 1 /\ m # 0 /\ n # 0
      BY <1>1, <2>3
    <3> QED
      BY <1>1, <1>3, <2>1, <2>3, <3>1
  <2>4. CASE i > m
    <3>1. i - m \in 1 .. n - 1 /\ ~(i <= m) /\ ~(i + 1 <= m) /\ (i + 1) - m = (i - m) + 1
      BY <1>1, <2>4
    <3>2. r[i] = q[i - m] /\ r[i + 1] = q[(i - m) + 1]
      BY <1>1, <2>1, <3>1
    <3> QED
      BY <1>3, <3>1, <3>2 DEF Chain, n
  <2> QED
    BY <1>1, <2>2, <2>3, <2>4
<1> QED
  BY <1>1, <1>2, <1>3 DEF m, r

LEMMA Singleton ==
  ASSUME NEW S, NEW e \in S
  PROVE  <<e>> \in Seq(S) /\ Len(<<e>>) = 1 /\ <<e>>[1] = e /\ <<e>> # <<>> /\ Chain(<<e>>)
BY DEF Chain

LineType ==
  /\ received \in Seq(RequestType) /\ wire \in Seq(RequestType)
  /\ requests \in Seq(RequestType) /\ todo \in Seq(RequestType)
  /\ InFlight \in Seq(RequestType) /\ NextRequest \in Seq(RequestType)
  /\ received \o InFlight \in Seq(RequestType)
  /\ Line \in Seq(RequestType) /\ Line = received \o (InFlight \o NextRequest)

LEMMA LineTypes == TypeOK => LineType
<1> SUFFICES ASSUME TypeOK PROVE LineType
  OBVIOUS
<1>1. /\ received \in Seq(RequestType) /\ wire \in Seq(RequestType)
      /\ requests \in Seq(RequestType) /\ todo \in Seq(RequestType)
      /\ commands \in Seq(Commands)
  BY DEF TypeOK
<1>2. InFlight \in Seq(RequestType)
  BY <1>1, ConcatProperties DEF InFlight
<1>3. NextRequest \in Seq(RequestType)
  <2>1. CASE commands = <<>>
    BY <2>1, EmptySeq DEF NextRequest
  <2>2. CASE commands # <<>>
    <3>1. Head(commands) \in Commands
      BY <1>1, <2>2, HeadTailProperties
    <3>2. RequestsOf(Head(commands))[1] \in RequestType
      BY <3>1, RequestsOfType, ElementOfSeq
    <3> QED
      BY <2>2, <3>2, Singleton DEF NextRequest
  <2> QED
    BY <2>1, <2>2
<1>4. received \o InFlight \in Seq(RequestType)
  BY <1>1, <1>2, ConcatProperties
<1>5. (received \o InFlight) \o NextRequest \in Seq(RequestType)
  BY <1>3, <1>4, ConcatProperties
<1>6. (received \o InFlight) \o NextRequest = received \o (InFlight \o NextRequest)
  BY <1>1, <1>2, <1>3, ConcatAssociative
<1> QED
  BY <1>1, <1>2, <1>3, <1>4, <1>5, <1>6 DEF Line, LineType

LEMMA LineTypesNext == TypeOK' => LineType'
BY LineTypes, PTL

(* What each step does to what is in flight.                                 *)
LEMMA PublishMoves ==
  ASSUME TypeOK, Publish \/ Flush
  PROVE  InFlight' = InFlight /\ UNCHANGED <<received, commands, sent, session>>
<1>1. UNCHANGED <<received, commands, sent, session>>
  BY DEF Publish, Flush, commandVars, loopVars
<1>2. CASE Publish
  <2>1. todo # <<>> /\ todo' = Tail(todo) /\ requests' = Append(requests, Head(todo)) /\ wire' = wire
    BY <1>2 DEF Publish, Dispatching
  <2>2. todo' \in Seq(RequestType) /\ requests' \in Seq(RequestType)
    BY <2>1, HeadThenTail, AppendProperties, LineTypes DEF LineType
  <2>3. wire \in Seq(RequestType) /\ requests \in Seq(RequestType) /\ todo \in Seq(RequestType)
    BY LineTypes DEF LineType
  <2>4. (wire \o requests') \o todo' = wire \o (requests' \o todo')
    BY <2>2, <2>3, ConcatAssociative
  <2>5. requests' \o todo' = requests \o todo
    BY <2>1, <2>3, MoveHead
  <2>6. (wire \o requests) \o todo = wire \o (requests \o todo)
    BY <2>3, ConcatAssociative
  <2> QED
    BY <1>1, <2>1, <2>4, <2>5, <2>6 DEF InFlight
<1>3. CASE Flush
  <2>1. requests # <<>> /\ wire' = Append(wire, Head(requests)) /\ requests' = Tail(requests) /\ todo' = todo
    BY <1>3 DEF Flush
  <2>2. wire' \o requests' = wire \o requests
    BY <2>1, LineTypes, MoveHead DEF LineType
  <2> QED
    BY <1>1, <2>1, <2>2 DEF InFlight
<1> QED
  BY <1>2, <1>3

LEMMA ReceiveMoves ==
  ASSUME TypeOK, Receive
  PROVE  /\ InFlight # <<>> /\ InFlight' = Tail(InFlight) /\ received' = <<Head(InFlight)>>
         /\ wire # <<>> /\ UNCHANGED <<commands, sent, session>>
<1>1. /\ wire # <<>> /\ wire' = Tail(wire) /\ received' = <<Head(wire)>>
      /\ UNCHANGED <<todo, requests, commands, sent, session>>
  BY DEF Receive, commandVars, loopVars
<1>2. wire \o requests \in Seq(RequestType)
  BY LineTypes, ConcatProperties DEF LineType
<1>3. /\ wire \o requests # <<>> /\ Tail(wire \o requests) = Tail(wire) \o requests
      /\ Head(wire \o requests) = Head(wire)
  BY <1>1, LineTypes, TailOfConcat DEF LineType
<1>4. /\ InFlight # <<>> /\ Tail(InFlight) = Tail(wire \o requests) \o todo
      /\ Head(InFlight) = Head(wire \o requests)
  BY <1>2, <1>3, LineTypes, TailOfConcat DEF InFlight, LineType
<1> QED
  BY <1>1, <1>3, <1>4 DEF InFlight

LEMMA TakeMoves ==
  ASSUME TypeOK, RecvCommand
  PROVE  /\ commands # <<>> /\ commands' = Tail(commands) /\ Head(commands) \in Commands
         /\ InFlight' = InFlight \o RequestsOf(Head(commands))
         /\ Len(InFlight) <= REQUEST_CHANNEL_CAPACITY + INFLIGHT
         /\ UNCHANGED <<received, sent, session>>
<1>1. /\ commands # <<>> /\ commands' = Tail(commands) /\ todo = <<>>
      /\ todo' = RequestsOf(Head(commands)) /\ UNCHANGED <<requests, wire, received, sent, session>>
  BY DEF RecvCommand, Receiving, loopVars
<1>2. Head(commands) \in Commands
  BY <1>1, HeadTailProperties DEF TypeOK
<1>3. /\ wire \o requests \in Seq(RequestType) /\ Len(wire \o requests) = Len(wire) + Len(requests)
      /\ Len(wire) \in Nat /\ Len(requests) \in Nat
  BY LineTypes, ConcatProperties, LenProperties DEF LineType
<1>4. InFlight = wire \o requests
  BY <1>1, <1>3, ConcatEmptySeq DEF InFlight
<1> QED
  BY <1>1, <1>2, <1>3, <1>4, MqttAssumption DEF InFlight, TypeOK, MqttAssumption

LEMMA ResetMoves ==
  ASSUME todo' = <<>>, requests' = <<>>, wire' = <<>>
  PROVE  InFlight' = <<>>
<1>1. \A q \in Seq({}) : q \o <<>> = q
  BY ConcatEmptySeq
<1> QED
  BY <1>1, EmptySeq DEF InFlight

LEMMA SkippedSame ==
  ASSUME LineOK, InFlight' = InFlight, UNCHANGED <<received, commands, sent>>
  PROVE  LineOK'
BY DEF LineOK, Line, NextRequest, Chain

LEMMA SkippedReset ==
  ASSUME TypeOK, TypeOK', LineOK, InFlight' = <<>>, received' = <<>>, UNCHANGED <<commands, sent>>
  PROVE  LineOK'
<1>1. NextRequest' = NextRequest /\ NextRequest \in Seq(RequestType)
  BY LineTypes DEF NextRequest, LineType
<1>2. Line' = NextRequest
  <2>1. <<>> \o <<>> = <<>> /\ <<>> \o NextRequest = NextRequest
    BY <1>1, ConcatEmptySeq, EmptySeq
  <2> QED
    BY <1>1, <2>1 DEF Line
<1>3. CASE commands = <<>>
  <2>1. Line' = <<>>
    BY <1>2, <1>3 DEF NextRequest
  <2>2. Chain(Line)'
    BY <2>1, EmptySeq DEF Chain
  <2> QED
    BY <1>3, <2>1, <2>2 DEF LineOK
<1>4. CASE commands # <<>>
  <2>1. Head(commands) \in Commands
    BY <1>4, HeadTailProperties DEF TypeOK
  <2>2. RequestsOf(Head(commands))[1] \in RequestType /\ RequestsOf(Head(commands))[1].at = 1
    BY <2>1, FirstRequest
  <2>3. Line' = <<RequestsOf(Head(commands))[1]>>
    BY <1>2, <1>4 DEF NextRequest
  <2>4. Chain(Line)' /\ Line'[1].at = 1
    BY <2>2, <2>3, Singleton DEF Chain
  <2> QED
    BY <1>4, <2>4 DEF LineOK
<1> QED
  BY <1>3, <1>4

LEMMA SkippedReceive ==
  ASSUME TypeOK, TypeOK', LineOK, Receive
  PROVE  LineOK'
<1> DEFINE S == RequestType
<1>1. /\ InFlight # <<>> /\ InFlight' = Tail(InFlight) /\ received' = <<Head(InFlight)>>
      /\ UNCHANGED <<commands, sent>>
  BY ReceiveMoves
<1>2. /\ received \in Seq(S) /\ InFlight \in Seq(S) /\ NextRequest \in Seq(S)
      /\ Line = received \o (InFlight \o NextRequest) /\ NextRequest' = NextRequest
      /\ InFlight \o NextRequest \in Seq(S)
  BY <1>1, LineTypes, ConcatProperties DEF NextRequest, LineType
<1>3. Line' = InFlight \o NextRequest
  BY <1>1, <1>2, HeadThenTail DEF Line
<1>4. Chain(Line)'
  <2>1. Chain(Line)
    BY DEF LineOK
  <2>2. Chain(InFlight \o NextRequest)
    BY <1>2, <2>1, ChainConcat
  <2> QED
    BY <1>3, <2>2 DEF Chain
<1>5. received' # <<>>
  BY <1>1
<1>6. ASSUME commands' = <<>> PROVE IsLast(Line'[Len(Line')]) /\ Line'[Len(Line')].of = sent'
  <2>1. NextRequest = <<>> /\ InFlight \o NextRequest = InFlight
    BY <1>1, <1>2, <1>6, ConcatEmptySeq DEF NextRequest
  <2>2. Line # <<>> /\ Line[Len(Line)] = InFlight[Len(InFlight)]
    BY <1>1, <1>2, <2>1, ConcatEnds
  <2> QED
    BY <1>1, <1>3, <1>6, <2>1, <2>2 DEF IsLast, LineOK
<1>7. \A i \in 1 .. Len(commands') : commands'[i].id = sent' - Len(commands') + i
  BY <1>1 DEF LineOK
<1> QED
  BY <1>4, <1>5, <1>6, <1>7 DEF LineOK

LEMMA SkippedSend ==
  ASSUME TypeOK, TypeOK', LineOK, Send
  PROVE  LineOK'
<1> DEFINE S == RequestType  F == received \o InFlight
<1>1. PICK n \in Sizes : LET c == [id |-> sent + 1, size |-> n]
                         IN c \in Commands /\ commands' = Append(commands, c)
  BY TypeSend
<1> DEFINE c == [id |-> sent + 1, size |-> n]  x == RequestsOf(c)[1]
<1>2. /\ sent' = sent + 1 /\ UNCHANGED <<received, wire, requests, todo>> /\ InFlight' = InFlight
      /\ sent \in Nat
  BY MqttAssumption DEF Send, requestVars, InFlight, TypeOK, MqttAssumption
<1>3. /\ c \in Commands /\ c.id = sent + 1 /\ commands' = Append(commands, c)
      /\ commands \in Seq(Commands) /\ commands' \in Seq(Commands)
      /\ Len(commands') = Len(commands) + 1 /\ Len(commands) \in Nat /\ commands' # <<>>
      /\ \A i \in 1 .. Len(commands) : commands'[i] = commands[i]
      /\ commands'[Len(commands) + 1] = c
  BY <1>1, AppendProperties, LenProperties DEF TypeOK
<1>4. x \in S /\ x.of = sent + 1 /\ x.at = 1
  BY <1>3, FirstRequest
<1> HIDE DEF c, x
<1>5. \A i \in 1 .. Len(commands') : commands'[i].id = sent' - Len(commands') + i
  <2> SUFFICES ASSUME NEW i \in 1 .. Len(commands') PROVE commands'[i].id = sent' - Len(commands') + i
    OBVIOUS
  <2>1. CASE i \in 1 .. Len(commands)
    BY <1>2, <1>3, <2>1 DEF LineOK
  <2>2. CASE i = Len(commands) + 1
    BY <1>2, <1>3, <2>2
  <2> QED
    BY <1>3, <2>1, <2>2
<1>6. CASE commands # <<>>
  <2>1. Head(commands') = Head(commands)
    BY <1>3, <1>6, HeadTailAppend
  <2>2. Line' = Line /\ Chain(Line')
    BY <1>2, <1>3, <1>6, <2>1 DEF Line, NextRequest, LineOK
  <2> QED
    BY <1>2, <1>3, <1>5, <2>2 DEF Chain, LineOK
<1>7. CASE commands = <<>>
  <2>1. Head(commands') = c
    BY <1>3, <1>7, HeadTailAppend
  <2>2. F \in Seq(S) /\ Line = F /\ Line' = F \o <<x>>
    BY <1>2, <1>3, <1>7, <2>1, LineTypes, ConcatEmptySeq DEF Line, NextRequest, x, LineType
  <2>3. <<x>> \in Seq(S) /\ <<x>> # <<>> /\ <<x>>[1] = x /\ Chain(<<x>>)
    BY <1>4, Singleton
  <2>4. Chain(F) /\ (F # <<>> => IsLast(F[Len(F)]) /\ F[Len(F)].of = sent)
    BY <1>7, <2>2 DEF LineOK
  <2>5. Chain(F \o <<x>>)
    <3>1. F # <<>> => Follows(F[Len(F)], <<x>>[1])
      BY <1>4, <2>3, <2>4 DEF Follows
    <3> HIDE DEF F
    <3> QED
      BY <2>2, <2>3, <2>4, <3>1, ChainConcat
  <2>6. ASSUME received = <<>> PROVE (F \o <<x>>)[1].at = 1
    <3>1. CASE F = <<>>
      <4>1. F \o <<x>> = <<x>>
        BY <2>3, <3>1, ConcatEmptySeq
      <4> QED
        BY <1>4, <4>1
    <3>2. CASE F # <<>>
      <4>1. F[1].at = 1
        BY <2>2, <2>6, <3>2 DEF LineOK
      <4> HIDE DEF F
      <4> QED
        BY <2>2, <2>3, <3>2, <4>1, ConcatEnds
    <3> QED
      BY <3>1, <3>2
  <2> HIDE DEF F
  <2> QED
    BY <1>2, <1>3, <1>5, <2>2, <2>5, <2>6 DEF Chain, LineOK
<1> QED
  BY <1>6, <1>7

LEMMA ChainOfCommand ==
  ASSUME NEW c \in Commands
  PROVE  Chain(RequestsOf(c))
<1>1. /\ Len(RequestsOf(c)) = c.size /\ c.size \in Nat \ {0}
      /\ \A i \in 1 .. c.size : RequestsOf(c)[i] = [of |-> c.id, at |-> i, size |-> c.size]
  BY RequestsOfType
<1> SUFFICES ASSUME NEW i \in 1 .. c.size - 1 PROVE Follows(RequestsOf(c)[i], RequestsOf(c)[i + 1])
  BY <1>1 DEF Chain
<1>2. i \in 1 .. c.size /\ i + 1 \in 1 .. c.size /\ i # c.size
  BY <1>1
<1> DEFINE a == RequestsOf(c)[i]  b == RequestsOf(c)[i + 1]
<1>3. /\ a = [of |-> c.id, at |-> i, size |-> c.size]
      /\ b = [of |-> c.id, at |-> i + 1, size |-> c.size]
  BY <1>1, <1>2
<1> HIDE DEF a, b
<1>4. a.at # a.size /\ b = [a EXCEPT !.at = @ + 1]
  BY <1>2, <1>3
<1>5. Follows(a, b)
  BY <1>4 DEF Follows, IsLast
<1> QED
  BY <1>5 DEF a, b

LEMMA SkippedTake ==
  ASSUME TypeOK, TypeOK', LineOK, RecvCommand
  PROVE  LineOK'
<1> DEFINE S == RequestType  F == received \o InFlight  h == Head(commands)  R == RequestsOf(h)
           G == F \o R  N == NextRequest'
<1>1. /\ commands # <<>> /\ commands' = Tail(commands) /\ h \in Commands
      /\ InFlight' = InFlight \o R /\ UNCHANGED <<received, sent>>
  BY TakeMoves
<1>2. /\ commands \in Seq(Commands) /\ commands' \in Seq(Commands) /\ Len(commands) \in Nat \ {0}
      /\ Len(commands') = Len(commands) - 1 /\ h = commands[1]
      /\ \A i \in 1 .. Len(commands') : commands'[i] = commands[i + 1]
      /\ sent \in Nat
  <2>1. commands \in Seq(Commands) /\ sent \in Nat
    BY MqttAssumption DEF TypeOK, MqttAssumption
  <2> QED
    BY <1>1, <2>1, HeadTailProperties, HeadThenTail
<1>3. \A i \in 1 .. Len(commands) : commands[i].id = sent - Len(commands) + i
  BY DEF LineOK
<1>4. \A i \in 1 .. Len(commands') : commands'[i].id = sent' - Len(commands') + i
  <2> SUFFICES ASSUME NEW i \in 1 .. Len(commands') PROVE commands'[i].id = sent' - Len(commands') + i
    OBVIOUS
  <2>1. i + 1 \in 1 .. Len(commands)
    BY <1>2
  <2> QED
    BY <1>1, <1>2, <1>3, <2>1
<1>5. h.id = sent - Len(commands) + 1
  BY <1>2, <1>3
<1>6. /\ R \in Seq(S) /\ R # <<>> /\ Chain(R) /\ R[1].at = 1
      /\ IsLast(R[Len(R)]) /\ R[Len(R)].of = h.id
  <2>1. /\ R \in Seq(S) /\ Len(R) = h.size /\ h.size \in Nat \ {0}
        /\ \A i \in 1 .. h.size : R[i] = [of |-> h.id, at |-> i, size |-> h.size]
    BY <1>1, RequestsOfType
  <2>2. h.size \in 1 .. h.size /\ 1 \in 1 .. h.size
    BY <2>1
  <2> QED
    <3>1. R[Len(R)] = [of |-> h.id, at |-> h.size, size |-> h.size]
      BY <2>1, <2>2
    <3>2. R[1] = [of |-> h.id, at |-> 1, size |-> h.size]
      BY <2>1, <2>2
    <3>3. R # <<>>
      <4>1. Len(R) # 0
        BY <2>1
      <4> HIDE DEF R
      <4> QED
        BY <4>1, EmptySeq
    <3> QED
      BY <1>1, <2>1, <3>1, <3>2, <3>3, ChainOfCommand DEF IsLast
<1>7. F \in Seq(S) /\ received \in Seq(S) /\ InFlight \in Seq(S) /\ N \in Seq(S)
  BY LineTypes, LineTypesNext DEF LineType
<1>8. Line = F \o <<R[1]>> /\ <<R[1]>> \in Seq(S) /\ <<R[1]>> # <<>> /\ <<R[1]>>[1] = R[1]
  BY <1>1, FirstRequest, Singleton DEF Line, NextRequest
<1>9. Line' = G \o N
  <2>1. received \o (InFlight \o R) = (received \o InFlight) \o R
    BY <1>6, <1>7, ConcatAssociative
  <2> QED
    BY <1>1, <2>1 DEF Line
<1> HIDE DEF F, R, h, N, S
<1>10. Chain(F) /\ (F # <<>> => Follows(F[Len(F)], R[1]))
  <2>1. Chain(F \o <<R[1]>>)
    BY <1>8 DEF LineOK
  <2> QED
    BY <1>7, <1>8, <2>1, ChainConcat
<1>11. /\ G \in Seq(S) /\ G # <<>> /\ Chain(G) /\ IsLast(G[Len(G)]) /\ G[Len(G)].of = h.id
  <2>1. Chain(G)
    BY <1>6, <1>7, <1>10, ChainConcat
  <2> QED
    BY <1>6, <1>7, <2>1, ConcatProperties, ConcatEnds
<1>12. received = <<>> => G[1].at = 1
  <2>1. CASE F = <<>>
    <3>1. G = R
      BY <1>6, <2>1, ConcatEmptySeq
    <3> QED
      BY <1>6, <3>1
  <2>2. CASE F # <<>>
    <3>1. G[1] = F[1] /\ Line[1] = F[1] /\ Line # <<>>
      BY <1>6, <1>7, <1>8, <2>2, ConcatEnds
    <3> QED
      BY <3>1 DEF LineOK
  <2> QED
    BY <2>1, <2>2
<1> HIDE DEF G
<1>13. Line' # <<>> /\ (G \o N)[1] = G[1]
  BY <1>7, <1>9, <1>11, ConcatEnds
<1>14. CASE commands' = <<>>
  <2>1. N = <<>> /\ G \o N = G
    BY <1>11, <1>14, ConcatEmptySeq DEF N, NextRequest
  <2>2. Len(commands) = 1 /\ h.id = sent
    <3>1. Len(commands') = 0
      BY <1>14, EmptySeq
    <3>2. Len(commands) = 1
      BY <1>2, <3>1
    <3>3. sent - Len(commands) + 1 = sent
      BY <1>2, <3>2
    <3> QED
      BY <1>5, <3>2, <3>3
  <2> QED
    BY <1>1, <1>4, <1>9, <1>11, <1>12, <2>1, <2>2 DEF LineOK, Chain, IsLast
<1>15. CASE commands' # <<>>
  <2>1. /\ Head(commands') \in Commands /\ Head(commands') = commands'[1] /\ Len(commands') \in Nat \ {0}
    BY <1>2, <1>15, HeadThenTail
  <2>2. Head(commands').id = h.id + 1
    <3>1. 1 \in 1 .. Len(commands')
      BY <2>1
    <3>2. commands'[1].id = sent - Len(commands') + 1
      BY <1>1, <1>4, <3>1
    <3> QED
      BY <1>2, <1>5, <2>1, <3>2
  <2>3. PICK x \in RequestType : N = <<x>> /\ x.of = h.id + 1 /\ x.at = 1
    BY <1>15, <2>1, <2>2, FirstRequest DEF N, NextRequest
  <2>4. Follows(G[Len(G)], N[1]) /\ Chain(N)
    BY <1>11, <2>3, Singleton DEF Follows
  <2>5. Chain(G \o N)
    BY <1>7, <1>11, <2>4, ChainConcat
  <2> QED
    BY <1>1, <1>4, <1>9, <1>12, <1>13, <1>15, <2>5 DEF LineOK, Chain
<1> QED
  BY <1>14, <1>15

LEMMA SkippedInit == Init => LineOK
<1> SUFFICES ASSUME Init PROVE LineOK
  OBVIOUS
<1>1. InFlight = <<>> /\ NextRequest = <<>> /\ received = <<>> /\ commands = <<>>
  <2>1. <<>> \o <<>> = <<>>
    BY ConcatEmptySeq, EmptySeq
  <2> QED
    BY <2>1 DEF Init, InFlight, NextRequest
<1>2. Line = <<>>
  BY <1>1, ConcatEmptySeq, EmptySeq DEF Line
<1>3. Chain(Line)
  BY <1>2, EmptySeq DEF Chain
<1> QED
  BY <1>1, <1>2, <1>3, EmptySeq DEF LineOK

LEMMA SkippedNext == TypeOK /\ TypeOK' /\ LineOK /\ [Next]_vars => LineOK'
<1> SUFFICES ASSUME TypeOK, TypeOK', LineOK, [Next]_vars PROVE LineOK'
  OBVIOUS
<1>1. ASSUME UNCHANGED <<requestVars, commands, sent>> PROVE LineOK'
  BY <1>1, SkippedSame DEF InFlight, requestVars
<1>2. ASSUME todo' = <<>>, requests' = <<>>, wire' = <<>>, received' = <<>>, UNCHANGED <<commands, sent>>
      PROVE  LineOK'
  BY <1>2, ResetMoves, SkippedReset
<1>3. CASE Close \/ BrokerSettles \/ WakeUp \/ PublishFails \/ RecvNone \/ UNCHANGED vars
  BY <1>1, <1>3
  DEF Close, BrokerSettles, WakeUp, PublishFails, RecvNone, DispatchEnds, vars, commandVars
<1>4. CASE ConnAck \/ PollFails \/ NobodyListens \/ SeeStop
  BY <1>1, <1>4 DEF ConnAck, PollFails, NobodyListens, SeeStop, LoopEnds, commandVars
<1>5. CASE StartSession \/ LoopFirst \/ Joined
  BY <1>1, <1>2, <1>5 DEF StartSession, LoopFirst, Joined, EndSession, Fresh, commandVars
<1>6. CASE Publish \/ Flush
  BY <1>6, PublishMoves, SkippedSame
<1> QED
  BY <1>3, <1>4, <1>5, <1>6, SkippedReceive, SkippedSend, SkippedTake
  DEF Next, Manager, Recv, Loop, Terminated

(* In a session the broker receives whole commands in the order in which     *)
(* they were sent and without a gap, and a session starts at the start of a  *)
(* command (dispatch, run_new_session).                                      *)
THEOREM BrokerMissesNothing == Spec => []NothingSkipped
<1>1. Spec => []TypeOK
  BY TypeCorrect
<1>2. Init => LineOK
  BY SkippedInit
<1>3. TypeOK /\ TypeOK' /\ LineOK /\ [Next]_vars => LineOK'
  BY SkippedNext
<1>4. LineOK <=> NothingSkipped
  BY NothingSkippedIs
<1> QED
  BY <1>1, <1>2, <1>3, <1>4, PTL DEF Spec

-----------------------------------------------------------------------------
(* The manager implements MqttService.                                       *)

LEMMA ServiceInit == Init => Service!Init
BY ResetMoves, ConcatEmptySeq, EmptySeq DEF Init, Service!Init, InFlight

(* A session that ends takes what is in flight with it, and the coordinator  *)
(* is told if it was told of its start.                                      *)
LEMMA ServiceEndSession ==
  ASSUME TypeOK, SessionInv, NEW o, EndSession(o)
  PROVE  [Service!Next]_Service!vars
<1>1. commands' = commands
  BY DEF EndSession, commandVars
<1>2. CASE o = "HandleDropped"
  BY <1>1, <1>2 DEF EndSession, TellEnd, requestVars, InFlight, Service!vars
<1>3. CASE o = "Disconnected"
  <2>1. InFlight' = <<>>
    BY <1>3, ResetMoves DEF EndSession, Fresh
  <2>2. session' = IF connected = "yes" THEN "down" ELSE session
    BY <1>3 DEF EndSession, TellEnd
  <2>3. CASE connected = "yes"
    BY <1>1, <2>1, <2>2, <2>3
    DEF SessionInv, EventsAlternate, Service!Next, Service!SessionDown
  <2>4. CASE connected # "yes" /\ session = "down"
    BY <1>1, <2>1, <2>2, <2>4 DEF Service!Next, Service!Lose
  <2> QED
    BY <2>3, <2>4 DEF SessionInv, EventsAlternate, TypeOK
<1> QED
  BY <1>2, <1>3 DEF EndSession

LEMMA ServiceStep == TypeOK /\ SessionInv /\ [Next]_vars => [Service!Next]_Service!vars
<1> SUFFICES ASSUME TypeOK, SessionInv, [Next]_vars PROVE [Service!Next]_Service!vars
  OBVIOUS
<1>1. ASSUME UNCHANGED <<commands, session, todo, requests, wire>> PROVE [Service!Next]_Service!vars
  BY <1>1 DEF InFlight, Service!vars
<1>2. CASE Close \/ BrokerSettles \/ WakeUp \/ PublishFails \/ RecvNone \/ UNCHANGED vars
  BY <1>1, <1>2
  DEF Close, BrokerSettles, WakeUp, PublishFails, RecvNone, DispatchEnds, vars, commandVars, loopVars, requestVars
<1>3. CASE PollFails \/ NobodyListens \/ SeeStop
  BY <1>1, <1>3 DEF PollFails, NobodyListens, SeeStop, LoopEnds, commandVars, requestVars
<1>4. CASE Send
  <2>1. PICK n \in Sizes : LET c == [id |-> sent + 1, size |-> n]
                           IN c \in Commands /\ commands' = Append(commands, c)
    BY <1>4, TypeSend
  <2>2. Service!Send([id |-> sent + 1, size |-> n])
    BY <1>4, <2>1 DEF Send, loopVars, requestVars, InFlight, Service!Send, Service!Room
  <2> QED
    BY <2>1, <2>2 DEF Service!Next
<1>5. CASE StartSession
  <2>1. session = "down" /\ InFlight' = <<>> /\ UNCHANGED <<commands, session>>
    BY <1>5, ResetMoves DEF StartSession, Fresh, SessionInv, EventsAlternate, commandVars
  <2> QED
    BY <2>1 DEF Service!Next, Service!Lose
<1>6. CASE LoopFirst \/ Joined
  BY <1>6, ServiceEndSession DEF LoopFirst, Joined
<1>7. CASE Publish \/ Flush
  BY <1>7, PublishMoves DEF Service!vars
<1>8. CASE Receive
  BY <1>8, ReceiveMoves DEF SessionInv, EventsAlternate, Service!Next, Service!Receive
<1>9. CASE RecvCommand
  <2>1. [c \in Commands |-> RequestsOf(c)][Head(commands)] = RequestsOf(Head(commands))
    BY <1>9, TakeMoves
  <2>2. Service!Take
    BY <1>9, <2>1, TakeMoves DEF Service!Take
  <2> QED
    BY <2>2 DEF Service!Next
<1>10. CASE ConnAck
  <2>1. /\ session = "down" /\ session' = "up" /\ UNCHANGED <<commands, todo, requests, wire>>
    BY <1>10 DEF ConnAck, SessionInv, EventsAlternate, TypeOK, commandVars, requestVars
  <2> QED
    BY <2>1 DEF InFlight, Service!Next, Service!SessionUp
<1> QED
  BY <1>2, <1>3, <1>4, <1>5, <1>6, <1>7, <1>8, <1>9, <1>10
  DEF Next, Manager, Recv, Loop, Terminated

(* The manager, with its two tasks, the client and the event loop, does with *)
(* the commands of the coordinator what MqttService says, and Bridge relies  *)
(* on: takes them in order, hands them to the broker in order while a        *)
(* session lasts, and loses what is in flight with the session.              *)
THEOREM ImplementsMqttService == Spec => RefinesMqttService
<1>1. Spec => [](TypeOK /\ SessionInv)
  BY SessionInvariant
<1>2. Init => Service!Init
  BY ServiceInit
<1>3. TypeOK /\ SessionInv /\ [Next]_vars => [Service!Next]_Service!vars
  BY ServiceStep
<1> QED
  BY <1>1, <1>2, <1>3, PTL DEF Spec, RefinesMqttService, Service!Spec

=============================================================================
