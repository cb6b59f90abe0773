------------------------- MODULE JkBmsProtocolProofs -------------------------
(***************************************************************************)
(* What TLAPS proves of JkBmsProtocol, for frames, acks and alarm answers  *)
(* of any length and a wire that holds any number of units: the types, and *)
(* that with a BMS which is late by no more than a drain waits for no call *)
(* takes what another one asked for, unless a read error ended a drain.    *)
(***************************************************************************)
EXTENDS JkBmsProtocol, QueueLemmas

-----------------------------------------------------------------------------
(* The invariant.                                                            *)

(* What a call that runs is.                                                 *)
CallInv ==
  /\ pc # "idle" => call \in Calls /\ outcome = "None"
  /\ pc = "ack" => call \in FrameKinds
  /\ pc = "drain" => call # "Alarms"
  /\ pc # "drain" => drained = 0
  /\ pc # "idle" /\ call = "Alarms" => framed = "no"

TypeInv == TypeOK /\ CallInv

(* All units that arrived or are under way are in U.                         *)
Carries(U) == buffer \in Seq(U) /\ coming \in Seq(U)

OnWire == Len(buffer) + Len(coming)

NoAlarms == {u \in Units : u.kind # "Alarms"}

NoOldAlarms == {u \in Units : u.kind = "Alarms" => u.own = "yes"}

(* The answer to c itself.                                                   *)
OwnAnswers(c) ==
  {u \in Units : u.own = "yes" /\ u.kind \in {c, "Ack"} /\ u.kind \notin {"Write", "Noise"}}

LongestAnswer == FRAME_LEN + ACK_LEN

(* Between two calls: without needs_drain nothing is left, and an alarm poll *)
(* is due only when no older alarms are left.                                *)
IdleInv ==
  /\ needs_drain = "no" => OnWire = 0
  /\ framed = "yes" => Carries(NoAlarms) /\ OnWire <= LongestAnswer
  /\ OnWire <= LongestAnswer + ALARM_RSP_LEN

SendInv ==
  IF call = "Alarms"
    THEN /\ Carries(NoAlarms) /\ OnWire <= LongestAnswer
         /\ needs_drain = "no" => OnWire = 0
    ELSE OnWire = 0

AnswerInv ==
  IF call = "Alarms"
    THEN /\ Carries(NoOldAlarms) /\ OnWire <= LongestAnswer + ALARM_RSP_LEN
         /\ needs_drain = "no" => OnWire <= ALARM_RSP_LEN
    ELSE /\ Carries(OwnAnswers(call))
         /\ OnWire <= IF call = "Write" THEN ACK_LEN ELSE LongestAnswer

(* As long as the line is prompt and no error cuts a drain short.  A drain   *)
(* has all of it before its cap.                                             *)
PromptInv ==
  /\ outcome # "stale" /\ frame # "stale"
  /\ pc = "idle" => IdleInv
  /\ pc = "drain" => drained + OnWire <= LongestAnswer + ALARM_RSP_LEN
  /\ pc = "send" => SendInv
  /\ pc = "answer" => AnswerInv
  /\ pc = "ack" => Carries(OwnAnswers(call)) /\ OnWire <= ACK_LEN

(* A drain that an error cut short may leave anything.  The next one that    *)
(* finds the line quiet leaves nothing, and nor does a new transport.        *)
ProtocolInv == TypeInv /\ (line = "prompt" /\ cut = "no" => PromptInv)

-----------------------------------------------------------------------------
(* The wire.                                                                 *)

LEMMA Lengths ==
  /\ FRAME_LEN \in Nat \ {0} /\ ACK_LEN \in Nat \ {0} /\ ALARM_RSP_LEN \in Nat \ {0}
  /\ DRAIN_MAX \in Nat \ {0} /\ DRAIN_BUF \in Nat \ {0}
  /\ LongestAnswer \in Nat /\ LongestAnswer = FRAME_LEN + ACK_LEN
  /\ DRAIN_MAX >= LongestAnswer + ALARM_RSP_LEN
  /\ \A c \in FrameKinds : c \notin {"Alarms", "Write", "Ack", "Noise"}
BY ProtocolAssumption DEF ProtocolAssumption, LongestAnswer

LEMMA UnitSets ==
  /\ NoAlarms \subseteq Units /\ NoOldAlarms \subseteq Units /\ NoAlarms \subseteq NoOldAlarms
  /\ \A c : OwnAnswers(c) \subseteq Units
  /\ \A c : c # "Alarms" => OwnAnswers(c) \subseteq NoAlarms
  /\ OwnAnswers("Alarms") \subseteq NoOldAlarms
BY DEF NoAlarms, NoOldAlarms, OwnAnswers

LEMMA Wires ==
  ASSUME NEW U, Carries(U)
  PROVE  /\ Len(buffer) \in Nat /\ Len(coming) \in Nat /\ OnWire \in Nat
         /\ OnWire = 0 => buffer = <<>> /\ coming = <<>>
         /\ \A V : U \subseteq V => Carries(V)
<1>1. Len(buffer) \in Nat /\ Len(coming) \in Nat
  BY LenProperties DEF Carries
<1>2. OnWire = 0 => buffer = <<>> /\ coming = <<>>
  BY <1>1, EmptySeq DEF Carries, OnWire
<1>3. \A V : U \subseteq V => Carries(V)
  BY SeqMonotone DEF Carries
<1> QED
  BY <1>1, <1>2, <1>3 DEF OnWire

LEMMA EmptyWire ==
  ASSUME buffer = <<>>, coming = <<>>, NEW U
  PROVE  Carries(U) /\ OnWire = 0
BY EmptySeq DEF Carries, OnWire

LEMMA EmptyWireNext ==
  ASSUME buffer' = <<>>, coming' = <<>>, NEW U
  PROVE  Carries(U)' /\ OnWire' = 0
BY EmptySeq DEF Carries, OnWire

LEMMA PieceOfUnits ==
  ASSUME NEW n \in Nat, NEW k \in Calls \union {"Ack", "Noise"}
  PROVE  Piece(k, n) \in Seq({u \in Units : u.own = "yes" /\ u.kind = k}) /\ Len(Piece(k, n)) = n
<1> DEFINE U == {u \in Units : u.own = "yes" /\ u.kind = k}
<1>1. \A i \in 1 .. n : Unit(k, i) \in U
  BY DEF Unit, Units
<1> HIDE DEF U
<1>2. [i \in 1 .. n |-> Unit(k, i)] \in Seq(U) /\ Len([i \in 1 .. n |-> Unit(k, i)]) = n
  BY <1>1
<1> QED
  BY <1>2 DEF Piece, U

LEMMA Answers ==
  ASSUME NEW c \in Calls
  PROVE  /\ Answer(c) \in Seq(OwnAnswers(c)) /\ Len(Answer(c)) \in Nat
         /\ c \in FrameKinds => Len(Answer(c)) = LongestAnswer
         /\ c = "Alarms" => Len(Answer(c)) = ALARM_RSP_LEN
         /\ c = "Write" => Len(Answer(c)) = ACK_LEN
<1> DEFINE Of(k) == {u \in Units : u.own = "yes" /\ u.kind = k}
<1>1. /\ "Ack" \in Calls \union {"Ack", "Noise"} /\ "Alarms" \in Calls \union {"Ack", "Noise"}
      /\ FRAME_LEN \in Nat /\ ACK_LEN \in Nat /\ ALARM_RSP_LEN \in Nat
  BY Lengths DEF Calls
<1>2. Of("Ack") \subseteq OwnAnswers(c)
  BY DEF OwnAnswers
<1>3. Piece("Ack", ACK_LEN) \in Seq(OwnAnswers(c)) /\ Len(Piece("Ack", ACK_LEN)) = ACK_LEN
  BY <1>1, <1>2, PieceOfUnits, SeqMonotone
<1>4. CASE c \in FrameKinds
  <2>1. Of(c) \subseteq OwnAnswers(c)
    BY <1>4, Lengths DEF OwnAnswers
  <2>2. Piece(c, FRAME_LEN) \in Seq(OwnAnswers(c)) /\ Len(Piece(c, FRAME_LEN)) = FRAME_LEN
    <3>1. c \in Calls \union {"Ack", "Noise"}
      OBVIOUS
    <3>2. Piece(c, FRAME_LEN) \in Seq(Of(c)) /\ Len(Piece(c, FRAME_LEN)) = FRAME_LEN
      BY <1>1, <3>1, PieceOfUnits
    <3> QED
      BY <2>1, <3>2, SeqMonotone
  <2>3. Answer(c) = Piece(c, FRAME_LEN) \o Piece("Ack", ACK_LEN) /\ c # "Alarms" /\ c # "Write"
    BY <1>4, Lengths DEF Answer
  <2>4. /\ Piece(c, FRAME_LEN) \o Piece("Ack", ACK_LEN) \in Seq(OwnAnswers(c))
        /\ Len(Piece(c, FRAME_LEN) \o Piece("Ack", ACK_LEN)) = FRAME_LEN + ACK_LEN
    BY <1>3, <2>2, ConcatProperties
  <2> QED
    BY <2>3, <2>4, Lengths
<1>5. CASE c = "Alarms"
  <2>1. Of("Alarms") \subseteq OwnAnswers("Alarms")
    BY DEF OwnAnswers
  <2>2. Piece("Alarms", ALARM_RSP_LEN) \in Seq(OwnAnswers("Alarms"))
        /\ Len(Piece("Alarms", ALARM_RSP_LEN)) = ALARM_RSP_LEN
    BY <1>1, <2>1, PieceOfUnits, SeqMonotone
  <2>3. Answer(c) = Piece("Alarms", ALARM_RSP_LEN) /\ c \notin FrameKinds
    BY <1>5, Lengths DEF Answer
  <2> QED
    BY <1>1, <1>5, <2>2, <2>3
<1>6. CASE c = "Write"
  <2>1. Answer(c) = Piece("Ack", ACK_LEN) /\ c \notin FrameKinds
    BY <1>6, Lengths DEF Answer
  <2> QED
    BY <1>1, <1>3, <1>6, <2>1
<1> QED
  BY <1>4, <1>5, <1>6 DEF Calls

LEMMA OutdatedUnits ==
  ASSUME NEW q \in Seq(Units)
  PROVE  /\ Outdated(q) \in Seq(Units) /\ Len(Outdated(q)) = Len(q)
         /\ q \in Seq(NoAlarms) => Outdated(q) \in Seq(NoAlarms)
<1> DEFINE n == Len(q)
<1>1. n \in Nat /\ DOMAIN q = 1 .. n
  BY LenProperties
<1>2. Outdated(q) = [i \in 1 .. n |-> [q[i] EXCEPT !.own = "no"]]
  BY <1>1 DEF Outdated
<1>3. \A u \in Units : [u EXCEPT !.own = "no"] \in Units /\ [u EXCEPT !.own = "no"].kind = u.kind
  BY DEF Units
<1>4. \A i \in 1 .. n : q[i] \in Units
  BY ElementOfSeq
<1>5. q \in Seq(NoAlarms) => \A i \in 1 .. n : q[i] \in NoAlarms
  BY ElementOfSeq
<1> HIDE DEF n
<1>6. \A i \in 1 .. n : [q[i] EXCEPT !.own = "no"] \in Units
  BY <1>3, <1>4
<1>7. Outdated(q) \in Seq(Units) /\ Len(Outdated(q)) = n
  BY <1>1, <1>2, <1>6
<1>8. ASSUME q \in Seq(NoAlarms) PROVE Outdated(q) \in Seq(NoAlarms)
  <2>1. \A i \in 1 .. n : [q[i] EXCEPT !.own = "no"] \in NoAlarms
    BY <1>3, <1>5, <1>8 DEF NoAlarms
  <2> QED
    BY <1>1, <1>2, <2>1
<1> QED
  BY <1>7, <1>8 DEF n

LEMMA DecodedTypes ==
  \A q : Decoded(q) \in {"own", "stale", "soft"}
BY DEF Decoded, OwnIf

LEMMA WantedUnits ==
  ASSUME TypeInv, pc \in {"answer", "ack"}
  PROVE  /\ Wanted \in Nat \ {0}
         /\ pc = "ack" => Wanted = ACK_LEN
         /\ pc = "answer" /\ call = "Write" => Wanted = ACK_LEN
         /\ pc = "answer" /\ call = "Alarms" => Wanted = ALARM_RSP_LEN
         /\ pc = "answer" /\ call \in FrameKinds => Wanted = FRAME_LEN
BY Lengths DEF Wanted

-----------------------------------------------------------------------------
(* The types.                                                                *)

LEMMA TypeInit == Init => TypeInv
<1> SUFFICES ASSUME Init PROVE TypeInv
  OBVIOUS
<1>1. <<>> \in Seq(Units)
  BY EmptySeq
<1> QED
  BY <1>1, Lengths DEF Init, TypeInv, TypeOK, CallInv, Outcomes, Lines

LEMMA TypeWire ==
  ASSUME TypeInv, Arrive \/ LoseUnit \/ Babble \/ LineSettles
  PROVE  TypeInv'
<1>1. buffer \in Seq(Units) /\ coming \in Seq(Units)
  BY DEF TypeInv, TypeOK
<1>2. /\ UNCHANGED <<callVars, pc, outcome>>
      /\ line' \in Lines
      /\ buffer' \in Seq(Units) /\ coming' \in Seq(Units)
  <2>1. CASE Arrive
    <3>1. coming # <<>> /\ buffer' = Append(buffer, Head(coming)) /\ coming' = Tail(coming)
          /\ UNCHANGED <<callVars, pc, outcome, line>>
      BY <2>1 DEF Arrive
    <3>2. Head(coming) \in Units /\ Tail(coming) \in Seq(Units)
      BY <1>1, <3>1, TailAt
    <3>3. Append(buffer, Head(coming)) \in Seq(Units)
      BY <1>1, <3>2, AppendProperties
    <3> QED
      BY <3>1, <3>2, <3>3 DEF TypeInv, TypeOK
  <2>2. CASE LoseUnit
    <3>1. coming # <<>> /\ coming' = Tail(coming)
          /\ UNCHANGED <<callVars, pc, outcome, buffer, line>>
      BY <2>2 DEF LoseUnit
    <3>2. Tail(coming) \in Seq(Units)
      BY <1>1, <3>1, TailAt
    <3> QED
      BY <1>1, <3>1, <3>2 DEF TypeInv, TypeOK
  <2>3. CASE Babble
    <3>1. Noise \in Units
      BY DEF Noise, Units
    <3>2. Append(buffer, Noise) \in Seq(Units)
      BY <1>1, <3>1, AppendProperties
    <3> QED
      BY <1>1, <2>3, <3>2 DEF Babble, TypeInv, TypeOK
  <2>4. CASE LineSettles
    BY <1>1, <2>4 DEF LineSettles, Lines
  <2> QED
    BY <2>1, <2>2, <2>3, <2>4
<1> QED
  BY <1>2 DEF TypeInv, TypeOK, CallInv, callVars

LEMMA TypeCall ==
  ASSUME TypeInv, NEW c \in Calls, Call(c)
  PROVE  TypeInv'
<1>1. buffer' \in Seq(Units) /\ coming' \in Seq(Units)
  BY OutdatedUnits DEF TypeInv, TypeOK, Call
<1>2. /\ pc = "idle" /\ call' = c /\ pc' \in {"drain", "send"} /\ (pc' = "drain" => c # "Alarms")
      /\ framed' \in {"yes", "no"} /\ (c = "Alarms" => framed' = "no")
      /\ outcome' = "None" /\ UNCHANGED <<needs_drain, frame, drained, cut, line>>
  <2>1. c = "Alarms" => c \notin FrameKinds
    BY Lengths
  <2> QED
    BY <2>1 DEF Call, Drains, TypeInv, TypeOK
<1>3. CallInv'
  BY <1>2 DEF TypeInv, CallInv
<1>4. TypeOK'
  BY <1>1, <1>2 DEF TypeInv, TypeOK, Outcomes
<1> QED
  BY <1>3, <1>4 DEF TypeInv

(* What a read of a drain takes.                                             *)
LEMMA DrainTaken ==
  ASSUME TypeInv, DrainRead
  PROVE  /\ pc = "drain" /\ drained < DRAIN_MAX
         /\ UNCHANGED <<needs_drain, call, frame, cut, framed, pc, outcome, coming, line>>
         /\ \E n \in 1 .. DRAIN_BUF :
              /\ drained' = drained + n
              /\ buffer' \in Seq(Units) /\ Len(buffer') = Len(buffer) - n
<1>1. PICK n \in 1 .. DRAIN_BUF :
        /\ n <= Len(buffer)
        /\ buffer' = SubSeq(buffer, n + 1, Len(buffer))
        /\ drained' = drained + n
  BY DEF DrainRead
<1>2. buffer \in Seq(Units) /\ n \in Nat \ {0}
  BY Lengths DEF TypeInv, TypeOK
<1>3. buffer' \in Seq(Units) /\ Len(buffer') = Len(buffer) - n
  BY <1>1, <1>2, TakeFirst
<1> QED
  BY <1>1, <1>3 DEF DrainRead, BelowCap

(* A drain ends at its cap, quiet or with an error; the request is next.     *)
LEMMA DrainLeaves ==
  ASSUME DrainEnds \/ DrainFails
  PROVE  /\ pc = "drain" /\ pc' = "send" /\ needs_drain' = "no" /\ drained' = 0
         /\ UNCHANGED <<call, frame, framed, outcome, coming, buffer, line>>
         /\ \/ ~BelowCap /\ cut' = cut
            \/ buffer = <<>> /\ (line = "flaky" \/ coming = <<>>) /\ cut' = "no"
            \/ cut' = "yes"
BY DEF DrainEnds, DrainFails, DrainOver

LEMMA TypeDrain ==
  ASSUME TypeInv, DrainRead \/ DrainEnds \/ DrainFails
  PROVE  TypeInv'
<1>1. CASE DrainRead
  <2>1. PICK n \in 1 .. DRAIN_BUF :
          drained' = drained + n /\ buffer' \in Seq(Units)
    BY <1>1, DrainTaken
  <2>2. /\ pc = "drain" /\ drained < DRAIN_MAX
        /\ UNCHANGED <<needs_drain, call, frame, cut, framed, pc, outcome, coming, line>>
    BY <1>1, DrainTaken
  <2>3. drained \in Nat
    BY Lengths DEF TypeInv, TypeOK
  <2>4. drained' \in 0 .. (DRAIN_MAX + DRAIN_BUF - 1)
    BY <2>1, <2>2, <2>3, Lengths
  <2> QED
    BY <2>1, <2>2, <2>4 DEF TypeInv, TypeOK, CallInv
<1>2. CASE DrainEnds \/ DrainFails
  <2>1. /\ pc = "drain" /\ pc' = "send" /\ needs_drain' = "no" /\ drained' = 0
        /\ UNCHANGED <<call, frame, framed, outcome, coming, buffer, line>>
        /\ cut' \in {"yes", "no", cut}
    BY <1>2, DrainLeaves
  <2>2. 0 \in 0 .. (DRAIN_MAX + DRAIN_BUF - 1)
    BY Lengths
  <2> QED
    BY <2>1, <2>2 DEF TypeInv, TypeOK, CallInv
<1> QED
  BY <1>1, <1>2

LEMMA TypeSend ==
  ASSUME TypeInv, Send
  PROVE  TypeInv'
<1>1. call \in Calls
  BY DEF TypeInv, CallInv, Send
<1>2. Answer(call) \in Seq(Units)
  BY <1>1, Answers, UnitSets, SeqMonotone
<1>3. coming \o Answer(call) \in Seq(Units)
  BY <1>2, ConcatProperties DEF TypeInv, TypeOK
<1>4. coming' \in Seq(Units)
  BY <1>3 DEF Send, TypeInv, TypeOK
<1> QED
  BY <1>4 DEF Send, callVars, TypeInv, TypeOK, CallInv

(* What a read leaves.                                                       *)
LEMMA ReadTaken ==
  ASSUME TypeInv, ReadDone
  PROVE  /\ Wanted \in Nat \ {0} /\ Wanted <= Len(buffer) /\ Len(buffer) \in Nat
         /\ Len(buffer') = Len(buffer) - Wanted /\ coming' = coming
         /\ \A U : Carries(U) =>
              /\ Carries(U)'
              /\ \A i \in 1 .. Wanted :
                   SubSeq(buffer, 1, Wanted)[i] = buffer[i] /\ SubSeq(buffer, 1, Wanted)[i] \in U
<1>1. /\ pc \in {"answer", "ack"} /\ Len(buffer) >= Wanted
      /\ buffer' = SubSeq(buffer, Wanted + 1, Len(buffer)) /\ coming' = coming
  BY DEF ReadDone
<1>2. Wanted \in Nat \ {0}
  BY <1>1, WantedUnits
<1>3. buffer \in Seq(Units) /\ Len(buffer) \in Nat
  BY LenProperties DEF TypeInv, TypeOK
<1>4. Wanted <= Len(buffer)
  BY <1>1, <1>2, <1>3
<1>5. Len(buffer') = Len(buffer) - Wanted
  BY <1>1, <1>2, <1>3, <1>4, TakeFirst
<1>6. ASSUME NEW U, Carries(U)
      PROVE  /\ Carries(U)'
             /\ \A i \in 1 .. Wanted :
                  SubSeq(buffer, 1, Wanted)[i] = buffer[i] /\ SubSeq(buffer, 1, Wanted)[i] \in U
  <2>1. buffer \in Seq(U) /\ coming \in Seq(U)
    BY <1>6 DEF Carries
  <2>2. /\ SubSeq(buffer, Wanted + 1, Len(buffer)) \in Seq(U)
        /\ \A i \in 1 .. Wanted :
             SubSeq(buffer, 1, Wanted)[i] = buffer[i] /\ SubSeq(buffer, 1, Wanted)[i] \in U
    BY <1>2, <1>4, <2>1, TakeFirst
  <2>3. Carries(U)'
    BY <1>1, <2>1, <2>2 DEF Carries
  <2> QED
    BY <2>2, <2>3
<1> QED
  BY <1>1, <1>2, <1>3, <1>4, <1>5, <1>6

(* A read ends in one of three ways.                                         *)
LEMMA ReadEnds ==
  ASSUME TypeInv, ReadDone
  PROVE  LET o == Decoded(SubSeq(buffer, 1, Wanted))
         IN /\ UNCHANGED <<call, drained, cut, framed, coming, line>>
            /\ o \in {"own", "stale", "soft"}
            /\ \/ /\ pc = "answer" /\ call \in FrameKinds /\ pc' = "ack"
                  /\ frame' = o /\ UNCHANGED <<needs_drain, outcome>>
               \/ /\ pc = "answer" /\ call \notin FrameKinds /\ pc' = "idle"
                  /\ frame' = "None" /\ outcome' = o
                  /\ needs_drain' = IF o = "soft" THEN "yes" ELSE needs_drain
               \/ /\ pc = "ack" /\ pc' = "idle"
                  /\ frame' = "None" /\ outcome' = frame /\ frame \in {"own", "stale", "soft"}
                  /\ needs_drain' = IF frame = "soft" THEN "yes" ELSE needs_drain
<1>1. Decoded(SubSeq(buffer, 1, Wanted)) \in {"own", "stale", "soft"}
  BY DecodedTypes
<1>2. /\ frame \in {"None", "own", "stale", "soft"}
      /\ frame = "None" <=> pc # "ack"
  BY DEF TypeInv, TypeOK
<1> QED
  BY <1>1, <1>2 DEF ReadDone, Return

LEMMA TypeRead ==
  ASSUME TypeInv, ReadDone
  PROVE  TypeInv'
<1> DEFINE o == Decoded(SubSeq(buffer, 1, Wanted))
<1>1. Carries(Units) => Carries(Units)'
  BY ReadTaken
<1>2. buffer' \in Seq(Units) /\ coming' \in Seq(Units)
  BY <1>1 DEF Carries, TypeInv, TypeOK
<1>3. /\ UNCHANGED <<call, drained, cut, framed, line>>
      /\ \/ /\ pc = "answer" /\ call \in FrameKinds /\ pc' = "ack"
            /\ frame' \in {"own", "stale", "soft"} /\ UNCHANGED <<needs_drain, outcome>>
         \/ /\ pc \in {"answer", "ack"} /\ pc' = "idle"
            /\ frame' = "None" /\ outcome' \in {"own", "stale", "soft"}
            /\ needs_drain' \in {"yes", needs_drain}
  BY ReadEnds
<1>4. CallInv'
  BY <1>3 DEF TypeInv, CallInv
<1>5. TypeOK'
  BY <1>2, <1>3 DEF TypeInv, TypeOK, Outcomes
<1> QED
  BY <1>4, <1>5 DEF TypeInv

(* A timeout and a hard error end the call and leave no more on the wire.    *)
LEMMA CallFails ==
  ASSUME TypeInv, TimeOut \/ HardError
  PROVE  /\ pc' = "idle" /\ frame' = "None" /\ outcome' \in {"soft", "hard"}
         /\ UNCHANGED <<call, drained, framed, line>>
         /\ cut' \in {"no", cut}
         /\ pc \in {"send", "answer", "ack"}
         /\ \/ TimeOut /\ cut' = cut /\ buffer' = <<>> /\ coming' = coming /\ needs_drain' = "yes"
            \/ buffer' = <<>> /\ coming' = <<>> /\ needs_drain' = needs_drain
            \/ UNCHANGED <<buffer, coming, needs_drain>> /\ line = "flaky"
BY DEF TimeOut, HardError, Return

LEMMA TypeFail ==
  ASSUME TypeInv, TimeOut \/ HardError
  PROVE  TypeInv'
<1>1. <<>> \in Seq(Units)
  BY EmptySeq
<1>2. buffer' \in Seq(Units) /\ coming' \in Seq(Units) /\ needs_drain' \in {"yes", "no"}
  BY <1>1, CallFails DEF TypeInv, TypeOK
<1>3. /\ pc' = "idle" /\ frame' = "None" /\ outcome' \in {"soft", "hard"}
      /\ UNCHANGED <<call, drained, framed, line>> /\ pc \in {"send", "answer", "ack"}
      /\ cut' \in {"no", cut}
  BY CallFails
<1> QED
  BY <1>2, <1>3 DEF TypeInv, TypeOK, CallInv, Outcomes

LEMMA TypeStep == TypeInv /\ [Next]_vars => TypeInv'
<1>1. TypeInv /\ UNCHANGED vars => TypeInv'
  BY DEF TypeInv, TypeOK, CallInv, vars, callVars
<1> QED
  BY <1>1, TypeWire, TypeCall, TypeDrain, TypeSend, TypeRead, TypeFail DEF Next, Step, AnyCall, Wire

LEMMA TypeInvariant == Spec => []TypeInv
BY TypeInit, TypeStep, PTL DEF Spec

(* Every variable keeps its type: the last read of a drain goes past the cap *)
(* by less than a buffer (drain_stale), a call always ends in one of its     *)
(* outcomes, and a frame is held only while its trailing ack is read.        *)
THEOREM TypeCorrect == Spec => []TypeOK
BY TypeInvariant, PTL DEF TypeInv

-----------------------------------------------------------------------------
(* A prompt line.                                                            *)

LEMMA PromptInit == Init => PromptInv
<1> SUFFICES ASSUME Init PROVE PromptInv
  OBVIOUS
<1>1. Carries(NoAlarms) /\ OnWire = 0
  BY EmptyWire DEF Init
<1>2. IdleInv
  BY <1>1, Lengths DEF Init, IdleInv
<1> QED
  BY <1>2 DEF Init, PromptInv

(* Units arrive, or are lost: what the wire carries and how much does not    *)
(* grow.                                                                     *)
LEMMA WireShrinks ==
  ASSUME TypeInv, Arrive \/ LoseUnit
  PROVE  /\ OnWire \in Nat /\ OnWire' \in Nat /\ OnWire' <= OnWire
         /\ \A U : Carries(U) => Carries(U)'
<1>1. /\ coming # <<>> /\ coming' = Tail(coming)
      /\ buffer' = Append(buffer, Head(coming)) \/ buffer' = buffer
  BY DEF Arrive, LoseUnit
<1>2. buffer \in Seq(Units) /\ coming \in Seq(Units)
  BY DEF TypeInv, TypeOK
<1>3. /\ Len(coming) \in Nat \ {0} /\ Len(Tail(coming)) = Len(coming) - 1
      /\ Head(coming) \in Units
  BY <1>1, <1>2, TailAt
<1>4. Len(buffer) \in Nat /\ Len(Append(buffer, Head(coming))) = Len(buffer) + 1
  BY <1>2, <1>3, AppendAt
<1>5. OnWire \in Nat /\ OnWire' \in Nat /\ OnWire' <= OnWire
  BY <1>1, <1>3, <1>4 DEF OnWire
<1>6. ASSUME NEW U, Carries(U) PROVE Carries(U)'
  <2>1. buffer \in Seq(U) /\ coming \in Seq(U)
    BY <1>6 DEF Carries
  <2>2. Tail(coming) \in Seq(U) /\ Head(coming) \in U
    BY <1>1, <2>1, TailAt
  <2>3. Append(buffer, Head(coming)) \in Seq(U)
    BY <2>1, <2>2, AppendProperties
  <2> QED
    BY <1>1, <2>1, <2>2, <2>3 DEF Carries
<1> QED
  BY <1>5, <1>6

LEMMA PromptWire ==
  ASSUME TypeInv, PromptInv, Arrive \/ LoseUnit
  PROVE  PromptInv'
<1>1. UNCHANGED <<needs_drain, call, frame, drained, cut, framed, pc, outcome>>
  BY DEF Arrive, LoseUnit, callVars
<1>2. /\ OnWire \in Nat /\ OnWire' \in Nat /\ OnWire' <= OnWire
      /\ \A U : Carries(U) => Carries(U)'
  BY WireShrinks
<1>3. pc = "idle" => IdleInv'
  BY <1>1, <1>2, Lengths DEF PromptInv, IdleInv
<1>4. pc = "send" => SendInv'
  BY <1>1, <1>2, Lengths DEF PromptInv, SendInv
<1>5. ASSUME pc = "answer" PROVE AnswerInv'
  <2>1. AnswerInv
    BY <1>5 DEF PromptInv
  <2>2. CASE call = "Alarms"
    BY <1>1, <1>2, <2>1, <2>2, Lengths DEF AnswerInv
  <2>3. CASE call # "Alarms"
    <3>1. /\ Carries(OwnAnswers(call))
          /\ OnWire <= IF call = "Write" THEN ACK_LEN ELSE LongestAnswer
      BY <2>1, <2>3 DEF AnswerInv
    <3>2. Carries(OwnAnswers(call))'
      BY <1>1, <1>2, <3>1 DEF Carries, OwnAnswers
    <3>3. OnWire' <= IF call = "Write" THEN ACK_LEN ELSE LongestAnswer
      BY <1>2, <3>1, Lengths
    <3> QED
      BY <1>1, <2>3, <3>2, <3>3 DEF AnswerInv
  <2> QED
    BY <2>2, <2>3
<1>6. ASSUME pc = "ack" PROVE Carries(OwnAnswers(call))' /\ OnWire' <= ACK_LEN
  <2>1. Carries(OwnAnswers(call)) /\ OnWire <= ACK_LEN
    BY <1>6 DEF PromptInv
  <2>2. Carries(OwnAnswers(call))'
    BY <1>1, <1>2, <2>1 DEF Carries, OwnAnswers
  <2> QED
    BY <1>2, <2>1, <2>2, Lengths
<1>7. ASSUME pc = "drain" PROVE drained + OnWire' <= LongestAnswer + ALARM_RSP_LEN
  <2>1. drained + OnWire <= LongestAnswer + ALARM_RSP_LEN /\ drained \in Nat
    BY <1>7, Lengths DEF PromptInv, TypeInv, TypeOK
  <2>2. OnWire \in Nat /\ OnWire' \in Nat /\ OnWire' <= OnWire
    BY <1>2
  <2>3. LongestAnswer + ALARM_RSP_LEN \in Nat
    BY Lengths
  <2> QED
    BY <2>1, <2>2, <2>3
<1> QED
  BY <1>1, <1>3, <1>4, <1>5, <1>6, <1>7 DEF PromptInv

LEMMA PromptCall ==
  ASSUME TypeInv, PromptInv, NEW c \in Calls, Call(c)
  PROVE  PromptInv'
<1>1. buffer \in Seq(Units) /\ coming \in Seq(Units)
  BY DEF TypeInv, TypeOK
<1>2. buffer' = Outdated(buffer) /\ coming' = Outdated(coming)
  BY DEF Call
<1>3. /\ Len(buffer') = Len(buffer) /\ Len(coming') = Len(coming)
      /\ Carries(NoAlarms) => Carries(NoAlarms)'
  BY <1>1, <1>2, OutdatedUnits DEF Carries
<1>4. OnWire' = OnWire /\ OnWire \in Nat
  BY <1>1, <1>3, LenProperties DEF OnWire
<1>5. /\ IdleInv /\ drained = 0
  BY DEF Call, PromptInv, TypeInv, CallInv
<1>6. /\ call' = c /\ outcome' = "None" /\ UNCHANGED <<needs_drain, frame, drained>>
      /\ pc' = IF c # "Alarms" /\ needs_drain = "yes" THEN "drain" ELSE "send"
      /\ c = "Alarms" => framed = "yes"
      /\ needs_drain \in {"yes", "no"}
  BY DEF Call, Drains, TypeInv, TypeOK
<1>7. pc' = "drain" => drained' + OnWire' <= LongestAnswer + ALARM_RSP_LEN
  BY <1>4, <1>5, <1>6, Lengths DEF IdleInv
<1>8. pc' = "send" => SendInv'
  BY <1>3, <1>4, <1>5, <1>6 DEF IdleInv, SendInv
<1> QED
  BY <1>6, <1>7, <1>8 DEF PromptInv

LEMMA PromptDrainRead ==
  ASSUME TypeInv, PromptInv, DrainRead
  PROVE  PromptInv'
<1>1. /\ pc = "drain" /\ drained + OnWire <= LongestAnswer + ALARM_RSP_LEN
      /\ drained \in Nat /\ buffer \in Seq(Units) /\ coming \in Seq(Units)
      /\ outcome # "stale" /\ frame # "stale"
  BY Lengths DEF DrainRead, PromptInv, TypeInv, TypeOK
<1>2. Len(buffer) \in Nat /\ Len(coming) \in Nat
  BY <1>1, LenProperties
<1>3. PICK n \in 1 .. DRAIN_BUF : drained' = drained + n /\ Len(buffer') = Len(buffer) - n
  BY DrainTaken
<1>4. UNCHANGED <<coming, pc, outcome, frame>>
  BY DrainTaken
<1>5. drained' + OnWire' <= LongestAnswer + ALARM_RSP_LEN
  BY <1>1, <1>2, <1>3, <1>4, Lengths DEF OnWire
<1> QED
  BY <1>1, <1>4, <1>5 DEF PromptInv

(* A request that finds the wire empty.                                      *)
LEMMA EmptyIsSend ==
  ASSUME TypeInv, pc = "drain", DrainEnds, OnWire = 0
  PROVE  PromptInv'
<1>1. /\ call # "Alarms" /\ outcome = "None" /\ frame = "None"
  BY DEF TypeInv, TypeOK, CallInv
<1>2. pc' = "send" /\ UNCHANGED <<call, frame, outcome, coming, buffer>>
  BY DrainLeaves
<1>3. SendInv'
  BY <1>1, <1>2 DEF SendInv, OnWire
<1> QED
  BY <1>1, <1>2, <1>3 DEF PromptInv

(* A drain that no error ends, at its cap too, has read all there was.  That *)
(* the line was quiet tells as much when an error did end one before.        *)
LEMMA PromptDrainEnds ==
  ASSUME TypeInv, cut = "no" => PromptInv, line = "prompt", DrainEnds, cut' = "no"
  PROVE  PromptInv'
<1>1. /\ pc = "drain" /\ drained \in Nat /\ buffer \in Seq(Units) /\ coming \in Seq(Units)
      /\ \/ ~BelowCap /\ cut = "no"
         \/ buffer = <<>> /\ coming = <<>>
  BY Lengths DEF DrainEnds, DrainOver, TypeInv, TypeOK
<1>2. Len(buffer) \in Nat /\ Len(coming) \in Nat /\ OnWire \in Nat
  BY <1>1, LenProperties DEF OnWire
<1>3. OnWire = 0
  <2>1. CASE buffer = <<>> /\ coming = <<>>
    BY <2>1, EmptyWire
  <2>2. CASE ~BelowCap /\ cut = "no"
    <3>1. drained >= DRAIN_MAX /\ drained + OnWire <= LongestAnswer + ALARM_RSP_LEN
      BY <1>1, <2>2, Lengths DEF BelowCap, PromptInv
    <3> QED
      BY <1>1, <1>2, <3>1, Lengths
  <2> QED
    BY <1>1, <2>1, <2>2
<1> QED
  BY <1>1, <1>3, EmptyIsSend

LEMMA PromptSend ==
  ASSUME TypeInv, PromptInv, Send
  PROVE  PromptInv'
<1>1. /\ pc = "send" /\ pc' = "answer" /\ coming' \in {coming, coming \o Answer(call)}
      /\ UNCHANGED <<needs_drain, call, frame, outcome, buffer>>
      /\ SendInv /\ call \in Calls /\ buffer \in Seq(Units) /\ coming \in Seq(Units)
      /\ outcome # "stale" /\ frame # "stale"
  BY DEF Send, callVars, PromptInv, TypeInv, TypeOK, CallInv
<1>2. /\ Answer(call) \in Seq(OwnAnswers(call)) /\ Len(Answer(call)) \in Nat
      /\ call \in FrameKinds => Len(Answer(call)) = LongestAnswer
      /\ call = "Alarms" => Len(Answer(call)) = ALARM_RSP_LEN
      /\ call = "Write" => Len(Answer(call)) = ACK_LEN
  BY <1>1, Answers
<1>3. Len(buffer) \in Nat /\ Len(coming) \in Nat /\ OnWire = Len(buffer) + Len(coming)
  BY <1>1, LenProperties DEF OnWire
<1>4. ASSUME NEW U, Carries(U), Answer(call) \in Seq(U)
      PROVE  Carries(U)' /\ OnWire' <= OnWire + Len(Answer(call))
  <2>1. buffer \in Seq(U) /\ coming \in Seq(U)
    BY <1>4 DEF Carries
  <2>2. coming \o Answer(call) \in Seq(U) /\ Len(coming \o Answer(call)) = Len(coming) + Len(Answer(call))
    BY <1>4, <2>1, ConcatProperties
  <2>3. Len(coming') <= Len(coming) + Len(Answer(call)) /\ Len(coming') \in Nat
    BY <1>1, <1>2, <1>3, <2>2
  <2>4. buffer' \in Seq(U) /\ coming' \in Seq(U)
    BY <1>1, <2>1, <2>2
  <2>5. OnWire' = Len(buffer) + Len(coming')
    BY <1>1 DEF OnWire
  <2>6. OnWire' <= OnWire + Len(Answer(call))
    BY <1>2, <1>3, <2>3, <2>5
  <2> QED
    BY <2>4, <2>6 DEF Carries
<1>5. CASE call = "Alarms"
  <2>1. Carries(NoAlarms) /\ OnWire <= LongestAnswer /\ (needs_drain = "no" => OnWire = 0)
    BY <1>1, <1>5 DEF SendInv
  <2>2. Carries(NoOldAlarms)
    BY <2>1, Wires, UnitSets
  <2>3. Answer(call) \in Seq(NoOldAlarms)
    BY <1>2, <1>5, UnitSets, SeqMonotone
  <2>4. Carries(NoOldAlarms)' /\ OnWire' <= OnWire + ALARM_RSP_LEN
    BY <1>2, <1>4, <1>5, <2>2, <2>3
  <2>5. OnWire' \in Nat
    BY <2>4, LenProperties DEF Carries, OnWire
  <2>6. OnWire' <= LongestAnswer + ALARM_RSP_LEN /\ (needs_drain = "no" => OnWire' <= ALARM_RSP_LEN)
    BY <1>3, <2>1, <2>4, <2>5, Lengths
  <2>7. AnswerInv'
    BY <1>1, <1>5, <2>4, <2>6 DEF AnswerInv
  <2> QED
    BY <1>1, <2>7 DEF PromptInv
<1>6. CASE call # "Alarms"
  <2>1. OnWire = 0
    BY <1>1, <1>6 DEF SendInv
  <2>2. buffer = <<>> /\ coming = <<>>
    BY <1>1, <2>1, Wires DEF Carries
  <2>3. Carries(OwnAnswers(call))
    BY <2>2, EmptyWire
  <2> DEFINE U == OwnAnswers(call)
  <2>4. \A V : V = U => (buffer' \in Seq(V) /\ coming' \in Seq(V)) /\ OnWire' <= OnWire + Len(Answer(call))
    BY <1>2, <1>4, <2>3 DEF Carries
  <2>5. OwnAnswers(call)' = OwnAnswers(call)
    BY <1>1 DEF OwnAnswers
  <2>6. Carries(OwnAnswers(call))' /\ OnWire' <= OnWire + Len(Answer(call))
    BY <2>4, <2>5 DEF Carries
  <2>7. OnWire' <= IF call = "Write" THEN ACK_LEN ELSE LongestAnswer
    BY <1>1, <1>2, <1>6, <2>1, <2>6, Lengths DEF Calls
  <2>8. AnswerInv'
    BY <1>1, <1>6, <2>6, <2>7 DEF AnswerInv
  <2> QED
    BY <1>1, <2>8 DEF PromptInv
<1> QED
  BY <1>5, <1>6

(* Nothing left on the wire is as good as it gets between two calls.         *)
LEMMA EmptyIsIdle ==
  TypeInv /\ OnWire = 0 => IdleInv
<1> SUFFICES ASSUME TypeInv, OnWire = 0 PROVE IdleInv
  OBVIOUS
<1>1. Carries(Units)
  BY DEF TypeInv, TypeOK, Carries
<1>2. buffer = <<>> /\ coming = <<>>
  BY <1>1, Wires
<1>3. Carries(NoAlarms)
  BY <1>2, EmptyWire
<1> QED
  BY <1>3, Lengths DEF IdleInv

LEMMA EmptyIsIdleNext ==
  TypeInv' /\ OnWire' = 0 => IdleInv'
<1>1. (TypeInv /\ OnWire = 0 => IdleInv)'
  BY EmptyIsIdle, PTL
<1> QED
  BY <1>1

(* What the decoders take for an answer: of units of the own answer no other *)
(* can be made up, and of alarms that are all of the own answer neither.     *)
LEMMA FrameIsOwn ==
  ASSUME call \in FrameKinds, NEW q, \A i \in 1 .. FRAME_LEN : q[i] \in OwnAnswers(call)
  PROVE  Decoded(q) # "stale"
<1>1. q[1] \in OwnAnswers(call)
  BY Lengths
<1>2. call # "Write" /\ call # "Alarms"
  BY Lengths
<1>3. ASSUME NEW k \in FrameKinds, IsWhole(q, k, FRAME_LEN)
      PROVE  q[1].own = "yes" /\ q[1].kind = call
  <2>1. q[1].kind = k
    BY <1>3, Lengths DEF IsWhole
  <2> QED
    BY <1>1, <2>1, Lengths DEF OwnAnswers
<1> QED
  BY <1>2, <1>3 DEF Decoded, OwnIf

LEMMA WriteIsOwn ==
  ASSUME call = "Write", NEW q, q[1] \in OwnAnswers(call)
  PROVE  Decoded(q) # "stale"
BY DEF Decoded, OwnIf, OwnAnswers

LEMMA AlarmsAreOwn ==
  ASSUME call = "Alarms", NEW q, \A i \in 1 .. ALARM_RSP_LEN : q[i] \in NoOldAlarms
  PROVE  Decoded(q) # "stale"
<1>1. q[1] \in NoOldAlarms
  BY Lengths
<1>2. IsWhole(q, "Alarms", ALARM_RSP_LEN) => q[1].kind = "Alarms"
  BY Lengths DEF IsWhole
<1> QED
  BY <1>1, <1>2 DEF Decoded, OwnIf, NoOldAlarms

LEMMA PromptRead ==
  ASSUME TypeInv, TypeInv', PromptInv, ReadDone
  PROVE  PromptInv'
<1> DEFINE q == SubSeq(buffer, 1, Wanted)
<1>1. /\ Wanted \in Nat \ {0} /\ Wanted <= Len(buffer) /\ Len(buffer) \in Nat
      /\ Len(buffer') = Len(buffer) - Wanted /\ coming' = coming
      /\ \A U : Carries(U) => Carries(U)' /\ \A i \in 1 .. Wanted : q[i] \in U
  BY ReadTaken
<1>2. Len(coming) \in Nat
  BY LenProperties DEF TypeInv, TypeOK
<1>3. OnWire' = OnWire - Wanted /\ OnWire' \in Nat /\ OnWire \in Nat
  BY <1>1, <1>2 DEF OnWire
<1>4. /\ UNCHANGED <<call, drained, cut, framed, line>>
      /\ \/ /\ pc = "answer" /\ call \in FrameKinds /\ pc' = "ack"
            /\ frame' = Decoded(q) /\ UNCHANGED <<needs_drain, outcome>>
         \/ /\ pc = "answer" /\ call \notin FrameKinds /\ pc' = "idle"
            /\ frame' = "None" /\ outcome' = Decoded(q)
            /\ needs_drain' = IF outcome' = "soft" THEN "yes" ELSE needs_drain
         \/ /\ pc = "ack" /\ pc' = "idle"
            /\ frame' = "None" /\ outcome' = frame
  BY ReadEnds
<1>5. /\ pc = "ack" => Wanted = ACK_LEN
      /\ pc = "answer" /\ call = "Write" => Wanted = ACK_LEN
      /\ pc = "answer" /\ call = "Alarms" => Wanted = ALARM_RSP_LEN
      /\ pc = "answer" /\ call \in FrameKinds => Wanted = FRAME_LEN
  BY <1>4, WantedUnits
<1>6. outcome # "stale" /\ frame # "stale"
  BY DEF PromptInv
<1> HIDE DEF q
<1>7. CASE pc = "answer" /\ call \in FrameKinds
  <2>1. Carries(OwnAnswers(call)) /\ OnWire <= LongestAnswer
    BY <1>7, Lengths DEF PromptInv, AnswerInv
  <2>2. \A i \in 1 .. FRAME_LEN : q[i] \in OwnAnswers(call)
    BY <1>1, <1>5, <1>7, <2>1
  <2>3. Decoded(q) # "stale"
    BY <1>7, <2>2, FrameIsOwn
  <2>4. OnWire' <= ACK_LEN
    BY <1>3, <1>5, <1>7, <2>1, Lengths
  <2>5. Carries(OwnAnswers(call))'
    BY <1>1, <1>4, <2>1 DEF Carries, OwnAnswers
  <2>6. pc' = "ack" /\ frame' # "stale" /\ outcome' # "stale"
    BY <1>4, <1>6, <1>7, <2>3
  <2> QED
    BY <2>4, <2>5, <2>6 DEF PromptInv
<1>8. CASE pc = "answer" /\ call = "Write"
  <2>1. Carries(OwnAnswers(call)) /\ OnWire <= ACK_LEN
    BY <1>8, Lengths DEF PromptInv, AnswerInv
  <2>2. q[1] \in OwnAnswers(call)
    BY <1>1, <2>1
  <2>3. Decoded(q) # "stale"
    BY <1>8, <2>2, WriteIsOwn
  <2>4. OnWire' = 0
    BY <1>3, <1>5, <1>8, <2>1, Lengths
  <2>5. IdleInv'
    BY <2>4, EmptyIsIdleNext
  <2>6. pc' = "idle" /\ frame' # "stale" /\ outcome' # "stale"
    BY <1>4, <1>8, <2>3, Lengths
  <2> QED
    BY <2>5, <2>6 DEF PromptInv
<1>9. CASE pc = "answer" /\ call = "Alarms"
  <2>1. /\ Carries(NoOldAlarms) /\ OnWire <= LongestAnswer + ALARM_RSP_LEN
        /\ needs_drain = "no" => OnWire <= ALARM_RSP_LEN
        /\ framed = "no"
    BY <1>9 DEF PromptInv, AnswerInv, TypeInv, CallInv
  <2>2. \A i \in 1 .. ALARM_RSP_LEN : q[i] \in NoOldAlarms
    BY <1>1, <1>5, <1>9, <2>1
  <2>3. Decoded(q) # "stale"
    BY <1>9, <2>2, AlarmsAreOwn
  <2>4. pc' = "idle" /\ frame' # "stale" /\ outcome' # "stale" /\ framed' = "no"
        /\ needs_drain' \in {"yes", needs_drain}
    BY <1>4, <1>9, <2>1, <2>3, Lengths
  <2>5. needs_drain = "no" => OnWire' = 0
    BY <1>3, <1>5, <1>9, <2>1, Lengths
  <2>6. OnWire' <= LongestAnswer + ALARM_RSP_LEN
    <3>1. LongestAnswer + ALARM_RSP_LEN \in Nat
      BY Lengths
    <3> QED
      BY <1>1, <1>3, <2>1, <3>1
  <2>7. IdleInv'
    BY <2>4, <2>5, <2>6 DEF IdleInv
  <2> QED
    BY <2>4, <2>7 DEF PromptInv
<1>10. CASE pc = "ack"
  <2>1. OnWire <= ACK_LEN
    BY <1>10 DEF PromptInv
  <2>2. OnWire' = 0
    BY <1>3, <1>5, <1>10, <2>1, Lengths
  <2>3. IdleInv'
    BY <2>2, EmptyIsIdleNext
  <2>4. pc' = "idle" /\ frame' # "stale" /\ outcome' # "stale"
    BY <1>4, <1>6, <1>10
  <2> QED
    BY <2>3, <2>4 DEF PromptInv
<1> QED
  BY <1>4, <1>7, <1>8, <1>9, <1>10 DEF TypeInv, CallInv, Calls

(* After a timeout the next call but an alarm poll drains, and an alarm poll *)
(* finds no older alarms.                                                    *)
LEMMA PromptTimeOut ==
  ASSUME TypeInv, TypeInv', PromptInv, line = "prompt", TimeOut
  PROVE  PromptInv'
<1>0. /\ pc' = "idle" /\ frame' = "None" /\ outcome' \in {"soft", "hard"} /\ framed' = framed
      /\ buffer' = <<>> /\ coming' = coming /\ needs_drain' = "yes"
  BY DEF TimeOut, Return
<1>1. pc \in {"answer", "ack"} /\ buffer \in Seq(Units) /\ coming \in Seq(Units) /\ call \in Calls
  BY <1>0 DEF TimeOut, TypeInv, TypeOK, CallInv
<1>2. Len(buffer) \in Nat /\ Len(coming) \in Nat
  BY <1>1, LenProperties
<1>3. OnWire' <= OnWire /\ OnWire' \in Nat /\ OnWire \in Nat
  <2>1. Len(buffer') = 0
    BY <1>0, EmptySeq
  <2> QED
    BY <1>0, <1>2, <2>1 DEF OnWire
<1>4. ASSUME NEW U, Carries(U) PROVE Carries(U)'
  <2>1. <<>> \in Seq(U) /\ coming \in Seq(U)
    BY <1>4, EmptySeq DEF Carries
  <2> QED
    BY <1>0, <2>1 DEF Carries
<1>5. CASE call = "Alarms"
  <2>1. framed = "no" /\ pc = "answer" /\ OnWire <= LongestAnswer + ALARM_RSP_LEN
    BY <1>1, <1>5, Lengths DEF PromptInv, AnswerInv, TypeInv, CallInv
  <2>2. LongestAnswer + ALARM_RSP_LEN \in Nat
    BY Lengths
  <2>3. OnWire' <= LongestAnswer + ALARM_RSP_LEN
    BY <1>3, <2>1, <2>2
  <2>4. IdleInv'
    BY <1>0, <2>1, <2>3 DEF IdleInv
  <2> QED
    BY <1>0, <2>4 DEF PromptInv
<1>6. CASE call # "Alarms"
  <2>1. Carries(OwnAnswers(call)) /\ OnWire <= LongestAnswer
    <3>1. CASE pc = "answer"
      <4>1. Carries(OwnAnswers(call)) /\ OnWire <= IF call = "Write" THEN ACK_LEN ELSE LongestAnswer
        BY <1>6, <3>1 DEF PromptInv, AnswerInv
      <4> QED
        BY <1>3, <4>1, Lengths
    <3>2. CASE pc = "ack"
      <4>1. Carries(OwnAnswers(call)) /\ OnWire <= ACK_LEN
        BY <3>2 DEF PromptInv
      <4> QED
        BY <1>3, <4>1, Lengths
    <3> QED
      BY <1>1, <3>1, <3>2
  <2>2. Carries(NoAlarms)
    BY <1>6, <2>1, Wires, UnitSets
  <2>3. Carries(NoAlarms)'
    BY <1>4, <2>2
  <2>4. OnWire' <= LongestAnswer /\ OnWire' <= LongestAnswer + ALARM_RSP_LEN
    BY <1>3, <2>1, Lengths
  <2>5. IdleInv'
    BY <1>0, <2>3, <2>4 DEF IdleInv
  <2> QED
    BY <1>0, <2>5 DEF PromptInv
<1> QED
  BY <1>5, <1>6

(* A new transport has nothing of the old one.                               *)
LEMMA PromptHardError ==
  ASSUME TypeInv, TypeInv', line = "prompt", HardError
  PROVE  PromptInv'
<1>1. pc' = "idle" /\ frame' = "None" /\ outcome' = "hard" /\ buffer' = <<>> /\ coming' = <<>>
  BY DEF HardError, Return
<1>2. OnWire' = 0
  BY <1>1, EmptyWireNext
<1>3. IdleInv'
  BY <1>2, EmptyIsIdleNext
<1> QED
  BY <1>1, <1>3 DEF PromptInv

LEMMA ProtocolStep == ProtocolInv /\ [Next]_vars => ProtocolInv'
<1> SUFFICES ASSUME ProtocolInv, [Next]_vars PROVE ProtocolInv'
  OBVIOUS
<1>1. TypeInv /\ TypeInv'
  BY TypeStep DEF ProtocolInv
<1>2. /\ line' = "prompt" => line = "prompt"
      /\ cut' = "no" => cut = "no" \/ DrainEnds \/ HardError
  BY DEF Next, Step, AnyCall, Call, Wire, DrainRead, DrainEnds, DrainFails, DrainOver, Send,
         ReadDone, TimeOut, HardError, Arrive, LoseUnit, Babble, LineSettles, vars, callVars
<1>3. ASSUME line = "prompt", line' = "prompt", cut' = "no" PROVE PromptInv'
  <2>1. cut = "no" => PromptInv
    BY <1>3 DEF ProtocolInv
  <2>2. CASE DrainEnds
    BY <1>1, <1>3, <2>1, <2>2, PromptDrainEnds
  <2>3. CASE HardError
    BY <1>1, <1>3, <2>3, PromptHardError
  <2>4. CASE ~DrainEnds /\ ~HardError
    <3>1. PromptInv
      BY <1>2, <1>3, <2>1, <2>4
    <3>2. ~Babble /\ ~LineSettles /\ ~DrainFails
      BY <1>3 DEF Babble, LineSettles, DrainFails
    <3>3. CASE UNCHANGED vars
      BY <3>1, <3>3
      DEF PromptInv, IdleInv, SendInv, AnswerInv, Carries, OwnAnswers, OnWire, vars, callVars
    <3> QED
      BY <1>1, <1>3, <2>4, <3>1, <3>2, <3>3,
         PromptWire, PromptCall, PromptDrainRead, PromptSend, PromptRead, PromptTimeOut
      DEF Next, Step, AnyCall, Wire
  <2> QED
    BY <2>2, <2>3, <2>4
<1> QED
  BY <1>1, <1>2, <1>3 DEF ProtocolInv

(* With a BMS that is late by no more than a drain waits for, no call takes  *)
(* the answer of another one, however many answers are late, lost or in part *)
(* (needs_drain, drain_stale): for any lengths of the answers for which the  *)
(* cap of the drain is at least what can be left over, and any buffer of its *)
(* reads.  When a read error ended a drain it holds again from the next one  *)
(* that finds the line quiet on, and from the next transport on.             *)
THEOREM NoStaleAnswer == Spec => []OwnAnswer
<1>1. Init => ProtocolInv
  BY TypeInit, PromptInit DEF ProtocolInv
<1>2. ProtocolInv => OwnAnswer
  BY DEF ProtocolInv, PromptInv, OwnAnswer
<1> QED
  BY <1>1, <1>2, ProtocolStep, PTL DEF Spec

=============================================================================
