---------------------------- MODULE JkBmsProtocol ----------------------------
(***************************************************************************)
(* The serial protocol (src/jkbms/protocol.rs): requests and answers on a  *)
(* wire on which an answer may come late, in part, or not at all.          *)
(*                                                                         *)
(* An answer is a sequence of units, each a stretch of its bytes.  A read  *)
(* takes a number of units, whoever they belong to.  Of an answer that     *)
(* times out the rest may still arrive and be read by a later call:        *)
(* needs_drain is there to prevent that, and the question is what late     *)
(* bytes can be taken for.                                                 *)
(*                                                                         *)
(* The caller is the BMS connection actor.  It gives a transport up after  *)
(* a hard error, and makes no two alarm polls without a frame poll between *)
(* them (run_data_polling and resync, see DuePlans of JkBmsManager).       *)
(* INTERFRAME_GAP is left out: it delays a request and decides nothing.    *)
(***************************************************************************)
EXTENDS Naturals, Sequences

CONSTANTS
  FrameKinds, (* DeviceInfo, ConfigOptions, OperationalData                 *)
  FRAME_LEN, ACK_LEN, ALARM_RSP_LEN,  (* in units                           *)
  DRAIN_MAX,  (* DRAIN_MAX_BYTES, in units                                  *)
  DRAIN_BUF,  (* the buffer of drain_stale, 64 bytes, in units              *)
  HardErrors, (* whether there are any                                      *)
  MaxUnits    (* bound: the BMS adds no unit to so many                     *)

ASSUME ProtocolAssumption ==
  /\ FrameKinds \intersect {"Alarms", "Write", "Ack", "Noise"} = {}
  /\ {FRAME_LEN, ACK_LEN, ALARM_RSP_LEN, DRAIN_MAX, DRAIN_BUF} \subseteq Nat \ {0}
  /\ HardErrors \in BOOLEAN
  /\ MaxUnits \in Nat
  /\ DRAIN_MAX >= FRAME_LEN + ACK_LEN + ALARM_RSP_LEN

VARIABLES
  needs_drain,  (* "yes" or "no"                                            *)
  pc,           (* "idle", or where the call stands: "drain", "send",       *)
                (* "answer" or, for a frame, the trailing "ack"             *)
  call,         (* the call that runs, or ran last                          *)
  frame,        (* what the frame that was read decodes to, or "None"       *)
  drained,      (* units that drain_stale has read                          *)
  cut,          (* history: whether an error ended a drain, and since then  *)
                (* none found quiet nor was the transport given up          *)
  outcome,      (* of the last call, see Outcomes                           *)
  framed,       (* a frame was asked for since the last alarm poll: "yes"   *)
  coming,       (* units that the BMS has sent and are under way            *)
  buffer,       (* units that arrived and were not read                     *)
  line          (* see Lines                                                *)

callVars == <<needs_drain, call, frame, drained, cut, framed>>

vars == <<callVars, pc, outcome, coming, buffer, line>>

Calls == FrameKinds \union {"Alarms", "Write"}

(* "None" while the call runs; "own": the answer to this very request;       *)
(* "stale": another one that passed for it; a soft error; a hard one.        *)
Outcomes == {"None", "own", "stale", "soft", "hard"}

(* "flaky" loses, adds and delays bytes as it likes; "prompt" may lose some, *)
(* and be later than a read waits for, but not later than a drain waits for; *)
(* "good" does neither from now on.                                          *)
Lines == {"flaky", "prompt", "good"}

Init ==
  /\ needs_drain = "no"
  /\ pc = "idle"
  /\ call = "None"
  /\ frame = "None"
  /\ drained = 0
  /\ cut = "no"
  /\ outcome = "None"
  /\ framed = "no"
  /\ coming = <<>>
  /\ buffer = <<>>
  /\ line \in {"flaky", "prompt"}

-----------------------------------------------------------------------------
(* The wire.                                                                 *)

Unit(k, i) == [kind |-> k, at |-> i, own |-> "yes"]

Piece(k, n) == [i \in 1 .. n |-> Unit(k, i)]

(* What the BMS answers: to a trigger the frame and then an ack of the       *)
(* trigger, to the others an answer of their own.                            *)
Answer(c) ==
  CASE c \in FrameKinds -> Piece(c, FRAME_LEN) \o Piece("Ack", ACK_LEN)
    [] c = "Alarms"     -> Piece("Alarms", ALARM_RSP_LEN)
    [] c = "Write"      -> Piece("Ack", ACK_LEN)

(* Read as one piece: complete, in order, of one answer.                     *)
IsWhole(q, k, n) ==
  /\ Len(q) = n
  /\ \A i \in 1 .. n : q[i].kind = k /\ q[i].at = i /\ q[i].own = q[1].own

Noise == [kind |-> "Noise", at |-> 0, own |-> "no"]

Outdated(q) == [i \in DOMAIN q |-> [q[i] EXCEPT !.own = "no"]]

Arrive ==
  /\ coming # <<>>
  /\ buffer' = Append(buffer, Head(coming))
  /\ coming' = Tail(coming)
  /\ UNCHANGED <<callVars, pc, outcome, line>>

LoseUnit ==
  /\ line # "good"
  /\ coming # <<>>
  /\ coming' = Tail(coming)
  /\ UNCHANGED <<callVars, pc, outcome, buffer, line>>

Babble ==
  /\ line = "flaky"
  /\ Len(buffer) + Len(coming) < MaxUnits
  /\ buffer' = Append(buffer, Noise)
  /\ UNCHANGED <<callVars, pc, outcome, coming, line>>

LineSettles ==
  /\ line # "good"
  /\ line' = "good"
  /\ UNCHANGED <<callVars, pc, outcome, coming, buffer>>

-----------------------------------------------------------------------------
(* The calls.                                                                *)

NeverDrains(c) == FALSE  (* mutant *)

(* drain_if_needed is called by trigger_frame and write_inner.               *)
Drains(c) == c # "Alarms" /\ needs_drain = "yes"

Call(c) ==
  /\ pc = "idle"
  /\ c = "Alarms" => framed = "yes"
  /\ call' = c
  /\ framed' = IF c \in FrameKinds THEN "yes" ELSE IF c = "Alarms" THEN "no" ELSE framed
  /\ pc' = IF Drains(c) THEN "drain" ELSE "send"
  /\ outcome' = "None"
  /\ buffer' = Outdated(buffer)
  /\ coming' = Outdated(coming)
  /\ UNCHANGED <<needs_drain, frame, drained, cut, line>>

DrainOneMore == drained <= DRAIN_MAX  (* mutant *)

BelowCap == drained < DRAIN_MAX

(* Mutant: what is read is not counted.                                      *)
DrainReadUncounted ==
  /\ pc = "drain"
  /\ BelowCap
  /\ buffer # <<>>
  /\ buffer' = Tail(buffer)
  /\ UNCHANGED <<callVars, pc, outcome, coming, line>>

(* drain_stale: a read that returns bytes, at most a buffer of them.  The    *)
(* cap is looked at before a read and not after it.                          *)
DrainRead ==
  /\ pc = "drain"
  /\ BelowCap
  /\ \E n \in 1 .. DRAIN_BUF :
       /\ n <= Len(buffer)
       /\ buffer' = SubSeq(buffer, n + 1, Len(buffer))
       /\ drained' = drained + n
  /\ UNCHANGED <<needs_drain, call, frame, cut, framed, pc, outcome, coming, line>>

(* The end of the drain: the request is sent.                                *)
DrainOver ==
  /\ pc = "drain"
  /\ needs_drain' = "no"
  /\ pc' = "send"
  /\ drained' = 0
  /\ UNCHANGED <<call, frame, framed, outcome, coming, buffer, line>>

(* At the cap, or quiet for DRAIN_QUIET.                                     *)
DrainEnds ==
  /\ DrainOver
  /\ \/ ~BelowCap /\ cut' = cut
     \/ /\ BelowCap
        /\ buffer = <<>> /\ (line = "flaky" \/ coming = <<>>)
        /\ cut' = "no"

(* A read that fails, or returns 0 bytes, ends the drain like quiet does.    *)
DrainFails ==
  /\ DrainOver
  /\ BelowCap
  /\ HardErrors
  /\ line # "good"
  /\ cut' = "yes"

(* write_all; a good line answers, another may not.                          *)
Send ==
  /\ pc = "send"
  /\ pc' = "answer"
  /\ \/ /\ Len(buffer) + Len(coming) + Len(Answer(call)) <= MaxUnits \/ line = "good"
        /\ coming' = coming \o Answer(call)
     \/ /\ line # "good"
        /\ coming' = coming
  /\ UNCHANGED <<callVars, outcome, buffer, line>>

(* How much the read that runs asks for.                                     *)
Wanted ==
  IF pc = "ack" \/ call = "Write" THEN ACK_LEN
  ELSE IF call = "Alarms" THEN ALARM_RSP_LEN ELSE FRAME_LEN

OwnIf(b) == IF b THEN "own" ELSE "stale"

(* The decoders.  validate looks at the magic and the checksum of a frame    *)
(* and not at its type, decode_alarm_response at the whole of the answer,    *)
(* decode_write_ack at the head of the ack.                                  *)
Decoded(q) ==
  CASE call = "Write"  -> IF q[1].kind = "Ack" /\ q[1].at = 1
                            THEN OwnIf(q[1].own = "yes") ELSE "soft"
    [] call = "Alarms" -> IF IsWhole(q, "Alarms", ALARM_RSP_LEN)
                            THEN OwnIf(q[1].own = "yes") ELSE "soft"
    [] OTHER -> IF \E k \in FrameKinds : IsWhole(q, k, FRAME_LEN)
                  THEN OwnIf(q[1].own = "yes" /\ q[1].kind = call) ELSE "soft"

(* Mutant: is_soft is only a timeout.                                        *)
ReturnParsed(o) ==
  /\ outcome' = o
  /\ pc' = "idle"
  /\ needs_drain' = needs_drain

(* A call returns; a soft error sets needs_drain.                            *)
Return(o) ==
  /\ outcome' = o
  /\ pc' = "idle"
  /\ needs_drain' = IF o = "soft" THEN "yes" ELSE needs_drain

(* read_exact has what it wants.  A frame is decoded only after the trailing *)
(* ack, of which nothing is looked at.                                       *)
ReadDone ==
  /\ pc \in {"answer", "ack"}
  /\ Len(buffer) >= Wanted
  /\ buffer' = SubSeq(buffer, Wanted + 1, Len(buffer))
  /\ LET q == SubSeq(buffer, 1, Wanted)
     IN \/ /\ pc = "answer" /\ call \in FrameKinds
           /\ frame' = Decoded(q)
           /\ pc' = "ack"
           /\ UNCHANGED <<needs_drain, outcome>>
        \/ /\ pc = "answer" /\ call \notin FrameKinds
           /\ frame' = frame
           /\ Return(Decoded(q))
        \/ /\ pc = "ack"
           /\ frame' = "None"
           /\ Return(frame)
  /\ UNCHANGED <<call, drained, cut, framed, coming, line>>

(* READ_TIMEOUT: what was read of the answer is gone.                        *)
TimeOut ==
  /\ pc \in {"answer", "ack"}
  /\ Len(buffer) < Wanted
  /\ line = "good" => coming = <<>>
  /\ buffer' = <<>>
  /\ frame' = "None"
  /\ Return("soft")
  /\ UNCHANGED <<call, drained, cut, framed, coming, line>>

(* Any other error of write_all or read_exact.  The actor waits and opens a  *)
(* new transport, on which a flaky line may still bring what was under way.  *)
HardError ==
  /\ pc \in {"send", "answer", "ack"}
  /\ HardErrors
  /\ line # "good"
  /\ \/ buffer' = <<>> /\ coming' = <<>>
     \/ line = "flaky" /\ UNCHANGED <<buffer, coming>>
  /\ frame' = "None"
  /\ cut' = "no"
  /\ Return("hard")
  /\ UNCHANGED <<call, drained, framed, line>>

-----------------------------------------------------------------------------
Step == DrainRead \/ DrainEnds \/ Send \/ ReadDone \/ TimeOut

AnyCall == \E c \in Calls : Call(c)

Wire == LoseUnit \/ Babble \/ LineSettles

Next == Step \/ DrainFails \/ AnyCall \/ HardError \/ Arrive \/ Wire

Spec == Init /\ [][Next]_vars

(* Every await of a call is under a timeout, the caller polls for ever and   *)
(* alarms in every cycle, and what is under way arrives.                     *)
Fairness ==
  /\ WF_vars(Step)
  /\ WF_vars(AnyCall)
  /\ SF_vars(Call("Alarms"))
  /\ SF_vars(\E c \in FrameKinds : Call(c))
  /\ WF_vars(Arrive)

FairSpec == Spec /\ Fairness

-----------------------------------------------------------------------------
Units == [kind : Calls \union {"Ack", "Noise"}, at : Nat, own : {"yes", "no"}]

(* Every variable keeps its type; in particular the last read of a drain     *)
(* goes past the cap by less than a buffer (drain_stale).                    *)
TypeOK ==
  /\ needs_drain \in {"yes", "no"}
  /\ pc \in {"idle", "drain", "send", "answer", "ack"}
  /\ call \in Calls \union {"None"}
  /\ frame \in {"None", "own", "stale", "soft"}
  /\ frame = "None" <=> pc # "ack"
  /\ drained \in 0 .. (DRAIN_MAX + DRAIN_BUF - 1)
  /\ cut \in {"yes", "no"}
  /\ outcome \in Outcomes
  /\ framed \in {"yes", "no"}
  /\ coming \in Seq(Units)
  /\ buffer \in Seq(Units)
  /\ line \in Lines

(* With a BMS that is late by no more than a drain waits for, no call is     *)
(* answered by what another one asked for, however many answers are late or  *)
(* in part: no stale configuration confirms a write, and no stale ack.  That *)
(* holds of the alarms too, which do not drain, because the actor makes no   *)
(* two alarm polls in a row.  A read error in a drain breaks it: what is     *)
(* late may then meet any call, until a later drain comes to its end or the  *)
(* transport is given up (drain_stale, drain_if_needed).                     *)
OwnAnswer == line = "prompt" /\ cut = "no" => outcome # "stale"

(* From any state that a flaky line has left, also one in which every call   *)
(* reads the answer of the one before and finds nothing wrong with it, the   *)
(* protocol gets in step with a line that works, and stays so.               *)
Resynchronises == line = "good" ~> [](pc = "idle" => outcome = "own")

(* Every call returns, also while the BMS babbles without a pause.           *)
CallsReturn == pc # "idle" ~> pc = "idle"

(* What the comment on needs_drain says: late bytes of a failed exchange     *)
(* cannot desynchronize the next request.                                    *)
NeverDesynchronized == outcome # "stale"
=============================================================================
