---------------------------- MODULE WriteService ----------------------------
(***************************************************************************)
(* What the BMS side promises the coordinator about switch writes, with no *)
(* link, queue, retry or timer in sight (src/jkbms/commands.rs,            *)
(* JkBmsEvents): a write that was taken is answered at most once; it is    *)
(* confirmed only when every write taken before it has been answered, so   *)
(* confirmations arrive in the order of the requests; a failure may be     *)
(* reported for any outstanding write, several at a time.                  *)
(***************************************************************************)
EXTENDS Naturals

CONSTANT Seqs  (* the sequence numbers a caller may use *)

VARIABLES
  accepted,   (* the seqs of the writes that were taken                     *)
  confirmed,  (* those answered with WriteConfirmation                      *)
  failed      (* those answered with WriteError                             *)

vars == <<accepted, confirmed, failed>>

Answered == confirmed \union failed

Outstanding == accepted \ Answered

Init ==
  /\ accepted = {}
  /\ confirmed = {}
  /\ failed = {}

(* JkBmsConnection::write returned Ok: the seqs of one caller only grow.     *)
Accept(s) ==
  /\ \A r \in accepted : r < s
  /\ accepted' = accepted \union {s}
  /\ UNCHANGED <<confirmed, failed>>

(* JkBmsEvents::WriteConfirmation.                                           *)
Confirm(s) ==
  /\ \A r \in Outstanding : s <= r
  /\ confirmed' = confirmed \union {s}
  /\ UNCHANGED <<accepted, failed>>

(* JkBmsEvents::WriteError for each write of a nonempty set.                 *)
Fail(S) ==
  /\ S # {}
  /\ failed' = failed \union S
  /\ UNCHANGED <<accepted, confirmed>>

Next ==
  \/ \E s \in Seqs : Accept(s)
  \/ \E s \in Outstanding : Confirm(s)
  \/ \E S \in SUBSET Outstanding : Fail(S)

Spec == Init /\ [][Next]_vars
=============================================================================
