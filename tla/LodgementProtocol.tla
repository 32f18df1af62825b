-------------------------- MODULE LodgementProtocol --------------------------
(***************************************************************************)
(* What the case lifecycle promises about its dealings with the Valuer     *)
(* General, without rows, locks, transactions or an audit trail.  A round  *)
(* of the objection is POSTED to the VG and RECORDED on the case: never    *)
(* recorded unless posted, never more than 1 + Limit times, and posted     *)
(* only while the case is being prepared or has an answer to reply to.     *)
(* Posting twice for one recorded round is allowed (the letter went out    *)
(* and the commit failed); recording twice for one letter is not.          *)
(***************************************************************************)
EXTENDS Naturals

CONSTANT Limit   \* further submissions after the first lodgement

VARIABLES
  phase,     \* where the objection stands
  posted,    \* letters the VG has received
  recorded   \* rounds the case counts

vars == << phase, posted, recorded >>

Phases == {"preparing", "awaiting", "answered", "agreed", "closed"}

Init ==
  /\ phase = "preparing"
  /\ posted = 0
  /\ recorded = 0

\* A letter goes out; the case does not know yet.
Post ==
  /\ phase \in {"preparing", "answered"}
  /\ recorded <= Limit
  /\ posted' = posted + 1
  /\ UNCHANGED << phase, recorded >>

\* The case counts the round: the first one, or a reply to an answer.
Record ==
  /\ phase \in {"preparing", "answered"}
  /\ phase = "preparing" <=> recorded = 0
  /\ recorded <= Limit
  /\ recorded < posted
  /\ recorded' = recorded + 1
  /\ phase' = "awaiting"
  /\ UNCHANGED posted

Answer ==
  /\ phase = "awaiting"
  /\ phase' = "answered"
  /\ UNCHANGED << posted, recorded >>

Agree ==
  /\ phase = "answered"
  /\ phase' = "agreed"
  /\ UNCHANGED << posted, recorded >>

Close ==
  /\ phase # "closed"
  /\ phase' = "closed"
  /\ UNCHANGED << posted, recorded >>

Next == Post \/ Record \/ Answer \/ Agree \/ Close

Spec == Init /\ [][Next]_vars
=============================================================================
