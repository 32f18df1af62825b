--------------------------- MODULE CaseLifecycle ---------------------------
(***************************************************************************)
(* One dispute case and every writer of its row that respects the          *)
(* lifecycle: the manual transitions of DisputeStatusTransitionService,    *)
(* the two system promotions (documents on file, analysis finished) and    *)
(* the soft delete.  Cases share nothing the writers read, so one row is   *)
(* the whole state of the protocol.                                        *)
(*                                                                         *)
(* A manual transition runs in a transaction that holds the row lock.      *)
(* Those that send nothing to the Valuer General (VG) show nothing before  *)
(* they commit and are one action.  The two lodgements email the VG INSIDE *)
(* the transaction: they are split at that email, and may still fail after *)
(* it.  The promotions are single guarded UPDATEs, each followed by an     *)
(* audit row written on its own, later or never.                           *)
(*                                                                         *)
(* The admin override and the writers that never look at the status are    *)
(* added by CaseOverride.tla, the follow-up scheduler by VgFollowUp.tla.   *)
(***************************************************************************)
EXTENDS DisputeStatus, Integers, Sequences, FiniteSets

CONSTANTS
  Null,                   \* SQL NULL
  References,             \* what mintLodgementReference can draw
  LandValues,             \* land values (AUD)
  Outcomes,               \* outcomes a request may carry
  MinimumComparables,     \* MINIMUM_COMPARABLES
  MaxFurtherSubmissions,  \* MAX_FURTHER_SUBMISSIONS
  ChecksMayFail,          \* a promotion check can hit a database error
  MaxChecks,              \* bound: document requests in flight
  MaxVgMail,              \* bound: letters to the VG
  MaxTime                 \* bound: the clock

ASSUME LifecycleAssumption ==
  /\ Null \notin Nat /\ Null \notin References
  /\ LandValues \subseteq Nat /\ Outcomes \subseteq OutcomeResult
  /\ ChecksMayFail \in BOOLEAN
  /\ MinimumComparables \in Nat /\ MaxFurtherSubmissions \in Nat
  /\ MaxChecks \in Nat /\ MaxVgMail \in Nat /\ MaxTime \in Nat

VARIABLES
  row,         \* the committed dispute_cases row
  tcAccepted,  \* its client's tc_accepted_at is set
  docs,        \* required report types with a stored file
  comparables, \* comparable_sales rows, up to MinimumComparables
  lock,        \* who holds the row's FOR UPDATE lock
  tx,          \* the open lodgement transaction
  audit,       \* audit_logs rows of the case, in insertion order
  vgMail,      \* letters the VG has received from a lodgement
  checks,      \* uploads whose promotion check has not run yet
  owed,        \* promotions whose audit row is not written yet
  letters,     \* client letters committed transitions have tried to send
  held,        \* history: every status the row has held
  now          \* the clock

caseVars == << row, tcAccepted, docs, comparables >>
txVars   == << lock, tx >>
logVars  == << audit, vgMail, held >>
duties   == << checks, owed, letters >>
vars     == << caseVars, txVars, logVars, duties, now >>

-----------------------------------------------------------------------------
(* Types *)

REPORTS_UPLOADED_REQUIRED_TYPES == {"land_value_search", "sales_report"}
DocumentTypes == REPORTS_UPLOADED_REQUIRED_TYPES \cup {"other"}
SystemTargets == {"reports_uploaded", "analysed"}
Time == Nat \cup {Null}
Value == LandValues \cup {Null}

DisputeCase ==
  [ status                    : DisputeStatuses,
    submitted_at              : Time,
    lodgment_reference_number : References \cup {Null},
    resubmitted_at            : Time,
    resubmission_count        : Nat,
    vg_follow_up_count        : Nat,
    last_vg_follow_up_sent_at : Time,
    outcome                   : OutcomeResult \cup {Null},
    final_agreed_value        : Value,
    closed_at                 : Time,
    internal_assessed_value   : Value,
    advisory_view_token       : BOOLEAN,
    deleted                   : BOOLEAN ]

LockHolders == {"free", "lodgement", "follow_up"}
LodgementTx ==
  [ stage     : {"idle", "mail", "save"},
    to        : AWAITING_VG_RESPONSE_STATUSES \cup {Null},
    reference : References \cup {Null},
    at        : Time ]
AuditRow == [by : {"person", "system", "override"},
             from : DisputeStatuses \cup {Null}, to : DisputeStatuses]
VgLetter == [kind : AWAITING_VG_RESPONSE_STATUSES, reference : References \cup {Null}]
ClientLetter == [kind : {"approved", "declined", "advisory"}, crossing : Nat]

IdleTx == [stage |-> "idle", to |-> Null, reference |-> Null, at |-> Null]

TypeOK ==
  /\ row \in DisputeCase
  /\ tcAccepted \in BOOLEAN
  /\ docs \subseteq REPORTS_UPLOADED_REQUIRED_TYPES
  /\ comparables \in 0..MinimumComparables
  /\ lock \in LockHolders
  /\ tx \in LodgementTx
  /\ audit \in Seq(AuditRow)
  /\ vgMail \in Seq(VgLetter)
  /\ checks \in Nat
  /\ owed \in [SystemTargets -> Nat]
  /\ letters \subseteq ClientLetter
  /\ held \subseteq DisputeStatuses
  /\ now \in Nat

NewCase ==
  [ status |-> "created", submitted_at |-> Null, lodgment_reference_number |-> Null,
    resubmitted_at |-> Null, resubmission_count |-> 0, vg_follow_up_count |-> 0,
    last_vg_follow_up_sent_at |-> Null, outcome |-> Null, final_agreed_value |-> Null,
    closed_at |-> Null, internal_assessed_value |-> Null,
    advisory_view_token |-> FALSE, deleted |-> FALSE ]

\* A case as intake leaves it.
Init ==
  /\ row = NewCase
  /\ tcAccepted = FALSE
  /\ docs = {}
  /\ comparables = 0
  /\ lock = "free"
  /\ tx = IdleTx
  /\ audit = << >>
  /\ vgMail = << >>
  /\ checks = 0
  /\ owed = [s \in SystemTargets |-> 0]
  /\ letters = {}
  /\ held = {"created"}
  /\ now = 0

-----------------------------------------------------------------------------
(* Manual transitions: applyManual without force *)

\* Mutant: the read neither takes the lock nor waits for it.
MayMoveUnlocked(to) ==
  /\ ~row.deleted
  /\ to \in ManualTransitionsFrom(row.status)

\* The locked read finds a live row and the move is on the manual menu.
\* Anything else is a rejection, or the no-op of a repeated request.
MayMove(to) ==
  /\ lock = "free"
  /\ ~row.deleted
  /\ to \in ManualTransitionsFrom(row.status)

\* Mutant: a repeated visit to a status writes no audit row of its own.
CommitFirstVisit(to, newRow) ==
  /\ row' = newRow
  /\ audit' = IF to = "vg_response_received" THEN audit ELSE
                Append(audit, [by |-> "person", from |-> row.status, to |-> to])
  /\ held' = held \cup {to}

\* The end of the transaction: the row and its audit row commit together.
CommitMove(to, newRow) ==
  /\ row' = newRow
  /\ audit' = Append(audit, [by |-> "person", from |-> row.status, to |-> to])
  /\ held' = held \cup {to}

\* Post-commit work, tied to the audit row of the transition that queued it.
\* Each letter is tried once; whether it arrives, nothing here depends on.
Queue(kinds) ==
  letters' = letters \cup {[kind |-> k, crossing |-> Len(audit) + 1] : k \in kinds}

OutcomeLetter(outcome) ==
  CASE outcome \in {"upheld", "partially_upheld"} -> {"approved"}
    [] outcome = "rejected" -> {"declined"}
    [] OTHER -> {}

OnTncAgreed ==
  /\ MayMove("tnc_agreed")
  /\ CommitMove("tnc_agreed", [row EXCEPT !.status = "tnc_agreed"])
  /\ tcAccepted' = TRUE
  /\ UNCHANGED << docs, comparables, txVars, vgMail, duties, now >>

OnVgResponseReceived ==
  /\ MayMove("vg_response_received")
  /\ row.submitted_at # Null
  /\ CommitMove("vg_response_received", [row EXCEPT !.status = "vg_response_received"])
  /\ UNCHANGED << tcAccepted, docs, comparables, txVars, vgMail, duties, now >>

\* The agreed value is optional; without it the column is left alone.
OnVgAgreed(value) ==
  /\ MayMove("vg_agreed")
  /\ row.submitted_at # Null
  /\ CommitMove("vg_agreed",
       [row EXCEPT !.status = "vg_agreed",
                   !.outcome = "upheld",
                   !.final_agreed_value = IF value = Null THEN @ ELSE value])
  /\ Queue(OutcomeLetter("upheld"))
  /\ UNCHANGED << tcAccepted, docs, comparables, txVars, vgMail,
                  checks, owed, now >>

ClosedRow(outcome) ==
  [row EXCEPT !.status = "case_closed",
              !.closed_at = now,
              !.outcome = IF outcome = Null THEN @ ELSE outcome]

\* Mutant: the outcome letter without the isAtOrAfterLodgement test.
CloseAndTell(outcome) ==
  /\ MayMove("case_closed")
  /\ CommitMove("case_closed", ClosedRow(outcome))
  /\ Queue(OutcomeLetter(outcome))
  /\ UNCHANGED << tcAccepted, docs, comparables, txVars, vgMail,
                  checks, owed, now >>

\* After lodgement, or before it without an internal value: no advice given.
OnCaseClosed(outcome) ==
  /\ MayMove("case_closed")
  /\ CommitMove("case_closed", ClosedRow(outcome))
  /\ IF row.status \in POST_LODGEMENT_STATUSES
       THEN Queue(OutcomeLetter(outcome))
       ELSE UNCHANGED letters
  /\ UNCHANGED << tcAccepted, docs, comparables, txVars, vgMail,
                  checks, owed, now >>

\* Before lodgement, with an internal value: the VG's figure on the valuation
\* notice stands, and the client gets a letter with a link to the report.  The
\* notice and the client's address are other tables' data, read here.
OnAdvisoryClose(outcome, internal, assessed, email) ==
  /\ MayMove("case_closed")
  /\ row.status \notin POST_LODGEMENT_STATUSES
  /\ assessed # Null /\ internal >= assessed
  /\ email
  /\ CommitMove("case_closed",
       [ClosedRow(outcome) EXCEPT !.internal_assessed_value = internal,
                                  !.advisory_view_token = TRUE])
  /\ Queue({"advisory"})
  /\ UNCHANGED << tcAccepted, docs, comparables, txVars, vgMail,
                  checks, owed, now >>

-----------------------------------------------------------------------------
(* The two lodgements: lock, email the VG, save, commit *)

BeginLodgement(to, reference) ==
  /\ MayMove(to)
  /\ Len(vgMail) < MaxVgMail
  /\ lock' = "lodgement"
  /\ tx' = [stage |-> "mail", to |-> to, reference |-> reference, at |-> now]
  /\ UNCHANGED << caseVars, logVars, duties, now >>

\* A reference is minted unless the row already has one.
OnObjectionSubmitted(minted) ==
  /\ row.submitted_at = Null
  /\ BeginLodgement("objection_submitted",
       IF row.lodgment_reference_number = Null THEN minted
                                               ELSE row.lodgment_reference_number)

\* Mutant: the limit is off by one.
SubmitOnceMore ==
  /\ row.submitted_at # Null
  /\ row.resubmission_count <= MaxFurtherSubmissions
  /\ BeginLodgement("ai_further_submission", row.lodgment_reference_number)

OnAiFurtherSubmission ==
  /\ row.submitted_at # Null
  /\ row.resubmission_count < MaxFurtherSubmissions
  /\ BeginLodgement("ai_further_submission", row.lodgment_reference_number)

\* Mutant: a refused email is logged and the transaction goes on.
SwallowRefusedEmail ==
  /\ tx.stage = "mail"
  /\ vgMail' \in {vgMail, Append(vgMail, [kind |-> tx.to, reference |-> tx.reference])}
  /\ tx' = [tx EXCEPT !.stage = "save"]
  /\ UNCHANGED << caseVars, lock, audit, held, duties, now >>

\* The mail service accepts the letter; the transaction is still open.
SendVgLodgementEmail ==
  /\ tx.stage = "mail"
  /\ vgMail' = Append(vgMail, [kind |-> tx.to, reference |-> tx.reference])
  /\ tx' = [tx EXCEPT !.stage = "save"]
  /\ UNCHANGED << caseVars, lock, audit, held, duties, now >>

\* Mutant: the first lodgement does not stamp its date.
UnstampedRow ==
  IF tx.to = "objection_submitted"
    THEN [row EXCEPT !.status = "objection_submitted",
                     !.lodgment_reference_number = tx.reference,
                     !.vg_follow_up_count = 0,
                     !.last_vg_follow_up_sent_at = Null]
    ELSE [row EXCEPT !.status = "ai_further_submission",
                     !.resubmitted_at = tx.at,
                     !.resubmission_count = @ + 1,
                     !.vg_follow_up_count = 0,
                     !.last_vg_follow_up_sent_at = Null,
                     !.outcome = Null,
                     !.final_agreed_value = Null]

\* Mutant: a further submission does not re-arm the follow-up schedule.
NotRearmedRow ==
  IF tx.to = "objection_submitted"
    THEN [row EXCEPT !.status = "objection_submitted",
                     !.submitted_at = tx.at,
                     !.lodgment_reference_number = tx.reference]
    ELSE [row EXCEPT !.status = "ai_further_submission",
                     !.resubmitted_at = tx.at,
                     !.resubmission_count = @ + 1,
                     !.outcome = Null,
                     !.final_agreed_value = Null]

\* Both re-arm the follow-up schedule; the second also clears the last result.
LodgedRow ==
  IF tx.to = "objection_submitted"
    THEN [row EXCEPT !.status = "objection_submitted",
                     !.submitted_at = tx.at,
                     !.lodgment_reference_number = tx.reference,
                     !.vg_follow_up_count = 0,
                     !.last_vg_follow_up_sent_at = Null]
    ELSE [row EXCEPT !.status = "ai_further_submission",
                     !.resubmitted_at = tx.at,
                     !.resubmission_count = @ + 1,
                     !.vg_follow_up_count = 0,
                     !.last_vg_follow_up_sent_at = Null,
                     !.outcome = Null,
                     !.final_agreed_value = Null]

\* Mutant: the commit does not wait for the email.
CommitBeforeMail ==
  /\ tx.stage # "idle"
  /\ CommitMove(tx.to, LodgedRow)
  /\ tx' = IdleTx
  /\ lock' = "free"
  /\ UNCHANGED << tcAccepted, docs, comparables, vgMail, duties, now >>

CommitLodgement ==
  /\ tx.stage = "save"
  /\ CommitMove(tx.to, LodgedRow)
  /\ tx' = IdleTx
  /\ lock' = "free"
  /\ UNCHANGED << tcAccepted, docs, comparables, vgMail, duties, now >>

\* The email is refused, the save or the commit fails, or the process dies:
\* the row stays as it was, and a letter already sent stays sent.
RollBackLodgement ==
  /\ tx.stage # "idle"
  /\ tx' = IdleTx
  /\ lock' = "free"
  /\ UNCHANGED << caseVars, logVars, duties, now >>

-----------------------------------------------------------------------------
(* Documents and the promotion to reports_uploaded *)

\* A stored file of type t; the request checks the case in a later step.
StoreDocument(t) ==
  /\ checks < MaxChecks
  /\ docs' = docs \cup ({t} \cap REPORTS_UPLOADED_REQUIRED_TYPES)
  /\ checks' = checks + 1
  /\ UNCHANGED << row, tcAccepted, comparables, txVars, logVars,
                  owed, letters, now >>

\* An update gives the last document of type t another type.
RetypeDocument(t, u) ==
  /\ checks < MaxChecks
  /\ docs' = (docs \ {t}) \cup ({u} \cap REPORTS_UPLOADED_REQUIRED_TYPES)
  /\ checks' = checks + 1
  /\ UNCHANGED << row, tcAccepted, comparables, txVars, logVars,
                  owed, letters, now >>

\* Removing the last document of type t checks nothing.
RemoveDocument(t) ==
  /\ docs' = docs \ {t}
  /\ UNCHANGED << row, tcAccepted, comparables, txVars, logVars,
                  duties, now >>

ReportsOnFile == docs = REPORTS_UPLOADED_REQUIRED_TYPES

\* Mutant: the guarded UPDATE loses its status predicate.
AnyStatusMatches ==
  /\ ~row.deleted
  /\ ReportsOnFile

PromotionMatches ==
  /\ ~row.deleted
  /\ row.status = "tnc_agreed"
  /\ ReportsOnFile

\* A system promotion: the row alone; its audit row is owed.
Promote(to) ==
  /\ lock = "free"
  /\ row' = [row EXCEPT !.status = to]
  /\ owed' = [owed EXCEPT ![to] = @ + 1]
  /\ held' = held \cup {to}

PromoteToReportsUploaded ==
  /\ checks > 0
  /\ PromotionMatches
  /\ Promote("reports_uploaded")
  /\ checks' = checks - 1
  /\ UNCHANGED << tcAccepted, docs, comparables, txVars, audit, vgMail,
                  letters, now >>

\* Mutant: a check is counted off twice when two end together.
SkipTwice ==
  /\ checks > 0
  /\ PromotionMatches => ChecksMayFail
  /\ checks' = checks - 2
  /\ UNCHANGED << caseVars, txVars, logVars, owed, letters, now >>

\* The UPDATE matches no row, or it fails and the failure is only logged.
SkipPromotion ==
  /\ checks > 0
  /\ PromotionMatches => ChecksMayFail
  /\ checks' = checks - 1
  /\ UNCHANGED << caseVars, txVars, logVars, owed, letters, now >>

-----------------------------------------------------------------------------
(* The analysis job's writes *)

\* A person or the comparables stage saves one more sale; none is ever removed.
AddComparable ==
  /\ comparables < MinimumComparables
  /\ comparables' = comparables + 1
  /\ UNCHANGED << row, tcAccepted, docs, txVars, logVars, duties, now >>

AnalysedMatches ==
  /\ ~row.deleted
  /\ row.status \in MARK_ANALYSED_SOURCE_STATUSES
  /\ comparables >= MinimumComparables

MarkAnalysed ==
  /\ AnalysedMatches
  /\ Promote("analysed")
  /\ UNCHANGED << tcAccepted, docs, comparables, txVars, audit, vgMail,
                  checks, letters, now >>

\* The audit row of a promotion.  The analysis job does not know the status
\* its UPDATE moved the case from.
RecordPromotion(to) ==
  /\ owed[to] > 0
  /\ owed' = [owed EXCEPT ![to] = @ - 1]
  /\ audit' = Append(audit,
       [by |-> "system", to |-> to,
        from |-> IF to = "reports_uploaded" THEN "tnc_agreed" ELSE Null])
  /\ UNCHANGED << caseVars, txVars, vgMail, held, checks, letters, now >>

\* Its insert fails, which is only logged, or the process dies before it.
LosePromotionRecord(to) ==
  /\ owed[to] > 0
  /\ owed' = [owed EXCEPT ![to] = @ - 1]
  /\ UNCHANGED << caseVars, txVars, logVars, checks, letters, now >>

-----------------------------------------------------------------------------
(* Deletion, time *)

RemoveCase ==
  /\ lock = "free"
  /\ ~row.deleted
  /\ row' = [row EXCEPT !.deleted = TRUE]
  /\ UNCHANGED << tcAccepted, docs, comparables, txVars, logVars,
                  duties, now >>

Tick ==
  /\ now < MaxTime
  /\ now' = now + 1
  /\ UNCHANGED << caseVars, txVars, logVars, duties >>

-----------------------------------------------------------------------------

ManualStep ==
  \/ OnTncAgreed
  \/ OnVgResponseReceived
  \/ \E value \in Value : OnVgAgreed(value)
  \/ \E outcome \in Outcomes \cup {Null} : OnCaseClosed(outcome)
  \/ \E outcome \in Outcomes \cup {Null}, internal \in LandValues,
        assessed \in Value, email \in BOOLEAN :
       OnAdvisoryClose(outcome, internal, assessed, email)

LodgementStep ==
  \/ \E minted \in References : OnObjectionSubmitted(minted)
  \/ OnAiFurtherSubmission
  \/ SendVgLodgementEmail
  \/ CommitLodgement
  \/ RollBackLodgement

DocumentStep ==
  \/ \E t \in DocumentTypes : StoreDocument(t)
  \/ \E t \in docs \cup {"other"}, u \in DocumentTypes : RetypeDocument(t, u)
  \/ \E t \in docs : RemoveDocument(t)
  \/ PromoteToReportsUploaded
  \/ SkipPromotion

AnalysisStep ==
  \/ AddComparable
  \/ MarkAnalysed

RecordStep ==
  \E to \in SystemTargets : RecordPromotion(to) \/ LosePromotionRecord(to)

\* The steps that write the case; the audit rows of the promotions and the
\* clock are apart.
CaseStep ==
  \/ ManualStep
  \/ LodgementStep
  \/ DocumentStep
  \/ AnalysisStep
  \/ RemoveCase

Next ==
  \/ CaseStep
  \/ RecordStep
  \/ Tick

Spec == Init /\ [][Next]_vars

-----------------------------------------------------------------------------
(* Properties *)

PersonRows(to) == {i \in DOMAIN audit : audit[i].by = "person" /\ audit[i].to = to}

Rounds == IF row.submitted_at = Null THEN 0 ELSE 1 + row.resubmission_count

\* A status only a lodged case may hold comes with what every later manual
\* move and the follow-up schedule read: the lodgement date and the reference.
\* Before lodgement neither the date nor a round exists.  Otherwise a case sits
\* where each manual move is refused with 409.
LodgementStamped ==
  /\ row.status \in LodgedStatuses =>
       row.submitted_at # Null /\ row.lodgment_reference_number # Null
  /\ row.status \notin POST_LODGEMENT_STATUSES => row.submitted_at = Null
  /\ row.resubmission_count > 0 => row.submitted_at # Null
  /\ row.resubmission_count > 0 <=> row.resubmitted_at # Null

\* While a lodgement is open, what it decided on still holds: nobody has moved,
\* deleted or lodged the case under it, and once the letter is out, the VG
\* holds a letter the case does not count yet.
LodgementHolds ==
  tx.stage # "idle" =>
    /\ lock = "lodgement"
    /\ ~row.deleted
    /\ tx.to \in AWAITING_VG_RESPONSE_STATUSES \cap ManualTransitionsFrom(row.status)
    /\ tx.at # Null /\ tx.reference # Null
    /\ tx.to = "objection_submitted" => row.submitted_at = Null
    /\ tx.to = "ai_further_submission" =>
         /\ row.submitted_at # Null
         /\ row.resubmission_count < MaxFurtherSubmissions
         /\ tx.reference = row.lodgment_reference_number
    /\ tx.stage = "save" =>
         /\ \E i \in DOMAIN vgMail : vgMail[i] = [kind |-> tx.to, reference |-> tx.reference]
         /\ Rounds < Len(vgMail)

\* The row never claims a lodgement that did not happen: the VG holds a letter
\* under the row's reference, and a letter for every round the row counts.
LodgementBacked ==
  /\ row.submitted_at # Null =>
       \E i \in DOMAIN vgMail :
         vgMail[i] = [kind |-> "objection_submitted",
                      reference |-> row.lodgment_reference_number]
  /\ Rounds <= Len(vgMail)

\* A case is lodged at most once, its further submissions are counted exactly
\* and their number never passes the limit, whatever fails in between.
RoundsCounted ==
  /\ Cardinality(PersonRows("objection_submitted")) <= 1
  /\ Cardinality(PersonRows("ai_further_submission")) = row.resubmission_count
  /\ row.resubmission_count <= MaxFurtherSubmissions

\* What the timeline ticks did happen: the case has held every status its
\* current status is said to imply.
ImpliedWasHeld == StatusesImpliedBy(row.status) \subseteq held

\* The trail accounts for every manual move: each such status ever held has
\* its row, and when the current status was set by a person, the last row
\* written for a person says so.
AuditAccounts ==
  /\ \A s \in held \cap MANUAL_TRANSITION_TARGETS : PersonRows(s) # {}
  /\ row.status \in MANUAL_TRANSITION_TARGETS =>
       \E i \in PersonRows(row.status) :
         \A j \in i + 1 .. Len(audit) : audit[j].by # "person"

\* Letters to the client agree with the record: each stands behind a committed
\* transition; an outcome is reported only of a case the VG has been written
\* to; and a client told that the VG's figure stands has no lodged case and is
\* told nothing else.
ClientLetters ==
  /\ \A l \in letters : l.crossing \in DOMAIN audit
                        /\ audit[l.crossing].by = "person"
                        /\ audit[l.crossing].to \in {"vg_agreed", "case_closed"}
  /\ (\E l \in letters : l.kind # "advisory") => vgMail # << >> /\ row.submitted_at # Null
  /\ (\E l \in letters : l.kind = "advisory") =>
       /\ row.submitted_at = Null
       /\ row.status = "case_closed" /\ row.advisory_view_token
       /\ Cardinality(letters) = 1

\* Every change of status follows an edge of the real graph: a promotion that
\* was decided on an older row never moves a case backwards or past a step.
OnlyLegalSteps ==
  [][row'.status # row.status => LegalStep(row.status, row'.status)]_vars

\* The phase of the abstract protocol a status stands for.
PhaseOf(status) ==
  CASE status \in AWAITING_VG_RESPONSE_STATUSES -> "awaiting"
    [] status = "vg_response_received" -> "answered"
    [] status = "vg_agreed" -> "agreed"
    [] status = "case_closed" -> "closed"
    [] OTHER -> "preparing"

Protocol == INSTANCE LodgementProtocol
  WITH Limit <- MaxFurtherSubmissions, phase <- PhaseOf(row.status),
       posted <- Len(vgMail), recorded <- Rounds

\* Seen from the VG, rows, locks, failed commits and retries implement the
\* protocol: no round recorded without its letter, none recorded twice, none
\* posted after the case is agreed or closed.
ImplementsProtocol == Protocol!Spec

-----------------------------------------------------------------------------
(* Where the code departs from what it says of itself *)

\* assessment-documents.service.ts: a case does not sit at tnc_agreed with
\* both reports on file and no check to come.
GateNotMissed ==
  ~(row.status = "tnc_agreed" /\ ~row.deleted /\ ReportsOnFile /\ checks = 0)

\* dispute-cases.service.ts: the trail is the case's history, oldest first: a
\* promotion is never recorded after the move out of the status it led to.
TrailInOrder ==
  \A i, j \in DOMAIN audit :
    i < j /\ audit[j].by = "system" => audit[i].from # audit[j].to
=============================================================================
