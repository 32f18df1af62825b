------------------------ MODULE CaseLifecycle_proofs ------------------------
(***************************************************************************)
(* Theorems about the case lifecycle, for every value of its constants.    *)
(***************************************************************************)
EXTENDS CaseLifecycle, FiniteSetTheorems, TLAPS

-----------------------------------------------------------------------------
(* The graph *)

\* From where a person may move a case into each status.
LEMMA ManualSources ==
  ASSUME NEW s \in DisputeStatuses, NEW t \in ManualTransitionsFrom(s)
  PROVE  /\ t \in MANUAL_TRANSITION_TARGETS
         /\ t = "tnc_agreed" => s = "created"
         /\ t = "objection_submitted" => s = "analysed"
         /\ t = "vg_response_received" => s \in AWAITING_VG_RESPONSE_STATUSES
         /\ t \in {"ai_further_submission", "vg_agreed"} => s = "vg_response_received"
         /\ t = "case_closed" => s # "case_closed"
<1>1. t \in DISPUTE_STATUS_TRANSITIONS[s] /\ t \in MANUAL_TRANSITION_TARGETS
  BY DEF ManualTransitionsFrom
<1>2. CASE s \in {"created", "tnc_agreed", "reports_uploaded", "analysed"}
  BY <1>1, <1>2 DEF DISPUTE_STATUS_TRANSITIONS, MANUAL_TRANSITION_TARGETS
<1>3. CASE s \in {"objection_submitted", "vg_response_received", "ai_further_submission",
                  "vg_agreed", "case_closed"}
  BY <1>1, <1>3 DEF DISPUTE_STATUS_TRANSITIONS, MANUAL_TRANSITION_TARGETS,
                    AWAITING_VG_RESPONSE_STATUSES
<1> QED BY <1>2, <1>3 DEF DisputeStatuses

\* A manual move is a step of the real graph.
LEMMA ManualMoveIsLegal ==
  ASSUME NEW s \in DisputeStatuses, NEW t \in ManualTransitionsFrom(s)
  PROVE  t \in DisputeStatuses /\ LegalStep(s, t)
<1>1. t \in DISPUTE_STATUS_TRANSITIONS[s] /\ t \in DisputeStatuses
  BY DEF ManualTransitionsFrom, MANUAL_TRANSITION_TARGETS, DisputeStatuses
<1> QED BY <1>1 DEF LegalStep, DominatorPredecessors, CanTransition

-----------------------------------------------------------------------------
(* Types *)

\* A case as intake leaves it is typed.
LEMMA InitTyped == Init => TypeOK
<1> SUFFICES ASSUME Init PROVE TypeOK
  OBVIOUS
<1>1. row \in DisputeCase
  BY DEF Init, NewCase, DisputeCase, DisputeStatuses, Time, Value
<1>2. tx \in LodgementTx
  BY DEF Init, IdleTx, LodgementTx, Time
<1>3. comparables \in 0..MinimumComparables
  BY LifecycleAssumption DEF Init
<1>4. /\ owed \in [SystemTargets -> Nat]
      /\ audit \in Seq(AuditRow) /\ vgMail \in Seq(VgLetter)
  BY DEF Init
<1>5. held \subseteq DisputeStatuses /\ lock \in LockHolders
  BY DEF Init, DisputeStatuses, LockHolders
<1>6. /\ docs \subseteq REPORTS_UPLOADED_REQUIRED_TYPES /\ letters \subseteq ClientLetter
      /\ tcAccepted \in BOOLEAN /\ checks \in Nat /\ now \in Nat
  BY DEF Init
<1> QED
  BY <1>1, <1>2, <1>3, <1>4, <1>5, <1>6 DEF TypeOK

\* A manual move of a typed case to a typed row leaves the case, its trail and
\* its history typed.
LEMMA MoveTyped ==
  ASSUME TypeOK, NEW to \in DisputeStatuses, NEW newRow \in DisputeCase,
         CommitMove(to, newRow)
  PROVE  /\ row' \in DisputeCase
         /\ audit' \in Seq(AuditRow)
         /\ held' \subseteq DisputeStatuses
<1>1. row.status \in DisputeStatuses
  BY DEF TypeOK, DisputeCase
<1>2. [by |-> "person", from |-> row.status, to |-> to] \in AuditRow
  BY <1>1 DEF AuditRow
<1>3. audit' \in Seq(AuditRow)
  BY <1>2 DEF TypeOK, CommitMove
<1> QED
  BY <1>3 DEF TypeOK, CommitMove

\* Queued client letters are typed, and point at a row of the trail.
LEMMA LettersTyped ==
  ASSUME TypeOK, NEW kinds \in SUBSET {"approved", "declined", "advisory"}, Queue(kinds)
  PROVE  letters' \subseteq ClientLetter
<1>1. Len(audit) + 1 \in Nat
  BY DEF TypeOK
<1> QED
  BY <1>1 DEF TypeOK, Queue, ClientLetter

\* An outcome has an approved letter, a declined one or none.
LEMMA OutcomeLetterTyped ==
  ASSUME NEW outcome
  PROVE  OutcomeLetter(outcome) \in SUBSET {"approved", "declined", "advisory"}
BY DEF OutcomeLetter

\* The columns of a typed case, one by one.
LEMMA ColumnsTyped ==
  ASSUME row \in DisputeCase
  PROVE  /\ row.status \in DisputeStatuses
         /\ row.submitted_at \in Time
         /\ row.lodgment_reference_number \in References \cup {Null}
         /\ row.resubmitted_at \in Time
         /\ row.resubmission_count \in Nat
         /\ row.vg_follow_up_count \in Nat
         /\ row.outcome \in OutcomeResult \cup {Null}
         /\ row.final_agreed_value \in Value
         /\ row.deleted \in BOOLEAN
BY DEF DisputeCase

\* The row a close saves is typed, the outcome being one a request may carry.
LEMMA ClosedTyped ==
  ASSUME TypeOK, NEW outcome \in Outcomes \cup {Null}
  PROVE  ClosedRow(outcome) \in DisputeCase
<1> DEFINE result == IF outcome = Null THEN row.outcome ELSE outcome
<1>1. result \in OutcomeResult \cup {Null}
  BY ColumnsTyped, LifecycleAssumption DEF TypeOK
<1>2. now \in Time /\ "case_closed" \in DisputeStatuses /\ row \in DisputeCase
  BY DEF TypeOK, Time, DisputeStatuses
<1>3. ClosedRow(outcome) = [row EXCEPT !.status = "case_closed", !.closed_at = now,
                                       !.outcome = result]
  BY <1>2 DEF ClosedRow, DisputeCase
<1> HIDE DEF result
<1> QED
  BY <1>1, <1>2, <1>3 DEF DisputeCase

\* So is the row an advisory close saves.
LEMMA AdvisedTyped ==
  ASSUME NEW r \in DisputeCase, NEW internal \in LandValues
  PROVE  [r EXCEPT !.internal_assessed_value = internal, !.advisory_view_token = TRUE]
           \in DisputeCase
<1>1. internal \in Value
  BY DEF Value
<1> QED
  BY <1>1 DEF DisputeCase

\* The manual moves that commit in one step keep the types.
LEMMA ManualTyped == TypeOK /\ ManualStep => TypeOK'
<1> SUFFICES ASSUME TypeOK, ManualStep PROVE TypeOK'
  OBVIOUS
<1> USE LifecycleAssumption
<1>1. ASSUME OnTncAgreed PROVE TypeOK'
  <2>1. [row EXCEPT !.status = "tnc_agreed"] \in DisputeCase
    BY DEF TypeOK, DisputeCase, DisputeStatuses
  <2> QED
    BY <1>1, <2>1, MoveTyped
    DEF TypeOK, OnTncAgreed, DisputeStatuses, txVars, duties
<1>2. ASSUME OnVgResponseReceived PROVE TypeOK'
  <2>1. [row EXCEPT !.status = "vg_response_received"] \in DisputeCase
    BY DEF TypeOK, DisputeCase, DisputeStatuses
  <2> QED
    BY <1>2, <2>1, MoveTyped
    DEF TypeOK, OnVgResponseReceived, DisputeStatuses, txVars, duties
<1>3. ASSUME NEW value \in Value, OnVgAgreed(value) PROVE TypeOK'
  <2> DEFINE new == [row EXCEPT !.status = "vg_agreed",
                                !.outcome = "upheld",
                                !.final_agreed_value = IF value = Null THEN @ ELSE value]
  <2>1. new \in DisputeCase
    BY ColumnsTyped DEF TypeOK, DisputeCase, DisputeStatuses, OutcomeResult
  <2>2. CommitMove("vg_agreed", new) /\ Queue(OutcomeLetter("upheld"))
    BY <1>3 DEF OnVgAgreed
  <2> HIDE DEF new
  <2>3. letters' \subseteq ClientLetter
    BY <2>2, LettersTyped, OutcomeLetterTyped
  <2> QED
    BY <1>3, <2>1, <2>2, <2>3, MoveTyped
    DEF TypeOK, OnVgAgreed, DisputeStatuses, txVars
<1>4. ASSUME NEW outcome \in Outcomes \cup {Null} PROVE ClosedRow(outcome) \in DisputeCase
  BY ClosedTyped
<1>5. ASSUME NEW outcome \in Outcomes \cup {Null}, OnCaseClosed(outcome) PROVE TypeOK'
  <2>1. ClosedRow(outcome) \in DisputeCase
    BY <1>4
  <2>2. letters' \subseteq ClientLetter
    BY <1>5, LettersTyped, OutcomeLetterTyped DEF OnCaseClosed, TypeOK
  <2> QED
    BY <1>5, <2>1, <2>2, MoveTyped
    DEF TypeOK, OnCaseClosed, DisputeStatuses, txVars
<1>6. ASSUME NEW outcome \in Outcomes \cup {Null}, NEW internal \in LandValues,
             NEW assessed \in Value, NEW email \in BOOLEAN,
             OnAdvisoryClose(outcome, internal, assessed, email)
      PROVE  TypeOK'
  <2> DEFINE new == [ClosedRow(outcome) EXCEPT !.internal_assessed_value = internal,
                                               !.advisory_view_token = TRUE]
  <2>1. new \in DisputeCase
    BY <1>4, AdvisedTyped
  <2>2. CommitMove("case_closed", new) /\ Queue({"advisory"})
    BY <1>6 DEF OnAdvisoryClose
  <2> HIDE DEF new
  <2>3. letters' \subseteq ClientLetter
    BY <2>2, LettersTyped
  <2> QED
    BY <1>6, <2>1, <2>2, <2>3, MoveTyped
    DEF TypeOK, OnAdvisoryClose, DisputeStatuses, txVars
<1> QED
  BY <1>1, <1>2, <1>3, <1>5, <1>6 DEF ManualStep

\* The row a lodgement saves is typed.
LEMMA LodgedTyped ==
  ASSUME TypeOK, tx.to \in AWAITING_VG_RESPONSE_STATUSES
  PROVE  LodgedRow \in DisputeCase /\ tx.to \in DisputeStatuses
<1>1. /\ tx.at \in Time /\ tx.reference \in References \cup {Null}
      /\ 0 \in Nat /\ Null \in Time
      /\ Null \in OutcomeResult \cup {Null} /\ Null \in Value
  BY DEF TypeOK, LodgementTx, Time, Value
<1>2. row \in DisputeCase /\ row.resubmission_count + 1 \in Nat
  BY ColumnsTyped DEF TypeOK
<1>3. "objection_submitted" \in DisputeStatuses /\ "ai_further_submission" \in DisputeStatuses
  BY DEF DisputeStatuses
<1>4. CASE tx.to = "objection_submitted"
  BY <1>1, <1>2, <1>3, <1>4 DEF LodgedRow, DisputeCase
<1>5. CASE tx.to # "objection_submitted"
  BY <1>1, <1>2, <1>3, <1>5 DEF LodgedRow, DisputeCase, AWAITING_VG_RESPONSE_STATUSES
<1> QED
  BY <1>4, <1>5

\* Opening a lodgement keeps the types.
LEMMA BeginTyped ==
  ASSUME TypeOK, NEW to \in AWAITING_VG_RESPONSE_STATUSES,
         NEW reference \in References \cup {Null}, BeginLodgement(to, reference)
  PROVE  TypeOK'
<1>1. tx' \in LodgementTx
  BY DEF TypeOK, BeginLodgement, LodgementTx, Time
<1> QED
  BY <1>1 DEF TypeOK, BeginLodgement, LockHolders, caseVars, logVars, duties

\* A transaction that is open knows what it lodges.
TxAimed == tx.stage # "idle" => tx.to \in AWAITING_VG_RESPONSE_STATUSES

\* Every step of a lodgement keeps the types.
LEMMA LodgementTyped == TypeOK /\ TxAimed /\ LodgementStep => TypeOK'
<1> SUFFICES ASSUME TypeOK, TxAimed, LodgementStep PROVE TypeOK'
  OBVIOUS
<1>1. ASSUME NEW minted \in References, OnObjectionSubmitted(minted) PROVE TypeOK'
  <2>1. row.lodgment_reference_number \in References \cup {Null}
    BY ColumnsTyped DEF TypeOK
  <2>2. "objection_submitted" \in AWAITING_VG_RESPONSE_STATUSES
    BY DEF AWAITING_VG_RESPONSE_STATUSES
  <2> QED
    BY <1>1, <2>1, <2>2, BeginTyped DEF OnObjectionSubmitted
<1>2. ASSUME OnAiFurtherSubmission PROVE TypeOK'
  <2>1. row.lodgment_reference_number \in References \cup {Null}
    BY ColumnsTyped DEF TypeOK
  <2>2. "ai_further_submission" \in AWAITING_VG_RESPONSE_STATUSES
    BY DEF AWAITING_VG_RESPONSE_STATUSES
  <2> QED
    BY <1>2, <2>1, <2>2, BeginTyped DEF OnAiFurtherSubmission
<1>3. ASSUME SendVgLodgementEmail PROVE TypeOK'
  <2>1. tx' \in LodgementTx
    BY <1>3 DEF TypeOK, SendVgLodgementEmail, LodgementTx
  <2>2. [kind |-> tx.to, reference |-> tx.reference] \in VgLetter
    BY <1>3 DEF TypeOK, TxAimed, SendVgLodgementEmail, LodgementTx, VgLetter
  <2>3. vgMail' \in Seq(VgLetter)
    BY <1>3, <2>2 DEF TypeOK, SendVgLodgementEmail
  <2> QED
    BY <1>3, <2>1, <2>3 DEF TypeOK, SendVgLodgementEmail, caseVars, duties
<1>4. IdleTx \in LodgementTx
  BY DEF IdleTx, LodgementTx, Time
<1>5. ASSUME CommitLodgement PROVE TypeOK'
  <2>1. LodgedRow \in DisputeCase /\ tx.to \in DisputeStatuses
    BY <1>5, LodgedTyped DEF TxAimed, CommitLodgement
  <2> QED
    BY <1>4, <1>5, <2>1, MoveTyped DEF TypeOK, CommitLodgement, LockHolders, duties
<1>6. ASSUME RollBackLodgement PROVE TypeOK'
  BY <1>4, <1>6 DEF TypeOK, RollBackLodgement, LockHolders, caseVars, logVars, duties
<1> QED
  BY <1>1, <1>2, <1>3, <1>5, <1>6 DEF LodgementStep

\* A system promotion leaves the row, the history and the debt typed.
LEMMA PromoteTyped ==
  ASSUME TypeOK, NEW to \in SystemTargets, Promote(to)
  PROVE  /\ row' \in DisputeCase
         /\ owed' \in [SystemTargets -> Nat]
         /\ held' \subseteq DisputeStatuses
<1>1. to \in DisputeStatuses
  BY DEF SystemTargets, DisputeStatuses
<1>2. row' \in DisputeCase
  BY <1>1 DEF TypeOK, Promote, DisputeCase
<1>3. owed[to] + 1 \in Nat
  BY DEF TypeOK
<1> QED
  BY <1>1, <1>2, <1>3 DEF TypeOK, Promote

\* Storing, retyping and removing documents keeps the types.
LEMMA DocumentTyped == TypeOK /\ DocumentStep => TypeOK'
<1> SUFFICES ASSUME TypeOK, DocumentStep PROVE TypeOK'
  OBVIOUS
<1>1. ASSUME NEW t \in DocumentTypes, StoreDocument(t) PROVE TypeOK'
  BY <1>1 DEF TypeOK, StoreDocument, txVars, logVars
<1>2. ASSUME NEW t, NEW u, RetypeDocument(t, u) PROVE TypeOK'
  BY <1>2 DEF TypeOK, RetypeDocument, txVars, logVars
<1>3. ASSUME NEW t, RemoveDocument(t) PROVE TypeOK'
  BY <1>3 DEF TypeOK, RemoveDocument, txVars, logVars, duties
<1>4. ASSUME PromoteToReportsUploaded PROVE TypeOK'
  <2>1. Promote("reports_uploaded") /\ "reports_uploaded" \in SystemTargets
    BY <1>4 DEF PromoteToReportsUploaded, SystemTargets
  <2>2. checks' \in Nat
    BY <1>4 DEF TypeOK, PromoteToReportsUploaded
  <2> QED
    BY <1>4, <2>1, <2>2, PromoteTyped DEF TypeOK, PromoteToReportsUploaded, txVars
<1>5. ASSUME SkipPromotion PROVE TypeOK'
  BY <1>5 DEF TypeOK, SkipPromotion, caseVars, txVars, logVars
<1> QED
  BY <1>1, <1>2, <1>3, <1>4, <1>5 DEF DocumentStep

\* The analysis job keeps the types.
LEMMA AnalysisTyped == TypeOK /\ AnalysisStep => TypeOK'
<1> SUFFICES ASSUME TypeOK, AnalysisStep PROVE TypeOK'
  OBVIOUS
<1>1. ASSUME AddComparable PROVE TypeOK'
  BY <1>1, LifecycleAssumption DEF TypeOK, AddComparable, txVars, logVars, duties
<1>2. ASSUME MarkAnalysed PROVE TypeOK'
  <2>1. Promote("analysed") /\ "analysed" \in SystemTargets
    BY <1>2 DEF MarkAnalysed, SystemTargets
  <2> QED
    BY <1>2, <2>1, PromoteTyped DEF TypeOK, MarkAnalysed, txVars
<1> QED
  BY <1>1, <1>2 DEF AnalysisStep

\* Writing or losing the audit row of a promotion keeps the types.
LEMMA RecordTyped == TypeOK /\ RecordStep => TypeOK'
<1> SUFFICES ASSUME TypeOK, NEW to \in SystemTargets,
                    RecordPromotion(to) \/ LosePromotionRecord(to)
             PROVE  TypeOK'
  BY DEF RecordStep
<1>1. owed' \in [SystemTargets -> Nat]
  <2>1. owed[to] \in Nat /\ owed[to] > 0
    BY DEF TypeOK, RecordPromotion, LosePromotionRecord
  <2>2. owed[to] - 1 \in Nat
    BY <2>1
  <2>3. owed' = [owed EXCEPT ![to] = owed[to] - 1]
    BY DEF RecordPromotion, LosePromotionRecord
  <2> QED
    BY <2>2, <2>3 DEF TypeOK, RecordPromotion, LosePromotionRecord
<1>2. ASSUME RecordPromotion(to) PROVE audit' \in Seq(AuditRow)
  <2>1. [by |-> "system", to |-> to,
         from |-> IF to = "reports_uploaded" THEN "tnc_agreed" ELSE Null] \in AuditRow
    BY DEF AuditRow, SystemTargets, DisputeStatuses
  <2> QED
    BY <1>2, <2>1 DEF TypeOK, RecordPromotion
<1> QED
  BY <1>1, <1>2 DEF TypeOK, RecordPromotion, LosePromotionRecord, caseVars, txVars, logVars

\* Every step keeps the types.
LEMMA NextTyped == TypeOK /\ TxAimed /\ [Next]_vars => TypeOK'
<1> SUFFICES ASSUME TypeOK, TxAimed, [Next]_vars PROVE TypeOK'
  OBVIOUS
<1>1. ASSUME CaseStep PROVE TypeOK'
  <2>1. ASSUME RemoveCase PROVE TypeOK'
    BY <2>1 DEF TypeOK, RemoveCase, DisputeCase, txVars, logVars, duties
  <2> QED
    BY <1>1, <2>1, ManualTyped, LodgementTyped, DocumentTyped, AnalysisTyped DEF CaseStep
<1>2. ASSUME Tick PROVE TypeOK'
  BY <1>2 DEF TypeOK, Tick, caseVars, txVars, logVars, duties
<1>3. ASSUME UNCHANGED vars PROVE TypeOK'
  BY <1>3 DEF TypeOK, vars, caseVars, txVars, logVars, duties
<1> QED
  BY <1>1, <1>2, <1>3, RecordTyped DEF Next

-----------------------------------------------------------------------------
(* The lodgement invariant *)

\* Inductive: a commit is right because the open transaction is (LodgementHolds),
\* and that is because every other writer waits for the row lock.
LodgementInv ==
  /\ TypeOK
  /\ LodgementHolds
  /\ LodgementStamped
  /\ LodgementBacked
  /\ row.resubmission_count <= MaxFurtherSubmissions

\* What a step that is not a lodgement's does: the transaction, the letters and
\* the lodgement columns stay, the row is only written while it is unlocked,
\* and its status does not pass from before lodgement to after it.
QuietStep ==
  /\ UNCHANGED << lock, tx, vgMail >>
  /\ row' # row => lock = "free"
  /\ row'.submitted_at = row.submitted_at
  /\ row'.lodgment_reference_number = row.lodgment_reference_number
  /\ row'.resubmitted_at = row.resubmitted_at
  /\ row'.resubmission_count = row.resubmission_count
  /\ \/ row'.status = row.status
     \/ row'.status = "case_closed"
     \/ row.status \in LodgedStatuses /\ row'.status \in LodgedStatuses
     \/ row.status \notin POST_LODGEMENT_STATUSES /\ row'.status \notin POST_LODGEMENT_STATUSES

\* A manual move that emails nobody at the VG is quiet.
LEMMA ManualIsQuiet == TypeOK /\ ManualStep => QuietStep
<1> SUFFICES ASSUME TypeOK, ManualStep PROVE QuietStep
  OBVIOUS
<1> USE ColumnsTyped
<1>1. ASSUME OnTncAgreed PROVE QuietStep
  <2>1. row.status = "created"
    BY <1>1, ManualSources DEF OnTncAgreed, MayMove, TypeOK
  <2> QED
    BY <1>1, <2>1 DEF OnTncAgreed, MayMove, CommitMove, QuietStep, txVars, TypeOK,
       DisputeCase, POST_LODGEMENT_STATUSES
<1>2. ASSUME OnVgResponseReceived PROVE QuietStep
  <2>1. row.status \in AWAITING_VG_RESPONSE_STATUSES
    BY <1>2, ManualSources DEF OnVgResponseReceived, MayMove, TypeOK
  <2> QED
    BY <1>2, <2>1 DEF OnVgResponseReceived, MayMove, CommitMove, QuietStep, txVars, TypeOK,
       DisputeCase, LodgedStatuses, POST_LODGEMENT_STATUSES, CLOSED_STATUSES,
       AWAITING_VG_RESPONSE_STATUSES
<1>3. ASSUME NEW value \in Value, OnVgAgreed(value) PROVE QuietStep
  <2>1. row.status = "vg_response_received"
    BY <1>3, ManualSources DEF OnVgAgreed, MayMove, TypeOK
  <2> QED
    BY <1>3, <2>1 DEF OnVgAgreed, MayMove, CommitMove, QuietStep, txVars, TypeOK,
       DisputeCase, LodgedStatuses, POST_LODGEMENT_STATUSES, CLOSED_STATUSES
<1>4. ASSUME NEW outcome, OnCaseClosed(outcome) PROVE QuietStep
  BY <1>4 DEF OnCaseClosed, ClosedRow, MayMove, CommitMove, QuietStep, txVars, TypeOK,
     DisputeCase
<1>5. ASSUME NEW outcome, NEW internal, NEW assessed, NEW email,
             OnAdvisoryClose(outcome, internal, assessed, email)
      PROVE  QuietStep
  BY <1>5 DEF OnAdvisoryClose, ClosedRow, MayMove, CommitMove, QuietStep, txVars, TypeOK,
     DisputeCase
<1> QED
  BY <1>1, <1>2, <1>3, <1>4, <1>5 DEF ManualStep

\* So is every step of the documents, the analysis, the deletion and the clock.
LEMMA OthersAreQuiet ==
  ASSUME TypeOK,
         DocumentStep \/ AnalysisStep \/ RecordStep \/ RemoveCase \/ Tick \/ UNCHANGED vars
  PROVE  QuietStep
<1>1. ASSUME NEW to \in SystemTargets, Promote(to),
             row.status \notin POST_LODGEMENT_STATUSES, UNCHANGED << txVars, vgMail >>
      PROVE  QuietStep
  BY <1>1 DEF Promote, QuietStep, txVars, TypeOK, DisputeCase, SystemTargets,
     POST_LODGEMENT_STATUSES
<1>2. ASSUME DocumentStep PROVE QuietStep
  <2>1. ASSUME PromoteToReportsUploaded PROVE QuietStep
    BY <1>1, <2>1 DEF PromoteToReportsUploaded, PromotionMatches, SystemTargets,
       POST_LODGEMENT_STATUSES
  <2> QED
    BY <1>2, <2>1 DEF DocumentStep, StoreDocument, RetypeDocument, RemoveDocument,
       SkipPromotion, QuietStep, caseVars, txVars, logVars
<1>3. ASSUME AnalysisStep PROVE QuietStep
  <2>1. ASSUME MarkAnalysed PROVE QuietStep
    BY <1>1, <2>1 DEF MarkAnalysed, AnalysedMatches, SystemTargets,
       MARK_ANALYSED_SOURCE_STATUSES, POST_LODGEMENT_STATUSES
  <2> QED
    BY <1>3, <2>1 DEF AnalysisStep, AddComparable, QuietStep, txVars, logVars
<1>4. ASSUME RecordStep PROVE QuietStep
  BY <1>4 DEF RecordStep, RecordPromotion, LosePromotionRecord, QuietStep, caseVars,
     txVars, logVars
<1>5. ASSUME RemoveCase PROVE QuietStep
  BY <1>5 DEF RemoveCase, QuietStep, txVars, logVars, TypeOK, DisputeCase
<1>6. ASSUME Tick \/ UNCHANGED vars PROVE QuietStep
  BY <1>6 DEF Tick, QuietStep, vars, caseVars, txVars, logVars
<1> QED
  BY <1>2, <1>3, <1>4, <1>5, <1>6

\* A quiet step keeps the lodgement invariant.
LEMMA QuietKeeps ==
  ASSUME LodgementInv, QuietStep
  PROVE  LodgementHolds' /\ LodgementStamped' /\ LodgementBacked'
         /\ row'.resubmission_count <= MaxFurtherSubmissions
<1>1. Rounds' = Rounds
  BY DEF QuietStep, Rounds
<1>2. LodgementHolds'
  <2>1. ASSUME tx.stage # "idle" PROVE row' = row
    BY <2>1 DEF LodgementInv, LodgementHolds, QuietStep
  <2> QED
    BY <1>1, <2>1 DEF LodgementInv, LodgementHolds, QuietStep
<1>3. LodgementStamped'
  BY DEF LodgementInv, LodgementStamped, QuietStep, LodgedStatuses, POST_LODGEMENT_STATUSES,
     CLOSED_STATUSES
<1>4. LodgementBacked'
  BY <1>1 DEF LodgementInv, LodgementBacked, QuietStep
<1> QED
  BY <1>2, <1>3, <1>4 DEF LodgementInv, QuietStep

\* Opening a lodgement keeps it: the locked read is what the invariant records.
LEMMA BeginKeeps ==
  ASSUME LodgementInv, NEW to \in AWAITING_VG_RESPONSE_STATUSES,
         NEW reference, reference # Null, BeginLodgement(to, reference),
         to = "objection_submitted" => row.submitted_at = Null,
         to = "ai_further_submission" =>
           /\ row.submitted_at # Null
           /\ row.resubmission_count < MaxFurtherSubmissions
           /\ reference = row.lodgment_reference_number
  PROVE  LodgementHolds' /\ LodgementStamped' /\ LodgementBacked'
         /\ row'.resubmission_count <= MaxFurtherSubmissions
<1>1. row' = row /\ vgMail' = vgMail /\ Rounds' = Rounds
  BY DEF BeginLodgement, caseVars, logVars, Rounds
<1>2. now # Null
  BY LifecycleAssumption DEF LodgementInv, TypeOK
<1>3. LodgementHolds'
  BY <1>1, <1>2 DEF BeginLodgement, LodgementHolds, MayMove
<1> QED
  BY <1>1, <1>3 DEF LodgementInv, LodgementStamped, LodgementBacked

\* The letter to the VG keeps it.
LEMMA SendKeeps ==
  ASSUME LodgementInv, SendVgLodgementEmail
  PROVE  LodgementHolds' /\ LodgementStamped' /\ LodgementBacked'
         /\ row'.resubmission_count <= MaxFurtherSubmissions
<1> DEFINE letter == [kind |-> tx.to, reference |-> tx.reference]
<1>1. row' = row /\ Rounds' = Rounds /\ lock' = lock
  BY DEF SendVgLodgementEmail, caseVars, Rounds
<1>2. tx'.to = tx.to /\ tx'.reference = tx.reference /\ tx'.at = tx.at
  BY DEF SendVgLodgementEmail, LodgementInv, TypeOK, LodgementTx
<1>3. /\ Len(vgMail') = Len(vgMail) + 1
      /\ vgMail'[Len(vgMail')] = letter /\ Len(vgMail') \in DOMAIN vgMail'
      /\ \A i \in DOMAIN vgMail : i \in DOMAIN vgMail' /\ vgMail'[i] = vgMail[i]
  BY DEF SendVgLodgementEmail, LodgementInv, TypeOK
<1>4. Len(vgMail) \in Nat /\ Rounds \in Nat
  BY ColumnsTyped DEF LodgementInv, TypeOK, Rounds
<1>5. Rounds <= Len(vgMail) /\ tx.stage # "idle"
  BY DEF LodgementInv, LodgementBacked, SendVgLodgementEmail
<1>6. LodgementHolds'
  <2>1. Rounds' < Len(vgMail')
    BY <1>1, <1>3, <1>4, <1>5
  <2>2. \E i \in DOMAIN vgMail' : vgMail'[i] = [kind |-> tx'.to, reference |-> tx'.reference]
    BY <1>2, <1>3
  <2> QED
    BY <1>1, <1>2, <1>5, <2>1, <2>2 DEF LodgementInv, LodgementHolds
<1>7. LodgementStamped'
  BY <1>1 DEF LodgementInv, LodgementStamped
<1>8. LodgementBacked'
  <2>1. Rounds' <= Len(vgMail')
    BY <1>1, <1>3, <1>4, <1>5
  <2>2. ASSUME row.submitted_at # Null
        PROVE  \E i \in DOMAIN vgMail' :
                 vgMail'[i] = [kind |-> "objection_submitted",
                               reference |-> row.lodgment_reference_number]
    BY <1>3, <2>2 DEF LodgementInv, LodgementBacked
  <2> QED
    BY <1>1, <2>1, <2>2 DEF LodgementBacked
<1> QED
  BY <1>1, <1>6, <1>7, <1>8 DEF LodgementInv

\* The row a lodgement saves, column by column.
LEMMA LodgedColumns ==
  ASSUME TypeOK, tx.to \in AWAITING_VG_RESPONSE_STATUSES
  PROVE  /\ LodgedRow.status = tx.to
         /\ tx.to = "objection_submitted" =>
              /\ LodgedRow.submitted_at = tx.at
              /\ LodgedRow.lodgment_reference_number = tx.reference
              /\ LodgedRow.resubmitted_at = row.resubmitted_at
              /\ LodgedRow.resubmission_count = row.resubmission_count
         /\ tx.to # "objection_submitted" =>
              /\ LodgedRow.submitted_at = row.submitted_at
              /\ LodgedRow.lodgment_reference_number = row.lodgment_reference_number
              /\ LodgedRow.resubmitted_at = tx.at
              /\ LodgedRow.resubmission_count = row.resubmission_count + 1
BY DEF LodgedRow, TypeOK, DisputeCase, AWAITING_VG_RESPONSE_STATUSES

\* The commit keeps it: the round it counts has its letter.
LEMMA CommitKeeps ==
  ASSUME LodgementInv, CommitLodgement
  PROVE  LodgementHolds' /\ LodgementStamped' /\ LodgementBacked'
         /\ row'.resubmission_count <= MaxFurtherSubmissions
<1>1. /\ tx.stage = "save" /\ tx.to \in AWAITING_VG_RESPONSE_STATUSES
      /\ tx.at # Null /\ tx.reference # Null
      /\ tx.to = "objection_submitted" => row.submitted_at = Null
      /\ tx.to = "ai_further_submission" =>
           /\ row.submitted_at # Null
           /\ row.resubmission_count < MaxFurtherSubmissions
           /\ tx.reference = row.lodgment_reference_number
      /\ \E i \in DOMAIN vgMail : vgMail[i] = [kind |-> tx.to, reference |-> tx.reference]
      /\ Rounds < Len(vgMail)
  BY DEF LodgementInv, LodgementHolds, CommitLodgement
<1>2. row' = LodgedRow /\ vgMail' = vgMail
  BY DEF CommitLodgement, CommitMove
<1>3. row.resubmission_count \in Nat /\ MaxFurtherSubmissions \in Nat /\ Len(vgMail) \in Nat
  BY ColumnsTyped, LifecycleAssumption DEF LodgementInv, TypeOK
<1>4. row'.status \in LodgedStatuses
  BY <1>1, <1>2, LodgedColumns DEF LodgementInv, AWAITING_VG_RESPONSE_STATUSES,
     LodgedStatuses, POST_LODGEMENT_STATUSES, CLOSED_STATUSES
<1>5. LodgementHolds'
  BY DEF CommitLodgement, LodgementHolds, IdleTx
<1>6. CASE tx.to = "objection_submitted"
  <2>1. /\ row'.submitted_at = tx.at /\ row'.lodgment_reference_number = tx.reference
        /\ row'.resubmitted_at = row.resubmitted_at
        /\ row'.resubmission_count = row.resubmission_count
    BY <1>1, <1>2, <1>6, LodgedColumns DEF LodgementInv
  <2>2. row.resubmission_count = 0
    BY <1>1, <1>3, <1>6 DEF LodgementInv, LodgementStamped
  <2>3. LodgementStamped'
    BY <1>1, <1>4, <2>1, <2>2
    DEF LodgementInv, LodgementStamped, LodgedStatuses, POST_LODGEMENT_STATUSES
  <2>4. Rounds' <= Len(vgMail')
    BY <1>1, <1>2, <1>3, <1>6, <2>1, <2>2 DEF Rounds
  <2>5. \E i \in DOMAIN vgMail' :
          vgMail'[i] = [kind |-> "objection_submitted",
                        reference |-> row'.lodgment_reference_number]
    BY <1>1, <1>2, <1>6, <2>1
  <2> QED
    BY <1>3, <1>5, <2>1, <2>2, <2>3, <2>4, <2>5 DEF LodgementBacked
<1>7. CASE tx.to = "ai_further_submission"
  <2>1. /\ row'.submitted_at = row.submitted_at
        /\ row'.lodgment_reference_number = row.lodgment_reference_number
        /\ row'.resubmitted_at = tx.at
        /\ row'.resubmission_count = row.resubmission_count + 1
    BY <1>1, <1>2, <1>7, LodgedColumns DEF LodgementInv
  <2>2. LodgementStamped'
    BY <1>1, <1>3, <1>4, <1>7, <2>1
    DEF LodgementInv, LodgementStamped, LodgedStatuses, POST_LODGEMENT_STATUSES
  <2>3. Rounds' <= Len(vgMail')
    BY <1>1, <1>2, <1>3, <1>7, <2>1 DEF Rounds
  <2>4. \E i \in DOMAIN vgMail' :
          vgMail'[i] = [kind |-> "objection_submitted",
                        reference |-> row'.lodgment_reference_number]
    BY <1>1, <1>2, <1>7, <2>1 DEF LodgementInv, LodgementBacked
  <2> QED
    BY <1>1, <1>3, <1>5, <1>7, <2>1, <2>2, <2>3, <2>4 DEF LodgementBacked
<1> QED
  BY <1>1, <1>6, <1>7 DEF AWAITING_VG_RESPONSE_STATUSES

\* A rollback keeps it: a letter already sent only makes the VG hold more.
LEMMA RollBackKeeps ==
  ASSUME LodgementInv, RollBackLodgement
  PROVE  LodgementHolds' /\ LodgementStamped' /\ LodgementBacked'
         /\ row'.resubmission_count <= MaxFurtherSubmissions
BY DEF LodgementInv, RollBackLodgement, LodgementHolds, LodgementStamped, LodgementBacked,
   Rounds, IdleTx, caseVars, logVars

\* The lodgement invariant holds of a new case.
LEMMA InitLodgement == Init => LodgementInv
<1> SUFFICES ASSUME Init PROVE LodgementInv
  OBVIOUS
<1>1. /\ row.status = "created" /\ row.submitted_at = Null /\ row.resubmitted_at = Null
      /\ row.resubmission_count = 0 /\ tx.stage = "idle" /\ Len(vgMail) = 0
  BY DEF Init, NewCase, IdleTx
<1> QED
  BY <1>1, InitTyped, LifecycleAssumption
  DEF LodgementInv, LodgementHolds, LodgementStamped, LodgementBacked, Rounds,
      LodgedStatuses, POST_LODGEMENT_STATUSES, CLOSED_STATUSES

\* The lodgement invariant is inductive.
LEMMA NextLodgement == LodgementInv /\ [Next]_vars => LodgementInv'
<1> SUFFICES ASSUME LodgementInv, [Next]_vars PROVE LodgementInv'
  OBVIOUS
<1>1. TypeOK'
  BY NextTyped DEF LodgementInv, TxAimed, LodgementHolds
<1> DEFINE Rest == /\ LodgementHolds' /\ LodgementStamped' /\ LodgementBacked'
                   /\ row'.resubmission_count <= MaxFurtherSubmissions
<1>2. ASSUME QuietStep PROVE Rest
  BY <1>2, QuietKeeps
<1>3. ASSUME LodgementStep PROVE Rest
  <2>1. ASSUME NEW minted \in References, OnObjectionSubmitted(minted) PROVE Rest
    <3> DEFINE reference == IF row.lodgment_reference_number = Null
                              THEN minted ELSE row.lodgment_reference_number
    <3>1. reference # Null
      BY LifecycleAssumption
    <3>2. "objection_submitted" \in AWAITING_VG_RESPONSE_STATUSES
      BY DEF AWAITING_VG_RESPONSE_STATUSES
    <3>3. row.submitted_at = Null /\ BeginLodgement("objection_submitted", reference)
      BY <2>1 DEF OnObjectionSubmitted
    <3> HIDE DEF reference
    <3> QED
      BY <3>1, <3>2, <3>3, BeginKeeps
  <2>2. ASSUME OnAiFurtherSubmission PROVE Rest
    <3>1. "ai_further_submission" \in AWAITING_VG_RESPONSE_STATUSES
      BY DEF AWAITING_VG_RESPONSE_STATUSES
    <3>2. row.status = "vg_response_received"
      BY <2>2, ManualSources, ColumnsTyped
      DEF OnAiFurtherSubmission, BeginLodgement, MayMove, LodgementInv, TypeOK
    <3>3. row.lodgment_reference_number # Null
      BY <3>2 DEF LodgementInv, LodgementStamped, LodgedStatuses, POST_LODGEMENT_STATUSES,
         CLOSED_STATUSES
    <3> QED
      BY <2>2, <3>1, <3>3, BeginKeeps DEF OnAiFurtherSubmission
  <2> QED
    BY <1>3, <2>1, <2>2, SendKeeps, CommitKeeps, RollBackKeeps DEF LodgementStep
<1>4. Rest
  BY <1>2, <1>3, ManualIsQuiet, OthersAreQuiet DEF Next, CaseStep, LodgementInv
<1> QED
  BY <1>1, <1>4 DEF LodgementInv

\* The lodgement invariant holds in every state, whatever the constants.
THEOREM LodgementInvariant == Spec => []LodgementInv
<1> QED
  BY InitLodgement, NextLodgement, PTL DEF Spec

\* Every reachable state has the types its columns and tables declare.
THEOREM TypeCorrect == Spec => []TypeOK
<1>1. LodgementInv => TypeOK
  BY DEF LodgementInv
<1> QED
  BY <1>1, LodgementInvariant, PTL

\* applyManual and its lodgement handlers: no other writer reaches the row under
\* an open lodgement.
THEOREM OpenLodgementHolds == Spec => []LodgementHolds
<1>1. LodgementInv => LodgementHolds
  BY DEF LodgementInv
<1> QED
  BY <1>1, LodgementInvariant, PTL

\* A lodged status always has its date and reference; no case is stranded
\* without an override.
THEOREM LodgedIsStamped == Spec => []LodgementStamped
<1>1. LodgementInv => LodgementStamped
  BY DEF LodgementInv
<1> QED
  BY <1>1, LodgementInvariant, PTL

\* The row never claims a round the VG was not sent.
THEOREM LodgedIsBacked == Spec => []LodgementBacked
<1>1. LodgementInv => LodgementBacked
  BY DEF LodgementInv
<1> QED
  BY <1>1, LodgementInvariant, PTL

-----------------------------------------------------------------------------
(* Steps of the real graph *)

\* A step that changes the status follows an edge of the real graph.
LEMMA NextIsLegal ==
  ASSUME LodgementInv, [Next]_vars, row'.status # row.status
  PROVE  LegalStep(row.status, row'.status)
<1>1. row \in DisputeCase /\ row.status \in DisputeStatuses
  BY ColumnsTyped DEF LodgementInv, TypeOK
<1>2. ASSUME NEW to \in DisputeStatuses, to \in ManualTransitionsFrom(row.status),
             row'.status = to
      PROVE  LegalStep(row.status, row'.status)
  BY <1>1, <1>2, ManualMoveIsLegal
<1>3. ASSUME ManualStep PROVE \E to \in ManualTransitionsFrom(row.status) : row'.status = to
  BY <1>1, <1>3 DEF ManualStep, OnTncAgreed, OnVgResponseReceived, OnVgAgreed, OnCaseClosed,
     OnAdvisoryClose, ClosedRow, MayMove, CommitMove, DisputeCase
<1>4. ASSUME LodgementStep PROVE \E to \in ManualTransitionsFrom(row.status) : row'.status = to
  <2>1. CommitLodgement
    BY <1>4 DEF LodgementStep, OnObjectionSubmitted, OnAiFurtherSubmission, BeginLodgement,
       SendVgLodgementEmail, RollBackLodgement, caseVars
  <2>2. tx.to \in AWAITING_VG_RESPONSE_STATUSES \cap ManualTransitionsFrom(row.status)
    BY <2>1 DEF CommitLodgement, LodgementInv, LodgementHolds
  <2>3. row'.status = tx.to
    BY <2>1, <2>2, LodgedColumns DEF CommitLodgement, CommitMove, LodgementInv
  <2> QED
    BY <2>2, <2>3
<1>5. ASSUME NEW to \in SystemTargets, Promote(to), row.status \in DominatorPredecessors[to]
      PROVE  LegalStep(row.status, row'.status)
  BY <1>1, <1>5 DEF Promote, LegalStep, DisputeCase
<1>6. ASSUME DocumentStep PROVE LegalStep(row.status, row'.status)
  <2>1. PromoteToReportsUploaded
    BY <1>6 DEF DocumentStep, StoreDocument, RetypeDocument, RemoveDocument, SkipPromotion,
       caseVars
  <2>2. row.status = "tnc_agreed" /\ Promote("reports_uploaded")
    BY <2>1 DEF PromoteToReportsUploaded, PromotionMatches
  <2>3. "tnc_agreed" \in DominatorPredecessors["reports_uploaded"]
    BY DEF DominatorPredecessors, DisputeStatuses, CanTransition, DISPUTE_STATUS_TRANSITIONS
  <2> QED
    BY <1>5, <2>2, <2>3 DEF SystemTargets
<1>7. ASSUME AnalysisStep PROVE LegalStep(row.status, row'.status)
  <2>1. MarkAnalysed
    BY <1>7 DEF AnalysisStep, AddComparable
  <2>2. row.status \in MARK_ANALYSED_SOURCE_STATUSES /\ Promote("analysed")
    BY <2>1 DEF MarkAnalysed, AnalysedMatches
  <2>3. MARK_ANALYSED_SOURCE_STATUSES \subseteq DominatorPredecessors["analysed"]
    BY DEF DominatorPredecessors, DisputeStatuses
  <2> QED
    BY <1>5, <2>2, <2>3 DEF SystemTargets
<1>8. ManualStep \/ LodgementStep \/ DocumentStep \/ AnalysisStep
  BY <1>1 DEF Next, CaseStep, RecordStep, RecordPromotion, LosePromotionRecord, RemoveCase,
     Tick, vars, caseVars, DisputeCase
<1> QED
  BY <1>1, <1>2, <1>3, <1>4, <1>6, <1>7, <1>8, ManualMoveIsLegal

\* No interleaving of requests, uploads and jobs moves a case off the graph.
THEOREM StepsAreLegal == Spec => OnlyLegalSteps
<1>1. LodgementInv /\ [Next]_vars
        => [row'.status # row.status => LegalStep(row.status, row'.status)]_vars
  BY NextIsLegal
<1> QED
  BY <1>1, LodgementInvariant, PTL DEF Spec, OnlyLegalSteps

-----------------------------------------------------------------------------
(* What a step does to the trail *)

\* A person's move: its status, its audit row and the history in one commit.
PersonMove(to) ==
  /\ to \in ManualTransitionsFrom(row.status)
  /\ CommitMove(to, row')
  /\ row'.status = to

\* A promotion moves the case and leaves its audit row for later.
SystemMove(to) ==
  /\ LegalStep(row.status, to)
  /\ row'.status = to
  /\ held' = held \cup {to}
  /\ UNCHANGED audit

\* The audit row of a promotion, or no row: the case stays where it is.
StandStill ==
  /\ row'.status = row.status
  /\ row'.advisory_view_token = row.advisory_view_token
  /\ UNCHANGED held
  /\ \/ UNCHANGED audit
     \/ \E r \in AuditRow : r.by = "system" /\ audit' = Append(audit, r)

\* A manual move that emails nobody at the VG is a person's move.
LEMMA ManualIsPersonMove ==
  ASSUME TypeOK, ManualStep
  PROVE  \E to \in {"tnc_agreed", "vg_response_received", "vg_agreed", "case_closed"} :
           PersonMove(to)
<1>1. row \in DisputeCase
  BY DEF TypeOK
<1>2. CASE OnTncAgreed
  BY <1>1, <1>2 DEF OnTncAgreed, MayMove, CommitMove, PersonMove, DisputeCase
<1>3. CASE OnVgResponseReceived
  BY <1>1, <1>3 DEF OnVgResponseReceived, MayMove, CommitMove, PersonMove, DisputeCase
<1>4. ASSUME NEW value, OnVgAgreed(value) PROVE PersonMove("vg_agreed")
  BY <1>1, <1>4 DEF OnVgAgreed, MayMove, CommitMove, PersonMove, DisputeCase
<1>5. ASSUME NEW outcome, OnCaseClosed(outcome) PROVE PersonMove("case_closed")
  BY <1>1, <1>5 DEF OnCaseClosed, ClosedRow, MayMove, CommitMove, PersonMove, DisputeCase
<1>6. ASSUME NEW outcome, NEW internal, NEW assessed, NEW email,
             OnAdvisoryClose(outcome, internal, assessed, email)
      PROVE  PersonMove("case_closed")
  BY <1>1, <1>6 DEF OnAdvisoryClose, ClosedRow, MayMove, CommitMove, PersonMove, DisputeCase
<1> QED
  BY <1>2, <1>3, <1>4, <1>5, <1>6 DEF ManualStep

\* The commit of a lodgement is one as well: the status it read is still the
\* case's.
LEMMA CommitIsPersonMove ==
  ASSUME LodgementInv, CommitLodgement
  PROVE  tx.to \in AWAITING_VG_RESPONSE_STATUSES /\ PersonMove(tx.to)
<1>1. tx.to \in AWAITING_VG_RESPONSE_STATUSES \cap ManualTransitionsFrom(row.status)
  BY DEF CommitLodgement, LodgementInv, LodgementHolds
<1> QED
  BY <1>1, LodgedColumns DEF CommitLodgement, CommitMove, PersonMove, LodgementInv

\* The opening, the letter and the rollback of a lodgement stand still.
LEMMA LodgementStandsStill ==
  ASSUME LodgementStep, ~CommitLodgement
  PROVE  StandStill /\ UNCHANGED << row, audit, letters >>
BY DEF LodgementStep, OnObjectionSubmitted, OnAiFurtherSubmission, BeginLodgement,
   SendVgLodgementEmail, RollBackLodgement, StandStill, caseVars, logVars, duties

\* The other steps promote the case, record a promotion or stand still.
LEMMA OthersPromote ==
  ASSUME TypeOK,
         DocumentStep \/ AnalysisStep \/ RecordStep \/ RemoveCase \/ Tick \/ UNCHANGED vars
  PROVE  /\ StandStill \/ \E to \in SystemTargets : SystemMove(to)
         /\ UNCHANGED letters
<1>1. row \in DisputeCase
  BY DEF TypeOK
<1>2. ASSUME PromoteToReportsUploaded PROVE SystemMove("reports_uploaded")
  BY <1>1, <1>2 DEF PromoteToReportsUploaded, PromotionMatches, Promote, SystemMove,
     DisputeCase, LegalStep, DominatorPredecessors, DisputeStatuses, CanTransition,
     DISPUTE_STATUS_TRANSITIONS
<1>3. ASSUME MarkAnalysed PROVE SystemMove("analysed")
  BY <1>1, <1>3 DEF MarkAnalysed, AnalysedMatches, Promote, SystemMove, DisputeCase,
     LegalStep, DominatorPredecessors, DisputeStatuses
<1>4. ASSUME RecordStep PROVE StandStill
  <2>1. PICK to \in SystemTargets : RecordPromotion(to) \/ LosePromotionRecord(to)
    BY <1>4 DEF RecordStep
  <2>2. [by |-> "system", to |-> to,
         from |-> IF to = "reports_uploaded" THEN "tnc_agreed" ELSE Null] \in AuditRow
    BY DEF AuditRow, SystemTargets, DisputeStatuses
  <2> QED
    BY <2>1, <2>2 DEF RecordPromotion, LosePromotionRecord, StandStill, caseVars, logVars
<1>5. ASSUME RemoveCase \/ Tick \/ UNCHANGED vars PROVE StandStill
  BY <1>1, <1>5 DEF RemoveCase, Tick, StandStill, vars, caseVars, logVars, DisputeCase
<1>6. ASSUME DocumentStep, ~PromoteToReportsUploaded PROVE StandStill
  BY <1>6 DEF DocumentStep, StoreDocument, RetypeDocument, RemoveDocument, SkipPromotion,
     StandStill, caseVars, logVars
<1>7. ASSUME AddComparable PROVE StandStill
  BY <1>7 DEF AddComparable, StandStill, logVars
<1>8. UNCHANGED letters
  BY DEF DocumentStep, StoreDocument, RetypeDocument, RemoveDocument, SkipPromotion,
     PromoteToReportsUploaded, AnalysisStep, AddComparable, MarkAnalysed, RecordStep,
     RecordPromotion, LosePromotionRecord, RemoveCase, Tick, vars, duties
<1> QED
  BY <1>2, <1>3, <1>4, <1>5, <1>6, <1>7, <1>8 DEF AnalysisStep, SystemTargets

\* Every step is one of four: it moves the case by hand, commits a lodgement,
\* promotes the case, or leaves it where it is.
LEMMA StepKinds ==
  ASSUME LodgementInv, [Next]_vars
  PROVE  \/ /\ QuietStep
            /\ \E to \in MANUAL_TRANSITION_TARGETS \ AWAITING_VG_RESPONSE_STATUSES :
                 PersonMove(to)
         \/ CommitLodgement
         \/ QuietStep /\ \E to \in SystemTargets : SystemMove(to)
         \/ /\ StandStill
            /\ UNCHANGED letters
            /\ row'.submitted_at = row.submitted_at
            /\ row'.resubmission_count = row.resubmission_count
<1>1. TypeOK
  BY DEF LodgementInv
<1>2. CASE ManualStep
  BY <1>1, <1>2, ManualIsQuiet, ManualIsPersonMove
  DEF MANUAL_TRANSITION_TARGETS, AWAITING_VG_RESPONSE_STATUSES
<1>3. CASE LodgementStep
  BY <1>3, LodgementStandsStill
<1>4. CASE DocumentStep \/ AnalysisStep \/ RecordStep \/ RemoveCase \/ Tick \/ UNCHANGED vars
  BY <1>1, <1>4, OthersAreQuiet, OthersPromote DEF QuietStep
<1> QED
  BY <1>2, <1>3, <1>4 DEF Next, CaseStep

-----------------------------------------------------------------------------
(* What a status implies *)

\* Along an edge of the real graph a case comes to imply the new status and
\* nothing else it did not imply before.
LEMMA DominatorsGrowByOne ==
  ASSUME NEW s \in DisputeStatuses, NEW t \in DisputeStatuses, LegalStep(s, t)
  PROVE  StatusesImpliedBy(t) \subseteq StatusesImpliedBy(s) \cup {t}
<1>1. s \in {f \in DisputeStatuses : t \in DISPUTE_STATUS_TRANSITIONS[f]}
           \cup (IF t = "analysed" THEN MARK_ANALYSED_SOURCE_STATUSES ELSE {})
  BY DEF LegalStep, DominatorPredecessors, CanTransition
<1>2. CASE t \in {"created", "tnc_agreed", "reports_uploaded", "analysed"}
  BY <1>1, <1>2 DEF DisputeStatuses, DISPUTE_STATUS_TRANSITIONS,
     MARK_ANALYSED_SOURCE_STATUSES, StatusesImpliedBy, STATUS_DOMINATORS
<1>3. CASE t \in {"objection_submitted", "ai_further_submission", "vg_agreed"}
  BY <1>1, <1>3 DEF DisputeStatuses, DISPUTE_STATUS_TRANSITIONS, StatusesImpliedBy,
     STATUS_DOMINATORS
<1>4. CASE t = "vg_response_received"
  BY <1>1, <1>4 DEF DisputeStatuses, DISPUTE_STATUS_TRANSITIONS, StatusesImpliedBy,
     STATUS_DOMINATORS
<1>5. CASE t = "case_closed"
  BY <1>1, <1>5 DEF DisputeStatuses, StatusesImpliedBy, STATUS_DOMINATORS
<1> QED
  BY <1>2, <1>3, <1>4, <1>5 DEF DisputeStatuses

\* A step that moves the case adds its new status to those it has held.
LEMMA MoveIsHeld ==
  ASSUME LodgementInv, [Next]_vars
  PROVE  \/ row'.status = row.status /\ held' = held
         \/ held' = held \cup {row'.status}
<1>1. ASSUME NEW to, PersonMove(to) PROVE held' = held \cup {row'.status}
  BY <1>1 DEF PersonMove, CommitMove
<1>2. ASSUME NEW to, SystemMove(to) PROVE held' = held \cup {row'.status}
  BY <1>2 DEF SystemMove
<1> QED
  BY <1>1, <1>2, StepKinds, CommitIsPersonMove DEF StandStill

\* Every status a step leads to implies only what the case has held.
LEMMA NextImplied == LodgementInv /\ ImpliedWasHeld /\ [Next]_vars => ImpliedWasHeld'
<1> SUFFICES ASSUME LodgementInv, ImpliedWasHeld, [Next]_vars PROVE ImpliedWasHeld'
  OBVIOUS
<1>1. row.status \in DisputeStatuses /\ row'.status \in DisputeStatuses
  BY NextLodgement, ColumnsTyped DEF LodgementInv, TypeOK, DisputeCase
<1>2. CASE row'.status = row.status
  BY <1>2, MoveIsHeld DEF ImpliedWasHeld, StatusesImpliedBy
<1>3. CASE row'.status # row.status
  <2>1. StatusesImpliedBy(row'.status)
          \subseteq StatusesImpliedBy(row.status) \cup {row'.status}
    BY <1>1, <1>3, NextIsLegal, DominatorsGrowByOne
  <2> QED
    BY <1>3, <2>1, MoveIsHeld DEF ImpliedWasHeld, StatusesImpliedBy
<1> QED
  BY <1>2, <1>3

\* The timeline ticks nothing that did not happen: whatever order requests, jobs
\* and failures come in, a case has held every status its own implies.
THEOREM ImpliedStatusesHeld == Spec => []ImpliedWasHeld
<1>1. Init => ImpliedWasHeld
  BY DEF Init, NewCase, ImpliedWasHeld, StatusesImpliedBy, STATUS_DOMINATORS
<1> QED
  BY <1>1, NextImplied, LodgementInvariant, PTL DEF Spec

-----------------------------------------------------------------------------
(* What the trail accounts for *)

\* The rows of the trail a person wrote are finitely many positions of it.
LEMMA PersonRowsFinite ==
  ASSUME audit \in Seq(AuditRow), NEW to
  PROVE  /\ PersonRows(to) \subseteq 1..Len(audit)
         /\ IsFiniteSet(PersonRows(to))
         /\ Cardinality(PersonRows(to)) \in Nat
<1>1. Len(audit) \in Nat /\ DOMAIN audit = 1..Len(audit)
  OBVIOUS
<1>2. PersonRows(to) \subseteq 1..Len(audit)
  BY <1>1 DEF PersonRows
<1>3. IsFiniteSet(1..Len(audit))
  BY <1>1, FS_Interval
<1> QED
  BY <1>2, <1>3, FS_Subset, FS_CardinalityType

\* A new row of the trail joins those of its own target, when a person wrote it.
LEMMA AppendedRow ==
  ASSUME audit \in Seq(AuditRow), NEW r \in AuditRow, audit' = Append(audit, r), NEW to
  PROVE  /\ Len(audit') = Len(audit) + 1
         /\ \A i \in DOMAIN audit : i \in DOMAIN audit' /\ audit'[i] = audit[i]
         /\ audit'[Len(audit) + 1] = r
         /\ PersonRows(to)' = IF r.by = "person" /\ r.to = to
                              THEN PersonRows(to) \cup {Len(audit) + 1}
                              ELSE PersonRows(to)
<1>1. /\ Len(audit) \in Nat /\ Len(audit') = Len(audit) + 1
      /\ DOMAIN audit = 1..Len(audit) /\ DOMAIN audit' = 1..(Len(audit) + 1)
      /\ audit'[Len(audit) + 1] = r
      /\ \A i \in 1..Len(audit) : audit'[i] = audit[i]
  OBVIOUS
<1> QED
  BY <1>1 DEF PersonRows

\* So a person's move adds one row to those of its target and to no other.
LEMMA MovedRows ==
  ASSUME TypeOK, NEW to, PersonMove(to), NEW s
  PROVE  /\ PersonRows(s)' = IF s = to THEN PersonRows(s) \cup {Len(audit) + 1}
                                       ELSE PersonRows(s)
         /\ to \in MANUAL_TRANSITION_TARGETS
         /\ Len(audit') = Len(audit) + 1
         /\ \A i \in DOMAIN audit : i \in DOMAIN audit' /\ audit'[i] = audit[i]
         /\ audit'[Len(audit) + 1] = [by |-> "person", from |-> row.status, to |-> to]
<1>1. row.status \in DisputeStatuses
  BY ColumnsTyped DEF TypeOK
<1>2. to \in MANUAL_TRANSITION_TARGETS
  BY DEF PersonMove, ManualTransitionsFrom
<1> DEFINE r == [by |-> "person", from |-> row.status, to |-> to]
<1>3. r \in AuditRow /\ r.by = "person" /\ r.to = to
  BY <1>1, <1>2 DEF AuditRow, MANUAL_TRANSITION_TARGETS, DisputeStatuses
<1>4. audit' = Append(audit, r) /\ audit \in Seq(AuditRow)
  BY DEF PersonMove, CommitMove, TypeOK
<1> HIDE DEF r
<1>5. /\ PersonRows(s)' = IF s = to THEN PersonRows(s) \cup {Len(audit) + 1}
                                    ELSE PersonRows(s)
      /\ Len(audit') = Len(audit) + 1
      /\ \A i \in DOMAIN audit : i \in DOMAIN audit' /\ audit'[i] = audit[i]
      /\ audit'[Len(audit) + 1] = r
  BY <1>3, <1>4, AppendedRow
<1> QED
  BY <1>2, <1>5 DEF r

\* A step that stands still writes no row for a person.
LEMMA StillRows ==
  ASSUME TypeOK, StandStill \/ UNCHANGED audit, NEW s
  PROVE  /\ PersonRows(s)' = PersonRows(s)
         /\ \A i \in DOMAIN audit : i \in DOMAIN audit' /\ audit'[i] = audit[i]
         /\ \A i \in DOMAIN audit' \ DOMAIN audit : audit'[i].by # "person"
<1>1. CASE UNCHANGED audit
  BY <1>1 DEF PersonRows
<1>2. ASSUME NEW r \in AuditRow, r.by = "system", audit' = Append(audit, r)
      PROVE  /\ PersonRows(s)' = PersonRows(s)
             /\ \A i \in DOMAIN audit : i \in DOMAIN audit' /\ audit'[i] = audit[i]
             /\ \A i \in DOMAIN audit' \ DOMAIN audit : audit'[i].by # "person"
  <2>1. audit \in Seq(AuditRow)
    BY DEF TypeOK
  <2>2. /\ DOMAIN audit' \ DOMAIN audit = {Len(audit) + 1}
    BY <1>2, <2>1
  <2> QED
    BY <1>2, <2>1, <2>2, AppendedRow
<1> QED
  BY <1>1, <1>2 DEF StandStill

\* A person's move leaves its row behind as the last one a person wrote.
LEMMA PersonMoveAccounts ==
  ASSUME TypeOK, AuditAccounts, NEW to, PersonMove(to)
  PROVE  AuditAccounts'
<1>1. /\ \A s : PersonRows(s)' = IF s = to THEN PersonRows(s) \cup {Len(audit) + 1}
                                           ELSE PersonRows(s)
      /\ Len(audit') = Len(audit) + 1
  BY MovedRows
<1>0. Len(audit) \in Nat
  BY DEF TypeOK
<1>2. held' = held \cup {to} /\ row'.status = to
  BY DEF PersonMove, CommitMove
<1>3. \A s \in held' \cap MANUAL_TRANSITION_TARGETS : PersonRows(s)' # {}
  BY <1>1, <1>2 DEF AuditAccounts
<1>4. \A j \in Len(audit) + 2 .. Len(audit') : audit'[j].by # "person"
  BY <1>0, <1>1
<1>5. Len(audit) + 1 \in PersonRows(row.status)'
  BY <1>1, <1>2 DEF PersonRows
<1> QED
  BY <1>0, <1>3, <1>4, <1>5 DEF AuditAccounts

\* A promotion leads to a status no person sets.
LEMMA SystemMoveAccounts ==
  ASSUME TypeOK, AuditAccounts, NEW to \in SystemTargets, SystemMove(to)
  PROVE  AuditAccounts'
<1>1. to \notin MANUAL_TRANSITION_TARGETS
  BY DEF SystemTargets, MANUAL_TRANSITION_TARGETS
<1>2. held' = held \cup {to} /\ row'.status = to /\ audit' = audit
  BY DEF SystemMove
<1>3. \A s : PersonRows(s)' = PersonRows(s)
  BY <1>2, StillRows
<1> QED
  BY <1>1, <1>2, <1>3 DEF AuditAccounts

\* Where the case stands still, the last row of a person stays the last.
LEMMA StandStillAccounts ==
  ASSUME TypeOK, AuditAccounts, StandStill
  PROVE  AuditAccounts'
<1>1. /\ \A s : PersonRows(s)' = PersonRows(s)
      /\ \A i \in DOMAIN audit : i \in DOMAIN audit' /\ audit'[i] = audit[i]
      /\ \A i \in DOMAIN audit' \ DOMAIN audit : audit'[i].by # "person"
  BY StillRows
<1>2. audit \in Seq(AuditRow) /\ audit' \in Seq(AuditRow)
  <2>1. audit \in Seq(AuditRow)
    BY DEF TypeOK
  <2> QED
    BY <2>1 DEF StandStill
<1>3. held' = held /\ row'.status = row.status
  BY DEF StandStill
<1>4. ASSUME row.status \in MANUAL_TRANSITION_TARGETS
      PROVE  \E i \in PersonRows(row.status)' :
               \A j \in i + 1 .. Len(audit') : audit'[j].by # "person"
  <2>1. PICK i \in PersonRows(row.status) :
          \A j \in i + 1 .. Len(audit) : audit[j].by # "person"
    BY <1>4 DEF AuditAccounts
  <2>2. i \in PersonRows(row.status)' /\ i \in Nat
    BY <1>1, <1>2, <1>3, <2>1 DEF PersonRows
  <2>3. ASSUME NEW j \in i + 1 .. Len(audit') PROVE audit'[j].by # "person"
    <3>1. j \in DOMAIN audit'
      BY <1>2, <2>2, <2>3
    <3>2. CASE j \in DOMAIN audit
      BY <1>1, <1>2, <2>1, <2>2, <3>2
    <3> QED
      BY <1>1, <3>1, <3>2
  <2> QED
    BY <2>2, <2>3
<1>5. \A s \in held' \cap MANUAL_TRANSITION_TARGETS : PersonRows(s)' # {}
  BY <1>1, <1>3 DEF AuditAccounts
<1> QED
  BY <1>3, <1>4, <1>5 DEF AuditAccounts

\* Every step keeps the trail and the case in agreement.
LEMMA NextAccounts == LodgementInv /\ AuditAccounts /\ [Next]_vars => AuditAccounts'
<1> SUFFICES ASSUME LodgementInv, AuditAccounts, [Next]_vars PROVE AuditAccounts'
  OBVIOUS
<1>1. TypeOK
  BY DEF LodgementInv
<1> QED
  BY <1>1, StepKinds, CommitIsPersonMove, PersonMoveAccounts, SystemMoveAccounts,
     StandStillAccounts

\* The trail accounts for every manual move, whatever commits and promotions
\* come between them and whenever the promotions' own rows are written.
THEOREM TrailAccounts == Spec => []AuditAccounts
<1>1. Init => AuditAccounts
  BY DEF Init, NewCase, AuditAccounts, MANUAL_TRANSITION_TARGETS
<1> QED
  BY <1>1, NextAccounts, LodgementInvariant, PTL DEF Spec

-----------------------------------------------------------------------------
(* The rounds the trail shows *)

\* A case shows a first lodgement exactly when it has a lodgement date.
RoundsInv ==
  /\ RoundsCounted
  /\ row.submitted_at = Null => PersonRows("objection_submitted") = {}

\* A step that adds no row of a lodgement and leaves its columns keeps the count.
LEMMA SameRounds ==
  ASSUME RoundsInv,
         row'.submitted_at = row.submitted_at,
         row'.resubmission_count = row.resubmission_count,
         \A s \in AWAITING_VG_RESPONSE_STATUSES : PersonRows(s)' = PersonRows(s)
  PROVE  RoundsInv'
BY DEF RoundsInv, RoundsCounted, AWAITING_VG_RESPONSE_STATUSES

\* The commit of a lodgement adds its row and counts its round together.
LEMMA CommitRounds ==
  ASSUME LodgementInv, RoundsInv, CommitLodgement
  PROVE  RoundsInv'
<1>1. TypeOK /\ audit \in Seq(AuditRow) /\ row.resubmission_count \in Nat
  BY ColumnsTyped DEF LodgementInv, TypeOK
<1>2. /\ tx.to \in AWAITING_VG_RESPONSE_STATUSES
      /\ tx.at # Null
      /\ tx.to = "objection_submitted" => row.submitted_at = Null
      /\ tx.to = "ai_further_submission" =>
           row.submitted_at # Null /\ row.resubmission_count < MaxFurtherSubmissions
  BY DEF LodgementInv, LodgementHolds, CommitLodgement
<1>3. row' = LodgedRow /\ PersonMove(tx.to)
  BY CommitIsPersonMove DEF CommitLodgement, CommitMove
<1>4. \A s : PersonRows(s)' = IF s = tx.to THEN PersonRows(s) \cup {Len(audit) + 1}
                                           ELSE PersonRows(s)
  BY <1>1, <1>3, MovedRows
<1>5. \A s : /\ IsFiniteSet(PersonRows(s)) /\ Len(audit) + 1 \notin PersonRows(s)
             /\ Cardinality(PersonRows(s)) \in Nat
  BY <1>1, PersonRowsFinite
<1>6. \A s : Cardinality(PersonRows(s) \cup {Len(audit) + 1})
               = Cardinality(PersonRows(s)) + 1
  BY <1>5, FS_AddElement
<1>7. CASE tx.to = "objection_submitted"
  <2>1. row'.submitted_at # Null /\ row'.resubmission_count = row.resubmission_count
    BY <1>1, <1>2, <1>3, <1>7, LodgedColumns
  <2>2. Cardinality(PersonRows("objection_submitted")) = 0
    BY <1>2, <1>7, FS_EmptySet DEF RoundsInv
  <2>3. Cardinality(PersonRows("objection_submitted")') = 1
    BY <1>4, <1>6, <1>7, <2>2
  <2>4. PersonRows("ai_further_submission")' = PersonRows("ai_further_submission")
    BY <1>4, <1>7
  <2> QED
    BY <2>1, <2>3, <2>4 DEF RoundsInv, RoundsCounted
<1>8. CASE tx.to = "ai_further_submission"
  <2>1. /\ row'.submitted_at # Null
        /\ row'.resubmission_count = row.resubmission_count + 1
    BY <1>1, <1>2, <1>3, <1>8, LodgedColumns
  <2>2. Cardinality(PersonRows("ai_further_submission")') = row.resubmission_count + 1
    BY <1>4, <1>6, <1>8 DEF RoundsInv, RoundsCounted
  <2>3. PersonRows("objection_submitted")' = PersonRows("objection_submitted")
    BY <1>4, <1>8
  <2>4. row.resubmission_count + 1 <= MaxFurtherSubmissions
    BY <1>1, <1>2, <1>8, LifecycleAssumption
  <2> QED
    BY <2>1, <2>2, <2>3, <2>4 DEF RoundsInv, RoundsCounted
<1> QED
  BY <1>2, <1>7, <1>8 DEF AWAITING_VG_RESPONSE_STATUSES

\* Every step keeps the rounds of the case and of the trail equal.
LEMMA NextRounds == LodgementInv /\ RoundsInv /\ [Next]_vars => RoundsInv'
<1> SUFFICES ASSUME LodgementInv, RoundsInv, [Next]_vars PROVE RoundsInv'
  OBVIOUS
<1>1. TypeOK
  BY DEF LodgementInv
<1>2. ASSUME QuietStep,
             NEW to \in MANUAL_TRANSITION_TARGETS \ AWAITING_VG_RESPONSE_STATUSES,
             PersonMove(to)
      PROVE  RoundsInv'
  BY <1>1, <1>2, MovedRows, SameRounds DEF QuietStep
<1>3. ASSUME QuietStep, NEW to \in SystemTargets, SystemMove(to) PROVE RoundsInv'
  BY <1>1, <1>3, StillRows, SameRounds DEF QuietStep, SystemMove
<1>4. ASSUME StandStill, row'.submitted_at = row.submitted_at,
             row'.resubmission_count = row.resubmission_count
      PROVE  RoundsInv'
  BY <1>1, <1>4, StillRows, SameRounds
<1> QED
  BY <1>2, <1>3, <1>4, StepKinds, CommitRounds

\* One first lodgement at the most, and as many further submissions as counted,
\* never more than the limit, whatever fails between the letter and the commit.
THEOREM RoundsAreCounted == Spec => []RoundsCounted
<1>1. Init => RoundsInv
  BY FS_EmptySet, LifecycleAssumption
  DEF Init, NewCase, RoundsInv, RoundsCounted, PersonRows
<1>2. RoundsInv => RoundsCounted
  BY DEF RoundsInv
<1> QED
  BY <1>1, <1>2, NextRounds, LodgementInvariant, PTL DEF Spec

-----------------------------------------------------------------------------
(* Letters to the client *)

\* A letter is only ever written on the way out, so a case still in dealings
\* has none, and one that was closed with an advisory letter gets no second.
LettersInv ==
  /\ ClientLetters
  /\ letters # {} => row.status \in {"vg_agreed", "case_closed"}

\* Which moves queue letters, and which.
LEMMA LetterKinds ==
  ASSUME TypeOK, ManualStep
  PROVE  \/ UNCHANGED letters
         \/ \E to \in {"vg_agreed", "case_closed"}, kinds \in SUBSET {"approved", "declined"} :
              /\ PersonMove(to) /\ Queue(kinds)
              /\ row.status \in POST_LODGEMENT_STATUSES
         \/ /\ PersonMove("case_closed") /\ Queue({"advisory"})
            /\ row.status \notin POST_LODGEMENT_STATUSES
            /\ row'.advisory_view_token
<1>1. row \in DisputeCase /\ row.status \in DisputeStatuses
  BY ColumnsTyped DEF TypeOK
<1>2. ASSUME NEW outcome PROVE OutcomeLetter(outcome) \in SUBSET {"approved", "declined"}
  BY DEF OutcomeLetter
<1>3. ASSUME NEW value, OnVgAgreed(value)
      PROVE  /\ PersonMove("vg_agreed") /\ Queue(OutcomeLetter("upheld"))
             /\ row.status \in POST_LODGEMENT_STATUSES
  <2>1. row.status = "vg_response_received"
    BY <1>1, <1>3, ManualSources DEF OnVgAgreed, MayMove
  <2> QED
    BY <1>1, <1>3, <2>1 DEF OnVgAgreed, MayMove, CommitMove, PersonMove, DisputeCase,
       POST_LODGEMENT_STATUSES
<1>4. ASSUME NEW outcome, OnCaseClosed(outcome) PROVE PersonMove("case_closed")
  BY <1>1, <1>4 DEF OnCaseClosed, ClosedRow, MayMove, CommitMove, PersonMove, DisputeCase
<1>5. ASSUME NEW outcome, OnCaseClosed(outcome)
      PROVE  \/ UNCHANGED letters
             \/ Queue(OutcomeLetter(outcome)) /\ row.status \in POST_LODGEMENT_STATUSES
  BY <1>5 DEF OnCaseClosed
<1>6. ASSUME NEW outcome, NEW internal, NEW assessed, NEW email,
             OnAdvisoryClose(outcome, internal, assessed, email)
      PROVE  /\ PersonMove("case_closed") /\ Queue({"advisory"})
             /\ row.status \notin POST_LODGEMENT_STATUSES
             /\ row'.advisory_view_token
  BY <1>1, <1>6 DEF OnAdvisoryClose, ClosedRow, MayMove, CommitMove, PersonMove, DisputeCase
<1>7. CASE OnTncAgreed \/ OnVgResponseReceived
  BY <1>7 DEF OnTncAgreed, OnVgResponseReceived, duties
<1> QED
  BY <1>2, <1>3, <1>4, <1>5, <1>6, <1>7 DEF ManualStep

\* A case that is agreed or closed can only be closed, and a closed one stays.
LEMMA WayOut ==
  ASSUME LodgementInv, [Next]_vars, row.status \in {"vg_agreed", "case_closed"}
  PROVE  \/ row'.status = row.status
         \/ row.status = "vg_agreed" /\ row'.status = "case_closed"
<1>1. row'.status \in DisputeStatuses
  BY NextLodgement, ColumnsTyped DEF LodgementInv, TypeOK, DisputeCase
<1>2. ASSUME row'.status # row.status PROVE LegalStep(row.status, row'.status)
  BY <1>2, NextIsLegal
<1> QED
  BY <1>1, <1>2 DEF LegalStep, DominatorPredecessors, CanTransition, DisputeStatuses,
     DISPUTE_STATUS_TRANSITIONS, MARK_ANALYSED_SOURCE_STATUSES

\* The trail only grows: what a letter points at stays where it is.
LEMMA TrailGrows ==
  ASSUME LodgementInv, [Next]_vars
  PROVE  \A i \in DOMAIN audit : i \in DOMAIN audit' /\ audit'[i] = audit[i]
<1>1. TypeOK
  BY DEF LodgementInv
<1>2. ASSUME NEW to, PersonMove(to)
      PROVE  \A i \in DOMAIN audit : i \in DOMAIN audit' /\ audit'[i] = audit[i]
  BY <1>1, <1>2, MovedRows
<1>3. ASSUME StandStill \/ UNCHANGED audit
      PROVE  \A i \in DOMAIN audit : i \in DOMAIN audit' /\ audit'[i] = audit[i]
  BY <1>1, <1>3, StillRows
<1> QED
  BY <1>2, <1>3, StepKinds, CommitIsPersonMove DEF SystemMove

\* A closed case stands still.
LEMMA ClosedStays ==
  ASSUME LodgementInv, [Next]_vars, row.status = "case_closed"
  PROVE  StandStill /\ UNCHANGED letters
<1>1. ASSUME NEW to, PersonMove(to) PROVE FALSE
  BY <1>1 DEF PersonMove, ManualTransitionsFrom, DISPUTE_STATUS_TRANSITIONS
<1>2. ASSUME NEW to \in SystemTargets, SystemMove(to) PROVE FALSE
  BY <1>2 DEF SystemMove, SystemTargets, LegalStep, DominatorPredecessors, CanTransition,
     DisputeStatuses, DISPUTE_STATUS_TRANSITIONS, MARK_ANALYSED_SOURCE_STATUSES
<1>3. ~CommitLodgement
  BY <1>1, CommitIsPersonMove
<1> QED
  BY <1>1, <1>2, <1>3, StepKinds

\* The row of a case the VG has been lodged with stands on a letter to it.
LEMMA LodgedHasMail ==
  ASSUME LodgementInv, row.submitted_at # Null
  PROVE  vgMail # << >>
<1>1. PICK i \in DOMAIN vgMail :
        vgMail[i] = [kind |-> "objection_submitted",
                     reference |-> row.lodgment_reference_number]
  BY DEF LodgementInv, LodgementBacked
<1> QED
  BY <1>1

\* A step that writes no letter keeps those there are in agreement.
LEMMA NoLetterKeeps ==
  ASSUME LodgementInv, LettersInv, [Next]_vars, UNCHANGED letters
  PROVE  LettersInv'
<1>1. CASE letters = {}
  BY <1>1 DEF LettersInv, ClientLetters
<1>2. CASE letters # {}
  <2>1. row.status \in {"vg_agreed", "case_closed"}
    BY <1>2 DEF LettersInv
  <2>2. row'.status \in {"vg_agreed", "case_closed"}
    BY <2>1, WayOut
  <2>3. ~CommitLodgement
    <3>1. ASSUME CommitLodgement PROVE row'.status \in AWAITING_VG_RESPONSE_STATUSES
      BY <3>1, CommitIsPersonMove DEF PersonMove
    <3> QED
      BY <2>2, <3>1 DEF AWAITING_VG_RESPONSE_STATUSES
  <2>4. row'.submitted_at = row.submitted_at
    BY <2>3, StepKinds DEF QuietStep
  <2>5. row'.submitted_at # Null => vgMail' # << >>
    <3>1. LodgementBacked'
      BY NextLodgement DEF LodgementInv
    <3> QED
      BY <3>1 DEF LodgementBacked
  <2>6. row.status = "case_closed" =>
          row'.status = "case_closed" /\ row'.advisory_view_token = row.advisory_view_token
    BY ClosedStays DEF StandStill
  <2> QED
    BY <1>2, <2>2, <2>4, <2>5, <2>6, TrailGrows DEF LettersInv, ClientLetters
<1> QED
  BY <1>1, <1>2

\* The letters a person's move queues point at the row it writes.
LEMMA QueuedLetters ==
  ASSUME LodgementInv, LettersInv, NEW to \in {"vg_agreed", "case_closed"}, PersonMove(to),
         NEW kinds, Queue(kinds)
  PROVE  \A l \in letters' : /\ l.crossing \in DOMAIN audit'
                             /\ audit'[l.crossing].by = "person"
                             /\ audit'[l.crossing].to \in {"vg_agreed", "case_closed"}
<1>1. TypeOK /\ Len(audit) \in Nat
  BY DEF LodgementInv, TypeOK
<1>2. /\ Len(audit') = Len(audit) + 1
      /\ \A i \in DOMAIN audit : i \in DOMAIN audit' /\ audit'[i] = audit[i]
      /\ audit'[Len(audit) + 1] = [by |-> "person", from |-> row.status, to |-> to]
      /\ audit' \in Seq(AuditRow)
  <2>1. audit' = Append(audit, [by |-> "person", from |-> row.status, to |-> to])
    BY DEF PersonMove, CommitMove
  <2>2. [by |-> "person", from |-> row.status, to |-> to] \in AuditRow
    BY <1>1, ColumnsTyped DEF AuditRow, DisputeStatuses, TypeOK
  <2> QED
    BY <1>1, <2>1, <2>2, MovedRows DEF TypeOK
<1>3. Len(audit) + 1 \in DOMAIN audit'
  BY <1>1, <1>2
<1>4. ASSUME NEW l \in letters'
      PROVE  /\ l.crossing \in DOMAIN audit'
             /\ audit'[l.crossing].by = "person"
             /\ audit'[l.crossing].to \in {"vg_agreed", "case_closed"}
  <2>1. CASE l \in letters
    BY <1>2, <2>1 DEF LettersInv, ClientLetters
  <2>2. CASE l.crossing = Len(audit) + 1
    BY <1>2, <1>3, <2>2
  <2> QED
    BY <2>1, <2>2 DEF Queue
<1> QED
  BY <1>4

\* An outcome is told on the way out of a lodged case, which has no advisory
\* letter because that one closes its case.
LEMMA OutcomeKeeps ==
  ASSUME LodgementInv, LettersInv, [Next]_vars, QuietStep,
         NEW to \in {"vg_agreed", "case_closed"}, PersonMove(to),
         NEW kinds \in SUBSET {"approved", "declined"}, Queue(kinds),
         row.status \in POST_LODGEMENT_STATUSES
  PROVE  LettersInv'
<1>1. row.status # "case_closed"
  BY DEF PersonMove, ManualTransitionsFrom, DISPUTE_STATUS_TRANSITIONS
<1>2. row'.submitted_at # Null
  BY <1>1 DEF QuietStep, LodgementInv, LodgementStamped, LodgedStatuses, CLOSED_STATUSES
<1>3. vgMail' # << >>
  BY <1>2, LodgedHasMail DEF QuietStep
<1>4. \A l \in letters' : l.kind # "advisory"
  <2>1. \A l \in letters : l.kind # "advisory"
    BY <1>1 DEF LettersInv, ClientLetters
  <2> QED
    BY <2>1 DEF Queue
<1>5. row'.status \in {"vg_agreed", "case_closed"}
  BY DEF PersonMove
<1> QED
  BY <1>2, <1>3, <1>4, <1>5, QueuedLetters DEF LettersInv, ClientLetters

\* An advisory letter is the first of its case: before lodgement nobody has
\* been written to.
LEMMA AdvisoryKeeps ==
  ASSUME LodgementInv, LettersInv, [Next]_vars, QuietStep, PersonMove("case_closed"),
         Queue({"advisory"}), row.status \notin POST_LODGEMENT_STATUSES,
         row'.advisory_view_token
  PROVE  LettersInv'
<1>1. letters = {}
  BY DEF LettersInv, POST_LODGEMENT_STATUSES
<1>2. letters' = {[kind |-> "advisory", crossing |-> Len(audit) + 1]}
  BY <1>1 DEF Queue
<1>3. Cardinality(letters') = 1
  BY <1>2, FS_Singleton
<1>4. row'.submitted_at = Null
  BY DEF QuietStep, LodgementInv, LodgementStamped
<1>5. row'.status = "case_closed"
  BY DEF PersonMove
<1> QED
  BY <1>2, <1>3, <1>4, <1>5, QueuedLetters DEF LettersInv, ClientLetters

\* Every step keeps letters and trail together.
LEMMA NextLetters == LodgementInv /\ LettersInv /\ [Next]_vars => LettersInv'
<1> SUFFICES ASSUME LodgementInv, LettersInv, [Next]_vars PROVE LettersInv'
  OBVIOUS
<1>1. TypeOK
  BY DEF LodgementInv
<1>2. CASE ManualStep
  BY <1>1, <1>2, LetterKinds, ManualIsQuiet, NoLetterKeeps, OutcomeKeeps, AdvisoryKeeps
<1>3. CASE LodgementStep
  <2>1. UNCHANGED letters
    BY <1>3, LodgementStandsStill DEF CommitLodgement, duties
  <2> QED
    BY <2>1, NoLetterKeeps
<1>4. CASE DocumentStep \/ AnalysisStep \/ RecordStep \/ RemoveCase \/ Tick \/ UNCHANGED vars
  BY <1>1, <1>4, OthersPromote, NoLetterKeeps
<1> QED
  BY <1>2, <1>3, <1>4 DEF Next, CaseStep

\* No client is told of an outcome the VG was never asked for, and none is told
\* both that the VG's figure stands and something else: the letters queued
\* after a commit agree with the row and the trail for the rest of the case's
\* life, repeated closes and further rounds included.
THEOREM LettersAgree == Spec => []ClientLetters
<1>1. Init => LettersInv
  BY DEF Init, LettersInv, ClientLetters
<1>2. LettersInv => ClientLetters
  BY DEF LettersInv
<1> QED
  BY <1>1, <1>2, NextLetters, LodgementInvariant, PTL DEF Spec

-----------------------------------------------------------------------------
(* The lifecycle implements the protocol *)

\* Which abstract phase each group of statuses stands for.
LEMMA Phases ==
  /\ \A s \in AWAITING_VG_RESPONSE_STATUSES : PhaseOf(s) = "awaiting"
  /\ PhaseOf("vg_response_received") = "answered"
  /\ PhaseOf("vg_agreed") = "agreed"
  /\ PhaseOf("case_closed") = "closed"
  /\ \A s \in {"created", "tnc_agreed", "reports_uploaded", "analysed"} :
       PhaseOf(s) = "preparing"
  /\ \A s \in DisputeStatuses : PhaseOf(s) = "closed" => s = "case_closed"
BY DEF PhaseOf, AWAITING_VG_RESPONSE_STATUSES, DisputeStatuses

\* A new case is an objection in preparation.
LEMMA InitRefines == Init => Protocol!Init
<1> SUFFICES ASSUME Init PROVE Protocol!Init
  OBVIOUS
<1>1. row.status = "created" /\ Rounds = 0 /\ Len(vgMail) = 0
  BY DEF Init, NewCase, Rounds
<1> QED
  BY <1>1, Phases DEF Protocol!Init

\* A quiet step is the abstract move its statuses show.
LEMMA QuietRefines ==
  ASSUME LodgementInv, QuietStep,
         \/ PhaseOf(row'.status) = PhaseOf(row.status)
         \/ PhaseOf(row.status) = "awaiting" /\ PhaseOf(row'.status) = "answered"
         \/ PhaseOf(row.status) = "answered" /\ PhaseOf(row'.status) = "agreed"
         \/ PhaseOf(row.status) # "closed" /\ PhaseOf(row'.status) = "closed"
  PROVE  [Protocol!Next]_Protocol!vars
<1>1. Rounds' = Rounds /\ vgMail' = vgMail /\ PhaseOf(row.status)' = PhaseOf(row'.status)
  BY DEF QuietStep, Rounds, PhaseOf
<1> QED
  BY <1>1 DEF Protocol!Next, Protocol!Answer, Protocol!Agree, Protocol!Close, Protocol!vars

\* A manual move is an Answer, an Agree, a Close or a stutter of the protocol.
LEMMA ManualRefines ==
  ASSUME LodgementInv, ManualStep
  PROVE  [Protocol!Next]_Protocol!vars
<1>1. TypeOK /\ QuietStep /\ row \in DisputeCase /\ row.status \in DisputeStatuses
  BY ManualIsQuiet, ColumnsTyped DEF LodgementInv, TypeOK
<1>2. ASSUME OnTncAgreed
      PROVE  PhaseOf(row.status) = "preparing" /\ PhaseOf(row'.status) = "preparing"
  <2>1. row.status = "created" /\ row'.status = "tnc_agreed"
    BY <1>1, <1>2, ManualSources DEF OnTncAgreed, MayMove, CommitMove, DisputeCase
  <2> QED
    BY <2>1, Phases
<1>3. ASSUME OnVgResponseReceived
      PROVE  PhaseOf(row.status) = "awaiting" /\ PhaseOf(row'.status) = "answered"
  <2>1. row.status \in AWAITING_VG_RESPONSE_STATUSES /\ row'.status = "vg_response_received"
    BY <1>1, <1>3, ManualSources DEF OnVgResponseReceived, MayMove, CommitMove, DisputeCase
  <2> QED
    BY <2>1, Phases
<1>4. ASSUME NEW value, OnVgAgreed(value)
      PROVE  PhaseOf(row.status) = "answered" /\ PhaseOf(row'.status) = "agreed"
  <2>1. row.status = "vg_response_received" /\ row'.status = "vg_agreed"
    BY <1>1, <1>4, ManualSources DEF OnVgAgreed, MayMove, CommitMove, DisputeCase
  <2> QED
    BY <2>1, Phases
<1>5. ASSUME MayMove("case_closed"), row'.status = "case_closed"
      PROVE  PhaseOf(row.status) # "closed" /\ PhaseOf(row'.status) = "closed"
  <2>1. row.status # "case_closed"
    BY <1>1, <1>5, ManualSources DEF MayMove
  <2> QED
    BY <1>1, <1>5, <2>1, Phases
<1>6. ASSUME NEW outcome, OnCaseClosed(outcome)
      PROVE  MayMove("case_closed") /\ row'.status = "case_closed"
  BY <1>1, <1>6 DEF OnCaseClosed, CommitMove, ClosedRow, DisputeCase
<1>7. ASSUME NEW outcome, NEW internal, NEW assessed, NEW email,
             OnAdvisoryClose(outcome, internal, assessed, email)
      PROVE  MayMove("case_closed") /\ row'.status = "case_closed"
  BY <1>1, <1>7 DEF OnAdvisoryClose, CommitMove, ClosedRow, DisputeCase
<1> QED
  BY <1>1, <1>2, <1>3, <1>4, <1>5, <1>6, <1>7, QuietRefines DEF ManualStep

\* A promotion, a document, the clock and the audit trail are stutters of it.
LEMMA OthersRefine ==
  ASSUME LodgementInv,
         DocumentStep \/ AnalysisStep \/ RecordStep \/ RemoveCase \/ Tick \/ UNCHANGED vars
  PROVE  [Protocol!Next]_Protocol!vars
<1>1. TypeOK /\ QuietStep /\ row \in DisputeCase
  BY OthersAreQuiet DEF LodgementInv, TypeOK
<1>2. ASSUME row'.status # row.status PROVE PhaseOf(row'.status) = PhaseOf(row.status)
  <2>1. ASSUME NEW to \in SystemTargets, Promote(to) PROVE PhaseOf(row'.status) = "preparing"
    BY <1>1, <2>1, Phases DEF Promote, SystemTargets, DisputeCase
  <2>2. PromoteToReportsUploaded \/ MarkAnalysed
    BY <1>1, <1>2 DEF DocumentStep, StoreDocument, RetypeDocument, RemoveDocument,
       SkipPromotion, AnalysisStep, AddComparable, RecordStep, RecordPromotion,
       LosePromotionRecord, RemoveCase, Tick, vars, caseVars, DisputeCase
  <2>3. PhaseOf(row.status) = "preparing"
    BY <2>2, Phases DEF PromoteToReportsUploaded, PromotionMatches, MarkAnalysed,
       AnalysedMatches, MARK_ANALYSED_SOURCE_STATUSES
  <2> QED
    BY <2>1, <2>2, <2>3 DEF PromoteToReportsUploaded, MarkAnalysed, SystemTargets
<1> QED
  BY <1>1, <1>2, QuietRefines

\* The letter is a Post, the commit a Record, opening and rolling back a stutter.
LEMMA LodgementRefines ==
  ASSUME LodgementInv, LodgementStep
  PROVE  [Protocol!Next]_Protocol!vars
<1> USE LifecycleAssumption
<1>1. /\ row.status \in DisputeStatuses /\ row.resubmission_count \in Nat
      /\ Len(vgMail) \in Nat /\ TypeOK
  BY ColumnsTyped DEF LodgementInv, TypeOK
<1>2. ASSUME NEW to, NEW reference, BeginLodgement(to, reference)
      PROVE  UNCHANGED Protocol!vars
  BY <1>2 DEF BeginLodgement, caseVars, logVars, Protocol!vars, Rounds, PhaseOf
<1>3. ASSUME RollBackLodgement PROVE UNCHANGED Protocol!vars
  BY <1>3 DEF RollBackLodgement, caseVars, logVars, Protocol!vars, Rounds, PhaseOf
<1>4. ASSUME tx.stage # "idle"
      PROVE  /\ PhaseOf(row.status) \in {"preparing", "answered"}
             /\ PhaseOf(row.status) = "preparing" <=> Rounds = 0
             /\ Rounds <= MaxFurtherSubmissions
  <2>1. tx.to \in AWAITING_VG_RESPONSE_STATUSES \cap ManualTransitionsFrom(row.status)
    BY <1>4 DEF LodgementInv, LodgementHolds
  <2>2. CASE tx.to = "objection_submitted"
    BY <1>1, <1>4, <2>1, <2>2, ManualSources, Phases
    DEF LodgementInv, LodgementHolds, Rounds
  <2>3. CASE tx.to = "ai_further_submission"
    BY <1>1, <1>4, <2>1, <2>3, ManualSources, Phases
    DEF LodgementInv, LodgementHolds, Rounds
  <2> QED
    BY <2>1, <2>2, <2>3 DEF AWAITING_VG_RESPONSE_STATUSES
<1>5. ASSUME SendVgLodgementEmail PROVE Protocol!Post
  <2>1. UNCHANGED row /\ Len(vgMail') = Len(vgMail) + 1
    BY <1>1, <1>5 DEF SendVgLodgementEmail, caseVars, TypeOK
  <2> QED
    BY <1>4, <1>5, <2>1 DEF SendVgLodgementEmail, Protocol!Post, Rounds, PhaseOf
<1>6. ASSUME CommitLodgement PROVE Protocol!Record
  <2>1. /\ tx.to \in AWAITING_VG_RESPONSE_STATUSES
        /\ tx.at # Null
        /\ tx.to = "objection_submitted" => row.submitted_at = Null
        /\ tx.to = "ai_further_submission" => row.submitted_at # Null
        /\ Rounds < Len(vgMail)
    BY <1>6 DEF CommitLodgement, LodgementInv, LodgementHolds
  <2>2. row' = LodgedRow /\ vgMail' = vgMail
    BY <1>6 DEF CommitLodgement, CommitMove
  <2>3. PhaseOf(row'.status) = "awaiting"
    BY <1>1, <2>1, <2>2, LodgedColumns, Phases
  <2>4. Rounds' = Rounds + 1
    <3>1. CASE tx.to = "objection_submitted"
      BY <1>1, <2>1, <2>2, <3>1, LodgedColumns DEF Rounds, LodgementInv, LodgementStamped
    <3>2. CASE tx.to = "ai_further_submission"
      BY <1>1, <2>1, <2>2, <3>2, LodgedColumns DEF Rounds
    <3> QED
      BY <2>1, <3>1, <3>2 DEF AWAITING_VG_RESPONSE_STATUSES
  <2> QED
    BY <1>4, <1>6, <2>1, <2>2, <2>3, <2>4 DEF CommitLodgement, Protocol!Record, PhaseOf
<1> QED
  BY <1>2, <1>3, <1>5, <1>6 DEF LodgementStep, OnObjectionSubmitted, OnAiFurtherSubmission,
     Protocol!Next

\* The case lifecycle implements the lodgement protocol.
THEOREM LifecycleImplementsProtocol == Spec => ImplementsProtocol
<1>1. LodgementInv /\ [Next]_vars => [Protocol!Next]_Protocol!vars
  BY ManualRefines, OthersRefine, LodgementRefines DEF Next, CaseStep
<1> QED
  BY <1>1, InitRefines, LodgementInvariant, PTL DEF Spec, ImplementsProtocol, Protocol!Spec

=============================================================================
