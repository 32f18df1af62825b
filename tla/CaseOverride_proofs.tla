------------------------ MODULE CaseOverride_proofs ------------------------
(***************************************************************************)
(* What the lifecycle keeps when an admin forces statuses and saves of a   *)
(* stale entity put columns back, for any number of either.                *)
(***************************************************************************)
EXTENDS CaseOverride, CaseLifecycle_proofs

-----------------------------------------------------------------------------
(* The inductive invariant *)

LodgementRows ==
  PersonRows("objection_submitted") \cup PersonRows("ai_further_submission")

\* What an open lodgement can still rely on when others write the row without
\* looking: the override and the UPDATE of a save wait for its lock.
OpenTx ==
  tx.stage # "idle" =>
    /\ lock = "lodgement"
    /\ tx.to \in AWAITING_VG_RESPONSE_STATUSES \cap ManualTransitionsFrom(row.status)
    /\ tx.at # Null
    /\ tx.to = "objection_submitted" => row.submitted_at = Null
    /\ tx.stage = "save" => Cardinality(LodgementRows) < Len(vgMail)

\* A save holds the copy of a row as it was, or the columns it differs in.
SavesTyped ==
  /\ edit.stage \in {"idle", "read", "compared"}
  /\ edit.stage = "read" => edit.columns \in DisputeCase
  /\ edit.stage = "compared" =>
       \E copy \in DisputeCase : \E changed \in SUBSET DOMAIN copy :
         edit.columns = [c \in changed |-> copy[c]]
  /\ reverted \in Nat

\* LetterPerLodgement in these terms.
LettersCover == Cardinality(LodgementRows) <= Len(vgMail)

\* The first lodgements in the trail, less the one the row still shows, were
\* taken back by a save each.
Reverted ==
  Cardinality(PersonRows("objection_submitted"))
    <= (IF row.submitted_at = Null THEN 0 ELSE 1) + reverted

\* A status in the row or in a copy of it is one the row has held.
StatusesHeld ==
  /\ row.status \in held
  /\ edit.stage # "idle" /\ "status" \in DOMAIN edit.columns => edit.columns["status"] \in held

OverrideInv ==
  /\ TypeOK
  /\ OpenTx
  /\ SavesTyped
  /\ LettersCover
  /\ Reverted
  /\ StatusesHeld

-----------------------------------------------------------------------------
(* The rows of the trail *)

\* The lodgements of the trail are finitely many.
LEMMA LodgementRowsFinite ==
  ASSUME TypeOK
  PROVE  /\ LodgementRows \subseteq 1..Len(audit)
         /\ IsFiniteSet(LodgementRows) /\ Cardinality(LodgementRows) \in Nat
         /\ Len(audit) \in Nat /\ Len(vgMail) \in Nat
<1>1. audit \in Seq(AuditRow) /\ vgMail \in Seq(VgLetter)
  BY DEF TypeOK
<1>2. Len(audit) \in Nat /\ Len(vgMail) \in Nat
  BY <1>1
<1>3. LodgementRows \subseteq 1..Len(audit)
  BY <1>1, PersonRowsFinite DEF LodgementRows
<1>4. IsFiniteSet(1..Len(audit))
  BY <1>2, FS_Interval
<1>5. IsFiniteSet(LodgementRows)
  BY <1>3, <1>4, FS_Subset
<1> QED
  BY <1>2, <1>3, <1>5, FS_CardinalityType

\* A person's move adds its row to them when it is a lodgement.
LEMMA LodgementRowsMoved ==
  ASSUME TypeOK, NEW to, PersonMove(to)
  PROVE  /\ to \in AWAITING_VG_RESPONSE_STATUSES =>
              Cardinality(LodgementRows)' = Cardinality(LodgementRows) + 1
         /\ to \notin AWAITING_VG_RESPONSE_STATUSES => LodgementRows' = LodgementRows
         /\ to = "objection_submitted" =>
              Cardinality(PersonRows("objection_submitted"))'
                = Cardinality(PersonRows("objection_submitted")) + 1
         /\ to # "objection_submitted" =>
              PersonRows("objection_submitted")' = PersonRows("objection_submitted")
<1> DEFINE new == Len(audit) + 1
<1>1. /\ IsFiniteSet(LodgementRows) /\ new \notin LodgementRows
      /\ IsFiniteSet(PersonRows("objection_submitted"))
      /\ new \notin PersonRows("objection_submitted")
  BY LodgementRowsFinite, PersonRowsFinite DEF TypeOK
<1>2. \A s : PersonRows(s)' = IF s = to THEN PersonRows(s) \cup {new} ELSE PersonRows(s)
  BY MovedRows
<1>3. to \in AWAITING_VG_RESPONSE_STATUSES => LodgementRows' = LodgementRows \cup {new}
  BY <1>2 DEF LodgementRows, AWAITING_VG_RESPONSE_STATUSES
<1>4. to \notin AWAITING_VG_RESPONSE_STATUSES => LodgementRows' = LodgementRows
  BY <1>2 DEF LodgementRows, AWAITING_VG_RESPONSE_STATUSES
<1> QED
  BY <1>1, <1>2, <1>3, <1>4, FS_AddElement

\* The row of an override is nobody's lodgement, nor is that of a promotion.
LEMMA LodgementRowsStill ==
  ASSUME TypeOK,
         \/ UNCHANGED audit
         \/ \E r \in AuditRow : r.by # "person" /\ audit' = Append(audit, r)
  PROVE  /\ LodgementRows' = LodgementRows
         /\ PersonRows("objection_submitted")' = PersonRows("objection_submitted")
<1>1. CASE UNCHANGED audit
  BY <1>1 DEF LodgementRows, PersonRows
<1>2. ASSUME NEW r \in AuditRow, r.by # "person", audit' = Append(audit, r), NEW to
      PROVE  PersonRows(to)' = PersonRows(to)
  BY <1>2, AppendedRow DEF TypeOK
<1> QED
  BY <1>1, <1>2 DEF LodgementRows

-----------------------------------------------------------------------------
(* The steps *)

\* No save, override or letter at the start.
LEMMA InitOverride == OverrideInit => OverrideInv
<1> SUFFICES ASSUME OverrideInit PROVE OverrideInv
  OBVIOUS
<1>1. TypeOK
  BY InitTyped DEF OverrideInit
<1>2. /\ tx = IdleTx /\ edit = IdleEdit /\ reverted = 0 /\ row.status = "created"
      /\ audit = << >> /\ vgMail = << >> /\ held = {"created"}
  BY DEF OverrideInit, Init, NewCase
<1>3. LodgementRows = {} /\ PersonRows("objection_submitted") = {}
  BY <1>2 DEF LodgementRows, PersonRows
<1>4. LettersCover /\ Reverted
  <2>1. Cardinality(LodgementRows) = 0 /\ Cardinality(PersonRows("objection_submitted")) = 0
    BY <1>3, FS_EmptySet
  <2> QED
    BY <1>2, <2>1 DEF LettersCover, Reverted
<1> QED
  BY <1>1, <1>2, <1>4 DEF OverrideInv, OpenTx, SavesTyped, StatusesHeld, IdleTx, IdleEdit

\* What every step but a commit's and the letter's has in common.
Undisturbed ==
  /\ UNCHANGED vgMail
  /\ LodgementRows' = LodgementRows
  /\ PersonRows("objection_submitted")' = PersonRows("objection_submitted")
  /\ \/ reverted' = reverted /\ (row.submitted_at # Null => row'.submitted_at # Null)
     \/ reverted' = reverted + 1
  /\ reverted \in Nat
  /\ \/ UNCHANGED << tx, lock >> /\ (row' # row => lock = "free")
     \/ tx' = IdleTx

\* Such a step keeps the counts and what the open lodgement relies on.
LEMMA UndisturbedKeeps ==
  ASSUME OverrideInv, Undisturbed
  PROVE  OpenTx' /\ LettersCover' /\ Reverted'
<1>1. /\ Cardinality(PersonRows("objection_submitted")) \in Nat /\ Len(vgMail) \in Nat
      /\ Cardinality(LodgementRows) \in Nat
  BY PersonRowsFinite, LodgementRowsFinite DEF OverrideInv, TypeOK
<1>2. OpenTx'
  <2>1. CASE tx' = IdleTx
    BY <2>1 DEF OpenTx, IdleTx
  <2>2. CASE UNCHANGED << tx, lock >> /\ (row' # row => lock = "free")
    <3>1. tx.stage # "idle" => row' = row
      BY <2>2 DEF OverrideInv, OpenTx
    <3> QED
      BY <2>2, <3>1 DEF OverrideInv, OpenTx, Undisturbed
  <2> QED
    BY <2>1, <2>2 DEF Undisturbed
<1>3. LettersCover'
  BY DEF OverrideInv, LettersCover, Undisturbed
<1>4. Reverted'
  BY <1>1 DEF OverrideInv, Reverted, Undisturbed
<1> QED
  BY <1>2, <1>3, <1>4

\* A step of the lifecycle leaves the save alone and forgets no status.
LEMMA CaseKeepsSaves ==
  ASSUME OverrideInv, UNCHANGED overrideVars,
         held \subseteq held', row'.status \in held'
  PROVE  SavesTyped' /\ StatusesHeld'
<1>1. edit' = edit /\ reverted' = reverted
  BY DEF overrideVars
<1> QED
  BY <1>1 DEF OverrideInv, SavesTyped, StatusesHeld

\* The commit of a lodgement uses up one letter, and the first one the null
\* date it was opened on.
LEMMA CommitOverridden ==
  ASSUME OverrideInv, CommitLodgement, UNCHANGED overrideVars
  PROVE  OverrideInv' /\ LegalStep(row.status, row'.status)
<1>1. /\ tx.stage = "save"
      /\ tx.to \in AWAITING_VG_RESPONSE_STATUSES
      /\ tx.to \in ManualTransitionsFrom(row.status)
      /\ tx.at # Null
      /\ tx.to = "objection_submitted" => row.submitted_at = Null
      /\ Cardinality(LodgementRows) < Len(vgMail)
  BY DEF OverrideInv, OpenTx, CommitLodgement
<1>2. TypeOK /\ row \in DisputeCase /\ row.status \in DisputeStatuses
  BY ColumnsTyped DEF OverrideInv, TypeOK
<1>3. PersonMove(tx.to)
  BY <1>1, <1>2, LodgedColumns DEF CommitLodgement, CommitMove, PersonMove
<1>4. TypeOK'
  BY <1>1, <1>2, LodgementTyped DEF LodgementStep, TxAimed
<1>5. OpenTx'
  BY DEF CommitLodgement, OpenTx, IdleTx
<1>6. /\ Cardinality(LodgementRows)' = Cardinality(LodgementRows) + 1
      /\ vgMail' = vgMail /\ reverted' = reverted
      /\ Cardinality(LodgementRows) \in Nat /\ Len(vgMail) \in Nat
  BY <1>1, <1>2, <1>3, LodgementRowsMoved, LodgementRowsFinite
  DEF CommitLodgement, overrideVars
<1>7. LettersCover'
  BY <1>1, <1>6 DEF LettersCover
<1>8. Reverted'
  <2>1. Cardinality(PersonRows("objection_submitted")) \in Nat /\ reverted \in Nat
    BY <1>2, PersonRowsFinite DEF TypeOK, OverrideInv, SavesTyped
  <2>2. CASE tx.to = "objection_submitted"
    <3>1. row.submitted_at = Null /\ row'.submitted_at # Null
      BY <1>1, <1>2, <2>2, LodgedColumns DEF CommitLodgement, CommitMove
    <3>2. Cardinality(PersonRows("objection_submitted"))'
            = Cardinality(PersonRows("objection_submitted")) + 1
      BY <1>2, <1>3, <2>2, LodgementRowsMoved
    <3> QED
      BY <1>6, <2>1, <3>1, <3>2 DEF OverrideInv, Reverted
  <2>3. CASE tx.to # "objection_submitted"
    <3>1. row'.submitted_at = row.submitted_at
      BY <1>1, <1>2, <2>3, LodgedColumns DEF CommitLodgement, CommitMove
    <3>2. PersonRows("objection_submitted")' = PersonRows("objection_submitted")
      BY <1>2, <1>3, <2>3, LodgementRowsMoved
    <3> QED
      BY <1>6, <3>1, <3>2 DEF OverrideInv, Reverted
  <2> QED
    BY <2>2, <2>3
<1>9. held \subseteq held' /\ row'.status \in held'
  BY <1>3 DEF PersonMove, CommitMove
<1>10. LegalStep(row.status, row'.status)
  BY <1>1, <1>2, <1>3, ManualMoveIsLegal DEF PersonMove
<1> QED
  BY <1>4, <1>5, <1>7, <1>8, <1>9, <1>10, CaseKeepsSaves DEF OverrideInv

\* Every other step of the lifecycle.
LEMMA CaseOverridden ==
  ASSUME OverrideInv, CaseStep, UNCHANGED overrideVars
  PROVE  /\ OverrideInv'
         /\ row'.status # row.status => LegalStep(row.status, row'.status)
<1>1. TypeOK /\ TxAimed /\ row \in DisputeCase /\ row.status \in DisputeStatuses
  BY ColumnsTyped DEF OverrideInv, TypeOK, TxAimed, OpenTx
<1>2. TypeOK'
  BY <1>1, NextTyped DEF Next
<1>3. reverted' = reverted /\ reverted \in Nat
  BY DEF overrideVars, OverrideInv, SavesTyped
<1>4. CASE ManualStep
  <2>1. PICK to \in {"tnc_agreed", "vg_response_received", "vg_agreed", "case_closed"} :
          PersonMove(to)
    BY <1>1, <1>4, ManualIsPersonMove
  <2>2. to \notin AWAITING_VG_RESPONSE_STATUSES /\ to # "objection_submitted"
    BY DEF AWAITING_VG_RESPONSE_STATUSES
  <2>3. Undisturbed
    BY <1>1, <1>3, <1>4, <2>1, <2>2, ManualIsQuiet, LodgementRowsMoved
    DEF QuietStep, Undisturbed
  <2>4. held \subseteq held' /\ row'.status \in held'
    BY <2>1 DEF PersonMove, CommitMove
  <2>5. LegalStep(row.status, row'.status)
    BY <1>1, <2>1, ManualMoveIsLegal DEF PersonMove
  <2> QED
    BY <1>2, <2>3, <2>4, <2>5, UndisturbedKeeps, CaseKeepsSaves DEF OverrideInv
<1>5. CASE DocumentStep \/ AnalysisStep \/ RemoveCase
  <2>1. QuietStep /\ (StandStill \/ \E to \in SystemTargets : SystemMove(to))
    BY <1>1, <1>5, OthersAreQuiet, OthersPromote
  <2>2. Undisturbed
    <3>1. /\ LodgementRows' = LodgementRows
          /\ PersonRows("objection_submitted")' = PersonRows("objection_submitted")
      BY <1>1, <2>1, LodgementRowsStill DEF StandStill, SystemMove
    <3> QED
      BY <1>3, <2>1, <3>1 DEF QuietStep, Undisturbed
  <2>3. held \subseteq held' /\ row'.status \in held'
    BY <2>1 DEF StandStill, SystemMove, OverrideInv, StatusesHeld
  <2>4. row'.status # row.status => LegalStep(row.status, row'.status)
    BY <2>1 DEF StandStill, SystemMove
  <2> QED
    BY <1>2, <2>2, <2>3, <2>4, UndisturbedKeeps, CaseKeepsSaves DEF OverrideInv
<1>6. CASE LodgementStep /\ ~CommitLodgement
  <2>1. row' = row /\ audit' = audit /\ held' = held
    BY <1>6, LodgementStandsStill DEF StandStill
  <2>2. /\ LodgementRows' = LodgementRows
        /\ PersonRows("objection_submitted")' = PersonRows("objection_submitted")
    BY <2>1 DEF LodgementRows, PersonRows
  <2>3. SavesTyped' /\ StatusesHeld'
    BY <2>1, CaseKeepsSaves DEF OverrideInv, StatusesHeld
  <2>4. ASSUME NEW to \in AWAITING_VG_RESPONSE_STATUSES, NEW reference,
               BeginLodgement(to, reference),
               to = "objection_submitted" => row.submitted_at = Null
        PROVE  OpenTx' /\ LettersCover' /\ Reverted'
    <3>1. /\ tx' = [stage |-> "mail", to |-> to, reference |-> reference, at |-> now]
          /\ lock' = "lodgement" /\ vgMail' = vgMail
          /\ to \in ManualTransitionsFrom(row.status)
      BY <2>4 DEF BeginLodgement, MayMove, logVars
    <3>2. now # Null
      BY <1>1, LifecycleAssumption DEF TypeOK
    <3> QED
      BY <1>3, <2>1, <2>2, <2>4, <3>1, <3>2
      DEF OpenTx, OverrideInv, LettersCover, Reverted
  <2>5. ASSUME SendVgLodgementEmail PROVE OpenTx' /\ LettersCover' /\ Reverted'
    <3>1. /\ Len(vgMail') = Len(vgMail) + 1
          /\ Cardinality(LodgementRows) \in Nat /\ Len(vgMail) \in Nat
      BY <1>1, <2>5, LodgementRowsFinite DEF SendVgLodgementEmail, TypeOK
    <3>2. Cardinality(LodgementRows') < Len(vgMail')
      BY <2>2, <3>1 DEF OverrideInv, LettersCover
    <3>3. /\ tx.stage = "mail" /\ lock' = lock
          /\ tx'.to = tx.to /\ tx'.at = tx.at /\ tx'.stage = "save"
      BY <1>1, <2>5 DEF SendVgLodgementEmail, TypeOK, LodgementTx
    <3>4. OpenTx'
      BY <2>1, <3>2, <3>3 DEF OpenTx, OverrideInv
    <3>5. LettersCover'
      BY <2>2, <3>1, <3>2 DEF LettersCover
    <3> QED
      BY <1>3, <2>1, <2>2, <3>4, <3>5 DEF OverrideInv, Reverted
  <2>6. ASSUME RollBackLodgement PROVE Undisturbed
    BY <1>3, <2>1, <2>2, <2>6 DEF RollBackLodgement, Undisturbed, logVars
  <2>7. OpenTx' /\ LettersCover' /\ Reverted'
    BY <1>6, <2>4, <2>5, <2>6, UndisturbedKeeps
    DEF LodgementStep, OnObjectionSubmitted, OnAiFurtherSubmission,
        AWAITING_VG_RESPONSE_STATUSES
  <2> QED
    BY <1>2, <2>1, <2>3, <2>7 DEF OverrideInv
<1>7. CASE CommitLodgement
  BY <1>7, CommitOverridden
<1> QED
  BY <1>4, <1>5, <1>6, <1>7 DEF CaseStep, LodgementStep

\* The override waits for the lock and writes a row of its own.
LEMMA ForceKeeps ==
  ASSUME OverrideInv, NEW to \in ForceTargets, ForceStatus(to)
  PROVE  /\ OverrideInv'
         /\ audit' = Append(audit, [by |-> "override", from |-> row.status,
                                    to |-> row'.status])
<1> DEFINE r == [by |-> "override", from |-> row.status, to |-> to]
<1>1. TypeOK /\ row \in DisputeCase /\ row.status \in DisputeStatuses
  BY ColumnsTyped DEF OverrideInv, TypeOK
<1>2. to \in DisputeStatuses /\ r \in AuditRow /\ r.by # "person"
  BY <1>1, OverrideAssumption DEF AuditRow
<1>3. /\ row' \in DisputeCase /\ row'.status = to /\ row'.submitted_at = row.submitted_at
  BY <1>1, <1>2 DEF ForceStatus, DisputeCase
<1>4. audit' = Append(audit, r) /\ held' = held \cup {to}
  BY DEF ForceStatus
<1>9. audit' = Append(audit, [by |-> "override", from |-> row.status, to |-> row'.status])
  BY <1>3, <1>4
<1>5. TypeOK'
  BY <1>1, <1>2, <1>3, <1>4 DEF ForceStatus, TypeOK, txVars, duties
<1> HIDE DEF r
<1>6. Undisturbed
  BY <1>1, <1>2, <1>3, <1>4, LodgementRowsStill
  DEF ForceStatus, Undisturbed, txVars, overrideVars, OverrideInv, SavesTyped
<1>7. SavesTyped' /\ StatusesHeld'
  BY <1>3, <1>4, CaseKeepsSaves DEF ForceStatus
<1> QED
  BY <1>5, <1>6, <1>7, <1>9, UndisturbedKeeps DEF OverrideInv

\* Reading an entity to save it copies a status the row has held.
LEMMA BeginSaveKeeps ==
  ASSUME OverrideInv, NEW entity \in DisputeCase, BeginSave(entity),
         entity.status = row.status, tcAccepted' \in BOOLEAN
  PROVE  OverrideInv' /\ row' = row
<1>1. /\ edit' = [stage |-> "read", columns |-> entity]
      /\ UNCHANGED << row, docs, comparables, txVars, logVars, duties, now, reverted >>
  BY DEF BeginSave
<1>2. UNCHANGED << lock, tx, audit, vgMail, held, checks, owed, letters >>
  BY <1>1 DEF txVars, logVars, duties
<1>3. TypeOK'
  BY <1>1, <1>2 DEF OverrideInv, TypeOK
<1>4. Undisturbed
  BY <1>1, <1>2, LodgementRowsStill DEF OverrideInv, SavesTyped, Undisturbed
<1>5. SavesTyped' /\ StatusesHeld'
  BY <1>1, <1>2 DEF OverrideInv, SavesTyped, StatusesHeld
<1> QED
  BY <1>1, <1>3, <1>4, <1>5, UndisturbedKeeps DEF OverrideInv

\* What is to be written is a part of the copy.
LEMMA CompareKeeps ==
  ASSUME OverrideInv, CompareEntity
  PROVE  OverrideInv' /\ row' = row
<1> DEFINE changed == {c \in DOMAIN row : edit.columns[c] # row[c]}
<1>1. /\ edit.stage = "read"
      /\ edit' = IF changed = {} THEN IdleEdit
                 ELSE [stage |-> "compared", columns |-> [c \in changed |-> edit.columns[c]]]
      /\ UNCHANGED << caseVars, txVars, logVars, duties, now, saves, reverted >>
  BY DEF CompareEntity
<1>2. UNCHANGED << row, tcAccepted, docs, comparables, lock, tx, audit, vgMail, held,
                   checks, owed, letters >>
  BY <1>1 DEF caseVars, txVars, logVars, duties
<1>3. TypeOK'
  BY <1>1, <1>2 DEF OverrideInv, TypeOK
<1>4. Undisturbed
  BY <1>1, <1>2, LodgementRowsStill DEF OverrideInv, SavesTyped, Undisturbed
<1>5. edit.columns \in DisputeCase /\ row \in DisputeCase
  BY <1>1 DEF OverrideInv, SavesTyped, TypeOK
<1>6. changed \in SUBSET DOMAIN edit.columns
  BY <1>5 DEF DisputeCase
<1> HIDE DEF changed
<1>7. SavesTyped' /\ StatusesHeld'
  <2>1. CASE changed = {}
    BY <1>1, <1>2, <2>1 DEF OverrideInv, SavesTyped, StatusesHeld, IdleEdit
  <2>2. CASE changed # {}
    <3>1. /\ edit'.stage = "compared" /\ reverted' = reverted
          /\ edit'.columns = [c \in changed |-> edit.columns[c]]
      BY <1>1, <2>2
    <3>2. SavesTyped'
      BY <1>5, <1>6, <3>1 DEF OverrideInv, SavesTyped
    <3>3. StatusesHeld'
      BY <1>1, <1>2, <1>6, <3>1 DEF OverrideInv, StatusesHeld
    <3> QED
      BY <3>2, <3>3
  <2> QED
    BY <2>1, <2>2
<1> QED
  BY <1>2, <1>3, <1>4, <1>7, UndisturbedKeeps DEF OverrideInv

\* The UPDATE of a save waits for the lock, puts back statuses that were held,
\* and is counted when it takes the lodgement date back.
LEMMA WriteKeeps ==
  ASSUME OverrideInv, WriteColumns
  PROVE  /\ OverrideInv'
         /\ edit.stage = "compared" /\ row'.status \in held
<1> DEFINE written == [c \in DOMAIN row |->
                         IF c \in DOMAIN edit.columns THEN edit.columns[c] ELSE row[c]]
<1>1. /\ edit.stage = "compared" /\ lock = "free" /\ row' = written
      /\ held' = held \cup {row'.status}
      /\ UNCHANGED << tcAccepted, docs, comparables, txVars, audit, vgMail, duties, now >>
      /\ reverted' = IF row.submitted_at # Null /\ row'.submitted_at = Null
                       THEN reverted + 1 ELSE reverted
      /\ edit' = IdleEdit
  BY DEF WriteColumns
<1>2. row \in DisputeCase /\ reverted \in Nat
  BY DEF OverrideInv, TypeOK, SavesTyped
<1>3. row' \in DisputeCase
  <2>0. PICK copy \in DisputeCase : \E changed \in SUBSET DOMAIN copy :
          edit.columns = [c \in changed |-> copy[c]]
    BY <1>1 DEF OverrideInv, SavesTyped
  <2>1. PICK changed \in SUBSET DOMAIN copy : edit.columns = [c \in changed |-> copy[c]]
    BY <2>0
  <2>2. written = [c \in DOMAIN row |-> IF c \in changed THEN copy[c] ELSE row[c]]
    BY <2>1
  <2> QED
    BY <1>1, <1>2, <2>1, <2>2 DEF DisputeCase
<1>4. row'.status \in held
  <2>1. "status" \in DOMAIN row
    BY <1>2 DEF DisputeCase
  <2>2. written.status = IF "status" \in DOMAIN edit.columns THEN edit.columns["status"]
                                                             ELSE row.status
    BY <2>1
  <2> QED
    BY <1>1, <2>2 DEF OverrideInv, StatusesHeld
<1> HIDE DEF written
<1>5. UNCHANGED << lock, tx, audit, vgMail, checks, owed, letters >> /\ held' = held
  BY <1>1, <1>4 DEF txVars, duties
<1>6. TypeOK'
  BY <1>1, <1>3, <1>5 DEF OverrideInv, TypeOK
<1>7. Undisturbed
  BY <1>1, <1>2, <1>5, LodgementRowsStill DEF OverrideInv, Undisturbed
<1>8. SavesTyped' /\ StatusesHeld'
  BY <1>1, <1>2, <1>4, <1>5 DEF SavesTyped, StatusesHeld, IdleEdit
<1> QED
  BY <1>1, <1>4, <1>6, <1>7, <1>8, UndisturbedKeeps DEF OverrideInv

\* A step keeps the invariant, and when it changes the status it says how.
LEMMA NextOverride ==
  ASSUME OverrideInv, [OverrideNext]_allVars
  PROVE  /\ OverrideInv'
         /\ row'.status # row.status =>
              \/ LegalStep(row.status, row'.status)
              \/ audit' = Append(audit, [by |-> "override", from |-> row.status,
                                         to |-> row'.status])
              \/ row'.status \in held /\ edit.stage = "compared"
<1>1. CASE CaseStep /\ UNCHANGED overrideVars
  BY <1>1, CaseOverridden
<1>2. ASSUME NEW to \in ForceTargets, ForceStatus(to)
      PROVE  OverrideInv' /\ audit' = Append(audit, [by |-> "override", from |-> row.status,
                                                     to |-> row'.status])
  BY <1>2, ForceKeeps
<1>3. ASSUME NEW outcome \in Outcomes \cup {Null}, NEW value \in Value,
             PatchCase(outcome, value)
      PROVE  OverrideInv' /\ row' = row
  <2> DEFINE entity == [row EXCEPT !.outcome = IF outcome = Null THEN @ ELSE outcome,
                                   !.final_agreed_value = IF value = Null THEN @ ELSE value]
  <2>1. entity \in DisputeCase /\ entity.status = row.status
    BY LifecycleAssumption DEF OverrideInv, TypeOK, DisputeCase
  <2>2. BeginSave(entity) /\ tcAccepted' \in BOOLEAN
    BY <1>3 DEF PatchCase, OverrideInv, TypeOK
  <2> HIDE DEF entity
  <2> QED
    BY <2>1, <2>2, BeginSaveKeeps
<1>4. ASSUME AcceptTc PROVE OverrideInv' /\ row' = row
  BY <1>4, BeginSaveKeeps DEF AcceptTc, OverrideInv, TypeOK
<1>5. CASE CompareEntity
  BY <1>5, CompareKeeps
<1>6. CASE WriteColumns
  BY <1>6, WriteKeeps
<1>7. CASE UNCHANGED allVars
  <2>1. UNCHANGED << vars, overrideVars >>
    BY <1>7 DEF allVars
  <2>2. UNCHANGED << row, lock, tx, audit, vgMail, held, tcAccepted, docs, comparables,
                     checks, owed, letters, now, edit, reverted >>
    BY <2>1 DEF vars, overrideVars, caseVars, txVars, logVars, duties
  <2> QED
    BY <2>2 DEF OverrideInv, TypeOK, OpenTx, SavesTyped, LettersCover, Reverted,
       StatusesHeld, LodgementRows, PersonRows
<1> QED
  BY <1>1, <1>2, <1>3, <1>4, <1>5, <1>6, <1>7 DEF OverrideNext

-----------------------------------------------------------------------------
(* What follows *)

\* Statuses may be forced and columns put back, and still no lodgement stands
\* in the trail that the VG was not written to about.
THEOREM LodgementsHaveLetters == OverrideSpec => []LetterPerLodgement
<1>1. OverrideInv => LetterPerLodgement
  BY DEF OverrideInv, LettersCover, LodgementRows, LetterPerLodgement
<1> QED
  BY <1>1, InitOverride, NextOverride, PTL DEF OverrideSpec

\* A second first lodgement takes a save that put the date back to null, one
\* for each: no sequence of forced statuses gets there alone.
THEOREM RelodgedNeedsRevert == OverrideSpec => []RelodgedOnlyAfterRevert
<1>1. OverrideInv => RelodgedOnlyAfterRevert
  <2> SUFFICES ASSUME OverrideInv PROVE RelodgedOnlyAfterRevert
    OBVIOUS
  <2>1. Cardinality(PersonRows("objection_submitted")) \in Nat /\ reverted \in Nat
    BY PersonRowsFinite DEF OverrideInv, TypeOK, SavesTyped
  <2> QED
    BY <2>1 DEF OverrideInv, Reverted, RelodgedOnlyAfterRevert
<1> QED
  BY <1>1, InitOverride, NextOverride, PTL DEF OverrideSpec

\* Any change of a status is a legal step, an override the trail names, or the
\* return of a status the case has held.
THEOREM ChangesAreExplained == OverrideSpec => StatusChangesExplained
BY InitOverride, NextOverride, PTL DEF OverrideSpec, StatusChangesExplained
=============================================================================
