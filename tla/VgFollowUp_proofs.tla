------------------------- MODULE VgFollowUp_proofs -------------------------
(***************************************************************************)
(* Theorems about the VG response monitor, for any number of overlapping   *)
(* runs of it.                                                             *)
(***************************************************************************)
EXTENDS VgFollowUp, CaseLifecycle_proofs

-----------------------------------------------------------------------------
(* What the lifecycle does to the schedule *)

\* A date that is not null lies in the past.
Past(date) == date # Null => date <= now

\* The dates of the row and of the open lodgement are readings of the clock.
DatesPast ==
  /\ Past(row.submitted_at) /\ Past(row.resubmitted_at)
  /\ Past(row.last_vg_follow_up_sent_at) /\ Past(tx.at)

ScheduleColumns == << row.submitted_at, row.resubmitted_at,
                      row.vg_follow_up_count, row.last_vg_follow_up_sent_at >>

\* A manual move that emails nobody at the VG leaves the schedule alone.
LEMMA ManualKeepsSchedule ==
  ASSUME TypeOK, ManualStep
  PROVE  UNCHANGED << ScheduleColumns, tx, lock, now >>
<1>1. row \in DisputeCase
  BY DEF TypeOK
<1>2. CASE OnTncAgreed
  BY <1>1, <1>2 DEF OnTncAgreed, CommitMove, DisputeCase, ScheduleColumns, txVars
<1>3. CASE OnVgResponseReceived
  BY <1>1, <1>3 DEF OnVgResponseReceived, CommitMove, DisputeCase, ScheduleColumns, txVars
<1>4. ASSUME NEW value, OnVgAgreed(value)
      PROVE  UNCHANGED << ScheduleColumns, tx, lock, now >>
  BY <1>1, <1>4 DEF OnVgAgreed, CommitMove, DisputeCase, ScheduleColumns, txVars
<1>5. ASSUME NEW outcome, OnCaseClosed(outcome)
      PROVE  UNCHANGED << ScheduleColumns, tx, lock, now >>
  BY <1>1, <1>5 DEF OnCaseClosed, ClosedRow, CommitMove, DisputeCase, ScheduleColumns, txVars
<1>6. ASSUME NEW outcome, NEW internal, NEW assessed, NEW email,
             OnAdvisoryClose(outcome, internal, assessed, email)
      PROVE  UNCHANGED << ScheduleColumns, tx, lock, now >>
  BY <1>1, <1>6 DEF OnAdvisoryClose, ClosedRow, CommitMove, DisputeCase, ScheduleColumns,
     txVars
<1> QED
  BY <1>2, <1>3, <1>4, <1>5, <1>6 DEF ManualStep

\* So do the documents, the analysis and the deletion.
LEMMA OthersKeepSchedule ==
  ASSUME TypeOK, DocumentStep \/ AnalysisStep \/ RemoveCase
  PROVE  UNCHANGED << ScheduleColumns, tx, lock, now >>
<1>1. row \in DisputeCase
  BY DEF TypeOK
<1>2. CASE DocumentStep
  BY <1>1, <1>2 DEF DocumentStep, StoreDocument, RetypeDocument, RemoveDocument,
     PromoteToReportsUploaded, SkipPromotion, Promote, DisputeCase, ScheduleColumns,
     caseVars, txVars
<1>3. CASE AnalysisStep \/ RemoveCase
  BY <1>1, <1>3 DEF AnalysisStep, AddComparable, MarkAnalysed, Promote, RemoveCase,
     DisputeCase, ScheduleColumns, txVars
<1> QED
  BY <1>2, <1>3

\* Only the commit of a lodgement touches the schedule, and it re-arms it; a
\* lock a follow-up holds stays held, and the clock never turns back.
LEMMA ScheduleSteps ==
  ASSUME LodgementInv, DatesPast, CaseStep \/ Tick
  PROVE  /\ DatesPast'
         /\ now' >= now
         /\ lock = "follow_up" => lock' = "follow_up"
         /\ \/ /\ CommitLodgement
               /\ row'.vg_follow_up_count = 0
               /\ row'.last_vg_follow_up_sent_at = Null
            \/ UNCHANGED ScheduleColumns
<1>1. /\ row \in DisputeCase /\ tx \in LodgementTx /\ now \in Nat /\ now' \in Nat
      /\ Null \notin Nat
  BY LifecycleAssumption, NextLodgement DEF LodgementInv, TypeOK, Next
<1>2. CASE ManualStep
  BY <1>1, <1>2, ManualKeepsSchedule DEF LodgementInv, DatesPast, Past, ScheduleColumns
<1>3. CASE DocumentStep \/ AnalysisStep \/ RemoveCase
  BY <1>1, <1>3, OthersKeepSchedule DEF LodgementInv, DatesPast, Past, ScheduleColumns
<1>4. CASE Tick
  <2>1. now' = now + 1 /\ UNCHANGED << row, tx, lock >>
    BY <1>4 DEF Tick, caseVars, txVars
  <2>2. ASSUME NEW date \in Time, Past(date) PROVE date # Null => date <= now'
    BY <1>1, <2>1, <2>2 DEF Past, Time
  <2> QED
    BY <1>1, <2>1, <2>2 DEF DatesPast, Past, ScheduleColumns, DisputeCase, LodgementTx
<1>5. ASSUME NEW to, NEW reference, BeginLodgement(to, reference)
      PROVE  DatesPast' /\ now' >= now /\ lock # "follow_up" /\ UNCHANGED ScheduleColumns
  BY <1>1, <1>5 DEF BeginLodgement, MayMove, caseVars, duties, DatesPast, Past,
     ScheduleColumns
<1>6. CASE SendVgLodgementEmail
  BY <1>1, <1>6 DEF SendVgLodgementEmail, caseVars, DatesPast, Past, ScheduleColumns,
     LodgementTx
<1>7. CASE RollBackLodgement
  BY <1>1, <1>7 DEF RollBackLodgement, caseVars, DatesPast, Past, ScheduleColumns, IdleTx,
     LodgementInv, LodgementHolds
<1>8. CASE CommitLodgement
  <2>1. /\ lock = "lodgement" /\ tx.at # Null
        /\ tx.to \in AWAITING_VG_RESPONSE_STATUSES
        /\ now' = now /\ row' = LodgedRow /\ tx' = IdleTx
    BY <1>8 DEF CommitLodgement, CommitMove, LodgementInv, LodgementHolds
  <2>2. /\ row'.vg_follow_up_count = 0 /\ row'.last_vg_follow_up_sent_at = Null
        /\ row'.submitted_at \in {row.submitted_at, tx.at}
        /\ row'.resubmitted_at \in {row.resubmitted_at, tx.at}
    BY <1>1, <2>1 DEF LodgedRow, DisputeCase
  <2> QED
    BY <1>1, <1>8, <2>1, <2>2 DEF DatesPast, Past, IdleTx
<1> QED
  BY <1>1, <1>2, <1>3, <1>4, <1>5, <1>6, <1>7, <1>8
  DEF CaseStep, LodgementStep, OnObjectionSubmitted, OnAiFurtherSubmission

\* A round of the case begins with the commit of a lodgement and nowhere else.
LEMMA RoundsSteps ==
  ASSUME LodgementInv, [Next]_vars, ~CommitLodgement
  PROVE  Rounds' = Rounds
BY StepKinds DEF QuietStep, Rounds

-----------------------------------------------------------------------------
(* The inductive invariant *)

Holding(r) == run[r] \in {"locked", "sent"}
Active == {r \in Runs : run[r] # "idle"}

\* Only a lodged case is ever listed, one run at a time holds its lock, and
\* that one's enquiry is on its way before the row counts it.
RunsTyped ==
  /\ run \in [Runs -> {"idle", "listed", "locked", "sent"}]
  /\ enquiries \in 0..Enough
  /\ \A r \in Runs : run[r] # "idle" => row.submitted_at # Null
  /\ \A r \in Runs : Holding(r) => lock = "follow_up"
  /\ \A r, s \in Runs : Holding(r) /\ Holding(s) => r = s

\* The schedule of any row, waiting or not: chased iff dated, and dated after
\* the lodgements.
Armed ==
  /\ row.vg_follow_up_count = 0 <=> row.last_vg_follow_up_sent_at = Null
  /\ row.last_vg_follow_up_sent_at # Null =>
       /\ row.submitted_at # Null
       /\ row.last_vg_follow_up_sent_at >= row.submitted_at
       /\ row.resubmitted_at # Null =>
            row.last_vg_follow_up_sent_at >= row.resubmitted_at

\* The run that holds the row read the clock after the lodgements it shows.
ClockRead ==
  \A r \in Runs : Holding(r) =>
    /\ sentAt \in Nat /\ sentAt <= now
    /\ row.submitted_at # Null => row.submitted_at <= sentAt
    /\ row.resubmitted_at # Null => row.resubmitted_at <= sentAt

Counted ==
  /\ CountedWasSent
  /\ \A r \in Runs : run[r] = "sent" => row.vg_follow_up_count + 1 <= enquiries

\* What a run that has listed the case may still add to the count is bounded
\* with the count itself.
Limited ==
  row.vg_follow_up_count + Cardinality(Active)
    <= MAX_VG_FOLLOW_UPS + Cardinality(Runs) - 1

FollowUpInv ==
  /\ LodgementInv
  /\ DatesPast
  /\ RunsTyped
  /\ Armed
  /\ ClockRead
  /\ Counted
  /\ Limited

\* The runs of the monitor are finitely many, and so are the active ones.
LEMMA ActiveFinite ==
  /\ Cardinality(Runs) \in Nat
  /\ IsFiniteSet(Active)
  /\ Cardinality(Active) \in 0..Cardinality(Runs)
<1>1. IsFiniteSet(Runs) /\ Active \subseteq Runs
  BY FollowUpAssumption DEF Active
<1> QED
  BY <1>1, FS_Subset, FS_CardinalityType

\* The types the arithmetic below needs.
LEMMA CountsTyped ==
  ASSUME FollowUpInv
  PROVE  /\ row \in DisputeCase /\ now \in Nat /\ Null \notin Nat
         /\ row.vg_follow_up_count \in Nat
         /\ row.submitted_at \in Time /\ row.resubmitted_at \in Time
         /\ row.last_vg_follow_up_sent_at \in Time
         /\ enquiries \in Nat
         /\ MAX_VG_FOLLOW_UPS \in Nat /\ MAX_VG_FOLLOW_UPS # 0
BY LifecycleAssumption, FollowUpAssumption, ActiveFinite
DEF FollowUpInv, LodgementInv, TypeOK, DisputeCase, RunsTyped, Enough

\* No run of the monitor at the start.
LEMMA InitFollowUp == FollowUpInit => FollowUpInv
<1> SUFFICES ASSUME FollowUpInit PROVE FollowUpInv
  OBVIOUS
<1>1. LodgementInv
  BY InitLodgement DEF FollowUpInit
<1>2. /\ row = NewCase /\ tx = IdleTx
      /\ run = [r \in Runs |-> "idle"] /\ enquiries = 0
  BY DEF FollowUpInit, Init
<1>3. DatesPast
  BY <1>2 DEF DatesPast, Past, NewCase, IdleTx
<1>4. RunsTyped
  BY <1>2, ActiveFinite, FollowUpAssumption DEF RunsTyped, Holding, Enough
<1>5. Armed /\ Counted /\ ClockRead
  BY <1>2 DEF Armed, Counted, CountedWasSent, NewCase, ClockRead, Holding
<1>6. Limited
  <2>1. Active = {} /\ row.vg_follow_up_count = 0
    BY <1>2 DEF Active, NewCase
  <2> QED
    BY <2>1, FS_EmptySet, ActiveFinite, FollowUpAssumption DEF Limited
<1> QED
  BY <1>1, <1>3, <1>4, <1>5, <1>6 DEF FollowUpInv

\* A step of the lifecycle keeps it: a commit starts the count afresh, and
\* cannot happen while a follow-up holds the lock.
LEMMA LifecycleKeeps ==
  ASSUME FollowUpInv, LifecycleStep
  PROVE  FollowUpInv'
<1>1. LodgementInv /\ DatesPast /\ (CaseStep \/ Tick) /\ [Next]_vars
  BY DEF FollowUpInv, LifecycleStep, Next
<1>2. LodgementInv'
  BY <1>1, NextLodgement
<1>3. DatesPast' /\ now' >= now /\ (lock = "follow_up" => lock' = "follow_up")
  BY <1>1, ScheduleSteps
<1>4. /\ run' = run /\ Active' = Active /\ enquiries' \in {enquiries, 0}
      /\ sentAt' = sentAt
  BY DEF LifecycleStep, Active
<1>5. CASE UNCHANGED ScheduleColumns /\ ~CommitLodgement
  <2>1. /\ row'.submitted_at = row.submitted_at
        /\ row'.resubmitted_at = row.resubmitted_at
        /\ row'.vg_follow_up_count = row.vg_follow_up_count
        /\ row'.last_vg_follow_up_sent_at = row.last_vg_follow_up_sent_at
    BY <1>5 DEF ScheduleColumns
  <2>2. enquiries' = enquiries
    BY <1>1, <1>5, RoundsSteps DEF LifecycleStep
  <2>3. RunsTyped'
    BY <1>3, <1>4, <2>1, <2>2 DEF FollowUpInv, RunsTyped, Holding, Enough
  <2>4. Armed'
    BY <2>1 DEF FollowUpInv, Armed
  <2>5. Counted'
    BY <1>4, <2>1, <2>2 DEF FollowUpInv, Counted, CountedWasSent
  <2>6. Limited'
    BY <1>4, <2>1 DEF FollowUpInv, Limited
  <2>7. ClockRead'
    <3>1. now \in Nat /\ now' \in Nat
      BY <1>2, CountsTyped, LifecycleAssumption DEF LodgementInv, TypeOK
    <3>2. \A r \in Runs : Holding(r)' <=> Holding(r)
      BY <1>4 DEF Holding
    <3> QED
      BY <1>3, <1>4, <2>1, <3>1, <3>2 DEF FollowUpInv, ClockRead
  <2> QED
    BY <1>2, <1>3, <2>3, <2>4, <2>5, <2>6, <2>7 DEF FollowUpInv
<1>6. CASE CommitLodgement
  <2>1. lock = "lodgement"
    BY <1>1, <1>6 DEF CommitLodgement, LodgementInv, LodgementHolds
  <2>2. \A r \in Runs : ~Holding(r)
    BY <2>1 DEF FollowUpInv, RunsTyped
  <2>3. /\ row'.vg_follow_up_count = 0 /\ row'.last_vg_follow_up_sent_at = Null
        /\ row'.submitted_at # Null
    <3>1. tx.to \in AWAITING_VG_RESPONSE_STATUSES /\ PersonMove(tx.to)
      BY <1>1, <1>6, CommitIsPersonMove
    <3>2. row'.submitted_at # Null
      BY <1>2, <3>1 DEF LodgementInv, LodgementStamped, PersonMove,
         AWAITING_VG_RESPONSE_STATUSES, LodgedStatuses, POST_LODGEMENT_STATUSES,
         CLOSED_STATUSES
    <3>3. row' = LodgedRow /\ row \in DisputeCase
      BY <1>6, CountsTyped DEF CommitLodgement, CommitMove
    <3> QED
      BY <3>2, <3>3 DEF LodgedRow, DisputeCase
  <2>4. RunsTyped'
    <3>1. enquiries' \in 0..Enough
      BY <1>4, ActiveFinite, CountsTyped DEF FollowUpInv, RunsTyped, Enough
    <3> QED
      BY <1>4, <2>2, <2>3, <3>1 DEF FollowUpInv, RunsTyped, Holding, Enough
  <2>5. Armed'
    BY <2>3 DEF Armed
  <2>6. Counted'
    BY <1>4, <2>2, <2>3, CountsTyped DEF Counted, CountedWasSent, Holding
  <2>7. Limited'
    <3>1. 0 + Cardinality(Active) <= MAX_VG_FOLLOW_UPS + Cardinality(Runs) - 1
      BY ActiveFinite, CountsTyped
    <3> QED
      BY <1>4, <2>3, <3>1 DEF Limited
  <2>8. ClockRead'
    BY <1>4, <2>2 DEF ClockRead, Holding
  <2> QED
    BY <1>2, <1>3, <2>4, <2>5, <2>6, <2>7, <2>8 DEF FollowUpInv
<1>7. CommitLodgement \/ UNCHANGED ScheduleColumns
  BY <1>1, ScheduleSteps
<1> QED
  BY <1>5, <1>6, <1>7

\* A step of a run that leaves the row alone keeps all that speaks of the row.
LEMMA RunKeepsRow ==
  ASSUME FollowUpInv, UNCHANGED << caseVars, tx, logVars, duties, now >>,
         \/ UNCHANGED lock
         \/ lock = "free" /\ lock' = "follow_up"
         \/ lock = "follow_up" /\ lock' = "free"
  PROVE  LodgementInv' /\ DatesPast' /\ Armed'
<1>1. UNCHANGED << row, tcAccepted, docs, comparables, tx, audit, vgMail, held,
                   checks, owed, letters, now >>
  BY DEF caseVars, logVars, duties
<1>2. TypeOK'
  BY <1>1 DEF FollowUpInv, LodgementInv, TypeOK, LockHolders
<1>3. Rounds' = Rounds
  BY <1>1 DEF Rounds
<1>4. LodgementHolds'
  BY <1>1, <1>3 DEF FollowUpInv, LodgementInv, LodgementHolds
<1>5. LodgementStamped' /\ LodgementBacked'
  BY <1>1, <1>3 DEF FollowUpInv, LodgementInv, LodgementStamped, LodgementBacked
<1> QED
  BY <1>1, <1>2, <1>4, <1>5 DEF FollowUpInv, LodgementInv, DatesPast, Past, Armed

\* Listing a due case takes one of the places the limit leaves.
LEMMA FindDueKeeps ==
  ASSUME FollowUpInv, NEW r \in Runs, FindDue(r)
  PROVE  FollowUpInv'
<1>1. /\ UNCHANGED << vars, enquiries >> /\ run[r] = "idle" /\ Due
      /\ run' = [run EXCEPT ![r] = "listed"]
      /\ run \in [Runs -> {"idle", "listed", "locked", "sent"}]
  BY DEF FindDue, FollowUpInv, RunsTyped
<1>2. LodgementInv' /\ DatesPast' /\ Armed'
  BY <1>1, RunKeepsRow DEF vars, txVars
<1>3. row.submitted_at # Null /\ row' = row /\ lock' = lock
  BY <1>1 DEF Due, FollowUpInv, LodgementInv, LodgementStamped,
     AWAITING_VG_RESPONSE_STATUSES, LodgedStatuses, POST_LODGEMENT_STATUSES,
     CLOSED_STATUSES, vars, caseVars, txVars
<1>4. RunsTyped'
  BY <1>1, <1>3 DEF FollowUpInv, RunsTyped, Holding, Enough
<1>5. Counted'
  BY <1>1, <1>3 DEF FollowUpInv, Counted, CountedWasSent
<1>7. ClockRead'
  <2>1. now' = now /\ sentAt' = sentAt
    BY DEF FindDue, vars
  <2>2. \A s \in Runs : Holding(s)' => Holding(s)
    BY <1>1 DEF Holding
  <2> QED
    BY <1>3, <2>1, <2>2 DEF FollowUpInv, ClockRead
<1>6. Limited'
  <2>1. row.vg_follow_up_count < MAX_VG_FOLLOW_UPS
    BY <1>1 DEF Due
  <2>2. Cardinality(Active') <= Cardinality(Runs) /\ Cardinality(Active') \in Nat
    <3>1. Active' \subseteq Runs
      BY DEF Active
    <3> QED
      BY <3>1, FS_Subset, FS_CardinalityType, FollowUpAssumption
  <2> QED
    BY <1>3, <2>1, <2>2, CountsTyped, ActiveFinite DEF Limited
<1> QED
  BY <1>2, <1>4, <1>5, <1>6, <1>7 DEF FollowUpInv

\* A run that stays active, or gives its place back without a count, keeps it.
LEMMA RunKeeps ==
  ASSUME FollowUpInv, NEW r \in Runs, run[r] # "idle",
         NEW stage \in {"idle", "locked", "sent"},
         run' = [run EXCEPT ![r] = stage],
         UNCHANGED << caseVars, tx, logVars, duties, now >>,
         stage = "locked" => sentAt' = now,
         stage = "sent" => sentAt' = sentAt,
         \/ lock = "free" /\ lock' = "follow_up" /\ stage = "locked" /\ enquiries' = enquiries
         \/ lock' = "free" /\ Holding(r) /\ stage = "idle" /\ enquiries' = enquiries
         \/ /\ UNCHANGED << lock, sentAt >> /\ ~Holding(r) /\ stage = "idle"
            /\ enquiries' = enquiries
         \/ /\ UNCHANGED lock /\ Holding(r) /\ stage = "sent"
            /\ enquiries' = IF enquiries < Enough THEN enquiries + 1 ELSE enquiries
  PROVE  FollowUpInv'
<1>1. /\ run \in [Runs -> {"idle", "listed", "locked", "sent"}]
      /\ row' = row /\ enquiries \in 0..Enough /\ Enough \in Nat
  BY ActiveFinite, CountsTyped DEF FollowUpInv, RunsTyped, caseVars, Enough
<1>2. LodgementInv' /\ DatesPast' /\ Armed'
  BY RunKeepsRow DEF FollowUpInv, RunsTyped
<1>3. \A s \in Runs : run'[s] = IF s = r THEN stage ELSE run[s]
  BY <1>1
<1>4. RunsTyped'
  <2>1. run' \in [Runs -> {"idle", "listed", "locked", "sent"}] /\ enquiries' \in 0..Enough
    BY <1>1
  <2>2. \A s \in Runs : run'[s] # "idle" => row'.submitted_at # Null
    BY <1>1, <1>3 DEF FollowUpInv, RunsTyped
  <2>3. \A s \in Runs : Holding(s)' => lock' = "follow_up"
    BY <1>1, <1>3 DEF FollowUpInv, RunsTyped, Holding
  <2>4. \A s, t \in Runs : Holding(s)' /\ Holding(t)' => s = t
    BY <1>1, <1>3 DEF FollowUpInv, RunsTyped, Holding
  <2> QED
    BY <2>1, <2>2, <2>3, <2>4 DEF RunsTyped, Enough
<1>5. Counted'
  <2>1. enquiries' >= enquiries /\ enquiries' \in Nat
    BY <1>1
  <2>2. stage = "sent" => row.vg_follow_up_count + 1 <= enquiries'
    <3>1. row.vg_follow_up_count + 1 <= Enough
      BY CountsTyped, ActiveFinite DEF FollowUpInv, Limited, Enough
    <3> QED
      BY <1>1, <3>1, CountsTyped DEF FollowUpInv, Counted, CountedWasSent
  <2> QED
    BY <1>1, <1>3, <2>1, <2>2, CountsTyped DEF FollowUpInv, Counted, CountedWasSent
<1>6. Limited'
  <2>1. Active' \subseteq Active
    BY <1>3 DEF Active
  <2>2. Cardinality(Active') <= Cardinality(Active) /\ Cardinality(Active') \in Nat
    BY <2>1, ActiveFinite, FS_Subset, FS_CardinalityType
  <2> QED
    BY <1>1, <2>2, CountsTyped, ActiveFinite DEF FollowUpInv, Limited
<1>7. ClockRead'
  <2>1. now' = now
    OBVIOUS
  <2>2. CASE stage = "locked" /\ lock = "free"
    <3>1. \A s \in Runs : Holding(s)' => s = r
      BY <1>3, <2>2 DEF FollowUpInv, RunsTyped, Holding
    <3> QED
      BY <1>1, <2>1, <2>2, <3>1, CountsTyped
      DEF FollowUpInv, ClockRead, Holding, DatesPast, Past
  <2>3. CASE stage = "idle" /\ Holding(r)
    BY <1>3, <2>3 DEF FollowUpInv, RunsTyped, Holding, ClockRead
  <2>4. CASE sentAt' = sentAt /\ stage # "locked" /\ (stage = "sent" => Holding(r))
    <3>1. \A s \in Runs : Holding(s)' => Holding(s)
      BY <1>3, <2>4 DEF Holding
    <3> QED
      BY <1>1, <2>1, <2>4, <3>1 DEF FollowUpInv, ClockRead
  <2> QED
    BY <2>2, <2>3, <2>4
<1> QED
  BY <1>2, <1>4, <1>5, <1>6, <1>7 DEF FollowUpInv

\* The count a commit adds is paid for twice: by the enquiry its own run sent,
\* and by the place of that run.
LEMMA CommitFollowUpKeeps ==
  ASSUME FollowUpInv, NEW r \in Runs, CommitFollowUp(r)
  PROVE  FollowUpInv'
<1>1. /\ run[r] = "sent" /\ Holding(r) /\ lock = "follow_up" /\ lock' = "free"
      /\ run \in [Runs -> {"idle", "listed", "locked", "sent"}]
      /\ run' = [run EXCEPT ![r] = "idle"] /\ enquiries' = enquiries
      /\ row.submitted_at # Null
      /\ sentAt \in Nat /\ sentAt <= now /\ row.submitted_at <= sentAt
      /\ row.resubmitted_at # Null => row.resubmitted_at <= sentAt
  BY DEF CommitFollowUp, FollowUpInv, RunsTyped, Holding, ClockRead
<1>2. /\ row'.vg_follow_up_count = row.vg_follow_up_count + 1
      /\ row'.last_vg_follow_up_sent_at = sentAt
      /\ row'.status = row.status /\ row'.deleted = row.deleted
      /\ row'.submitted_at = row.submitted_at /\ row'.resubmitted_at = row.resubmitted_at
      /\ row'.lodgment_reference_number = row.lodgment_reference_number
      /\ row'.resubmission_count = row.resubmission_count
      /\ row' \in DisputeCase
  <2>1. /\ row' = [row EXCEPT !.vg_follow_up_count = row.vg_follow_up_count + 1,
                              !.last_vg_follow_up_sent_at = sentAt]
        /\ row.vg_follow_up_count + 1 \in Nat /\ sentAt \in Time
    BY <1>1, CountsTyped DEF CommitFollowUp, Time
  <2> QED
    BY <2>1, CountsTyped DEF DisputeCase
<1>3. \A s \in Runs : run'[s] = IF s = r THEN "idle" ELSE run[s]
  BY <1>1
<1>4. LodgementInv'
  <2>1. TypeOK'
    BY <1>1, <1>2 DEF CommitFollowUp, FollowUpInv, LodgementInv, TypeOK, LockHolders,
       logVars, duties
  <2>2. tx' = tx /\ tx.stage = "idle" /\ vgMail' = vgMail
    BY <1>1 DEF CommitFollowUp, FollowUpInv, LodgementInv, LodgementHolds, logVars
  <2>3. Rounds' = Rounds
    BY <1>2 DEF Rounds
  <2> QED
    BY <1>2, <2>1, <2>2, <2>3 DEF FollowUpInv, LodgementInv, LodgementHolds,
       LodgementStamped, LodgementBacked
<1>5. DatesPast'
  BY <1>1, <1>2, CountsTyped DEF CommitFollowUp, FollowUpInv, DatesPast, Past
<1>6. RunsTyped'
  BY <1>1, <1>2, <1>3 DEF FollowUpInv, RunsTyped, Holding, Enough
<1>7. Armed'
  BY <1>1, <1>2, CountsTyped DEF FollowUpInv, Armed, DatesPast, Past
<1>8. Counted'
  <2>1. \A s \in Runs : run'[s] # "sent"
    BY <1>1, <1>3 DEF FollowUpInv, RunsTyped, Holding
  <2> QED
    BY <1>1, <1>2, <2>1 DEF FollowUpInv, Counted, CountedWasSent
<1>9. Limited'
  <2>1. Active' = Active \ {r} /\ r \in Active
    BY <1>1, <1>3 DEF Active
  <2>2. Cardinality(Active') = Cardinality(Active) - 1
    BY <2>1, ActiveFinite, FS_RemoveElement
  <2> QED
    BY <1>2, <2>2, CountsTyped, ActiveFinite DEF FollowUpInv, Limited
<1>10. ClockRead'
  BY <1>1, <1>3 DEF FollowUpInv, RunsTyped, ClockRead, Holding
<1> QED
  BY <1>4, <1>5, <1>6, <1>7, <1>8, <1>9, <1>10 DEF FollowUpInv

\* Every step keeps the invariant.
LEMMA NextFollowUp == FollowUpInv /\ [FollowUpNext]_allVars => FollowUpInv'
<1> SUFFICES ASSUME FollowUpInv, [FollowUpNext]_allVars PROVE FollowUpInv'
  OBVIOUS
<1>1. CASE LifecycleStep
  BY <1>1, LifecycleKeeps
<1>2. ASSUME NEW r \in Runs, FindDue(r) PROVE FollowUpInv'
  BY <1>2, FindDueKeeps
<1>3. ASSUME NEW r \in Runs, LockListed(r) PROVE FollowUpInv'
  BY <1>3, RunKeeps DEF LockListed
<1>4. ASSUME NEW r \in Runs, FailToLock(r) PROVE FollowUpInv'
  BY <1>4, RunKeeps DEF FailToLock, Holding, vars, txVars
<1>5. ASSUME NEW r \in Runs, SendVgFollowUpEnquiry(r) PROVE FollowUpInv'
  BY <1>5, RunKeeps DEF SendVgFollowUpEnquiry, Holding, vars, txVars
<1>6. ASSUME NEW r \in Runs, CommitFollowUp(r) PROVE FollowUpInv'
  BY <1>6, CommitFollowUpKeeps
<1>7. ASSUME NEW r \in Runs, RollBackFollowUp(r) PROVE FollowUpInv'
  BY <1>7, RunKeeps DEF RollBackFollowUp, Holding
<1>8. CASE UNCHANGED allVars
  <2>1. UNCHANGED << vars, run, sentAt, enquiries >>
    BY <1>8 DEF allVars, followUpVars
  <2>2. LodgementInv' /\ DatesPast' /\ Armed'
    BY <2>1, RunKeepsRow DEF vars, txVars
  <2> QED
    BY <2>1, <2>2 DEF FollowUpInv, RunsTyped, Holding, Enough, Counted, CountedWasSent,
       Limited, Active, ClockRead, vars, caseVars, txVars
<1> QED
  BY <1>1, <1>2, <1>3, <1>4, <1>5, <1>6, <1>7, <1>8 DEF FollowUpNext

\* The runs of the monitor leave the lodgement protocol alone, and the
\* protocol leaves them their counts.
THEOREM FollowUpInvariant == FollowUpSpec => []FollowUpInv
BY InitFollowUp, NextFollowUp, PTL DEF FollowUpSpec

-----------------------------------------------------------------------------
(* What follows *)

\* A waiting case is always on the schedule of its own round: whoever lodges it
\* re-arms the schedule in the same commit, whatever runs hold the case listed.
THEOREM WaitingIsArmed == FollowUpSpec => []ScheduleArmed
<1>1. FollowUpInv => ScheduleArmed
  <2> SUFFICES ASSUME FollowUpInv, row.status \in AWAITING_VG_RESPONSE_STATUSES
               PROVE  row.submitted_at # Null /\ Armed
    BY DEF ScheduleArmed, Armed
  <2>1. row.status \in LodgedStatuses
    BY DEF AWAITING_VG_RESPONSE_STATUSES, LodgedStatuses, POST_LODGEMENT_STATUSES,
       CLOSED_STATUSES
  <2> QED
    BY <2>1 DEF FollowUpInv, LodgementInv, LodgementStamped
<1> QED
  BY <1>1, FollowUpInvariant, PTL

\* No follow-up is counted that the VG was not sent in this round: the row is
\* saved before the email, and shown only after it.
THEOREM CountedFollowUpsWereSent == FollowUpSpec => []CountedWasSent
<1>1. FollowUpInv => CountedWasSent
  BY DEF FollowUpInv, Counted
<1> QED
  BY <1>1, FollowUpInvariant, PTL

\* The limit is checked on a list as old as the run and still holds up to the
\* number of runs that overlap: at most one beyond it for each run but one.
THEOREM LimitHolds == FollowUpSpec => []LimitHoldsPerRun
<1>1. FollowUpInv => LimitHoldsPerRun
  BY CountsTyped, ActiveFinite DEF FollowUpInv, Limited, LimitHoldsPerRun
<1> QED
  BY <1>1, FollowUpInvariant, PTL
=============================================================================
