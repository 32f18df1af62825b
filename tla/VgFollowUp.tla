----------------------------- MODULE VgFollowUp -----------------------------
(***************************************************************************)
(* The VG response monitor over the life of one case: runVGFollowUpCheck   *)
(* lists the cases that are due, then sendVGFollowUp takes each one, in a  *)
(* transaction of its own that locks the row, writes the follow-up to it,  *)
(* emails the VG and commits.  Runs overlap (the daily cron job and the    *)
(* internal endpoint start them independently), and the list a run works   *)
(* through is as old as the run: nothing about the case but its existence  *)
(* is looked at again under the lock.                                      *)
(*                                                                         *)
(* The locked read joins the property.  PostgreSQL refuses FOR UPDATE on   *)
(* the nullable side of an outer join; JoinedLockWorks says what the       *)
(* database makes of it.                                                   *)
(***************************************************************************)
EXTENDS CaseLifecycle

CONSTANTS
  Runs,               \* runs of the monitor that may overlap
  MAX_VG_FOLLOW_UPS,
  FollowUpInterval,   \* five days
  JoinedLockWorks     \* the database accepts the joined FOR UPDATE

ASSUME FollowUpAssumption ==
  /\ IsFiniteSet(Runs)
  /\ MAX_VG_FOLLOW_UPS \in Nat \ {0}
  /\ FollowUpInterval \in Nat
  /\ JoinedLockWorks \in BOOLEAN

VARIABLES
  run,       \* what each run is doing about this case
  sentAt,    \* the clock as the run that holds the row read it
  enquiries  \* history: enquiries the VG has had in this round, up to Enough

followUpVars == << run, sentAt, enquiries >>
allVars == << vars, followUpVars >>

Enough == MAX_VG_FOLLOW_UPS + Cardinality(Runs)

FollowUpInit ==
  /\ Init
  /\ run = [r \in Runs |-> "idle"]
  /\ sentAt = Null
  /\ enquiries = 0

-----------------------------------------------------------------------------

\* COALESCE(last_vg_follow_up_sent_at, resubmitted_at, submitted_at)
FollowUpClock ==
  CASE row.last_vg_follow_up_sent_at # Null -> row.last_vg_follow_up_sent_at
    [] row.resubmitted_at # Null -> row.resubmitted_at
    [] OTHER -> row.submitted_at

\* Mutant: one follow-up too many.
DueOnceMore ==
  /\ ~row.deleted
  /\ row.status \in AWAITING_VG_RESPONSE_STATUSES
  /\ FollowUpClock # Null
  /\ FollowUpClock + FollowUpInterval <= now
  /\ row.vg_follow_up_count <= MAX_VG_FOLLOW_UPS

\* A null clock compares to nothing: the case is never due.
Due ==
  /\ ~row.deleted
  /\ row.status \in AWAITING_VG_RESPONSE_STATUSES
  /\ FollowUpClock # Null
  /\ FollowUpClock + FollowUpInterval <= now
  /\ row.vg_follow_up_count < MAX_VG_FOLLOW_UPS

FindDue(r) ==
  /\ run[r] = "idle"
  /\ Due
  /\ run' = [run EXCEPT ![r] = "listed"]
  /\ UNCHANGED << vars, sentAt, enquiries >>

LockListed(r) ==
  /\ run[r] = "listed"
  /\ lock = "free"
  /\ JoinedLockWorks /\ ~row.deleted
  /\ lock' = "follow_up" /\ sentAt' = now
  /\ run' = [run EXCEPT ![r] = "locked"]
  /\ UNCHANGED << caseVars, tx, logVars, duties, now, enquiries >>

\* The read is refused or finds no live row; the run goes on without the case.
FailToLock(r) ==
  /\ run[r] = "listed"
  /\ ~JoinedLockWorks \/ row.deleted
  /\ run' = [run EXCEPT ![r] = "idle"]
  /\ UNCHANGED << vars, sentAt, enquiries >>

SendVgFollowUpEnquiry(r) ==
  /\ run[r] = "locked"
  /\ enquiries' = IF enquiries < Enough THEN enquiries + 1 ELSE enquiries
  /\ run' = [run EXCEPT ![r] = "sent"]
  /\ UNCHANGED << vars, sentAt >>

\* Mutant: the follow-up is sent and never saved.
CommitWithoutSave(r) ==
  /\ run[r] = "sent"
  /\ lock' = "free" /\ sentAt' = Null
  /\ run' = [run EXCEPT ![r] = "idle"]
  /\ UNCHANGED << caseVars, tx, logVars, duties, now, enquiries >>

\* The count of the locked read and the date of that moment, both saved before
\* the email, show now.
CommitFollowUp(r) ==
  /\ run[r] = "sent"
  /\ row' = [row EXCEPT !.vg_follow_up_count = @ + 1,
                        !.last_vg_follow_up_sent_at = sentAt]
  /\ lock' = "free" /\ sentAt' = Null
  /\ run' = [run EXCEPT ![r] = "idle"]
  /\ UNCHANGED << tcAccepted, docs, comparables, tx, logVars, duties, now, enquiries >>

\* Mutant: the save is not part of the transaction the email can undo.
RollBackKeepsSave(r) ==
  /\ run[r] \in {"locked", "sent"}
  /\ row' = [row EXCEPT !.vg_follow_up_count = @ + 1,
                        !.last_vg_follow_up_sent_at = sentAt]
  /\ lock' = "free" /\ sentAt' = Null
  /\ run' = [run EXCEPT ![r] = "idle"]
  /\ UNCHANGED << tcAccepted, docs, comparables, tx, logVars, duties, now, enquiries >>

\* The email is refused, the commit fails, or the process dies.
RollBackFollowUp(r) ==
  /\ run[r] \in {"locked", "sent"}
  /\ lock' = "free" /\ sentAt' = Null
  /\ run' = [run EXCEPT ![r] = "idle"]
  /\ UNCHANGED << caseVars, tx, logVars, duties, now, enquiries >>

\* A new round starts its own tally.
LifecycleStep ==
  /\ CaseStep \/ Tick
  /\ enquiries' = IF Rounds' = Rounds THEN enquiries ELSE 0
  /\ UNCHANGED << run, sentAt >>

FollowUpNext ==
  \/ LifecycleStep
  \/ \E r \in Runs :
       \/ FindDue(r)
       \/ LockListed(r)
       \/ FailToLock(r)
       \/ SendVgFollowUpEnquiry(r)
       \/ CommitFollowUp(r)
       \/ RollBackFollowUp(r)

\* The job is started again and again, its steps are not abandoned, and neither
\* the mail service nor the database fails for ever.
FollowUpFairness ==
  \A r \in Runs :
    /\ WF_allVars(FindDue(r))
    /\ WF_allVars(LockListed(r))
    /\ WF_allVars(FailToLock(r))
    /\ SF_allVars(SendVgFollowUpEnquiry(r))
    /\ SF_allVars(CommitFollowUp(r))

FollowUpSpec == FollowUpInit /\ [][FollowUpNext]_allVars /\ FollowUpFairness

-----------------------------------------------------------------------------
(* Properties *)

\* dispute-status.ts, on AWAITING_VG_RESPONSE_STATUSES: whoever sets one of
\* them re-arms the schedule in the same transaction.  A waiting case has a
\* clock, never one of an earlier round, and counts only this round's chases.
ScheduleArmed ==
  row.status \in AWAITING_VG_RESPONSE_STATUSES =>
    /\ row.submitted_at # Null
    /\ row.vg_follow_up_count = 0 <=> row.last_vg_follow_up_sent_at = Null
    /\ row.last_vg_follow_up_sent_at # Null =>
         /\ row.last_vg_follow_up_sent_at >= row.submitted_at
         /\ row.resubmitted_at # Null =>
              row.last_vg_follow_up_sent_at >= row.resubmitted_at

\* A follow-up the case counts was sent to the VG in this round, whatever
\* rolled back on the way.
CountedWasSent == row.vg_follow_up_count <= enquiries

\* The count is checked when the list is made and never again: each run that
\* overlaps another may pass the limit by one, and no more.
LimitHoldsPerRun ==
  row.vg_follow_up_count <= MAX_VG_FOLLOW_UPS + Cardinality(Runs) - 1

\* README: the monitor sends chase-up emails for overdue responses.  A case
\* that is due is followed up, answered, closed or deleted in the end.
DueIsChased == Due ~> ~Due

=============================================================================
