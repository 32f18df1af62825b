---------------------------- MODULE CaseOverride ----------------------------
(***************************************************************************)
(* The case lifecycle together with the writers that do not look at it:    *)
(* the admin's forced status change and the two saves of a previously read *)
(* entity (PATCH of the case, the client's acceptance of the terms).       *)
(*                                                                         *)
(* A save of an entity is three steps.  The handler reads the row without  *)
(* a lock and changes its copy; the persistence layer reads the row again  *)
(* and takes the columns in which the copy differs; the UPDATE writes      *)
(* those columns.  A column another request committed between the two      *)
(* reads therefore differs, and is put back to what the handler had read.  *)
(***************************************************************************)
EXTENDS CaseLifecycle

CONSTANTS
  ForceTargets,   \* statuses an admin forces a case into
  MaxForces,      \* bound: forced status changes
  MaxSaves        \* bound: saves of a read entity

ASSUME OverrideAssumption ==
  ForceTargets \subseteq DisputeStatuses /\ MaxForces \in Nat /\ MaxSaves \in Nat

VARIABLES
  edit,      \* the save in progress: the handler's copy, then what to write
  saves,     \* saves begun
  reverted   \* history: saves that took back the lodgement date

overrideVars == << edit, saves, reverted >>
allVars == << vars, overrideVars >>

\* The copy, or the part of it that is to be written.
IdleEdit == [stage |-> "idle", columns |-> << >>]

OverrideInit ==
  /\ Init
  /\ edit = IdleEdit
  /\ saves = 0
  /\ reverted = 0

-----------------------------------------------------------------------------
(* applyManual with force: the status and its audit row, no handler *)

Forces == {i \in DOMAIN audit : audit[i].by = "override"}

\* Mutant: a forced lodgement is recorded under the person's own action.
ForceAsPerson(to) ==
  /\ Cardinality(Forces) < MaxForces
  /\ lock = "free"
  /\ ~row.deleted
  /\ to # row.status
  /\ row' = [row EXCEPT !.status = to]
  /\ audit' = Append(audit, [by |-> "person", from |-> row.status, to |-> to])
  /\ held' = held \cup {to}
  /\ UNCHANGED << tcAccepted, docs, comparables, txVars, vgMail, duties, now,
                  overrideVars >>

\* Mutant: the override clears the lodgement it leaves behind.
ForceAndReset(to) ==
  /\ Cardinality(Forces) < MaxForces
  /\ lock = "free"
  /\ ~row.deleted
  /\ to # row.status
  /\ row' = IF to \in POST_LODGEMENT_STATUSES THEN [row EXCEPT !.status = to]
            ELSE [row EXCEPT !.status = to, !.submitted_at = Null]
  /\ audit' = Append(audit, [by |-> "override", from |-> row.status, to |-> to])
  /\ held' = held \cup {to}
  /\ UNCHANGED << tcAccepted, docs, comparables, txVars, vgMail, duties, now,
                  overrideVars >>

ForceStatus(to) ==
  /\ Cardinality(Forces) < MaxForces
  /\ lock = "free"
  /\ ~row.deleted
  /\ to # row.status
  /\ row' = [row EXCEPT !.status = to]
  /\ audit' = Append(audit, [by |-> "override", from |-> row.status, to |-> to])
  /\ held' = held \cup {to}
  /\ UNCHANGED << tcAccepted, docs, comparables, txVars, vgMail, duties, now,
                  overrideVars >>

-----------------------------------------------------------------------------
(* Saves of a read entity *)

BeginSave(entity) ==
  /\ edit.stage = "idle"
  /\ saves < MaxSaves
  /\ ~row.deleted
  /\ edit' = [stage |-> "read", columns |-> entity]
  /\ saves' = saves + 1
  /\ UNCHANGED << row, docs, comparables, txVars, logVars, duties, now, reverted >>

\* PATCH may carry an outcome and an agreed value, or other columns only.
PatchCase(outcome, value) ==
  /\ BeginSave([row EXCEPT !.outcome = IF outcome = Null THEN @ ELSE outcome,
                           !.final_agreed_value = IF value = Null THEN @ ELSE value])
  /\ UNCHANGED tcAccepted

\* The client's own row is saved before the cases are read; on a case only the
\* accountant changes.
AcceptTc ==
  /\ BeginSave(row)
  /\ tcAccepted' = TRUE

\* With no column to write there is no UPDATE.
CompareEntity ==
  LET changed == {c \in DOMAIN row : edit.columns[c] # row[c]} IN
  /\ edit.stage = "read"
  /\ edit' = IF changed = {} THEN IdleEdit
              ELSE [stage |-> "compared", columns |-> [c \in changed |-> edit.columns[c]]]
  /\ UNCHANGED << caseVars, txVars, logVars, duties, now, saves, reverted >>

\* The UPDATE waits for the row lock, like any other.
WriteColumns ==
  /\ edit.stage = "compared"
  /\ lock = "free"
  /\ row' = [c \in DOMAIN row |->
               IF c \in DOMAIN edit.columns THEN edit.columns[c] ELSE row[c]]
  /\ held' = held \cup {row'.status}
  /\ reverted' = IF row.submitted_at # Null /\ row'.submitted_at = Null
                   THEN reverted + 1 ELSE reverted
  /\ edit' = IdleEdit
  /\ UNCHANGED << tcAccepted, docs, comparables, txVars, audit, vgMail, duties,
                  now, saves >>

-----------------------------------------------------------------------------

\* The audit rows of the promotions and the clock are left out: nothing here
\* reads them.
OverrideNext ==
  \/ CaseStep /\ UNCHANGED overrideVars
  \/ \E to \in ForceTargets : ForceStatus(to)
  \/ \E outcome \in Outcomes \cup {Null}, value \in Value : PatchCase(outcome, value)
  \/ AcceptTc
  \/ CompareEntity
  \/ WriteColumns

OverrideSpec == OverrideInit /\ [][OverrideNext]_allVars

-----------------------------------------------------------------------------
(* Properties: what the override and the saves cannot break *)

\* Whatever was forced or overwritten, the trail never shows a lodgement the
\* VG was not sent: a letter for every lodgement a person's row records.
LetterPerLodgement ==
  Cardinality(PersonRows("objection_submitted") \cup PersonRows("ai_further_submission"))
    <= Len(vgMail)

\* The override alone cannot lodge a case twice: submitted_at outlives any
\* forced status, so each lodgement after the first needs a save that put the
\* date back to null.
RelodgedOnlyAfterRevert ==
  Cardinality(PersonRows("objection_submitted")) <= 1 + reverted

\* A status changes along the real graph, by an override that says so in the
\* trail, or by a save that puts back a status the case has held before.
StatusChangesExplained ==
  [][row'.status # row.status =>
       \/ LegalStep(row.status, row'.status)
       \/ audit' = Append(audit, [by |-> "override", from |-> row.status, to |-> row'.status])
       \/ row'.status \in held /\ edit.stage = "compared"]_allVars

-----------------------------------------------------------------------------
(* Where the code departs from what it says of itself *)

\* dispute-status.ts: nothing may re-run the first lodgement, which would mint
\* another reference and email the VG again.
LodgedOnce == Cardinality(PersonRows("objection_submitted")) <= 1
=============================================================================
