---------------------------- MODULE MCBackground ----------------------------
(***************************************************************************)
(* The work that goes on without a user waiting for it, for one run of     *)
(* TLC: the weekly import, the mailbox poll, the analysis queue, and the   *)
(* records between intake and purge.  They share no state but the rows     *)
(* each writes for itself, so that each is explored on its own: focus      *)
(* says which one moves, the others stay as they start.                    *)
(***************************************************************************)
EXTENDS PsiImport, VgMailbox, AnalysisJobs, CaseRecords

VARIABLE focus

vars == << focus, psiVars, mailVars, jobVars, recordVars >>

Init ==
  /\ focus \in {"import", "mailbox", "analysis", "records"}
  /\ PsiInit
  /\ focus # "import" => \A w \in Weeks : bundle[w] = "mis_stamped"
  /\ MailInit
  /\ focus # "mailbox" => \A m \in Messages : kind[m] = "other"
  /\ JobsInit
  /\ focus # "analysis" => snapshot = "none"
  /\ RecordsInit

Import(A) ==
  /\ focus = "import"
  /\ A
  /\ UNCHANGED << focus, mailVars, jobVars, recordVars >>

Mailbox(A) ==
  /\ focus = "mailbox"
  /\ A
  /\ UNCHANGED << focus, psiVars, jobVars, recordVars >>

Analysis(A) ==
  /\ focus = "analysis"
  /\ A
  /\ UNCHANGED << focus, psiVars, mailVars, recordVars >>

Records(A) ==
  /\ focus = "records"
  /\ A
  /\ UNCHANGED << focus, psiVars, mailVars, jobVars >>

Next ==
  Import(PsiNext) \/ Mailbox(MailNext) \/ Analysis(JobsNext)
  \/ Records(RecordsNext)

\* The fairness of each component, for the behaviours in which it moves.
Fairness ==
  /\ WF_vars(Import(\E i \in Importers : RunWeeklyImport(i)))
  /\ \A i \in Importers : WF_vars(Import(ImportStep(i)))
  /\ WF_vars(Import(importLock = Orphan /\ ExpireImportLock))
  /\ WF_vars(Mailbox(Running = {} /\ \E p \in Polls : StartPoll(p)))
  /\ \A p \in Polls : WF_vars(Mailbox(PollStep(p)))
  /\ WF_vars(Analysis(JobsProgress))
  /\ WF_vars(Records(\E k \in Intakes : IntakeStep(k)))
  /\ WF_vars(Records(SaveClient))
  /\ SF_vars(Records(RetentionPasses))
  /\ WF_vars(Records(PurgeDisputeCases))
  /\ WF_vars(Records(PurgeClients))

Spec == Init /\ [][Next]_vars /\ Fairness

BackgroundTypeOK ==
  /\ focus \in {"import", "mailbox", "analysis", "records"}
  /\ PsiTypeOK /\ MailTypeOK /\ JobsTypeOK /\ RecordsTypeOK
=============================================================================
