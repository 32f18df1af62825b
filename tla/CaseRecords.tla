---------------------------- MODULE CaseRecords ----------------------------
(***************************************************************************)
(* The life of the records: an intake writes a client, and for each of its *)
(* properties a property, a notice, a case and its grounds, one by one and *)
(* without a transaction; removing marks a client and its cases, or a      *)
(* case, as deleted; and a nightly task deletes for good what has been     *)
(* marked for the retention period, cases first, keeping every client a    *)
(* case still refers to.                                                   *)
(*                                                                         *)
(* Saving an entity writes it as it was read: the copy of a client that    *)
(* was removed meanwhile brings it back.                                   *)
(*                                                                         *)
(* Retention is counted in days: no request that is under way when a row   *)
(* is removed is still under way when the row is due.                      *)
(***************************************************************************)
EXTENDS Naturals, FiniteSets

CONSTANTS
  Clients,          \* bound: client rows ever written
  Intakes,          \* submissions
  PropertyCount,    \* properties of a submission
  Nobody,
  MaxRecordFaults   \* bound: failed writes and crashes

Lots == Intakes \X (1..PropertyCount)

ASSUME RecordsAssumption ==
  /\ PropertyCount \in Nat \ {0}
  /\ MaxRecordFaults \in Nat
  /\ Nobody \notin Clients

VARIABLES
  client,     \* each client row
  owner,      \* of the property row of each lot; Nobody without one
  notices,    \* lots with a valuation notice
  dispute,    \* the case row of each lot
  intake,     \* where each submission stands
  copy,       \* what a request to change a client has read
  cleanup,    \* the nightly task
  recordFaults,
  overtaken   \* history: clients removed under a request that had read them

recordVars == << client, owner, notices, dispute, intake, copy, cleanup,
                 recordFaults, overtaken >>

RowStates == {"none", "live", "removed", "due", "purged"}
Present == {"live", "removed", "due"}

OwnedBy(c) == {l \in Lots : owner[l] = c}
CasesOf(c) == {l \in OwnedBy(c) : dispute[l] \in Present}

NoIntake == [stage |-> "idle", client |-> Nobody, lot |-> 0]
NoCopy == [client |-> Nobody, lots |-> {}, cases |-> {}]

RecordsInit ==
  /\ client = [c \in Clients |-> "none"]
  /\ owner = [l \in Lots |-> Nobody]
  /\ notices = {}
  /\ dispute = [l \in Lots |-> "none"]
  /\ intake = [k \in Intakes |-> NoIntake]
  /\ copy = NoCopy
  /\ cleanup = "idle"
  /\ recordFaults = 0
  /\ overtaken = {}

-----------------------------------------------------------------------------
\* submitIntakeApplication

Lot(k) == << k, intake[k].lot >>

Goes(k, stage) == intake' = [intake EXCEPT ![k].stage = stage]

\* The current lot is done with: the next one, or the end.
AfterLot(k) ==
  IF intake[k].lot = PropertyCount THEN Goes(k, "done")
  ELSE intake' = [intake EXCEPT ![k] =
         [stage |-> "property", client |-> @.client, lot |-> @.lot + 1]]

\* In XPM and known by name: read here, saved in the next step.
FindClientByName(k) ==
  /\ intake[k].stage = "idle"
  /\ \E c \in Clients :
       /\ client[c] = "live"
       /\ intake' = [intake EXCEPT
            ![k] = [stage |-> "found", client |-> c, lot |-> 1]]
  /\ UNCHANGED << client, owner, notices, dispute, copy, cleanup,
                  recordFaults, overtaken >>

HandleExistingClient(k) ==
  /\ intake[k].stage = "found"
  /\ client' = [client EXCEPT ![intake[k].client] = "live"]
  /\ Goes(k, "document")
  /\ UNCHANGED << owner, notices, dispute, copy, cleanup, recordFaults,
                  overtaken >>

\* Not in XPM, or there and of no known name: a row of its own.
HandleNewProspect(k) ==
  /\ intake[k].stage = "idle"
  /\ \E c \in Clients :
       /\ client[c] = "none"
       /\ client' = [client EXCEPT ![c] = "live"]
       /\ intake' = [intake EXCEPT
            ![k] = [stage |-> "document", client |-> c, lot |-> 1]]
  /\ UNCHANGED << owner, notices, dispute, copy, cleanup, recordFaults,
                  overtaken >>

\* The record of the notice document, and its file.
CreateAssessmentDocument(k) ==
  /\ intake[k].stage = "document"
  /\ Goes(k, "property")
  /\ UNCHANGED << client, owner, notices, dispute, copy, cleanup,
                  recordFaults, overtaken >>

\* A property may be given without a dispute.
CreateProperty(k) ==
  /\ intake[k].stage = "property"
  /\ owner' = [owner EXCEPT ![Lot(k)] = intake[k].client]
  /\ AfterLot(k) \/ Goes(k, "notice")
  /\ UNCHANGED << client, notices, dispute, copy, cleanup, recordFaults,
                  overtaken >>

CreateValuationNotice(k) ==
  /\ intake[k].stage = "notice"
  /\ notices' = notices \cup {Lot(k)}
  /\ Goes(k, "case")
  /\ UNCHANGED << client, owner, dispute, copy, cleanup, recordFaults,
                  overtaken >>

CreateDisputeCase(k) ==
  /\ intake[k].stage = "case"
  /\ dispute' = [dispute EXCEPT ![Lot(k)] = "live"]
  /\ Goes(k, "grounds")
  /\ UNCHANGED << client, owner, notices, copy, cleanup, recordFaults,
                  overtaken >>

CreateLegalGrounds(k) ==
  /\ intake[k].stage = "grounds"
  /\ AfterLot(k)
  /\ UNCHANGED << client, owner, notices, dispute, copy, cleanup,
                  recordFaults, overtaken >>

\* A write is refused (the third duplicate reference among them) or the process
\* dies: what was written stays.
FailIntake(k) ==
  /\ intake[k].stage \notin {"idle", "done"}
  /\ recordFaults < MaxRecordFaults
  /\ recordFaults' = recordFaults + 1
  /\ Goes(k, "done")
  /\ UNCHANGED << client, owner, notices, dispute, copy, cleanup, overtaken >>

-----------------------------------------------------------------------------
\* clients.service

\* findOne of update or acceptTc, with the client's properties and live cases.
ReadClient(c) ==
  /\ copy = NoCopy
  /\ client[c] = "live"
  /\ copy' = [client |-> c,
              lots |-> OwnedBy(c),
              cases |-> {l \in CasesOf(c) : dispute[l] = "live"}]
  /\ UNCHANGED << client, owner, notices, dispute, intake, cleanup,
                  recordFaults, overtaken >>

\* The copy's lists are saved with it: a property or case that was added since
\* would lose its owner, which the columns do not allow, and nothing is saved.
SaveClient ==
  LET c == copy.client
      grown == \/ OwnedBy(c) # copy.lots
               \/ \E l \in CasesOf(c) : dispute[l] = "live"
                                        /\ l \notin copy.cases IN
  /\ copy # NoCopy
  /\ client' = IF grown THEN client ELSE [client EXCEPT ![c] = "live"]
  /\ copy' = NoCopy
  /\ UNCHANGED << owner, notices, dispute, intake, cleanup, recordFaults,
                  overtaken >>

HeldClients == {copy.client} \cup
               {intake[k].client : k \in {j \in Intakes :
                                            intake[j].stage # "done"}}

\* Mutant: the cases are left to themselves.
RemoveClientOnly(c) ==
  /\ client[c] = "live"
  /\ client' = [client EXCEPT ![c] = "removed"]
  /\ overtaken' = overtaken \cup ({c} \cap HeldClients)
  /\ UNCHANGED << owner, notices, dispute, intake, copy, cleanup,
                  recordFaults >>

\* One transaction.
RemoveClient(c) ==
  /\ client[c] = "live"
  /\ client' = [client EXCEPT ![c] = "removed"]
  /\ dispute' = [l \in Lots |->
       IF l \in OwnedBy(c) /\ dispute[l] = "live" THEN "removed"
       ELSE dispute[l]]
  /\ overtaken' = overtaken \cup ({c} \cap HeldClients)
  /\ UNCHANGED << owner, notices, intake, copy, cleanup, recordFaults >>

RemoveCase(l) ==
  /\ dispute[l] = "live"
  /\ dispute' = [dispute EXCEPT ![l] = "removed"]
  /\ UNCHANGED << client, owner, notices, intake, copy, cleanup,
                  recordFaults, overtaken >>

-----------------------------------------------------------------------------
\* The nightly task

\* The retention period passes for what was removed and no request that is
\* still under way has read; the threshold of a run is fixed when it starts.
RetentionPasses ==
  /\ cleanup = "idle"
  /\ client' = [c \in Clients |->
       IF client[c] = "removed" /\ c \notin HeldClients THEN "due"
       ELSE client[c]]
  /\ dispute' = [l \in Lots |->
       IF dispute[l] = "removed" /\ l \notin copy.cases
          /\ intake[l[1]].stage = "done" THEN "due"
       ELSE dispute[l]]
  /\ UNCHANGED << owner, notices, intake, copy, cleanup, recordFaults,
                  overtaken >>

\* One transaction; what refers to the cases goes with them.
PurgeDisputeCases ==
  /\ cleanup = "idle"
  /\ \E row \in {client[c] : c \in Clients} \cup {dispute[l] : l \in Lots} :
       row = "due"
  /\ dispute' = [l \in Lots |->
       IF dispute[l] = "due" THEN "purged" ELSE dispute[l]]
  /\ cleanup' = "clients"
  /\ UNCHANGED << client, owner, notices, intake, copy, recordFaults,
                  overtaken >>

DueClients == {c \in Clients : client[c] = "due"}

\* Mutant: every client that is due, whether a case refers to it or not.
AnyDueClient == DueClients

\* The clients that go: no case refers to them any more.
Purgeable == {c \in DueClients : CasesOf(c) = {}}

\* One transaction.  Notices without a case, the properties and the clients;
\* a client a case refers to cannot be deleted, and all is rolled back.
PurgeClients ==
  /\ cleanup = "clients"
  /\ IF \E c \in Purgeable : CasesOf(c) # {}
     THEN UNCHANGED << client, owner, notices >>
     ELSE /\ client' = [c \in Clients |->
               IF c \in Purgeable THEN "purged" ELSE client[c]]
          /\ owner' = [l \in Lots |->
               IF owner[l] \in Purgeable THEN Nobody ELSE owner[l]]
          /\ notices' = {l \in notices :
               owner[l] \in DueClients => dispute[l] \in Present}
  /\ cleanup' = "idle"
  /\ UNCHANGED << dispute, intake, copy, recordFaults, overtaken >>

\* A transaction fails and is rolled back; the run ends.
FailCleanup ==
  /\ cleanup = "clients"
  /\ recordFaults < MaxRecordFaults
  /\ recordFaults' = recordFaults + 1
  /\ cleanup' = "idle"
  /\ UNCHANGED << client, owner, notices, dispute, intake, copy, overtaken >>

-----------------------------------------------------------------------------

IntakeStep(k) ==
  \/ HandleExistingClient(k) \/ CreateAssessmentDocument(k)
  \/ CreateProperty(k) \/ CreateValuationNotice(k) \/ CreateDisputeCase(k)
  \/ CreateLegalGrounds(k)

RecordsNext ==
  \/ \E k \in Intakes :
       \/ FindClientByName(k) \/ HandleExistingClient(k)
       \/ HandleNewProspect(k) \/ CreateAssessmentDocument(k)
       \/ CreateProperty(k) \/ CreateValuationNotice(k)
       \/ CreateDisputeCase(k) \/ CreateLegalGrounds(k) \/ FailIntake(k)
  \/ \E c \in Clients : ReadClient(c) \/ RemoveClient(c)
  \/ SaveClient
  \/ \E l \in Lots : RemoveCase(l)
  \/ RetentionPasses \/ PurgeDisputeCases \/ PurgeClients \/ FailCleanup

\* Requests are carried out, time passes, and the task comes every night.
RecordsFairness ==
  /\ WF_recordVars(\E k \in Intakes : IntakeStep(k))
  /\ WF_recordVars(SaveClient)
  /\ SF_recordVars(RetentionPasses)
  /\ WF_recordVars(PurgeDisputeCases)
  /\ WF_recordVars(PurgeClients)

RecordsSpec == RecordsInit /\ [][RecordsNext]_recordVars /\ RecordsFairness

-----------------------------------------------------------------------------

RecordsTypeOK ==
  /\ client \in [Clients -> RowStates]
  /\ owner \in [Lots -> Clients \cup {Nobody}]
  /\ notices \subseteq Lots
  /\ dispute \in [Lots -> RowStates]
  /\ \A l \in Lots : dispute[l] \in Present =>
       l \in notices /\ client[owner[l]] \in Present
  /\ overtaken \subseteq Clients
  /\ recordFaults \in 0..MaxRecordFaults

\* No case stays open for a client that is gone: removing a client closes its
\* cases with it, and the steps of an intake, the saves of stale copies and
\* the purge do not separate the two again, except for a client that was
\* removed while a request had it in hand (ClientsService.remove).
OpenCaseHasClient ==
  \A l \in Lots :
    dispute[l] = "live" => client[owner[l]] = "live" \/ owner[l] \in overtaken

\* What is removed goes for good in the end: a removed case unless it is
\* brought back, and a removed client unless it is brought back or a case
\* refers to it.  A client kept for its case does not hold the others up
\* (HardDeleteCleanupTask).
RemovedIsPurged ==
  /\ \A l \in Lots : []<>(dispute[l] \notin {"removed", "due"})
  /\ \A c \in Clients :
       []<>(client[c] \notin {"removed", "due"} \/ CasesOf(c) # {})
=============================================================================
