-------------------------- MODULE Background_proofs --------------------------
(***************************************************************************)
(* What goes on without a user waiting for it, for any number of requests, *)
(* workers, clients, intakes and faults.  One pipeline at a time runs for  *)
(* a case as long as no lock is lost under a live run, and a job pays for  *)
(* one set of reasons and a fault of the queue for one more.  No case is   *)
(* open whose client is gone, but for a client removed while a request had *)
(* it in hand.  And import, mailbox, queue and records together keep their *)
(* types, bounds and references.                                           *)
(***************************************************************************)
EXTENDS MCBackground, PsiImport_proofs, VgMailbox_proofs, FiniteSetTheorems, TLAPS

-----------------------------------------------------------------------------
(* One run of a case at a time *)

JobStates == {"none", "waiting", "active", "delayed", "completed", "failed"}

Jobs == [state : JobStates, made : Nat, stalls : Nat,
         lock : Workers \cup {NoWorker}, asked : SUBSET Requests]

JobTyped ==
  /\ job \in Jobs
  /\ worker \in [Workers -> Stages \cup {"idle"}]

\* Only an active job is locked, and whoever runs holds the lock: a job that
\* may be removed, replaced or taken is nobody's.
LockedWhileRunning ==
  /\ job.lock # NoWorker => job.state = "active"
  /\ lapsed \/ \A w \in Workers : worker[w] # "idle" => job.lock = w

JobInv == JobTyped /\ LockedWhileRunning

\* No request, job or worker at the start.
LEMMA JobInvInitially == JobsInit => JobInv
BY JobsAssumption
   DEF JobsInit, JobInv, JobTyped, LockedWhileRunning, Jobs, JobStates,
       NoJob, Stages

\* A request touches the job only where no worker holds its lock.
LEMMA RequestKeepsJobInv ==
  ASSUME JobInv, NEW r \in Requests,
         \/ FindJob(r) \/ ReadState(r) \/ RemoveJob(r) \/ AddJob(r)
         \/ FailRequest(r)
  PROVE  JobInv'
<1> USE JobsAssumption
        DEF JobInv, JobTyped, LockedWhileRunning, Jobs, JobStates, Pipeline
<1>1. CASE FindJob(r) \/ ReadState(r) \/ FailRequest(r)
  BY <1>1 DEF FindJob, ReadState, FailRequest
<1>2. CASE RemoveJob(r)
  BY <1>2 DEF RemoveJob, NoJob
<1>3. CASE AddJob(r)
  BY <1>3 DEF AddJob, NewJob, NoJob
<1> QED BY <1>1, <1>2, <1>3

\* The queue takes a lock from a live run only where it says so, in lapsed.
LEMMA QueueKeepsJobInv ==
  ASSUME JobInv,
         \/ BackoffElapsed \/ ExpireJobLock \/ LoseJobLock \/ PutBackStalled
         \/ ForgetJob
  PROVE  JobInv'
<1> USE JobsAssumption
        DEF JobInv, JobTyped, LockedWhileRunning, Jobs, JobStates, Pipeline
<1>1. CASE BackoffElapsed
  BY <1>1 DEF BackoffElapsed
<1>2. CASE ExpireJobLock
  BY <1>2 DEF ExpireJobLock
<1>3. CASE LoseJobLock
  BY <1>3 DEF LoseJobLock
<1>4. CASE PutBackStalled
  <2>1. UNCHANGED << worker, lapsed >>
    BY <1>4 DEF PutBackStalled
  <2>2. job.stalls + 1 \in Nat /\ job.lock = NoWorker
    BY <1>4 DEF PutBackStalled
  <2>3. PICK n \in Nat, s \in {"waiting", "failed"} :
          job' = [job EXCEPT !.stalls = n, !.state = s]
    BY <1>4, <2>2 DEF PutBackStalled
  <2>4. job' \in Jobs /\ job'.lock = NoWorker
    BY <2>2, <2>3
  <2> QED BY <2>1, <2>2, <2>4
<1>5. CASE ForgetJob
  BY <1>5 DEF ForgetJob, NoJob
<1> QED BY <1>1, <1>2, <1>3, <1>4, <1>5

\* Inside an attempt a worker goes from stage to stage and leaves the job be.
LEMMA StageKeepsJobInv ==
  ASSUME JobInv, NEW w \in Workers,
         \/ GatherContext(w) \/ GenerateComparables(w) \/ AnalyseEvidence(w)
         \/ GenerateReasons(w) \/ GenerateValuation(w) \/ MarkAnalysed(w)
  PROVE  JobInv'
<1>1. /\ UNCHANGED << job, lapsed >>
      /\ worker[w] # "idle"
      /\ \E next \in Stages : worker' = [worker EXCEPT ![w] = next]
  <2> USE DEF Passes, Upset, Rest, Stages
  <2>1. CASE GatherContext(w)
    BY <2>1 DEF GatherContext
  <2>2. CASE GenerateComparables(w)
    BY <2>2 DEF GenerateComparables
  <2>3. CASE AnalyseEvidence(w)
    BY <2>3 DEF AnalyseEvidence
  <2>4. CASE GenerateReasons(w)
    BY <2>4 DEF GenerateReasons
  <2>5. CASE GenerateValuation(w)
    BY <2>5 DEF GenerateValuation
  <2>6. CASE MarkAnalysed(w)
    BY <2>6 DEF MarkAnalysed
  <2> QED BY <2>1, <2>2, <2>3, <2>4, <2>5, <2>6
<1> QED BY <1>1 DEF JobInv, JobTyped, LockedWhileRunning

\* An attempt starts on a job without a lock, and ends by giving its lock up.
LEMMA AttemptKeepsJobInv ==
  ASSUME JobInv, NEW w \in Workers,
         StartAttempt(w) \/ Complete(w) \/ FailAttempt(w) \/ CrashWorker(w)
  PROVE  JobInv'
<1> USE JobsAssumption
        DEF JobInv, JobTyped, LockedWhileRunning, Jobs, JobStates
<1>1. CASE StartAttempt(w)
  BY <1>1 DEF StartAttempt, Stages
<1>2. CASE Complete(w)
  BY <1>2 DEF Complete
<1>3. CASE FailAttempt(w)
  <2>1. /\ worker' = [worker EXCEPT ![w] = "idle"]
        /\ UNCHANGED lapsed
    BY <1>3 DEF FailAttempt
  <2>2. CASE job.lock = w
    <3>1. job.made + 1 \in Nat
      OBVIOUS
    <3>2. PICK n \in Nat, s \in {"delayed", "failed"} :
            job' = [job EXCEPT !.made = n, !.lock = NoWorker, !.state = s]
      BY <1>3, <2>2, <3>1 DEF FailAttempt, AfterFailure
    <3>3. job' \in Jobs /\ job'.lock = NoWorker
      BY <3>2
    <3> QED BY <2>1, <2>2, <3>3
  <2>3. CASE job.lock # w
    BY <1>3, <2>1, <2>3 DEF FailAttempt
  <2> QED BY <2>2, <2>3
<1>4. CASE CrashWorker(w)
  BY <1>4 DEF CrashWorker
<1> QED BY <1>1, <1>2, <1>3, <1>4

\* The invariant of the lock is inductive.
LEMMA StepKeepsJobInv == JobInv /\ [JobsNext]_jobVars => JobInv'
<1> SUFFICES ASSUME JobInv, [JobsNext]_jobVars PROVE JobInv'
  OBVIOUS
<1>1. CASE UNCHANGED jobVars
  BY <1>1 DEF jobVars, JobInv, JobTyped, LockedWhileRunning
<1>2. CASE JobsNext
  BY <1>2, RequestKeepsJobInv, QueueKeepsJobInv, StageKeepsJobInv,
     AttemptKeepsJobInv DEF JobsNext
<1> QED BY <1>1, <1>2

\* Only a lost lock makes two runs of a case at once: no order of requests,
\* removals, retries and restarts does.
THEOREM OneRun == JobsSpec => []OneRunAtATime
<1>1. JobInv => OneRunAtATime
  BY DEF JobInv, LockedWhileRunning, OneRunAtATime
<1> QED BY <1>1, JobInvInitially, StepKeepsJobInv, PTL DEF JobsSpec

-----------------------------------------------------------------------------
(* The reasons a job may still append *)

\* A run that has not saved its reasons, or one whose failure may have the job
\* run again.
BeforeReasons == {"context", "comparables", "evidence", "reasons", "failing"}

Owing == {w \in Workers : worker[w] \in BeforeReasons}

\* The job itself will run again: it waits, or whoever runs it is gone.
JobOwing ==
  \/ job.state \in {"waiting", "delayed"}
  \/ job.state = "active" /\ (job.lock = NoWorker \/ worker[job.lock] = "idle")

JobOwes == IF JobOwing THEN 1 ELSE 0

\* What has been appended and what still may be is paid for.
ReasonsPaid ==
  /\ IsFiniteSet(Owing)
  /\ reasonRuns \in Nat /\ added \in Nat /\ queueFaults \in Nat
  /\ reasonRuns + Cardinality(Owing) + JobOwes <= added + queueFaults

ReasonsInv == JobInv /\ ReasonsPaid

\* A worker that goes to another stage: it alone starts or stops owing a run.
LEMMA WorkerMoves ==
  ASSUME JobTyped, IsFiniteSet(Owing), NEW w \in Workers, NEW next,
         worker' = [worker EXCEPT ![w] = next]
  PROVE  /\ IsFiniteSet(Owing') /\ Cardinality(Owing) \in Nat
         /\ Cardinality(Owing') \in Nat
         /\ worker[w] \notin BeforeReasons /\ next \in BeforeReasons =>
              Cardinality(Owing') = Cardinality(Owing) + 1
         /\ worker[w] \in BeforeReasons /\ next \notin BeforeReasons =>
              Cardinality(Owing') = Cardinality(Owing) - 1
         /\ (worker[w] \in BeforeReasons <=> next \in BeforeReasons) =>
              Cardinality(Owing') = Cardinality(Owing)
<1>1. /\ worker'[w] = next
      /\ \A v \in Workers : v # w => worker'[v] = worker[v]
  BY DEF JobTyped
<1>2. Cardinality(Owing) \in Nat
  BY FS_CardinalityType
<1>3. CASE next \in BeforeReasons
  <2>1. Owing' = Owing \cup {w} /\ (w \in Owing <=> worker[w] \in BeforeReasons)
    BY <1>1, <1>3 DEF Owing
  <2> QED
    BY <1>2, <1>3, <2>1, FS_AddElement
<1>4. CASE next \notin BeforeReasons
  <2>1. Owing' = Owing \ {w} /\ (w \in Owing <=> worker[w] \in BeforeReasons)
    BY <1>1, <1>4 DEF Owing
  <2>2. /\ IsFiniteSet(Owing')
        /\ Cardinality(Owing') =
             IF w \in Owing THEN Cardinality(Owing) - 1 ELSE Cardinality(Owing)
    BY <2>1, FS_RemoveElement
  <2>3. Cardinality(Owing') \in Nat
    BY <2>2, FS_CardinalityType
  <2> QED
    BY <1>2, <1>4, <2>1, <2>2, <2>3
<1> QED
  BY <1>3, <1>4

\* A worker that is done.
LEMMA ToIdle ==
  ASSUME JobTyped, IsFiniteSet(Owing), NEW w \in Workers,
         worker' = [worker EXCEPT ![w] = "idle"]
  PROVE  /\ IsFiniteSet(Owing') /\ Cardinality(Owing') \in Nat
         /\ Cardinality(Owing') <= Cardinality(Owing)
         /\ worker[w] = "failing" => Cardinality(Owing') = Cardinality(Owing) - 1
         /\ worker[w] = "completing" => Cardinality(Owing') = Cardinality(Owing)
<1>1. /\ "idle" \notin BeforeReasons /\ "failing" \in BeforeReasons
      /\ "completing" \notin BeforeReasons
  BY DEF BeforeReasons
<1>2. /\ IsFiniteSet(Owing') /\ Cardinality(Owing) \in Nat /\ Cardinality(Owing') \in Nat
  BY WorkerMoves
<1>3. worker[w] \in BeforeReasons => Cardinality(Owing') = Cardinality(Owing) - 1
  BY <1>1, WorkerMoves
<1>4. worker[w] \notin BeforeReasons => Cardinality(Owing') = Cardinality(Owing)
  BY <1>1, WorkerMoves
<1> QED
  BY <1>1, <1>2, <1>3, <1>4

\* At the start nothing has run and nothing is owed.
LEMMA ReasonsPaidInitially == JobsInit => ReasonsPaid
<1> SUFFICES ASSUME JobsInit PROVE ReasonsPaid
  OBVIOUS
<1>1. Owing = {} /\ ~JobOwing
  BY DEF JobsInit, Owing, BeforeReasons, JobOwing, NoJob
<1> QED
  BY <1>1, FS_EmptySet DEF JobsInit, ReasonsPaid, JobOwes

\* As long as no worker moves, a job that starts owing a run is new or has
\* lost its lock, and both are counted.
LEMMA ReasonsPaidStill ==
  ASSUME ReasonsPaid, UNCHANGED << worker, reasonRuns >>,
         added' \in Nat, queueFaults' \in Nat,
         added' + queueFaults' >= added + queueFaults,
         JobOwes' <= JobOwes \/ added' + queueFaults' > added + queueFaults
  PROVE  ReasonsPaid'
<1>1. Owing' = Owing /\ Cardinality(Owing) \in Nat
  BY FS_CardinalityType DEF ReasonsPaid, Owing
<1>2. JobOwes \in {0, 1} /\ JobOwes' \in {0, 1}
  BY DEF JobOwes
<1>3. reasonRuns + Cardinality(Owing) + JobOwes' <= added' + queueFaults'
  <2>1. PICK a \in Nat, f \in Nat, owes \in {0, 1} :
          added' = a /\ queueFaults' = f /\ JobOwes' = owes
    BY <1>2
  <2>2. a + f >= added + queueFaults /\ (owes <= JobOwes \/ a + f > added + queueFaults)
    BY <2>1
  <2>3. reasonRuns + Cardinality(Owing) + owes <= a + f
    BY <1>1, <1>2, <2>2 DEF ReasonsPaid
  <2> QED
    BY <2>1, <2>3
<1>4. /\ IsFiniteSet(Owing') /\ Cardinality(Owing') = Cardinality(Owing)
      /\ reasonRuns' = reasonRuns /\ reasonRuns \in Nat
  BY <1>1 DEF ReasonsPaid
<1> QED
  BY <1>3, <1>4 DEF ReasonsPaid

\* A request, a timer or a lock that runs out starts no run that is not paid
\* for: the job it makes is counted, and a lock lost under a run is a fault.
LEMMA QueuePaysReasons ==
  ASSUME ReasonsInv,
         \/ \E r \in Requests : \/ FindJob(r) \/ ReadState(r) \/ RemoveJob(r)
                                \/ AddJob(r) \/ FailRequest(r)
         \/ BackoffElapsed \/ ExpireJobLock \/ LoseJobLock \/ PutBackStalled
         \/ ForgetJob
  PROVE  ReasonsPaid'
<1>1. /\ ReasonsPaid /\ reasonRuns \in Nat /\ added \in Nat /\ queueFaults \in Nat
      /\ job \in Jobs /\ (job.lock # NoWorker => job.state = "active")
  BY DEF ReasonsInv, ReasonsPaid, JobInv, JobTyped, LockedWhileRunning
<1>2. CASE \E r \in Requests : FindJob(r) \/ ReadState(r)
  <2>1. UNCHANGED << worker, reasonRuns, job, added, queueFaults >>
    BY <1>2 DEF FindJob, ReadState, Pipeline
  <2>2. JobOwing' <=> JobOwing
    BY <2>1 DEF JobOwing
  <2>3. JobOwes' <= JobOwes
    BY <2>2 DEF JobOwes
  <2> QED
    BY <1>1, <2>1, <2>3, ReasonsPaidStill
<1>3. CASE \E r \in Requests : RemoveJob(r)
  <2>1. /\ UNCHANGED << worker, reasonRuns, added, queueFaults >>
        /\ job' = job \/ job' = NoJob
    BY <1>3 DEF RemoveJob, Pipeline
  <2>2. JobOwing' => JobOwing
    BY <2>1 DEF JobOwing, NoJob
  <2>3. JobOwes' <= JobOwes
    BY <2>2 DEF JobOwes
  <2> QED
    BY <1>1, <2>1, <2>3, ReasonsPaidStill
<1>4. CASE \E r \in Requests : AddJob(r)
  <2>1. /\ UNCHANGED << worker, reasonRuns, queueFaults >>
        /\ \/ job' = job /\ added' = added
           \/ added' = added + 1
    BY <1>4 DEF AddJob, Pipeline
  <2>2. job' = job => (JobOwing' <=> JobOwing)
    BY <2>1 DEF JobOwing
  <2>3. job' = job => JobOwes' <= JobOwes
    BY <2>2 DEF JobOwes
  <2> QED
    BY <1>1, <2>1, <2>3, ReasonsPaidStill
<1>5. CASE \E r \in Requests : FailRequest(r)
  <2>1. /\ UNCHANGED << worker, reasonRuns, job, added >>
        /\ queueFaults' = queueFaults + 1
    BY <1>5 DEF FailRequest, Pipeline
  <2> QED
    BY <1>1, <2>1, ReasonsPaidStill
<1>6. CASE BackoffElapsed \/ ExpireJobLock \/ PutBackStalled \/ ForgetJob
  <2>1. UNCHANGED << worker, reasonRuns, added, queueFaults >>
    BY <1>6 DEF BackoffElapsed, ExpireJobLock, PutBackStalled, ForgetJob, Pipeline
  <2>2. JobOwing' => JobOwing
    <3>1. CASE BackoffElapsed
      BY <3>1 DEF BackoffElapsed, JobOwing
    <3>2. CASE ExpireJobLock
      BY <1>1, <3>2 DEF ExpireJobLock, JobOwing
    <3>3. CASE PutBackStalled
      BY <3>3 DEF PutBackStalled, JobOwing
    <3>4. CASE ForgetJob
      BY <3>4 DEF ForgetJob, NoJob, JobOwing
    <3> QED
      BY <1>6, <3>1, <3>2, <3>3, <3>4
  <2>3. JobOwes' <= JobOwes
    BY <2>2 DEF JobOwes
  <2> QED
    BY <1>1, <2>1, <2>3, ReasonsPaidStill
<1>7. CASE LoseJobLock
  <2>1. /\ UNCHANGED << worker, reasonRuns, added >>
        /\ queueFaults' = queueFaults + 1
    BY <1>7 DEF LoseJobLock, Pipeline
  <2> QED
    BY <1>1, <2>1, ReasonsPaidStill
<1> QED
  BY <1>2, <1>3, <1>4, <1>5, <1>6, <1>7

\* Past its reasons, a run ends its job or goes on to the next stage: none of
\* the stages that come after them fails the attempt.
LEMMA StagesPayReasons ==
  ASSUME ReasonsInv, NEW w \in Workers,
         \/ GatherContext(w) \/ GenerateComparables(w) \/ AnalyseEvidence(w)
         \/ GenerateReasons(w) \/ GenerateValuation(w) \/ MarkAnalysed(w)
  PROVE  ReasonsPaid'
<1>1. /\ ReasonsPaid /\ JobTyped /\ IsFiniteSet(Owing)
      /\ reasonRuns \in Nat /\ added \in Nat /\ queueFaults \in Nat
      /\ job.lock \in Workers \cup {NoWorker}
  BY DEF ReasonsInv, ReasonsPaid, JobInv, JobTyped, Jobs
<1>2. /\ UNCHANGED << job, added, queueFaults >>
      /\ worker[w] # "idle"
      /\ \E next \in Stages :
           /\ worker' = [worker EXCEPT ![w] = next]
           /\ \/ /\ reasonRuns' = reasonRuns
                 /\ next \in BeforeReasons => worker[w] \in BeforeReasons
              \/ /\ reasonRuns' = reasonRuns + 1
                 /\ worker[w] \in BeforeReasons /\ next \notin BeforeReasons
  <2> USE DEF Passes, Upset, Rest, Stages, BeforeReasons
  <2>1. CASE GatherContext(w)
    BY <2>1 DEF GatherContext
  <2>2. CASE GenerateComparables(w)
    BY <2>2 DEF GenerateComparables
  <2>3. CASE AnalyseEvidence(w)
    BY <2>3 DEF AnalyseEvidence
  <2>4. CASE GenerateReasons(w)
    BY <2>4 DEF GenerateReasons
  <2>5. CASE GenerateValuation(w)
    BY <2>5 DEF GenerateValuation
  <2>6. CASE MarkAnalysed(w)
    BY <2>6 DEF MarkAnalysed
  <2> QED
    BY <2>1, <2>2, <2>3, <2>4, <2>5, <2>6
<1>3. PICK next \in Stages :
        /\ worker' = [worker EXCEPT ![w] = next]
        /\ \/ /\ reasonRuns' = reasonRuns
              /\ next \in BeforeReasons => worker[w] \in BeforeReasons
           \/ /\ reasonRuns' = reasonRuns + 1
              /\ worker[w] \in BeforeReasons /\ next \notin BeforeReasons
  BY <1>2
<1>4. /\ IsFiniteSet(Owing')
      /\ Cardinality(Owing) \in Nat /\ Cardinality(Owing') \in Nat
      /\ reasonRuns' \in Nat
      /\ reasonRuns' + Cardinality(Owing') <= reasonRuns + Cardinality(Owing)
  <2>1. /\ IsFiniteSet(Owing')
        /\ Cardinality(Owing) \in Nat /\ Cardinality(Owing') \in Nat
    BY <1>1, <1>3, WorkerMoves
  <2>2. CASE reasonRuns' = reasonRuns /\ (next \in BeforeReasons => worker[w] \in BeforeReasons)
    <3>1. Cardinality(Owing') \in {Cardinality(Owing), Cardinality(Owing) - 1}
      BY <1>1, <1>3, <2>2, WorkerMoves
    <3> QED
      BY <1>1, <2>1, <2>2, <3>1
  <2>3. CASE /\ reasonRuns' = reasonRuns + 1
             /\ worker[w] \in BeforeReasons /\ next \notin BeforeReasons
    <3>1. Cardinality(Owing') = Cardinality(Owing) - 1
      BY <1>1, <1>3, <2>3, WorkerMoves
    <3> QED
      BY <1>1, <2>1, <2>3, <3>1
  <2> QED
    BY <1>3, <2>2, <2>3
<1>5. JobOwing' => JobOwing
  <2>1. \A v \in Workers : worker'[v] = "idle" => worker[v] = "idle"
    BY <1>1, <1>3 DEF JobTyped, Stages
  <2> QED
    BY <1>1, <1>2, <2>1 DEF JobOwing
<1> QED
  BY <1>1, <1>2, <1>4, <1>5 DEF ReasonsPaid, JobOwes

\* A run that starts takes over what its job owes, and one that fails gives it
\* back; one that ends after its reasons leaves nothing.
LEMMA AttemptPaysReasons ==
  ASSUME ReasonsInv, NEW w \in Workers,
         StartAttempt(w) \/ Complete(w) \/ FailAttempt(w) \/ CrashWorker(w)
  PROVE  ReasonsPaid'
<1>1. /\ ReasonsPaid /\ JobTyped /\ IsFiniteSet(Owing)
      /\ reasonRuns \in Nat /\ added \in Nat /\ queueFaults \in Nat
      /\ job \in Jobs /\ job.lock \in Workers \cup {NoWorker}
      /\ job.lock # NoWorker => job.state = "active"
  BY DEF ReasonsInv, ReasonsPaid, JobInv, JobTyped, Jobs, LockedWhileRunning
<1>2. Cardinality(Owing) \in Nat
  BY <1>1, FS_CardinalityType
<1>3. ASSUME NEW next, worker' = [worker EXCEPT ![w] = next]
      PROVE  /\ \A v \in Workers : v # w => worker'[v] = worker[v]
             /\ worker'[w] = next
  BY <1>1, <1>3 DEF JobTyped
<1>4. CASE StartAttempt(w)
  <2>1. /\ worker[w] = "idle" /\ job.state = "waiting"
        /\ worker' = [worker EXCEPT ![w] = "context"]
        /\ job'.state = "active" /\ job'.lock = w
        /\ UNCHANGED << reasonRuns, added, queueFaults >>
    BY <1>1, <1>4 DEF StartAttempt, Jobs
  <2>2. JobOwes = 1 /\ JobOwes' = 0
    BY <1>3, <2>1, JobsAssumption DEF JobOwes, JobOwing
  <2>3. IsFiniteSet(Owing') /\ Cardinality(Owing') = Cardinality(Owing) + 1
    BY <1>1, <2>1, WorkerMoves DEF BeforeReasons
  <2> QED
    BY <1>1, <1>2, <2>1, <2>2, <2>3 DEF ReasonsPaid
<1>5. CASE Complete(w) \/ FailAttempt(w)
  <2>1. /\ worker' = [worker EXCEPT ![w] = "idle"]
        /\ UNCHANGED << reasonRuns, added, queueFaults >>
        /\ worker[w] \in {"completing", "failing"}
        /\ job.lock # w => job' = job
    BY <1>5 DEF Complete, FailAttempt
  <2>2. /\ IsFiniteSet(Owing') /\ Cardinality(Owing') \in Nat
        /\ worker[w] = "failing" => Cardinality(Owing') = Cardinality(Owing) - 1
        /\ worker[w] = "completing" => Cardinality(Owing') = Cardinality(Owing)
    BY <1>1, <2>1, ToIdle
  <2>3. JobOwing' => JobOwing \/ worker[w] = "failing"
    <3>1. CASE job.lock # w
      BY <1>1, <1>3, <2>1, <3>1 DEF JobOwing
    <3>2. CASE job.lock = w /\ Complete(w)
      BY <1>1, <3>2 DEF Complete, JobOwing, Jobs
    <3>3. CASE FailAttempt(w)
      BY <3>3 DEF FailAttempt
    <3> QED
      BY <1>5, <3>1, <3>2, <3>3
  <2> QED
    BY <1>1, <1>2, <2>1, <2>2, <2>3 DEF ReasonsPaid, JobOwes
<1>6. CASE CrashWorker(w)
  <2>1. /\ worker' = [worker EXCEPT ![w] = "idle"] /\ queueFaults' = queueFaults + 1
        /\ UNCHANGED << reasonRuns, added, job >>
    BY <1>6 DEF CrashWorker
  <2>2. /\ IsFiniteSet(Owing') /\ Cardinality(Owing') \in Nat
        /\ Cardinality(Owing') <= Cardinality(Owing)
    BY <1>1, <1>2, <2>1, ToIdle
  <2> QED
    BY <1>1, <1>2, <2>1, <2>2 DEF ReasonsPaid, JobOwes
<1> QED
  BY <1>4, <1>5, <1>6

\* No step runs the reasons stage without a job or a fault to pay for it.
LEMMA StepPaysReasons == ReasonsInv /\ [JobsNext]_jobVars => ReasonsInv'
<1> SUFFICES ASSUME ReasonsInv, [JobsNext]_jobVars PROVE ReasonsPaid'
  BY StepKeepsJobInv DEF ReasonsInv
<1>1. CASE UNCHANGED jobVars
  <2>1. Owing' = Owing /\ (JobOwing' <=> JobOwing)
    BY <1>1 DEF jobVars, Owing, JobOwing
  <2> QED
    BY <1>1, <2>1 DEF jobVars, ReasonsInv, ReasonsPaid, JobOwes
<1>2. CASE JobsNext
  BY <1>2, QueuePaysReasons, StagesPayReasons, AttemptPaysReasons DEF JobsNext
<1> QED
  BY <1>1, <1>2

\* No failure after the reasons were saved, no retry and no order of requests
\* appends a second set: there are as many as jobs added, and one more at most
\* for each process or lock that was lost and each queue command that failed.
THEOREM ReasonsArePaidFor == JobsSpec => []ReasonsOncePerJob
<1>1. JobsInit => ReasonsInv
  BY JobInvInitially, ReasonsPaidInitially DEF ReasonsInv
<1>2. ReasonsInv => ReasonsOncePerJob
  <2> SUFFICES ASSUME ReasonsInv PROVE ReasonsOncePerJob
    OBVIOUS
  <2>1. Cardinality(Owing) \in Nat /\ JobOwes \in {0, 1}
    BY FS_CardinalityType DEF ReasonsInv, ReasonsPaid, JobOwes
  <2> QED
    BY <2>1 DEF ReasonsInv, ReasonsPaid, ReasonsOncePerJob
<1> QED
  BY <1>1, <1>2, StepPaysReasons, PTL DEF JobsSpec

-----------------------------------------------------------------------------
(* Open cases and their clients *)

IntakeStages == {"idle", "found", "document", "property", "notice", "case",
                 "grounds", "done"}

Submission ==
  [stage : IntakeStages, client : Clients \cup {Nobody}, lot : Nat]

CaseRowsTyped ==
  /\ client \in [Clients -> RowStates]
  /\ owner \in [Lots -> Clients \cup {Nobody}]
  /\ dispute \in [Lots -> RowStates]
  /\ intake \in [Intakes -> Submission]

UnderWay(k) == intake[k].stage \notin {"idle", "done"}

\* The client of an intake under way is there, and if it was removed that is
\* remembered: the row does not become due while it is in hand.
ClientInHand(k) ==
  /\ intake[k].client \in Clients
  /\ intake[k].lot \in 1..PropertyCount
  /\ \/ client[intake[k].client] = "live"
     \/ /\ client[intake[k].client] = "removed"
        /\ intake[k].client \in overtaken
  /\ intake[k].stage \in {"notice", "case"} =>
       owner[Lot(k)] = intake[k].client

Covered(l) ==
  /\ owner[l] \in Clients
  /\ client[owner[l]] = "live" \/ owner[l] \in overtaken

RecordsInv ==
  /\ CaseRowsTyped
  /\ \A k \in Intakes : UnderWay(k) => ClientInHand(k)
  /\ \A l \in Lots : dispute[l] = "live" => Covered(l)

\* At the start there is no case and no intake.
LEMMA RecordsInvInitially == RecordsInit => RecordsInv
BY DEF RecordsInit, RecordsInv, CaseRowsTyped, UnderWay, NoIntake, Submission,
       IntakeStages, RowStates

\* An intake under way has a client and a lot in hand.
LEMMA LotTyped ==
  ASSUME RecordsInv, NEW k \in Intakes, UnderWay(k)
  PROVE  /\ intake[k] \in Submission
         /\ intake[k].client \in Clients
         /\ intake[k].lot \in 1..PropertyCount
         /\ Lot(k) \in Lots
BY RecordsAssumption DEF RecordsInv, CaseRowsTyped, ClientInHand, Lot, Lots

\* What a step of an intake under way may write: the property of its current
\* lot, as its client's, and the case of a lot whose property is its client's.
OwnLotOnly(k) ==
  /\ owner' \in {owner, [owner EXCEPT ![Lot(k)] = intake[k].client]}
  /\ \/ dispute' = dispute
     \/ /\ intake[k].stage = "case"
        /\ owner' = owner
        /\ dispute' = [dispute EXCEPT ![Lot(k)] = "live"]
  /\ UNCHANGED << client, overtaken >>

\* Writes to an intake's own lot leave every live case with its client.
LEMMA OwnLotKeepsCover ==
  ASSUME RecordsInv, NEW k \in Intakes, UnderWay(k), OwnLotOnly(k)
  PROVE  /\ owner' \in [Lots -> Clients \cup {Nobody}]
         /\ dispute' \in [Lots -> RowStates]
         /\ \A l \in Lots : dispute'[l] = "live" => Covered(l)'
<1>1. /\ Lot(k) \in Lots
      /\ intake[k].client \in Clients
      /\ \/ client[intake[k].client] = "live"
         \/ intake[k].client \in overtaken
      /\ intake[k].stage = "case" => owner[Lot(k)] = intake[k].client
  BY LotTyped DEF RecordsInv, ClientInHand
<1>2. /\ owner \in [Lots -> Clients \cup {Nobody}]
      /\ dispute \in [Lots -> RowStates]
      /\ \A l \in Lots : dispute[l] = "live" => Covered(l)
  BY DEF RecordsInv, CaseRowsTyped
<1> QED BY <1>1, <1>2 DEF OwnLotOnly, Covered, RowStates

\* An intake that writes its own lot only and goes on with its client.
LEMMA IntakeMoves ==
  ASSUME RecordsInv, NEW k \in Intakes, UnderWay(k), OwnLotOnly(k),
         NEW r \in Submission, intake' = [intake EXCEPT ![k] = r],
         r.stage \notin {"idle", "done"} =>
           /\ r.client = intake[k].client
           /\ r.lot \in 1..PropertyCount
           /\ r.stage \in {"notice", "case"} =>
                owner'[<< k, r.lot >>] = intake[k].client
  PROVE  RecordsInv'
<1>1. intake \in [Intakes -> Submission] /\ client \in [Clients -> RowStates]
  BY DEF RecordsInv, CaseRowsTyped
<1>2. CaseRowsTyped'
  BY <1>1, OwnLotKeepsCover DEF CaseRowsTyped, OwnLotOnly
<1>3. ASSUME NEW j \in Intakes, UnderWay(j)' PROVE ClientInHand(j)'
  <2>1. CASE j = k
    <3>1. intake'[j] = r
      BY <1>1, <2>1
    <3>2. /\ r.client = intake[k].client
          /\ r.lot \in 1..PropertyCount
          /\ r.stage \in {"notice", "case"} =>
               owner'[<< k, r.lot >>] = intake[k].client
      BY <1>3, <3>1 DEF UnderWay
    <3>3. ClientInHand(k)
      BY DEF RecordsInv
    <3> QED BY <2>1, <3>1, <3>2, <3>3 DEF ClientInHand, OwnLotOnly, Lot
  <2>2. CASE j # k
    <3>1. intake'[j] = intake[j]
      BY <1>1, <2>2
    <3>2. ClientInHand(j) /\ UnderWay(j)
      BY <1>3, <3>1 DEF RecordsInv, UnderWay
    <3>3. Lot(j) # Lot(k) /\ Lot(j) \in Lots
      BY <2>2, <3>2, LotTyped DEF Lot
    <3>4. owner'[Lot(j)] = owner[Lot(j)]
      BY <3>3 DEF RecordsInv, CaseRowsTyped, OwnLotOnly
    <3> QED BY <3>1, <3>2, <3>4 DEF ClientInHand, OwnLotOnly, Lot
  <2> QED BY <2>1, <2>2
<1> QED BY <1>2, <1>3, OwnLotKeepsCover DEF RecordsInv

\* The stage a step goes to, of the same client and lot.
LEMMA GoesMoves ==
  ASSUME RecordsInv, NEW k \in Intakes, NEW stage \in IntakeStages,
         UnderWay(k), Goes(k, stage), OwnLotOnly(k),
         stage \in {"notice", "case"} => owner'[Lot(k)] = intake[k].client
  PROVE  RecordsInv'
<1> DEFINE r == [intake[k] EXCEPT !.stage = stage]
<1>1. /\ r \in Submission /\ r.stage = stage
      /\ r.client = intake[k].client /\ r.lot = intake[k].lot
  BY LotTyped DEF Submission
<1>2. intake' = [intake EXCEPT ![k] = r]
  BY DEF Goes
<1> HIDE DEF r
<1> QED BY <1>1, <1>2, LotTyped, IntakeMoves DEF Lot

\* On to the next lot, or the end of the intake.
LEMMA AfterLotMoves ==
  ASSUME RecordsInv, NEW k \in Intakes, UnderWay(k), AfterLot(k),
         OwnLotOnly(k)
  PROVE  RecordsInv'
<1>1. CASE intake[k].lot = PropertyCount
  BY <1>1, GoesMoves DEF AfterLot, IntakeStages
<1>2. CASE intake[k].lot # PropertyCount
  <2>1. PICK n \in 1..PropertyCount : n = intake[k].lot + 1
    BY <1>2, LotTyped, RecordsAssumption
  <2> DEFINE r == [stage |-> "property", client |-> intake[k].client,
                   lot |-> n]
  <2>2. intake' = [intake EXCEPT ![k] = r]
    BY <1>2, <2>1 DEF AfterLot
  <2>3. r \in Submission
    BY LotTyped DEF Submission, IntakeStages
  <2> QED BY <2>2, <2>3, IntakeMoves
<1> QED BY <1>1, <1>2

\* An intake that has its client, from the search or as a new row.
LEMMA IntakeStarts ==
  ASSUME RecordsInv, NEW k \in Intakes, NEW c \in Clients,
         NEW stage \in {"found", "document"},
         intake' = [intake EXCEPT
           ![k] = [stage |-> stage, client |-> c, lot |-> 1]],
         client' \in {client, [client EXCEPT ![c] = "live"]},
         client'[c] = "live",
         UNCHANGED << owner, dispute, overtaken >>
  PROVE  RecordsInv'
<1> DEFINE r == [stage |-> stage, client |-> c, lot |-> 1]
<1>1. /\ r \in Submission /\ r.stage \notin {"notice", "case"}
      /\ r.client = c /\ r.lot \in 1..PropertyCount
  BY RecordsAssumption DEF Submission, IntakeStages
<1>2. intake' = [intake EXCEPT ![k] = r]
  OBVIOUS
<1> HIDE DEF r
<1>3. /\ intake \in [Intakes -> Submission]
      /\ client \in [Clients -> RowStates]
      /\ client' \in [Clients -> RowStates]
      /\ \A b \in Clients : client[b] = "live" => client'[b] = "live"
      /\ \A b \in Clients : client'[b] \in {client[b], "live"}
  BY DEF RecordsInv, CaseRowsTyped, RowStates
<1>4. CaseRowsTyped'
  BY <1>1, <1>2, <1>3 DEF RecordsInv, CaseRowsTyped
<1>5. ASSUME NEW j \in Intakes, UnderWay(j)' PROVE ClientInHand(j)'
  <2>1. CASE j = k
    BY <1>1, <1>2, <1>3, <2>1 DEF ClientInHand
  <2>2. CASE j # k
    <3>1. intake'[j] = intake[j]
      BY <1>2, <1>3, <2>2
    <3>2. ClientInHand(j)
      BY <1>5, <3>1 DEF RecordsInv, UnderWay
    <3> QED BY <1>3, <3>1, <3>2 DEF ClientInHand, Lot
  <2> QED BY <2>1, <2>2
<1>6. \A l \in Lots : dispute'[l] = "live" => Covered(l)'
  BY <1>3 DEF RecordsInv, Covered
<1> QED BY <1>4, <1>5, <1>6 DEF RecordsInv

\* Client rows change, and cases with them, while the intakes stay: enough
\* that no client in hand goes unnoticed and no case stays open uncovered.
LEMMA RowsChange ==
  ASSUME RecordsInv,
         client' \in [Clients -> RowStates],
         owner' \in [Lots -> Clients \cup {Nobody}],
         dispute' \in [Lots -> RowStates],
         intake' = intake,
         \A k \in Intakes : UnderWay(k) =>
           /\ \/ client'[intake[k].client] = "live"
              \/ /\ client'[intake[k].client] = "removed"
                 /\ intake[k].client \in overtaken'
           /\ \A l \in Lots :
                owner[l] = intake[k].client => owner'[l] = owner[l],
         \A l \in Lots : dispute'[l] = "live" => Covered(l)'
  PROVE  RecordsInv'
<1>1. CaseRowsTyped'
  BY DEF RecordsInv, CaseRowsTyped
<1>2. ASSUME NEW k \in Intakes, UnderWay(k)' PROVE ClientInHand(k)'
  <2>1. UnderWay(k) /\ ClientInHand(k)
    BY <1>2 DEF RecordsInv, UnderWay
  <2>2. Lot(k) \in Lots
    BY <2>1, LotTyped
  <2> QED BY <2>1, <2>2 DEF ClientInHand, Lot
<1> QED BY <1>1, <1>2 DEF RecordsInv

\* A removed client can come back with a stale copy; nothing else changes.
LEMMA ComesBack ==
  ASSUME RecordsInv, NEW c,
         client' \in {client, [client EXCEPT ![c] = "live"]},
         UNCHANGED << owner, dispute, intake, overtaken >>
  PROVE  RecordsInv'
<1>1. /\ client' \in [Clients -> RowStates]
      /\ \A b \in Clients : client'[b] \in {client[b], "live"}
  BY DEF RecordsInv, CaseRowsTyped, RowStates
<1>2. \A l \in Lots : dispute'[l] = "live" => Covered(l)'
  BY <1>1 DEF RecordsInv, Covered
<1>3. /\ owner' \in [Lots -> Clients \cup {Nobody}]
      /\ dispute' \in [Lots -> RowStates]
  BY DEF RecordsInv, CaseRowsTyped
<1>4. \A k \in Intakes : UnderWay(k) =>
        \/ client'[intake[k].client] = "live"
        \/ /\ client'[intake[k].client] = "removed"
           /\ intake[k].client \in overtaken'
  BY <1>1 DEF RecordsInv, ClientInHand
<1> QED BY <1>1, <1>2, <1>3, <1>4, RowsChange

-----------------------------------------------------------------------------
\* One lemma for each kind of step.

\* The steps of an intake keep the invariant.
LEMMA IntakeKeeps ==
  ASSUME RecordsInv, NEW k \in Intakes,
         \/ FindClientByName(k) \/ HandleExistingClient(k)
         \/ HandleNewProspect(k) \/ CreateAssessmentDocument(k)
         \/ CreateProperty(k) \/ CreateValuationNotice(k)
         \/ CreateDisputeCase(k) \/ CreateLegalGrounds(k) \/ FailIntake(k)
  PROVE  RecordsInv'
<1>1. CASE FindClientByName(k)
  BY <1>1, IntakeStarts DEF FindClientByName
<1>2. CASE HandleNewProspect(k)
  <2>1. PICK c \in Clients :
          /\ client' = [client EXCEPT ![c] = "live"]
          /\ intake' = [intake EXCEPT
               ![k] = [stage |-> "document", client |-> c, lot |-> 1]]
    BY <1>2 DEF HandleNewProspect
  <2>2. client'[c] = "live"
    BY <2>1 DEF RecordsInv, CaseRowsTyped
  <2> QED BY <1>2, <2>1, <2>2, IntakeStarts DEF HandleNewProspect
<1>3. CASE HandleExistingClient(k)
  <2>1. UnderWay(k) /\ intake[k].lot \in 1..PropertyCount
    BY <1>3 DEF HandleExistingClient, UnderWay, RecordsInv, ClientInHand
  <2> DEFINE c == intake[k].client
  <2>2. c \in Clients /\ intake[k] \in Submission
    BY <2>1, LotTyped
  <2>3. client' = [client EXCEPT ![c] = "live"]
    BY <1>3 DEF HandleExistingClient
  <2>4. intake' = [intake EXCEPT ![k].stage = "document"]
    BY <1>3 DEF HandleExistingClient, Goes
  <2> DEFINE r == [intake[k] EXCEPT !.stage = "document"]
  <2>5. r \in Submission /\ r.stage = "document" /\ r.client = c
        /\ r.lot = intake[k].lot
    BY <2>2 DEF Submission, IntakeStages
  <2>6. intake' = [intake EXCEPT ![k] = r]
    BY <2>4
  <2> HIDE DEF r
  <2>7. /\ client \in [Clients -> RowStates]
        /\ client' \in [Clients -> RowStates]
        /\ client'[c] = "live"
        /\ \A b \in Clients : client'[b] \in {client[b], "live"}
        /\ intake \in [Intakes -> Submission]
    BY <2>2, <2>3 DEF RecordsInv, CaseRowsTyped, RowStates
  <2> HIDE DEF c
  <2>8. UNCHANGED << owner, dispute, overtaken >>
    BY <1>3 DEF HandleExistingClient
  <2>9. CaseRowsTyped'
    BY <2>5, <2>6, <2>7, <2>8 DEF RecordsInv, CaseRowsTyped
  <2>10. ASSUME NEW j \in Intakes, UnderWay(j)' PROVE ClientInHand(j)'
    <3>1. CASE j = k
      BY <2>1, <2>2, <2>5, <2>6, <2>7, <3>1 DEF ClientInHand
    <3>2. CASE j # k
      <4>1. intake'[j] = intake[j]
        BY <2>6, <2>7, <3>2
      <4>2. ClientInHand(j)
        BY <2>10, <4>1 DEF RecordsInv, UnderWay
      <4> QED BY <2>7, <2>8, <4>1, <4>2 DEF ClientInHand, Lot
    <3> QED BY <3>1, <3>2
  <2>11. \A l \in Lots : dispute'[l] = "live" => Covered(l)'
    BY <2>7, <2>8 DEF RecordsInv, Covered
  <2> QED BY <2>9, <2>10, <2>11 DEF RecordsInv
<1>4. CASE CreateAssessmentDocument(k)
  BY <1>4, GoesMoves
     DEF CreateAssessmentDocument, UnderWay, OwnLotOnly, IntakeStages
<1>5. CASE CreateProperty(k)
  <2>1. UnderWay(k) /\ OwnLotOnly(k)
    BY <1>5 DEF CreateProperty, UnderWay, OwnLotOnly
  <2>2. owner'[Lot(k)] = intake[k].client
    BY <1>5, <2>1, LotTyped DEF CreateProperty, RecordsInv, CaseRowsTyped
  <2> QED BY <1>5, <2>1, <2>2, GoesMoves, AfterLotMoves
          DEF CreateProperty, IntakeStages
<1>6. CASE CreateValuationNotice(k)
  <2>1. UnderWay(k) /\ OwnLotOnly(k) /\ owner' = owner
    BY <1>6 DEF CreateValuationNotice, UnderWay, OwnLotOnly
  <2>2. owner[Lot(k)] = intake[k].client
    BY <1>6, <2>1 DEF CreateValuationNotice, RecordsInv, ClientInHand
  <2> QED BY <1>6, <2>1, <2>2, GoesMoves
          DEF CreateValuationNotice, IntakeStages
<1>7. CASE CreateDisputeCase(k)
  BY <1>7, GoesMoves
     DEF CreateDisputeCase, UnderWay, OwnLotOnly, IntakeStages
<1>8. CASE CreateLegalGrounds(k)
  BY <1>8, AfterLotMoves DEF CreateLegalGrounds, UnderWay, OwnLotOnly
<1>9. CASE FailIntake(k)
  BY <1>9, GoesMoves DEF FailIntake, UnderWay, OwnLotOnly, IntakeStages
<1> QED BY <1>1, <1>2, <1>3, <1>4, <1>5, <1>6, <1>7, <1>8, <1>9

\* So do the requests on clients and cases.
LEMMA ClientsServiceKeeps ==
  ASSUME RecordsInv,
         \/ \E c \in Clients : ReadClient(c) \/ RemoveClient(c)
         \/ SaveClient
         \/ \E l \in Lots : RemoveCase(l)
  PROVE  RecordsInv'
<1>1. CASE \E c \in Clients : ReadClient(c)
  BY <1>1, ComesBack DEF ReadClient
<1>2. CASE SaveClient
  BY <1>2, ComesBack DEF SaveClient
<1>3. ASSUME NEW c \in Clients, RemoveClient(c) PROVE RecordsInv'
  <2>1. /\ client' = [client EXCEPT ![c] = "removed"]
        /\ owner' = owner /\ intake' = intake
        /\ overtaken' = overtaken \cup ({c} \cap HeldClients)
        /\ dispute' = [l \in Lots |->
             IF l \in OwnedBy(c) /\ dispute[l] = "live" THEN "removed"
             ELSE dispute[l]]
    BY <1>3 DEF RemoveClient
  <2>2. /\ client' \in [Clients -> RowStates]
        /\ owner' \in [Lots -> Clients \cup {Nobody}]
        /\ dispute' \in [Lots -> RowStates]
        /\ \A b \in Clients : b # c => client'[b] = client[b]
        /\ client'[c] = "removed"
    BY <2>1 DEF RecordsInv, CaseRowsTyped, RowStates
  <2>3. ASSUME NEW k \in Intakes, UnderWay(k)
        PROVE  /\ \/ client'[intake[k].client] = "live"
                  \/ /\ client'[intake[k].client] = "removed"
                     /\ intake[k].client \in overtaken'
               /\ \A l \in Lots :
                    owner[l] = intake[k].client => owner'[l] = owner[l]
    <3>1. ClientInHand(k) /\ intake[k].client \in HeldClients
      BY <2>3 DEF RecordsInv, HeldClients, UnderWay
    <3> QED BY <2>1, <2>2, <3>1 DEF ClientInHand
  <2>4. ASSUME NEW l \in Lots, dispute'[l] = "live" PROVE Covered(l)'
    <3>1. dispute[l] = "live" /\ l \notin OwnedBy(c)
      BY <2>1, <2>4
    <3>2. Covered(l) /\ owner[l] # c
      BY <3>1 DEF RecordsInv, OwnedBy
    <3> QED BY <2>1, <2>2, <3>2 DEF Covered
  <2> QED BY <2>1, <2>2, <2>3, <2>4, RowsChange
<1>4. CASE \E l \in Lots : RemoveCase(l)
  BY <1>4, RowsChange
     DEF RemoveCase, RecordsInv, CaseRowsTyped, RowStates, ClientInHand, Covered
<1> QED BY <1>1, <1>2, <1>3, <1>4

\* The purge takes no client in hand, and none that a case refers to.
LEMMA CleanupKeeps ==
  ASSUME RecordsInv,
         RetentionPasses \/ PurgeDisputeCases \/ PurgeClients \/ FailCleanup
  PROVE  RecordsInv'
<1>1. CASE RetentionPasses
  <2>1. /\ client' = [c \in Clients |->
             IF client[c] = "removed" /\ c \notin HeldClients THEN "due"
             ELSE client[c]]
        /\ dispute' \in [Lots -> RowStates]
        /\ \A l \in Lots : dispute'[l] = "live" => dispute[l] = "live"
        /\ UNCHANGED << owner, intake, overtaken >>
    BY <1>1 DEF RetentionPasses, RecordsInv, CaseRowsTyped, RowStates
  <2>2. \A k \in Intakes : UnderWay(k) => intake[k].client \in HeldClients
    BY DEF HeldClients, UnderWay
  <2>3. client' \in [Clients -> RowStates]
    BY <2>1 DEF RecordsInv, CaseRowsTyped, RowStates
  <2>4. \A l \in Lots : dispute'[l] = "live" => Covered(l)'
    BY <2>1 DEF RecordsInv, Covered
  <2>5. \A k \in Intakes : UnderWay(k) =>
          \/ client'[intake[k].client] = "live"
          \/ /\ client'[intake[k].client] = "removed"
             /\ intake[k].client \in overtaken'
    BY <2>1, <2>2 DEF RecordsInv, ClientInHand
  <2>6. owner' \in [Lots -> Clients \cup {Nobody}]
    BY <2>1 DEF RecordsInv, CaseRowsTyped
  <2> QED BY <2>1, <2>3, <2>4, <2>5, <2>6, RowsChange
<1>2. CASE PurgeDisputeCases
  <2>1. /\ dispute' \in [Lots -> RowStates]
        /\ \A l \in Lots : dispute'[l] = "live" => dispute[l] = "live"
        /\ UNCHANGED << client, owner, intake, overtaken >>
    BY <1>2 DEF PurgeDisputeCases, RecordsInv, CaseRowsTyped, RowStates
  <2> QED BY <2>1, RowsChange DEF RecordsInv, CaseRowsTyped, ClientInHand, Covered
<1>3. CASE PurgeClients
  <2>1. CASE UNCHANGED << client, owner >>
    BY <1>3, <2>1, RowsChange
       DEF PurgeClients, RecordsInv, CaseRowsTyped, ClientInHand, Covered
  <2>2. CASE ~ UNCHANGED << client, owner >>
    <3>1. /\ client' = [c \in Clients |->
               IF c \in Purgeable THEN "purged" ELSE client[c]]
          /\ owner' = [l \in Lots |->
               IF owner[l] \in Purgeable THEN Nobody ELSE owner[l]]
          /\ UNCHANGED << dispute, intake, overtaken >>
      BY <1>3, <2>2 DEF PurgeClients
    <3>2. /\ client' \in [Clients -> RowStates]
          /\ owner' \in [Lots -> Clients \cup {Nobody}]
          /\ dispute' \in [Lots -> RowStates]
      BY <3>1 DEF RecordsInv, CaseRowsTyped, RowStates
    <3>3. \A k \in Intakes : UnderWay(k) =>
            intake[k].client \in Clients
            /\ intake[k].client \notin Purgeable
      BY DEF RecordsInv, ClientInHand, Purgeable, DueClients
    <3>4. \A k \in Intakes : UnderWay(k) =>
            /\ \/ client'[intake[k].client] = "live"
               \/ /\ client'[intake[k].client] = "removed"
                  /\ intake[k].client \in overtaken'
            /\ \A l \in Lots :
                 owner[l] = intake[k].client => owner'[l] = owner[l]
      BY <3>1, <3>3 DEF RecordsInv, ClientInHand
    <3>5. ASSUME NEW l \in Lots, dispute'[l] = "live" PROVE Covered(l)'
      <4>1. Covered(l) /\ dispute[l] \in Present
        BY <3>1, <3>5 DEF RecordsInv, Present
      <4>2. owner[l] \notin Purgeable
        BY <4>1 DEF Purgeable, CasesOf, OwnedBy
      <4> QED BY <3>1, <4>1, <4>2 DEF Covered
    <3> QED BY <3>1, <3>2, <3>4, <3>5, RowsChange
  <2> QED BY <2>1, <2>2
<1>4. CASE FailCleanup
  BY <1>4, ComesBack DEF FailCleanup
<1> QED BY <1>1, <1>2, <1>3, <1>4

\* The invariant is inductive.
LEMMA RecordsInvPreserved ==
  RecordsInv /\ [RecordsNext]_recordVars => RecordsInv'
<1> SUFFICES ASSUME RecordsInv, [RecordsNext]_recordVars PROVE RecordsInv'
  OBVIOUS
<1>1. CASE UNCHANGED recordVars
  BY <1>1, ComesBack DEF recordVars
<1>2. CASE RecordsNext
  BY <1>2, IntakeKeeps, ClientsServiceKeeps, CleanupKeeps DEF RecordsNext
<1> QED BY <1>1, <1>2

\* A covered case has a live client, or one the property excepts.
LEMMA InvGivesOpenCaseHasClient == RecordsInv => OpenCaseHasClient
BY DEF RecordsInv, Covered, OpenCaseHasClient

\* No case stays open for a client that is gone, unless the client was removed
\* while a request had it in hand: for any number of clients, submissions and
\* faults.
THEOREM OpenCasesHaveClients == RecordsSpec => []OpenCaseHasClient
<1>1. RecordsInit => RecordsInv
  BY RecordsInvInitially
<1>2. RecordsInv /\ [RecordsNext]_recordVars => RecordsInv'
  BY RecordsInvPreserved
<1>3. RecordsInv => OpenCaseHasClient
  BY InvGivesOpenCaseHasClient
<1> QED BY <1>1, <1>2, <1>3, PTL DEF RecordsSpec

-----------------------------------------------------------------------------
(* Types and bounds of the analysis jobs *)

\* Requests stand somewhere, faults keep their bounds, and a job has attempts
\* left until it has failed.
JobsKept ==
  /\ snapshot \in {"none", "ground_analysis", "report_generation"}
  /\ request \in [Requests -> {"idle", "found", "removing", "adding",
                               "queued", "conflict", "error", "dropped"}]
  /\ queueFaults \in 0..MaxQueueFaults /\ upsets \in 0..MaxUpsets
  /\ job.made < Attempts \/ job.state = "failed"

\* The inductive invariant.
JobsTypeInv == JobInv /\ JobsKept

\* A new job has all its attempts.
LEMMA JobsTypeInvInitially == JobsInit => JobsTypeInv
<1> SUFFICES ASSUME JobsInit PROVE JobsKept  BY JobInvInitially DEF JobsTypeInv
<1> QED BY JobsAssumption DEF JobsInit, JobsKept, NoJob

\* A request leaves a job that is there, removes it or adds a new one.
LEMMA RequestKeepsTypes ==
  ASSUME JobsTypeInv, NEW r \in Requests,
         \/ FindJob(r) \/ ReadState(r) \/ RemoveJob(r) \/ AddJob(r)
         \/ FailRequest(r)
  PROVE  JobsKept'
<1> USE JobsAssumption DEF JobsTypeInv, JobsKept, Pipeline
<1>1. CASE FindJob(r)  BY <1>1 DEF FindJob
<1>2. CASE ReadState(r)  BY <1>2 DEF ReadState
<1>3. CASE RemoveJob(r)  BY <1>3 DEF RemoveJob, NoJob
<1>4. CASE AddJob(r)  BY <1>4 DEF AddJob, NewJob, NoJob
<1>5. CASE FailRequest(r)
  <2>1. queueFaults' \in 0..MaxQueueFaults  BY <1>5 DEF FailRequest
  <2> QED BY <1>5, <2>1 DEF FailRequest
<1> QED BY <1>1, <1>2, <1>3, <1>4, <1>5

\* Neither the queue nor a stage counts an attempt; a stalled job fails or
\* keeps the attempts it had.
LEMMA QueueKeepsTypes ==
  ASSUME JobsTypeInv,
         \/ BackoffElapsed \/ ExpireJobLock \/ LoseJobLock \/ PutBackStalled
         \/ ForgetJob
  PROVE  JobsKept'
<1>0. job \in Jobs  BY DEF JobsTypeInv, JobInv, JobTyped
<1> USE JobsAssumption DEF JobsTypeInv, JobsKept, Pipeline
<1>1. CASE BackoffElapsed  BY <1>0, <1>1 DEF BackoffElapsed, Jobs
<1>2. CASE ExpireJobLock  BY <1>0, <1>2 DEF ExpireJobLock, Jobs
<1>3. CASE LoseJobLock
  <2>1. queueFaults' \in 0..MaxQueueFaults  BY <1>3 DEF LoseJobLock
  <2>2. job'.made = job.made /\ job'.state = job.state  BY <1>0, <1>3 DEF LoseJobLock, Jobs
  <2> QED BY <1>3, <2>1, <2>2 DEF LoseJobLock
<1>4. CASE PutBackStalled
  <2>1. job.state = "active" /\ UNCHANGED << Pipeline, request, queueFaults >>
    BY <1>4 DEF PutBackStalled
  <2>2. job'.made = job.made  BY <1>0, <1>4 DEF PutBackStalled, Jobs
  <2> QED BY <2>1, <2>2
<1>5. CASE ForgetJob  BY <1>5 DEF ForgetJob, NoJob
<1> QED BY <1>1, <1>2, <1>3, <1>4, <1>5

\* A failure is counted, up to its bound, and an attempt that fails is the
\* last one or leaves another.
LEMMA WorkersKeepTypes ==
  ASSUME JobsTypeInv, NEW w \in Workers,
         \/ StartAttempt(w)
         \/ GatherContext(w) \/ GenerateComparables(w) \/ AnalyseEvidence(w)
         \/ GenerateReasons(w) \/ GenerateValuation(w) \/ MarkAnalysed(w)
         \/ Complete(w) \/ FailAttempt(w) \/ CrashWorker(w)
  PROVE  JobsKept'
<1>0. job \in Jobs /\ (job.lock # NoWorker => job.state = "active")
  BY DEF JobsTypeInv, JobInv, JobTyped, LockedWhileRunning
<1>1. CASE StartAttempt(w)
  <2>1. job'.made = job.made /\ job.state = "waiting"  BY <1>0, <1>1 DEF StartAttempt, Jobs
  <2> QED BY <1>1, <2>1 DEF StartAttempt, JobsTypeInv, JobsKept
<1>2. CASE \/ GatherContext(w) \/ GenerateComparables(w) \/ AnalyseEvidence(w)
           \/ GenerateReasons(w) \/ GenerateValuation(w) \/ MarkAnalysed(w)
  <2>1. /\ UNCHANGED Rest
        /\ upsets' = upsets \/ (upsets < MaxUpsets /\ upsets' = upsets + 1)
    BY <1>2 DEF GatherContext, GenerateComparables, AnalyseEvidence, GenerateReasons,
                GenerateValuation, MarkAnalysed, Passes, Upset
  <2>2. upsets' \in 0..MaxUpsets  BY <2>1, JobsAssumption DEF JobsTypeInv, JobsKept
  <2> QED BY <2>1, <2>2 DEF Rest, JobsTypeInv, JobsKept
<1>3. CASE Complete(w)
  <2>1. UNCHANGED << snapshot, request, upsets, queueFaults >>  BY <1>3 DEF Complete
  <2>2. CASE job.lock = w
    <3>1. job.state = "active"  BY <1>0, <2>2, JobsAssumption
    <3>2. job'.made = job.made  BY <1>0, <1>3, <2>2 DEF Complete, Jobs
    <3> QED BY <2>1, <3>1, <3>2 DEF JobsTypeInv, JobsKept
  <2>3. CASE job.lock # w  BY <1>3, <2>1, <2>3 DEF Complete, JobsTypeInv, JobsKept
  <2> QED BY <2>2, <2>3
<1>4. CASE FailAttempt(w)
  <2>1. UNCHANGED << snapshot, request, upsets, queueFaults >>  BY <1>4 DEF FailAttempt
  <2>2. CASE job.lock = w
    <3>1. job'.made = job.made + 1 /\ job'.state = AfterFailure(job.made + 1)
      BY <1>0, <1>4, <2>2 DEF FailAttempt, Jobs
    <3>2. job'.made < Attempts \/ job'.state = "failed"  BY <3>1 DEF AfterFailure
    <3> QED BY <2>1, <3>2 DEF JobsTypeInv, JobsKept
  <2>3. CASE job.lock # w  BY <1>4, <2>1, <2>3 DEF FailAttempt, JobsTypeInv, JobsKept
  <2> QED BY <2>2, <2>3
<1>5. CASE CrashWorker(w)
  <2>1. queueFaults' \in 0..MaxQueueFaults
    BY <1>5, JobsAssumption DEF CrashWorker, JobsTypeInv, JobsKept
  <2> QED BY <1>5, <2>1 DEF CrashWorker, JobsTypeInv, JobsKept
<1> QED BY <1>1, <1>2, <1>3, <1>4, <1>5

\* The invariant is inductive.
LEMMA StepKeepsJobTypes == JobsTypeInv /\ [JobsNext]_jobVars => JobsTypeInv'
<1> SUFFICES ASSUME JobsTypeInv, [JobsNext]_jobVars PROVE JobsKept'
  BY StepKeepsJobInv DEF JobsTypeInv
<1>1. CASE UNCHANGED jobVars
  BY <1>1 DEF jobVars, JobsTypeInv, JobsKept
<1>2. CASE JobsNext
  BY <1>2, RequestKeepsTypes, QueueKeepsTypes, WorkersKeepTypes DEF JobsNext
<1> QED BY <1>1, <1>2

\* So everything has its type.
LEMMA JobsAreTyped == JobsTypeInv => JobsTypeOK
BY DEF JobsTypeInv, JobsKept, JobInv, JobTyped, LockedWhileRunning, Jobs, JobStates, JobsTypeOK

-----------------------------------------------------------------------------
(* What a case refers to *)

\* A case that is still in the database has its notice, its owner and the
\* owner's row; an intake about to create one has written the notice.
Referred(l) == l \in notices /\ owner[l] \in Clients /\ client[owner[l]] \in Present

RecordsKept ==
  /\ \A l \in Lots : dispute[l] \in Present => Referred(l)
  /\ \A k \in Intakes : intake[k].stage = "case" => Lot(k) \in notices
  /\ notices \subseteq Lots
  /\ overtaken \subseteq Clients
  /\ recordFaults \in 0..MaxRecordFaults

\* The inductive invariant.
ReferenceInv == RecordsInv /\ RecordsKept

\* At the start there is nothing to refer to.
LEMMA ReferenceInvInitially == RecordsInit => ReferenceInv
<1> SUFFICES ASSUME RecordsInit PROVE RecordsKept
  BY RecordsInvInitially DEF ReferenceInv
<1> QED BY RecordsAssumption DEF RecordsInit, RecordsKept, NoIntake, Present

\* What a case refers to stays where it is.
LEMMA StillReferred ==
  ASSUME ReferenceInv,
         \A l \in Lots : dispute'[l] \in Present =>
           /\ dispute[l] \in Present /\ owner'[l] = owner[l]
           /\ l \in notices => l \in notices'
           /\ client[owner[l]] \in Present => client'[owner[l]] \in Present
  PROVE  \A l \in Lots : dispute'[l] \in Present => Referred(l)'
BY DEF ReferenceInv, RecordsKept, Referred

\* The intakes about to create a case are the ones that were, with the notice
\* they have written.
LEMMA StillNoticed ==
  ASSUME ReferenceInv,
         \A j \in Intakes : intake'[j].stage = "case" =>
           intake'[j] = intake[j] /\ (Lot(j) \in notices => Lot(j) \in notices')
  PROVE  \A j \in Intakes : intake'[j].stage = "case" => Lot(j)' \in notices'
BY DEF ReferenceInv, RecordsKept, Lot

\* An intake that goes elsewhere leaves the others where they are.
LEMMA OthersWait ==
  ASSUME ReferenceInv, NEW k \in Intakes,
         \/ \E stage \in IntakeStages \ {"case"} : Goes(k, stage)
         \/ AfterLot(k)
  PROVE  \A j \in Intakes : intake'[j].stage = "case" => intake'[j] = intake[j]
<1>1. intake \in [Intakes -> Submission]
  BY DEF ReferenceInv, RecordsInv, CaseRowsTyped
<1>2. CASE \E stage \in IntakeStages \ {"case"} : Goes(k, stage)
  <2>1. PICK stage \in IntakeStages \ {"case"} : intake' = [intake EXCEPT ![k].stage = stage]
    BY <1>2 DEF Goes
  <2>2. intake'[k].stage = stage /\ \A j \in Intakes : j # k => intake'[j] = intake[j]
    BY <1>1, <2>1 DEF Submission
  <2> QED BY <2>1, <2>2
<1>3. CASE AfterLot(k) /\ intake[k].lot = PropertyCount
  BY <1>1, <1>2, <1>3 DEF AfterLot, IntakeStages
<1>4. CASE AfterLot(k) /\ intake[k].lot # PropertyCount
  BY <1>1, <1>4 DEF AfterLot
<1> QED BY <1>2, <1>3, <1>4

\* The steps of an intake: a notice before its case, a case for a client that
\* is there.
LEMMA IntakeKeepsReferences ==
  ASSUME ReferenceInv, NEW k \in Intakes,
         \/ FindClientByName(k) \/ HandleExistingClient(k)
         \/ HandleNewProspect(k) \/ CreateAssessmentDocument(k)
         \/ CreateProperty(k) \/ CreateValuationNotice(k)
         \/ CreateDisputeCase(k) \/ CreateLegalGrounds(k) \/ FailIntake(k)
  PROVE  RecordsKept'
<1>0. /\ client \in [Clients -> RowStates] /\ owner \in [Lots -> Clients \cup {Nobody}]
      /\ dispute \in [Lots -> RowStates] /\ intake \in [Intakes -> Submission]
      /\ notices \subseteq Lots /\ overtaken \subseteq Clients
      /\ recordFaults \in 0..MaxRecordFaults /\ MaxRecordFaults \in Nat
      /\ "live" \in Present /\ "removed" \in Present
  BY RecordsAssumption DEF ReferenceInv, RecordsInv, CaseRowsTyped, RecordsKept, Present
<1>1. CASE FindClientByName(k)
  <2>1. PICK c \in Clients :
          intake' = [intake EXCEPT ![k] = [stage |-> "found", client |-> c, lot |-> 1]]
    BY <1>1 DEF FindClientByName
  <2>2. UNCHANGED << client, owner, notices, dispute, recordFaults, overtaken >>
    BY <1>1 DEF FindClientByName
  <2>3. \A j \in Intakes : intake'[j].stage = "case" => intake'[j] = intake[j]
    BY <1>0, <2>1
  <2> QED BY <1>0, <2>2, <2>3, StillReferred, StillNoticed DEF RecordsKept
<1>2. CASE HandleNewProspect(k)
  <2>1. PICK c \in Clients :
          /\ client' = [client EXCEPT ![c] = "live"]
          /\ intake' = [intake EXCEPT ![k] = [stage |-> "document", client |-> c, lot |-> 1]]
    BY <1>2 DEF HandleNewProspect
  <2>2. UNCHANGED << owner, notices, dispute, recordFaults, overtaken >>
    BY <1>2 DEF HandleNewProspect
  <2>3. \A j \in Intakes : intake'[j].stage = "case" => intake'[j] = intake[j]
    BY <1>0, <2>1
  <2>4. \A d : client[d] \in Present => client'[d] \in Present
    BY <1>0, <2>1
  <2> QED BY <1>0, <2>2, <2>3, <2>4, StillReferred, StillNoticed DEF RecordsKept
<1>3. CASE HandleExistingClient(k)
  <2>1. /\ client' = [client EXCEPT ![intake[k].client] = "live"] /\ Goes(k, "document")
        /\ UNCHANGED << owner, notices, dispute, recordFaults, overtaken >>
    BY <1>3 DEF HandleExistingClient
  <2>2. \A j \in Intakes : intake'[j].stage = "case" => intake'[j] = intake[j]
    BY <2>1, OthersWait DEF IntakeStages
  <2>3. \A d \in Clients : client[d] \in Present => client'[d] \in Present
    BY <1>0, <2>1
  <2>4. \A l \in Lots : dispute[l] \in Present => owner[l] \in Clients
    BY DEF ReferenceInv, RecordsKept, Referred
  <2> QED BY <1>0, <2>1, <2>2, <2>3, <2>4, StillReferred, StillNoticed DEF RecordsKept
<1>4. CASE CreateAssessmentDocument(k) \/ CreateLegalGrounds(k)
  <2>1. /\ Goes(k, "property") \/ AfterLot(k)
        /\ UNCHANGED << client, owner, notices, dispute, recordFaults, overtaken >>
    BY <1>4 DEF CreateAssessmentDocument, CreateLegalGrounds
  <2>2. \A j \in Intakes : intake'[j].stage = "case" => intake'[j] = intake[j]
    BY <2>1, OthersWait DEF IntakeStages
  <2> QED BY <1>0, <2>1, <2>2, StillReferred, StillNoticed DEF RecordsKept
<1>5. CASE CreateProperty(k)
  <2>1. /\ intake[k].stage = "property"
        /\ owner' = [owner EXCEPT ![Lot(k)] = intake[k].client]
        /\ AfterLot(k) \/ Goes(k, "notice")
        /\ UNCHANGED << client, notices, dispute, recordFaults, overtaken >>
    BY <1>5 DEF CreateProperty
  <2>2. \A j \in Intakes : intake'[j].stage = "case" => intake'[j] = intake[j]
    BY <2>1, OthersWait DEF IntakeStages
  <2>3. intake[k].client \in Clients /\ client[intake[k].client] \in Present
    BY <1>0, <2>1 DEF ReferenceInv, RecordsInv, UnderWay, ClientInHand
  <2>4. \A l \in Lots : dispute'[l] \in Present => Referred(l)'
    BY <1>0, <2>1, <2>3 DEF ReferenceInv, RecordsKept, Referred
  <2> QED BY <1>0, <2>1, <2>2, <2>4, StillNoticed DEF RecordsKept
<1>6. CASE CreateValuationNotice(k)
  <2>1. /\ intake[k].stage = "notice" /\ notices' = notices \cup {Lot(k)} /\ Goes(k, "case")
        /\ UNCHANGED << client, owner, dispute, recordFaults, overtaken >>
    BY <1>6 DEF CreateValuationNotice
  <2>2. Lot(k) \in Lots  BY <2>1, LotTyped DEF ReferenceInv, UnderWay
  <2>3. \A j \in Intakes : intake'[j].lot = intake[j].lot
                           /\ (j # k => intake'[j] = intake[j])
    BY <1>0, <2>1 DEF Goes, Submission
  <2>4. \A j \in Intakes : intake'[j].stage = "case" => Lot(j)' \in notices'
    BY <2>1, <2>3 DEF ReferenceInv, RecordsKept, Lot
  <2> QED BY <1>0, <2>1, <2>2, <2>4, StillReferred DEF RecordsKept
<1>7. CASE CreateDisputeCase(k)
  <2>1. /\ intake[k].stage = "case" /\ dispute' = [dispute EXCEPT ![Lot(k)] = "live"]
        /\ Goes(k, "grounds")
        /\ UNCHANGED << client, owner, notices, recordFaults, overtaken >>
    BY <1>7 DEF CreateDisputeCase
  <2>2. \A j \in Intakes : intake'[j].stage = "case" => intake'[j] = intake[j]
    BY <2>1, OthersWait DEF IntakeStages
  <2>3. Referred(Lot(k))
    BY <1>0, <2>1 DEF ReferenceInv, RecordsKept, RecordsInv, UnderWay, ClientInHand, Referred
  <2>4. \A l \in Lots : dispute'[l] \in Present => Referred(l)
    BY <1>0, <2>1, <2>3 DEF ReferenceInv, RecordsKept
  <2>5. \A l \in Lots : dispute'[l] \in Present => Referred(l)'
    BY <2>1, <2>4 DEF Referred
  <2> QED BY <1>0, <2>1, <2>2, <2>5, StillNoticed DEF RecordsKept
<1>8. CASE FailIntake(k)
  <2>1. /\ Goes(k, "done") /\ recordFaults < MaxRecordFaults
        /\ recordFaults' = recordFaults + 1
        /\ UNCHANGED << client, owner, notices, dispute, overtaken >>
    BY <1>8 DEF FailIntake
  <2>2. \A j \in Intakes : intake'[j].stage = "case" => intake'[j] = intake[j]
    BY <2>1, OthersWait DEF IntakeStages
  <2>3. recordFaults' \in 0..MaxRecordFaults  BY <1>0, <2>1
  <2> QED BY <1>0, <2>1, <2>2, <2>3, StillReferred, StillNoticed DEF RecordsKept
<1> QED BY <1>1, <1>2, <1>3, <1>4, <1>5, <1>6, <1>7, <1>8

\* The steps of clients.service: removed rows stay, and a save brings back what
\* it read.
LEMMA ClientsServiceKeepsReferences ==
  ASSUME ReferenceInv,
         \/ \E c \in Clients : ReadClient(c) \/ RemoveClient(c)
         \/ SaveClient
         \/ \E l \in Lots : RemoveCase(l)
  PROVE  RecordsKept'
<1>0. /\ client \in [Clients -> RowStates] /\ owner \in [Lots -> Clients \cup {Nobody}]
      /\ dispute \in [Lots -> RowStates] /\ intake \in [Intakes -> Submission]
      /\ notices \subseteq Lots /\ overtaken \subseteq Clients
      /\ recordFaults \in 0..MaxRecordFaults
  BY DEF ReferenceInv, RecordsInv, CaseRowsTyped, RecordsKept
<1>1. /\ UNCHANGED << owner, notices, intake, recordFaults >>
      /\ overtaken' \subseteq Clients
      /\ \A c \in Clients : client[c] \in Present => client'[c] \in Present
      /\ \A l \in Lots : dispute'[l] \in Present => dispute[l] \in Present
  <2>1. CASE \E c \in Clients : ReadClient(c)
    BY <1>0, <2>1 DEF ReadClient
  <2>2. CASE \E c \in Clients : RemoveClient(c)
    <3>1. PICK c \in Clients : RemoveClient(c)  BY <2>2
    <3> QED BY <1>0, <3>1 DEF RemoveClient, Present
  <2>3. CASE SaveClient
    BY <1>0, <2>3 DEF SaveClient, Present
  <2>4. CASE \E l \in Lots : RemoveCase(l)
    BY <1>0, <2>4 DEF RemoveCase, Present
  <2> QED BY <2>1, <2>2, <2>3, <2>4
<1>2. \A l \in Lots : dispute[l] \in Present => owner[l] \in Clients
  BY DEF ReferenceInv, RecordsKept, Referred
<1>3. \A l \in Lots : dispute'[l] \in Present => Referred(l)'
  BY <1>1, <1>2, StillReferred
<1>4. \A j \in Intakes : intake'[j].stage = "case" => Lot(j)' \in notices'
  BY <1>1, StillNoticed
<1> QED BY <1>0, <1>1, <1>3, <1>4 DEF RecordsKept

\* The nightly task: what goes is what nothing refers to any more, and the
\* client of an intake under way is never due.
LEMMA CleanupKeepsReferences ==
  ASSUME ReferenceInv,
         RetentionPasses \/ PurgeDisputeCases \/ PurgeClients \/ FailCleanup
  PROVE  RecordsKept'
<1>0. /\ client \in [Clients -> RowStates] /\ owner \in [Lots -> Clients \cup {Nobody}]
      /\ dispute \in [Lots -> RowStates] /\ intake \in [Intakes -> Submission]
      /\ notices \subseteq Lots /\ overtaken \subseteq Clients
      /\ recordFaults \in 0..MaxRecordFaults /\ MaxRecordFaults \in Nat
  BY RecordsAssumption DEF ReferenceInv, RecordsInv, CaseRowsTyped, RecordsKept
<1>1. \A l \in Lots : dispute[l] \in Present => Referred(l)
  BY DEF ReferenceInv, RecordsKept
<1>2. CASE RetentionPasses \/ PurgeDisputeCases \/ FailCleanup
  <2>1. /\ UNCHANGED << owner, notices, intake, overtaken >>
        /\ recordFaults' \in 0..MaxRecordFaults
        /\ \A c \in Clients : client[c] \in Present => client'[c] \in Present
        /\ \A l \in Lots : dispute'[l] \in Present => dispute[l] \in Present
    <3>1. CASE RetentionPasses  BY <1>0, <3>1 DEF RetentionPasses, Present
    <3>2. CASE PurgeDisputeCases  BY <1>0, <3>2 DEF PurgeDisputeCases, Present
    <3>3. CASE FailCleanup  BY <1>0, <3>3 DEF FailCleanup
    <3> QED BY <1>2, <3>1, <3>2, <3>3
  <2>2. \A l \in Lots : dispute'[l] \in Present => Referred(l)'
    BY <1>1, <2>1, StillReferred DEF Referred
  <2>3. \A j \in Intakes : intake'[j].stage = "case" => Lot(j)' \in notices'
    BY <2>1, StillNoticed
  <2> QED BY <1>0, <2>1, <2>2, <2>3 DEF RecordsKept
<1>3. CASE PurgeClients
  <2>1. UNCHANGED << dispute, intake, recordFaults, overtaken >>  BY <1>3 DEF PurgeClients
  <2>2. CASE UNCHANGED << client, owner, notices >>
    <3>1. \A l \in Lots : dispute'[l] \in Present => Referred(l)'
      BY <1>1, <2>1, <2>2, StillReferred
    <3>2. \A j \in Intakes : intake'[j].stage = "case" => Lot(j)' \in notices'
      BY <2>1, <2>2, StillNoticed
    <3> QED BY <1>0, <2>1, <2>2, <3>1, <3>2 DEF RecordsKept
  <2>3. CASE /\ client' = [c \in Clients |-> IF c \in Purgeable THEN "purged" ELSE client[c]]
             /\ owner' = [l \in Lots |-> IF owner[l] \in Purgeable THEN Nobody ELSE owner[l]]
             /\ notices' = {l \in notices : owner[l] \in DueClients => dispute[l] \in Present}
    <3>1. \A l \in Lots : dispute[l] \in Present => owner[l] \notin Purgeable
      BY DEF Purgeable, CasesOf, OwnedBy
    <3>2. ASSUME NEW l \in Lots, dispute'[l] \in Present
          PROVE  /\ dispute[l] \in Present /\ owner'[l] = owner[l]
                 /\ l \in notices => l \in notices'
                 /\ client[owner[l]] \in Present => client'[owner[l]] \in Present
      <4>1. dispute[l] \in Present /\ owner[l] \notin Purgeable /\ owner[l] \in Clients
        BY <1>1, <2>1, <3>1, <3>2 DEF Referred
      <4> QED BY <2>3, <4>1
    <3>3. ASSUME NEW j \in Intakes, intake[j].stage = "case"
          PROVE  owner[Lot(j)] \notin DueClients
      <4>1. /\ owner[Lot(j)] = intake[j].client
            /\ client[intake[j].client] \in {"live", "removed"}
        BY <3>3 DEF ReferenceInv, RecordsInv, UnderWay, ClientInHand
      <4> QED BY <4>1 DEF DueClients
    <3>4. \A j \in Intakes : intake'[j].stage = "case" => Lot(j)' \in notices'
      <4>1. \A j \in Intakes : intake[j].stage = "case" => Lot(j) \in notices
        BY DEF ReferenceInv, RecordsKept
      <4>2. \A j : Lot(j)' = Lot(j)  BY <2>1 DEF Lot
      <4> QED BY <2>1, <2>3, <3>3, <4>1, <4>2
    <3>5. \A l \in Lots : dispute'[l] \in Present => Referred(l)'
      BY <3>2, StillReferred
    <3> QED BY <1>0, <2>1, <2>3, <3>4, <3>5 DEF RecordsKept
  <2> QED BY <1>3, <2>2, <2>3 DEF PurgeClients
<1> QED BY <1>2, <1>3

\* The invariant is inductive.
LEMMA StepKeepsReferences == ReferenceInv /\ [RecordsNext]_recordVars => ReferenceInv'
<1> SUFFICES ASSUME ReferenceInv, [RecordsNext]_recordVars PROVE RecordsKept'
  BY RecordsInvPreserved DEF ReferenceInv
<1>1. CASE UNCHANGED recordVars
  BY <1>1 DEF recordVars, ReferenceInv, RecordsKept, Referred, Lot
<1>2. CASE RecordsNext
  BY <1>2, IntakeKeepsReferences, ClientsServiceKeepsReferences, CleanupKeepsReferences
  DEF RecordsNext
<1> QED BY <1>1, <1>2

\* So everything has its type.
LEMMA RecordsAreTyped == ReferenceInv => RecordsTypeOK
BY DEF ReferenceInv, RecordsInv, CaseRowsTyped, RecordsKept, Referred, RecordsTypeOK

-----------------------------------------------------------------------------
(* All that goes on in the background *)

\* The four parts together, whichever of them moves.
BackgroundInv ==
  /\ focus \in {"import", "mailbox", "analysis", "records"}
  /\ ImportTypeInv /\ MailInv /\ JobsTypeInv /\ ReferenceInv

\* Each part starts as on its own.
LEMMA BackgroundInvInit == Init => BackgroundInv
BY ImportTypeInvInitially, InitMail, JobsTypeInvInitially, ReferenceInvInitially
   DEF Init, BackgroundInv

\* One part moves, the others stay.
LEMMA BackgroundInvNext == BackgroundInv /\ [Next]_vars => BackgroundInv'
<1> SUFFICES ASSUME BackgroundInv, [Next]_vars PROVE BackgroundInv'  OBVIOUS
<1>1. /\ focus' = focus
      /\ [PsiNext]_psiVars /\ [MailNext]_mailVars
      /\ [JobsNext]_jobVars /\ [RecordsNext]_recordVars
  BY DEF Next, vars, Import, Mailbox, Analysis, Records
<1>2. ImportTypeInv'  BY <1>1, StepKeepsImportTypes DEF BackgroundInv
<1>3. MailInv'  BY <1>1, NextMail DEF BackgroundInv
<1>4. JobsTypeInv'  BY <1>1, StepKeepsJobTypes DEF BackgroundInv
<1>5. ReferenceInv'  BY <1>1, StepKeepsReferences DEF BackgroundInv
<1> QED BY <1>1, <1>2, <1>3, <1>4, <1>5 DEF BackgroundInv

\* Whatever goes on and fails in the background keeps its types and bounds:
\* nothing is staged outside a week in hand, a list is polled only while there
\* is one, only an active job is locked and only a failed one is out of
\* attempts, and a case that is still there has its notice and its client.
THEOREM BackgroundTyped == Spec => []BackgroundTypeOK
<1>1. MailInv => MailTypeOK  BY DEF MailInv
<1>2. BackgroundInv => BackgroundTypeOK
  BY <1>1, ImportIsTyped, JobsAreTyped, RecordsAreTyped DEF BackgroundInv, BackgroundTypeOK
<1> QED BY <1>2, BackgroundInvInit, BackgroundInvNext, PTL DEF Spec

\* The four take their steps as they do on their own, so that what is proved of
\* each holds of them together.
THEOREM BackgroundPartsRun ==
  Spec => /\ PsiInit /\ [][PsiNext]_psiVars
          /\ MailInit /\ [][MailNext]_mailVars
          /\ JobsInit /\ [][JobsNext]_jobVars
          /\ RecordsInit /\ [][RecordsNext]_recordVars
<1>1. Init => PsiInit /\ MailInit /\ JobsInit /\ RecordsInit  BY DEF Init
<1>2. [Next]_vars => /\ [PsiNext]_psiVars /\ [MailNext]_mailVars
                     /\ [JobsNext]_jobVars /\ [RecordsNext]_recordVars
  BY DEF Next, vars, Import, Mailbox, Analysis, Records
<1> QED BY <1>1, <1>2, PTL DEF Spec
=============================================================================
