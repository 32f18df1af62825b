---------------------------- MODULE AnalysisJobs ----------------------------
(***************************************************************************)
(* The analysis queue of one case.  A request looks for the case's job,    *)
(* reads its state, removes it and adds a new one under the same id, four  *)
(* commands with nothing held in between.  A worker takes the job and runs *)
(* the pipeline from its start at every attempt; what the stages append    *)
(* stays when a later stage fails.                                         *)
(*                                                                         *)
(* The queue is BullMQ's: an add under an id in use does nothing, a locked *)
(* job cannot be removed, a failed attempt is retried after a delay, and   *)
(* an active job without a lock is put back, once.                         *)
(***************************************************************************)
EXTENDS Naturals

CONSTANTS
  Requests,       \* calls of the enqueue endpoint, single or batch
  Workers,        \* server processes, one job at a time each
  NoWorker,
  Attempts,       \* ANALYZE_AI_JOB_OPTIONS.attempts
  MaxStalls,      \* times a stalled job is put back
  MaxQueueFaults, \* bound: crashes, lapsed locks and failed queue commands
  MaxUpsets       \* bound: failures of pipeline stages

ASSUME JobsAssumption ==
  /\ Attempts \in Nat \ {0}
  /\ MaxStalls \in Nat /\ MaxQueueFaults \in Nat /\ MaxUpsets \in Nat
  /\ NoWorker \notin Workers

VARIABLES
  snapshot,    \* the case's pre-seeded snapshot, by mode; never changes
  job,         \* the job under the case's id
  request,     \* where each request stands
  worker,      \* the pipeline stage each worker is at
  comparables, \* batches of comparable sales appended to the case
  reasonRuns,  \* sets of nine reasons appended to the case
  analysed,    \* the case is at Analysed
  queueFaults, upsets,
  added,       \* history: jobs that were added
  served,      \* history: requests answered by a job that ended after they
               \* asked, its last attempt started after they asked
  lapsed       \* history: a lock was lost under a live run

jobVars == << snapshot, job, request, worker, comparables, reasonRuns,
              analysed, queueFaults, upsets, added, served, lapsed >>

-----------------------------------------------------------------------------

\* The last field is history: the requests made before the last attempt.
NoJob == [state |-> "none", made |-> 0, stalls |-> 0, lock |-> NoWorker,
          asked |-> {}]
NewJob == [NoJob EXCEPT !.state = "waiting"]

Stages == {"context", "comparables", "evidence", "reasons", "valuation",
           "status", "completing", "failing"}

JobsInit ==
  /\ snapshot \in {"none", "ground_analysis", "report_generation"}
  /\ job = NoJob
  /\ request = [r \in Requests |-> "idle"]
  /\ worker = [w \in Workers |-> "idle"]
  /\ comparables = 0 /\ reasonRuns = 0 /\ analysed = FALSE
  /\ queueFaults = 0 /\ upsets = 0
  /\ added = 0 /\ served = {} /\ lapsed = FALSE

Pipeline == << snapshot, worker, comparables, reasonRuns, analysed, upsets >>

-----------------------------------------------------------------------------
\* enqueue, and one case of batchEnqueue

FindJob(r) ==
  /\ request[r] = "idle"
  /\ request' = [request EXCEPT ![r] =
       IF job.state = "none" THEN "adding" ELSE "found"]
  /\ UNCHANGED << Pipeline, job, queueFaults, added, served, lapsed >>

\* ConflictException, or "skipped" in a batch.
ReadState(r) ==
  /\ request[r] = "found"
  /\ request' = [request EXCEPT ![r] =
       IF job.state \in {"active", "waiting"} THEN "conflict" ELSE "removing"]
  /\ UNCHANGED << Pipeline, job, queueFaults, added, served, lapsed >>

\* Mutant: a job that has ended is left where it is.
KeepFinished(r) ==
  /\ request[r] = "removing"
  /\ \/ /\ job.lock # NoWorker
        /\ request' = [request EXCEPT ![r] = "error"]
        /\ UNCHANGED job
     \/ /\ job.lock = NoWorker
        /\ job' = IF job.state \in {"completed", "failed"} THEN job ELSE NoJob
        /\ request' = [request EXCEPT ![r] = "adding"]
  /\ UNCHANGED << Pipeline, queueFaults, added, served, lapsed >>

\* Whatever the job is by now: a locked one makes the command throw.
RemoveJob(r) ==
  /\ request[r] = "removing"
  /\ \/ /\ job.lock # NoWorker
        /\ request' = [request EXCEPT ![r] = "error"]
        /\ UNCHANGED job
     \/ /\ job.lock = NoWorker
        /\ job' = NoJob
        /\ request' = [request EXCEPT ![r] = "adding"]
  /\ UNCHANGED << Pipeline, queueFaults, added, served, lapsed >>

\* Mutant: added without the case's id, beside the job that is there.
AddAnother(r) ==
  /\ request[r] = "adding"
  /\ job' = NewJob
  /\ added' = added + 1
  /\ request' = [request EXCEPT ![r] = "queued"]
  /\ UNCHANGED << Pipeline, queueFaults, served, lapsed >>

AddJob(r) ==
  /\ request[r] = "adding"
  /\ job' = IF job.state = "none" THEN NewJob ELSE job
  /\ added' = IF job.state = "none" THEN added + 1 ELSE added
  /\ request' = [request EXCEPT ![r] = "queued"]
  /\ UNCHANGED << Pipeline, queueFaults, served, lapsed >>

\* A queue command fails; after the remove, nothing is put back.
FailRequest(r) ==
  /\ request[r] \in {"found", "removing", "adding"}
  /\ queueFaults < MaxQueueFaults
  /\ queueFaults' = queueFaults + 1
  /\ request' = [request EXCEPT ![r] =
       IF request[r] = "adding" THEN "dropped" ELSE "error"]
  /\ UNCHANGED << Pipeline, job, added, served, lapsed >>

-----------------------------------------------------------------------------
\* The queue

ServedBy(j) ==
  IF j.state \in {"completed", "failed"} THEN served \cup j.asked ELSE served

StartAttempt(w) ==
  /\ worker[w] = "idle"
  /\ job.state = "waiting"
  /\ job' = [job EXCEPT !.state = "active", !.lock = w,
                        !.asked = {r \in Requests : request[r] # "idle"}]
  /\ worker' = [worker EXCEPT ![w] = "context"]
  /\ UNCHANGED << snapshot, request, comparables, reasonRuns, analysed,
                  upsets, queueFaults, added, served, lapsed >>

BackoffElapsed ==
  /\ job.state = "delayed"
  /\ job' = [job EXCEPT !.state = "waiting"]
  /\ UNCHANGED << Pipeline, request, queueFaults, added, served, lapsed >>

\* The lock of a process that died runs out.
ExpireJobLock ==
  /\ job.lock # NoWorker
  /\ worker[job.lock] = "idle"
  /\ job' = [job EXCEPT !.lock = NoWorker]
  /\ UNCHANGED << Pipeline, request, queueFaults, added, served, lapsed >>

\* The lock runs out under a run that could not renew it.
LoseJobLock ==
  /\ job.lock # NoWorker
  /\ worker[job.lock] # "idle"
  /\ queueFaults < MaxQueueFaults
  /\ queueFaults' = queueFaults + 1
  /\ lapsed' = TRUE
  /\ job' = [job EXCEPT !.lock = NoWorker]
  /\ UNCHANGED << Pipeline, request, added, served >>

PutBackStalled ==
  /\ job.state = "active" /\ job.lock = NoWorker
  /\ job' = [job EXCEPT
       !.stalls = @ + 1,
       !.state = IF job.stalls < MaxStalls THEN "waiting" ELSE "failed"]
  /\ served' = ServedBy(job')
  /\ UNCHANGED << Pipeline, request, queueFaults, added, lapsed >>

\* removeOnComplete and removeOnFail, by age.
ForgetJob ==
  /\ job.state \in {"completed", "failed"}
  /\ job' = NoJob
  /\ UNCHANGED << Pipeline, request, queueFaults, added, served, lapsed >>

-----------------------------------------------------------------------------
\* process

Rest == << snapshot, job, request, queueFaults, added, served, lapsed >>

Passes(w, next) ==
  /\ worker' = [worker EXCEPT ![w] = next]
  /\ UNCHANGED upsets

\* A stage fails: the attempt ends there, or the error is only logged.
Upset(w, next) ==
  /\ upsets < MaxUpsets
  /\ upsets' = upsets + 1
  /\ worker' = [worker EXCEPT ![w] = next]

\* The snapshot, or gather and the entity evidence of the case.
GatherContext(w) ==
  /\ worker[w] = "context"
  /\ \/ /\ snapshot = "none" /\ Passes(w, "comparables")
     \/ /\ snapshot = "ground_analysis" /\ Passes(w, "reasons")
     \/ /\ snapshot = "report_generation" /\ Passes(w, "valuation")
     \/ Upset(w, "failing")
  /\ UNCHANGED << Rest, comparables, reasonRuns, analysed >>

\* A failure costs the comparables and nothing else; it may come after the
\* batch was saved.
GenerateComparables(w) ==
  /\ worker[w] = "comparables"
  /\ \/ Passes(w, "evidence") /\ comparables' = comparables + 1
     \/ Upset(w, "evidence") /\ comparables' \in {comparables, comparables + 1}
  /\ UNCHANGED << Rest, reasonRuns, analysed >>

AnalyseEvidence(w) ==
  /\ worker[w] = "evidence"
  /\ Passes(w, "reasons") \/ Upset(w, "failing")
  /\ UNCHANGED << Rest, comparables, reasonRuns, analysed >>

\* The nine rows are one save.
GenerateReasons(w) ==
  /\ worker[w] = "reasons"
  /\ \/ /\ Passes(w, IF snapshot = "none" THEN "valuation" ELSE "status")
        /\ reasonRuns' = reasonRuns + 1
     \/ Upset(w, "failing") /\ UNCHANGED reasonRuns
  /\ UNCHANGED << Rest, comparables, analysed >>

\* Mutant: a failure of the report fails the attempt.
ValuationFatal(w) ==
  /\ worker[w] = "valuation"
  /\ Passes(w, "status") \/ Upset(w, "failing")
  /\ UNCHANGED << Rest, comparables, reasonRuns, analysed >>

GenerateValuation(w) ==
  /\ worker[w] = "valuation"
  /\ Passes(w, "status") \/ Upset(w, "status")
  /\ UNCHANGED << Rest, comparables, reasonRuns, analysed >>

\* markAnalysed: the guard may not match, and a failed update is only logged.
MarkAnalysed(w) ==
  /\ worker[w] = "status"
  /\ \/ Passes(w, "completing") /\ analysed' \in {analysed, TRUE}
     \/ Upset(w, "completing") /\ UNCHANGED analysed
  /\ UNCHANGED << Rest, comparables, reasonRuns >>

\* The queue refuses the result of a worker that does not hold the lock.
Complete(w) ==
  /\ worker[w] = "completing"
  /\ worker' = [worker EXCEPT ![w] = "idle"]
  /\ job' = IF job.lock = w
            THEN [job EXCEPT !.state = "completed", !.lock = NoWorker]
            ELSE job
  /\ served' = ServedBy(job')
  /\ UNCHANGED << snapshot, request, comparables, reasonRuns, analysed,
                  upsets, queueFaults, added, lapsed >>

\* Mutant: one attempt too many.
OneAttemptMore(made) == IF made <= Attempts THEN "delayed" ELSE "failed"

AfterFailure(made) == IF made < Attempts THEN "delayed" ELSE "failed"

FailAttempt(w) ==
  /\ worker[w] = "failing"
  /\ worker' = [worker EXCEPT ![w] = "idle"]
  /\ job' = IF job.lock = w
            THEN [job EXCEPT
                   !.made = @ + 1,
                   !.lock = NoWorker,
                   !.state = AfterFailure(job.made + 1)]
            ELSE job
  /\ served' = ServedBy(job')
  /\ UNCHANGED << snapshot, request, comparables, reasonRuns, analysed,
                  upsets, queueFaults, added, lapsed >>

\* The process dies at any stage, and comes up again.
CrashWorker(w) ==
  /\ worker[w] # "idle"
  /\ queueFaults < MaxQueueFaults
  /\ queueFaults' = queueFaults + 1
  /\ worker' = [worker EXCEPT ![w] = "idle"]
  /\ UNCHANGED << snapshot, job, request, comparables, reasonRuns, analysed,
                  upsets, added, served, lapsed >>

-----------------------------------------------------------------------------

RequestStep(r) == FindJob(r) \/ ReadState(r) \/ RemoveJob(r) \/ AddJob(r)

PipelineStep(w) ==
  \/ GatherContext(w) \/ GenerateComparables(w) \/ AnalyseEvidence(w)
  \/ GenerateReasons(w) \/ GenerateValuation(w) \/ MarkAnalysed(w)
  \/ Complete(w) \/ FailAttempt(w)

JobsNext ==
  \/ \E r \in Requests :
       \/ FindJob(r) \/ ReadState(r) \/ RemoveJob(r) \/ AddJob(r)
       \/ FailRequest(r)
  \/ \E w \in Workers :
       \/ StartAttempt(w)
       \/ GatherContext(w) \/ GenerateComparables(w) \/ AnalyseEvidence(w)
       \/ GenerateReasons(w) \/ GenerateValuation(w) \/ MarkAnalysed(w)
       \/ Complete(w) \/ FailAttempt(w) \/ CrashWorker(w)
  \/ BackoffElapsed \/ ExpireJobLock \/ LoseJobLock \/ PutBackStalled
  \/ ForgetJob

\* What goes on without anyone's doing: requests that have come are carried
\* out, workers poll, the pipeline goes on and the queue keeps its timers.
JobsProgress ==
  \/ \E r \in Requests : request[r] # "idle" /\ RequestStep(r)
  \/ \E w \in Workers : StartAttempt(w) \/ PipelineStep(w)
  \/ BackoffElapsed \/ ExpireJobLock \/ PutBackStalled

JobsFairness == WF_jobVars(JobsProgress)

JobsSpec == JobsInit /\ [][JobsNext]_jobVars /\ JobsFairness

-----------------------------------------------------------------------------

JobsTypeOK ==
  /\ snapshot \in {"none", "ground_analysis", "report_generation"}
  /\ job.state \in
       {"none", "waiting", "active", "delayed", "completed", "failed"}
  /\ job.lock \in Workers \cup {NoWorker}
  /\ job.lock # NoWorker => job.state = "active"
  /\ job.made < Attempts \/ job.state = "failed"
  /\ request \in [Requests -> {"idle", "found", "removing", "adding",
                               "queued", "conflict", "error", "dropped"}]
  /\ worker \in [Workers -> Stages \cup {"idle"}]
  /\ queueFaults \in 0..MaxQueueFaults /\ upsets \in 0..MaxUpsets

\* A request answered with "queued" gets what it was promised: an attempt that
\* started after it asked, carried to an end, whatever other requests removed
\* or added meanwhile; except where one of them removed a job and then could
\* not add its own (enqueue's four commands).
QueuedRequestRuns ==
  \A r \in Requests :
    <>[](request[r] = "queued" =>
           r \in served \/ \E q \in Requests : request[q] = "dropped")

\* No request makes a second pipeline run of a case beside one that is going
\* on: only a lock lost under a live run does (the job's id is the case's).
OneRunAtATime ==
  lapsed \/ \A v, w \in Workers :
              worker[v] # "idle" /\ worker[w] # "idle" => v = w

\* Once an attempt has saved its reasons, no later stage's failure makes the
\* job run again and append another nine: a repetition takes a new job, or a
\* process or lock that was lost (process: the valuation report and
\* markAnalysed are not fatal).
ReasonsOncePerJob == reasonRuns <= added + queueFaults

=============================================================================
