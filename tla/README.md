# LandTaxObjection-server: TLA+ models and proofs

This directory holds the formal models of the land-tax objection server (NestJS,
TypeORM/PostgreSQL, BullMQ/Redis, MS Graph mail). A *dispute case* is carried from
intake, over the client's acceptance of terms, documents and an AI analysis, to an
objection lodged by email with the Valuer General (VG), the VG's answers, and
closure. Paths below are relative to the repository root as seen in
`PROJECT.json` (`src/...`); `PROJECT.json` maps every definition to its lines.

1. [Inventory](#1-inventory)
2. [Modules](#2-modules)
3. [How the state corresponds to the code](#3-how-the-state-corresponds-to-the-code)
4. [Runs, bounds and what they show](#4-runs-bounds-and-what-they-show)
5. [Fairness](#5-fairness)
6. [Findings](#6-findings)
7. [Proofs](#7-proofs)
8. [What is left out, and why](#8-what-is-left-out-and-why)
9. [Plan](#9-plan)

## 1. Inventory

Everything meets in one table, `dispute_cases`. No component calls another to ask
for permission: they agree through the row's columns, its row lock, and guarded
UPDATEs. Most of what can go wrong is therefore between two writers of one row, or
between a committed write and an effect that is not a write (a letter, an audit
row, a job).

### Case lifecycle

| component (source under `src/src/api`) | state | operations | hard behaviour | correct when |
|---|---|---|---|---|
| Status graph `dispute-cases/dispute-status.ts` | constant tables | transition table, actor of each status, dominator dataflow `statusesImpliedBy` | fixpoint on a cyclic graph; one writer's edges are not in the table | the result is exactly the dominators of the edges that are really written |
| Transition service `dispute-status-transition.service.ts` | the row; audit log; pending letters | `applyManual` (six handlers, force), `markAnalysed` | row lock held across an email to the VG; email inside the transaction, client letters after it; promotion and its audit row are two statements | no lodgement counted without its letter; none twice; the limit on further submissions; status and columns agree |
| Dispute cases service `dispute-cases.service.ts` | the row | PATCH, soft delete, `findCasesDueForVGFollowUp`, `sendVGFollowUp`, `recordVgEmailClassification`, reads | PATCH saves an entity read without a lock; due list older than the lock | an edit never undoes a lifecycle step; the VG is chased for cases that still wait, a bounded number of times |
| VG response monitor `vg-response-monitor.scheduler.ts` | none of its own | cron and internal endpoint, `runVGFollowUpCheck` | runs overlap; partial failure per case | each overdue case is dealt with in the end |
| Document gate `assessment-documents/*` | stored files, their report types | create, batch, update, remove; guarded promotion to `reports_uploaded` | check runs after, and apart from, the store; failure only logged; removal checks nothing | no case stays below the gate with the gate satisfied |
| Client acceptance `clients/clients.service.ts` | `tc_accepted_at` | `acceptTc`: client saved, then all its cases saved as read | saves copies of whole cases, read without a lock | saving an accountant does not move a case |
| Audit log `audit-log/*` | one row per step | inserted in or after the step's transaction | order and loss for promotions | the trail accounts for every manual step |
| VG mailbox `dispute-cases/vg-email/*`, `common/ms-graph/*` | in-memory set of seen ids; read flag in the mailbox; an audit row per verdict | poll, classify, record, mark as read | failures between record and mark; a failed call of the language model is caught nowhere and takes the process down; page of 50 unread, window of seven days | no reply waits for ever; a verdict is recorded once, and again only for a fault or an overlap |

### Jobs and imports

| component | state | operations | hard behaviour | correct when |
|---|---|---|---|---|
| Analysis queue and pipeline `analyze-ai-queue.service.ts`, `analyze-ai.processor.ts` | one BullMQ job per case id | enqueue (get, state, remove, add), a run of stages, retries | four separate Redis commands; an attempt restarts a pipeline whose stages append; stalled-job takeover | a queued request is served; one run of a case at a time; what a retry repeats is bounded by the faults |
| Comparables and evidence queues | the same | the same `enqueue` | the same | the same |
| PSI import `psi-import/*` | Redis lock with expiry; `MAX(download_datetime)` watermark | acquire, import week by week, release | expiry while running; a gap below a maximum | no week below the watermark is missing; a release frees only its own lock; the backlog is imported in the end |
| Intake `intake/*` | inserts in several tables | one request, in sequence, no transaction | failure in the middle; the client removed meanwhile | no case is open for a client that is gone |
| Clients `clients/clients.service.ts` | `clients`, its cases | update, acceptTc, remove with its cases | stale copies saved over a removal | the same |
| Hard-delete cleanup `cleanup/hard-delete-cleanup.task.ts` | soft-deleted rows | purge cases, then clients, a transaction each | clients still referenced by cases removed later | what is removed goes for good, and nothing holds the rest up |
| Auth counters `auth/*` | Redis counters, reset tokens | count, lock out, reset | INCR and EXPIRE are two commands; check then use | a counter expires; a token is used once |

### Evidence

| component | state | operations | hard behaviour | correct when |
|---|---|---|---|---|
| Candidate tiers `comparables/candidate-stratification.util.ts` and its caller | none | merge, dedupe and share out the rows of three queries | floors, reserves and leftovers share one budget; supply short or overlapping | the budget is used, every floor met as far as there is supply, no row or dealing twice |
| Comparables selection `comparables/comparables.service.ts` | pools of one generation | three rounds, two last resorts, selection, trim, save | rows come back in later rounds, under another id, or named by a language model | each sale once; the best rungs; nothing that fails a gate; short only when nothing is left |
| Headline figure `common/utils/*` | none | trim outliers, median | quartiles of four or five rates | the figure stays in the middle of the evidence |
| Valuation report `valuation-report.service.ts`, `valuation-ctx-cache.service.ts` | internal value, blob, path; context in memory and in Redis | generate, from an analysis or alone | four writes at four times, and other writers of the value; memory before Redis; the model echoes figures | the report states the value of the case; it rests on the latest analysis saved |

### Computation and plumbing

Valuation and land tax (numeric formulas), objection reasons and package (LLM, documents), AI database update
(SQL written by an LLM), notifications (best effort, SSE), dashboard, users,
properties, valuation notices, location, FYI, MCP: reads, simple CRUD, or
clients of other systems. They keep no state the lifecycle's guards read, with two
exceptions that *are* modelled: the count of comparables, and the VG's value on the
valuation notice that decides an advisory close.

### Interactions

```
  person (REST) --applyManual--> [row lock] --mail--> VG      client <--letters-- after commit
  client (REST) --acceptTc-----> saves old copies of the row
  upload -------> stored file, then guarded UPDATE tnc_agreed -> reports_uploaded, then audit row
  analysis job -> comparables ... guarded UPDATE -> analysed, then audit row
  cron / endpoint -> due list ... [row lock] -> save, mail to VG, commit
  mailbox poll ---> audit row with the verdict (never the status), read flag
  analysis job -> comparables, evidence, reasons -> report run -> internal value, blob, path
  regenerate ---> report run, with the context some process or Redis still has
  advisory close, saves of cases read earlier -> internal value
  intake -------> client, property, notice, case, grounds; remove marks; nightly purge deletes
  weekly tick --> Redis lock -> watermark -> weeks, one transaction each -> property_sales_raw -> candidates
```

## 2. Modules

| module | kind | models |
|---|---|---|
| `DisputeStatus` | constants | the graph, the actors, the status sets, `STATUS_DOMINATORS` |
| `StatusDominators` | algorithm | `computeStatusDominators`, one action per loop iteration, against the path definition of dominators |
| `MCStatusDominators` | TLC | the real graph and every four-node graph |
| `LodgementProtocol` | abstract specification | what a case promises about its dealings with the VG: rounds posted, rounds recorded, a phase |
| `CaseLifecycle` | component | the row and its lifecycle writers; refines `LodgementProtocol` |
| `MCCaseLifecycle` | TLC | symmetry of the references |
| `CaseOverride` | composition | `CaseLifecycle` with the admin override and the two saves of stale entities |
| `VgFollowUp` | composition | `CaseLifecycle` with overlapping runs of the response monitor |
| `PsiImport` | component | the weekly import of sales, its lock and its watermark |
| `VgMailbox` | component | the polls of the mailbox |
| `AnalysisJobs` | component | requests, queue and workers of one case's analysis |
| `CaseRecords` | component | intake, clients, soft delete and purge |
| `MCBackground` | TLC | the four above, one moving at a time |
| `Listing` | operators | a finite set as a list in a given order, for the sorts of the three modules that follow |
| `CandidateTiers` | algorithm | the candidates of a first round |
| `ComparableSelection` | component | one generation of comparables |
| `HeadlineFigure` | algorithm | the rate the internal value is computed from |
| `ValuationReport` | component | runs of `generate`, the context cache |
| `MCComparables` | TLC | tiers, selection, figure, the report's value and its context, one moving at a time |
| `CaseLifecycle_proofs` | proofs | types, the lodgement invariant, every safety property of the lifecycle, the refinement |
| `CaseOverride_proofs`, `VgFollowUp_proofs` | proofs | every safety property of the two compositions; both EXTEND `CaseLifecycle_proofs` and use its lemmas |
| `StatusDominators_proofs` | proofs | the dataflow on every graph, and on the real one |
| `PsiImport_proofs`, `VgMailbox_proofs` | proofs | every safety property of their components, and their types |
| `Background_proofs` | proofs | `AnalysisJobs`, `CaseRecords`, and the composition `MCBackground` |
| `Evidence_proofs` | proofs | `ComparableSelection`, `CandidateTiers`, `HeadlineFigure`, `ValuationReport`, and the composition `MCComparables` |

`CaseLifecycle` EXTENDS `DisputeStatus`; `CaseOverride` and `VgFollowUp` EXTEND
`CaseLifecycle` and take its `CaseStep` whole, so an action of the lifecycle is
written once. The module knows of the follow-up only as a lock holder, and of the
override only as an author of audit rows. The eight modules of jobs and evidence
EXTEND no other module of the project but `Listing`. No module declares a RECURSIVE operator.

Operators whose comment begins with *Mutant:* are not part of a model: each is a
plausible bug in the definition next to it, used to show that a property notices it.

## 3. How the state corresponds to the code

### `CaseLifecycle`

One case is modelled: no writer reads another case's row, and the one shared
resource, the lodgement reference, is drawn at random.

| variable | code |
|---|---|
| `row` | the committed row of `dispute_cases`: lifecycle and lodgement columns; `deleted` is `deleted_at` set, `advisory_view_token` is "has a token" |
| `docs` | report types required for the gate that have a stored file |
| `comparables` | `COUNT(*)` of comparable sales, capped at the number `markAnalysed` asks for (sales are only ever added) |
| `lock` | the `FOR UPDATE` row lock: lodgement transaction, follow-up transaction, or free. Short transactions are one action and never seen holding it |
| `tx` | the open lodgement transaction, split where the outside world can see it: before the mail, and between mail and commit |
| `audit` | `audit_logs` in order of insertion. `createdAt` defaults to `now()`, in PostgreSQL the *start* of the transaction, so the order of dates can only differ more than `TrailInOrder` says |
| `vgMail` | lodgement letters the mail service accepted |
| `checks` | documents stored whose promotion check has not run yet; a removal has none |
| `owed` | promotions whose audit row is not inserted yet |
| `letters` | client letters queued by a committed transition, each tried once, keyed by its audit row |
| `held` | history variable: statuses the row has held |
| `now` | clock; its unit is the follow-up interval's unit |

One action per handler: `OnTncAgreed`, `OnVgResponseReceived`, `OnVgAgreed`,
`OnCaseClosed` and `OnAdvisoryClose` (the two branches of `onCaseClosed`),
`OnObjectionSubmitted` and `OnAiFurtherSubmission` (which open the lodgement),
`SendVgLodgementEmail`, `CommitLodgement`, `RollBackLodgement`; `StoreDocument`,
`RetypeDocument`, `RemoveDocument`, `PromoteToReportsUploaded`, `SkipPromotion`;
`AddComparable`, `MarkAnalysed`; `RecordPromotion`, `LosePromotionRecord`;
`RemoveCase`. A request for the status a case already has returns the case without a
step, and a rejected request changes nothing; both are stuttering steps.

A crash of the process is not an action of its own but the loss of whatever the
process had in flight, each of which may be lost alone: an open transaction
(`RollBackLodgement`, `RollBackFollowUp`), a check (`SkipPromotion` with
`ChecksMayFail`), an audit row (`LosePromotionRecord`), a queued letter (`letters`
records the attempt and no property claims delivery). This allows every loss a real
crash causes and more.

### `CaseOverride`

`ForceStatus` is `applyManual` with `force`: status and audit row, no handler. `PatchCase`
and `AcceptTc` begin a save, `CompareEntity` and `WriteColumns` are TypeORM's `save`
of an entity that has an id: it selects the row again, takes the columns in which the
given entity differs, and updates those. Those two actions are external to the
repository and marked so in the map. `AcceptTc` saves the client first and its cases
one by one; with one case, one save. The promotions' audit rows and the clock are left out
of this composition: nothing in it reads them.

### `VgFollowUp`

`FindDue` is the query for one case, `LockListed` the locked read in
`sendVGFollowUp` with the clock it then reads (`sentAt`), `SendVgFollowUpEnquiry` the mail, `CommitFollowUp` the commit of the
count and date that were saved before the mail (nobody can see them before the
commit), `RollBackFollowUp` a refused mail, a failed commit or a crash, `FailToLock` a
read that is refused or finds no row. The locked read joins the property, and
`JoinedLockWorks` says what the database makes of that (see finding 4). The
promotions' audit rows are left out.

### `StatusDominators`

`SkipEntry`, `VisitNode`, `NextPass` are the `continue`, the body, and the next turn of
the `while` in `computeStatusDominators`. `MeetOverPreds` keeps the code's
treatment of a node without predecessors. Such a node, other than the entry, would
take away the dominators of its successors; the graph has none, and the assumption
`GraphsHavePredecessors` says so for the graphs checked.

### `PsiImport`

`rows` is `property_sales_raw`: a dealing number and the week its `download_datetime`
renders as. `importer[i]` is the run in process `i`: the stage, the watermark it read,
the weeks left, the file it is at, what its open transaction has inserted and the newest
stamp it has seen. `importLock` is the Redis key; the token of a run that died is
`Orphan`. `RunWeeklyImport` is the tick with `SET NX`, `ExpireImportLock` its expiry,
`ReleaseLock` the compare-and-delete script, `AbandonLock` a crash or a failed script.
`ResolveReference`, `FindWeeklyDownloads`, `DownloadWeek`, `IngestFile`, `CommitWeek` and
`RejectWeek` are the steps of a run; the insert waits for another transaction that
inserted the same dealing, as PostgreSQL's unique index makes it. `bundle` says what a
week's archive turns out to hold; `page` is the listing, which grows and loses its
oldest weeks; `withdrawn` remembers those lost before they were stored.

### `VgMailbox`

`unread` and the window (`aged`) are the mailbox, `poll[p]` the stage and remaining
messages of a poll, `processedMessageIds` the set both polls share and each start
clears. A message is a reply, another sender's, or a reply whose analysis always
throws (`"poison"`). An exception ends the process (`ProcessDown`): the cron callback
does not await and nothing installs a handler for rejections. `recorded` counts the
audit rows about a message, up to `Enough`, more than the property can need. The
lookups' SQL does not exclude soft-deleted cases, and `recordVgEmailClassification`
does, so that a reply matched to one is a failed recording.

### `AnalysisJobs`

`job` is the job under the case's id, `request[r]` which of the four commands comes
next, `worker[w]` the stage its process is at. `FindJob`, `ReadState`, `RemoveJob`,
`AddJob` are `enqueue` and the loop body of `batchEnqueue`; one action per stage of
`process`, each with the failure the code makes of it: logged only (comparables, report,
`markAnalysed`) or the end of the attempt. `snapshot` chooses the stages by the case's
pre-seeded mode. What BullMQ does with its locks, delays and stalls is external and
marked so.

### `CaseRecords`

`client` and `dispute` are the states of rows: live, removed (`deleted_at` set), due (for
longer than the retention period), purged. `owner` is `properties.client_id` and,
through the property, the case's client; a lot is one property of a submission. One
action per insert of `submitIntakeApplication`; `copy` is an entity that `update` or
`acceptTc` has read; `SaveClient` is TypeORM's `save` of it with its loaded lists.
Retention is counted in days, so no request under way when a row is removed is still under
way when it is due (`RetentionPasses`): an assumption on the configuration, which
`CLEANUP_RETENTION_MINUTES` could break.

### `ComparableSelection`

A sale is an id with a `kind`: what the code's searches and gates look at. The queries return
any set of rows they may (limits, buckets and order of the SQL are abstracted to "some of
them"), and the model's answer is any small set of ids, one row of its prompt perhaps twice (rows
of the search tool are read again by id, each once), with or without a justification. `RunRound`, `ZoningLastResort`, `RankedLastResort`,
`PersistComparables` are the phases of `generateComparableSales`, `AbortGeneration` a failed
or unreadable answer, or the failure of the one save of all rows. The pool is a list in the order of gathering. `Walked` are the places in it that
the loop over `SELECTION_RUNGS` reaches: those with fewer than the target on the rungs before
theirs, since a rung is taken whole; the selection is these places by rung, and within a rung
in their own order. The subject has an area, a zoning, an assessed value and a place:
without an area there are no size tiers, and without a value no support test, and those
paths are left out.

### `CandidateTiers`, `HeadlineFigure`

Pure functions over every small input, each taken in one step. In `CandidateTiers`, `returned` is the
list of the three queries' rows after `mergeById`, each tagged with the narrowest tier that returns it; a
row is known by its place, so that everything after is a set of places.
`DedupeByDealingNumber` keeps the best row of a dealing, at the place of its first (`PlaceOf`), as a `Map`
does whose value is replaced. `RoundRobin` orders rows by the turn of their bucket, then by the
order in which buckets appear. `PrefetchCandidateSales` is the service's function after its queries.

In `HeadlineFigure`, `Median(Ascending(Eligible(Rated)))` is
`classifyComparablesForMedian` and `computeMedian`. Rates are whole numbers and figures in quarters of their
unit (the fences in eighths), so that interpolation stays exact; the code computes with
floating-point numbers, whose rounding is left out.

Both, and the selection, sort by `ByKey` of `Listing`: a member's place is the number of those that
stand before it. This says what a stable sort returns without following how it is computed.

### `ValuationReport`

A figure is the version of the comparables it comes from, `NoFigure` for a version without an
eligible rate or a site area (`Unpriced`; the code then writes null and prints "-"), or `Other`, a figure
of no version: what a person typed or the model made up. A context is the number of the
analysis that gathered it. `report[g]` is a run of `generate`, stage by stage as it awaits: `Analyse` and
`SaveToRedis` are the analysis that hands it a context, `Regenerate` the endpoint; `ReadCase`,
`RestoreContext`, `RememberContext`, `UpdateInternalAssessedValue`, `CallClaude`, `UploadReport`,
`CreateArtifactRecord`, `UpdateAnalysisReportPath` are its awaits in their order.

`internalValue` has all its writers: the runs, `AdvisoryClose`, and `SaveEntity`, the `save` of a case
that `ReadEntity` read at any time before (`readValue`; `update` and `acceptTc`). `mem[p]` and `redis` are
the cache's two levels, written one after the other (`SetMemory`, then `SaveToRedis`).

`apart` remembers why value and report may differ: a figure not reported yet or whose report failed
(`"unreported"`), runs with different figures under way at once (`"mixed"`), a person's figure
(`"typed"`), an older value put back (`"restored"`). The upload of a report ends the first; a run that
stores its figure while no other holds a different one ends the rest. `saved` is the last analysis
whose save is over, `crossed` that a save left an older copy in Redis, in another process or in
the hand of a lookup, or that a lookup remembered an older context over a newer one.

## 4. Runs, bounds and what they show

Deadlock is not checked: a closed or deleted case without pending work really stops,
and so does the finished dataflow. Sizes are distinct states.

### Passing runs

**`dominators`** (3 995). The dataflow ends (`Terminates`) with exactly the dominators
(`ExactOnFinish`), and on the real graph
with the table the other modules use (`TableIsComputed`). The graphs are the real one
(nine statuses, one cycle) and all 343 graphs on four nodes without self-loops in
which every node but the entry has a predecessor: four nodes are enough for a
cycle beside a bypass, an unreachable cycle, and a visiting order against the edges.

**`lifecycle`** (1 328 448). Requests, uploads, analysis and deletion interleaved, with failures
between mail and commit:

- `LodgementHolds`: what an open lodgement decided on still holds while it waits for the mail;
- `LodgementStamped`: statuses only a lodged case may hold come with date and reference;
- `LodgementBacked`: the row never claims a lodgement the VG was not sent;
- `RoundsCounted`: lodged at most once, further submissions counted exactly, never past the limit;
- `ImpliedWasHeld`: what `statusesImpliedBy` ticks on the timeline was really held;
- `AuditAccounts`: every manual move has its row, though promotions' rows come late or never;
- `ClientLetters`: letters agree with the record; advice and outcome never go to the same client;
- `OnlyLegalSteps`: no step backwards or past a step, promotions decided on old rows included;
- `ImplementsProtocol`: the case implements `LodgementProtocol`.

Bounds: `MaxFurtherSubmissions = 1` (3 in the code; one more than the limit is
attempted, and the proofs cover every value), `MinimumComparables = 1`,
`MaxChecks = 1`, `MaxVgMail = 3` (two rounds and one letter whose commit failed), two
references (a retry may draw another), one land value and null, three of the four
outcomes (`upheld` sends the letter `partially_upheld` does, and an agreement sets it),
`MaxTime = 1` (no guard here compares dates; two moments tell an old stamp from a new
one).

**`override`** (1 460 000). One forced status among four targets (before lodgement twice,
lodged, agreed) and one save of a stale entity, anywhere in the lifecycle. What
survives: no lodgement in the trail without a letter (`LetterPerLodgement`); the
override alone cannot cause a second first lodgement (`RelodgedOnlyAfterRevert`); every change of status is legal,
overridden, or a save putting back a status held before (`StatusChangesExplained`).
One of each is enough for every *pair* of override, save and lifecycle
history; longer combinations of them are not explored.
`MinimumComparables = 0` and no documents: a case then reaches `analysed` only by
`markAnalysed` from `created` or `tnc_agreed`, which the code allows; what follows does not
depend on how it got there.

**`follow_up`** (104 740). Two overlapping runs against the lifecycle, limit two, interval
one, clock up to three: `ScheduleArmed`, `CountedWasSent`, `LimitHoldsPerRun` (each
overlapping run may pass the limit by one, and no more), and `DueIsChased`: a case that is due is followed up, answered, closed or deleted in the
end. A clock of three is enough for a first lodgement at any time, a follow-up after
it, a further submission, and a follow-up of that round.

**`background`** (309 673). Import, mailbox, analysis and records. The four share no
state: `focus` lets one of them move while the others stay as they start, so the run
explores the sum of their state spaces and not the product. Each is its own
specification, faults and fairness included.

- Import, two processes, two weeks of two files, one fault, every kind of archive but an empty one:
  `PrefixStored` (nothing on offer below the watermark is missing, archives stamped with another
  week's date or repeating the week before included), `UnexpiredRunHoldsLock`, `BacklogImported`.
  Two processes are enough for an overrun and a successor; two weeks for a gap.
- Mailbox, two polls, two messages, a page of two, one fault: `RecordedOncePerFault`,
  `RepliesDealtWith`. Page and mail are of one size, so that a message of another sender ahead of a
  reply takes half the page.
- Analysis, two requests, two workers, two attempts, one stall, one queue fault, two failed
  stages: `OneRunAtATime`, `ReasonsOncePerJob` (reasons are appended once per job and once more per
  queue fault: failed stages never repeat them, since all that comes after is not fatal),
  `QueuedRequestRuns`.
- Records, two clients, two intakes of one property, one fault: `OpenCaseHasClient`,
  `RemovedIsPurged`. Two clients are enough for one that is kept and one that is not.

**`comparables`** (644 239). Candidates, selection, figure and report, again one at a time: what
one gives the next is taken from *every* input the next can have.

- `BudgetShared`: tiers of up to one, three and one row, every pattern of buckets and vacancy, and
  up to two rows of one dealing, against a budget of four with floors nought, two, one. The second tier is cut
  with a reserve and more beside it, the first and the second compete for what the floors leave, the third
  goes short or does not; larger numbers and every other sharing of the budget are the theorem's (section 7).
- `EachSaleOnce`, `ShortOnlyWhenExhausted`, `BestStored`, `StoredIsSupport`: three sales, each of seven kinds
  (one for every rung's reach and every reason to be left out), every sharing of dealings, two rounds,
  target two, minimum one, maximum two. In the code these are 5, 3 and 8 over three rounds; a
  pool larger than the maximum, a rung that overshoots the target, and a shortfall after all rounds
  happen already.
- `HeadlineInMiddleHalf`: every list of up to six rows, two more than the trim's minimum of four
  and one more than are taken (`MaxTaken` is 10 in the code), with four rates and one part
  interest.
- `ReportAgrees`: two runs, two processes, three versions of the comparables, the first of them without a
  figure, one fault, any number of advisory closes and of saves of an entity read earlier. Explored with no
  analysis, which the value does not depend on.
- `RegeneratesFromLatest`: two runs, two processes, two analyses, one fault, evictions and expiry at any
  time. Explored with one version of the comparables and without the other writers of the value, on
  which the context does not depend. Two analyses are enough for an older copy and a newer.

Runs and processes are interchangeable (`Alike`), and the run has no temporal property that symmetry
could hide.

### Runs that find a violation

**`gate_missed`**, **`audit_order`**, **`stale_save`**, **`follow_up_lock`**,
**`report_overtaken`** and **`week_skipped`** each check one statement the repository makes of itself, and
TLC finds a behaviour of the code that contradicts it: see section 6.

## 5. Fairness

The lifecycle has none: a person, a client, the VG may never act, so nothing about a
case must happen. All its properties are safety.

`StatusDominators` has weak fairness of `Next`: a synchronous loop at module load.

`VgFollowUp` has, per run, weak fairness of `FindDue` (the cron job is started every
day), `LockListed` and `FailToLock` (a run works through its list, and a row lock is
waited for; a lock holder's transaction ends or its connection does, so a lock comes
free), and strong fairness of `SendVgFollowUpEnquiry` and `CommitFollowUp`: an attempt
may be refused any number of times, but a mail service and a database that are tried
again every day do not refuse for ever. No fairness is assumed of persons, of the VG,
of lodgements or of time.

The background jobs have the fairness of their schedulers, and none of faults, requests,
mail or the site:

- `PsiFairness`: the weekly tick comes again in some process, a run goes on, and Redis drops an
  expired key whose holder is gone. A run that outlives its lock is not assumed to be slow or
  fast.
- `MailFairness`: a poll is started when none runs, and a poll goes on. A call's failure is a fault
  and bounded; an analysis that always throws is not a fault but a kind of message.
- `JobsFairness`: requests that have come are carried out, workers poll and go on, the queue keeps
  its timers: one weak fairness of all of it together, since no other step can go on for ever.
- `RecordsFairness`: requests are carried out and the task comes every night (weak); strong fairness
  only of the passing of the retention period, which other requests on the same rows interrupt and
  do not prevent.

The evidence modules have none; all their properties are safety.

The lock comes free without fairness of the lodgement only because a waiting case
cannot be in a lodgement that never ends and be due at once: from a waiting status no lodgement
opens.

## 6. Findings

1. `gate_missed`. Both reports uploaded before the terms are agreed: each upload's check
   found another status, `onTncAgreed` runs none, and the case is at `tnc_agreed` with
   both reports on file and no check to come, the state
   `assessment-documents.service.ts:126` and `:240` describe as the one to avoid. No
   failure is needed (`ChecksMayFail = FALSE`).
2. `audit_order`. The audit row of a promotion is a statement of its own; the next
   move's row can be committed first, and the trail called "oldest first" shows the
   step out of a status before the step into it.
3. `stale_save`. A PATCH of any column, or a client's acceptance of the terms, that
   read the row before a lodgement committed and saves after it puts status, date and
   reference back. The case is then lodged a second time under another reference,
   without an override.
4. `follow_up_lock`. `sendVGFollowUp` locks with a joined relation, which the transition
   service says PostgreSQL rejects (`dispute-status-transition.service.ts:152`). With
   `JoinedLockWorks = FALSE` no overdue case is ever chased. The other follow-up runs
   take the lock to work, to say what holds once it does.
5. `report_overtaken`. `generate` stores the value of the case, has the report written, which takes
   minutes, and uploads it; no lock, queue or check keeps a second run away. Of two requests to
   regenerate with a comparable added between them, the later can store its value and upload its report
   before the earlier uploads its own: the case then carries the later figure, the file the earlier,
   until the report is asked for again. Lines 429-434 of `valuation-report.service.ts` call the two "this
   same figure". Nothing fails and nobody else writes in the run (`SameFigure`).
6. `week_skipped`. An archive in which no `.DAT` file is found ends its week as a success
   (`psi-import.service.ts:276-281`); the run goes on, and the next week's commit moves the
   watermark past a week of which nothing is stored. Lines 102-107 rest the watermark on a
   contiguous prefix of stored weeks, and for the like case of files without records lines
   365-367 fail the week for just that reason. `PrefixStored`, which asks only for what the
   data files held, passes.

Smaller divergences met while modelling, without a run: `sendVGFollowUp` does not read the status again under
the lock, so that if the lock of finding 4 is made to work, a case answered or closed after the list
was made is chased and counted; one answer of the model that lists a row of its prompt twice
stores the sale twice, where `comparables.service.ts:1721-1725` says "an id can never be double-counted" (`EachSaleOnce`
excepts it); rows found with the search tool are not deduplicated by
dealing; `comparables.service.ts:54-57` reserves floors for the wider tiers, whose queries do not exclude
the rows of the narrower ones, so that a floor can go unused;
`valuation-report.service.ts:318` calls itself "the one place that sees every comparable" of a query with
`take: 10`, and with ties at that cut "the same evidence" need not give "the same figure"; `dispute-status.ts:371` cites a
`dispute-status.spec.ts` that does not exist; `vg-follow-up-test.seeder.ts` speaks of 89 and 90
days where the gate is five; `findAuditTrail`'s comment promises a row per VG follow-up
and `sendVGFollowUp` writes none; the README's "Approval reminder" cron is absent; the
in-memory set of processed mail, said to prevent duplicates (`ms-graph.service.ts:90`), is cleared
at the start of each poll.

## 7. Proofs

For every value of the constants that satisfies the assumption its module names:

- `LifecycleAssumption`: bounds are natural numbers, `Null` is no number and no reference,
  outcomes are outcomes, land values natural numbers. `OverrideAssumption` adds that what is forced are statuses.
- `FollowUpAssumption`: the runs are finitely many, the interval is a natural number and the limit is
  at least one. The code has `const MAX_VG_FOLLOW_UPS = 3` (`dispute-cases.service.ts:70`);
  with a limit of nought no case would ever be due.
- `GraphsAreClosed`, `GraphsHavePredecessors`: a graph's order lists its nodes, every edge joins two of
  them, and all but the entry have a predecessor. An order is a list, so a graph is finite;
  it may repeat a node and may have cycles and unreachable parts. The table of the code satisfies both.
- `SelectionAssumption`, `KindsAssumption`: minimum, target and maximum ascend from one (3, 5 and 8 in the code),
  there is a round, and a row's kind speaks of the bands, tiers and zonings there are.
- `TiersAssumption`: floors add up to no more than the budget, and vacant land's floor is part of its tier's.
  The code says the latter ("carved out of") and its constants satisfy both.
- `FigureAssumption`: rates are natural numbers or `NoRate`, which is none, and the trim's minimum is positive.
- for the others, bounds are natural numbers (weeks and files at least one), "none" values are none
  of the rest, and kinds of archives and of messages are those the models define. The sets of
  processes, requests, workers, polls and clients are arbitrary.

| module | theorem | says |
|---|---|---|
| `CaseLifecycle_proofs` | `TypeCorrect` | `Spec => []TypeOK` |
| | `LodgementInvariant` | `Spec => []LodgementInv`, the inductive invariant |
| | `OpenLodgementHolds`, `LodgedIsStamped`, `LodgedIsBacked` | `LodgementHolds`, `LodgementStamped`, `LodgementBacked`, from it |
| | `ImpliedStatusesHeld` | `ImpliedWasHeld` |
| | `TrailAccounts` | `AuditAccounts` |
| | `RoundsAreCounted` | `RoundsCounted` |
| | `LettersAgree` | `ClientLetters` |
| | `StepsAreLegal` | `OnlyLegalSteps` |
| | `LifecycleImplementsProtocol` | `Spec => Protocol!Spec` |
| `CaseOverride_proofs` | `LodgementsHaveLetters` | `LetterPerLodgement` |
| | `RelodgedNeedsRevert` | `RelodgedOnlyAfterRevert` |
| | `ChangesAreExplained` | `StatusChangesExplained` |
| `VgFollowUp_proofs` | `FollowUpInvariant` | `FollowUpSpec => []FollowUpInv`, the inductive invariant |
| | `WaitingIsArmed` | `ScheduleArmed` |
| | `CountedFollowUpsWereSent` | `CountedWasSent` |
| | `LimitHolds` | `LimitHoldsPerRun` |
| `PsiImport_proofs` | `LockHeldByRun` | `UnexpiredRunHoldsLock` |
| | `WatermarkSkipsNothing` | `PrefixStored` |
| `VgMailbox_proofs` | `MailInvariant` | `MailSpec => []MailInv`, the inductive invariant |
| | `MailboxTyped` | `MailTypeOK`, a part of `BackgroundTypeOK` |
| | `RowsArePaidFor` | `RecordedOncePerFault` |
| `Background_proofs` | `OneRun` | `OneRunAtATime` |
| | `ReasonsArePaidFor` | `ReasonsOncePerJob` |
| | `OpenCasesHaveClients` | `OpenCaseHasClient` |
| | `BackgroundTyped` | `BackgroundTypeOK`, of the composition |
| | `BackgroundPartsRun` | the composition's behaviours are behaviours of each part |
| `StatusDominators_proofs` | `SweepIsExact` | `ExactOnFinish` |
| | `SweepComputesTheTable` | `TableIsComputed` |
| `Evidence_proofs` | `SalesStoredOnce` | `EachSaleOnce` |
| | `ShortfallMeansExhausted` | `ShortOnlyWhenExhausted` |
| | `BestAreStored` | `BestStored` |
| | `StoredSalesSupport` | `StoredIsSupport` |
| | `BudgetIsShared` | `BudgetShared` |
| | `FigureStaysInMiddle` | `HeadlineInMiddleHalf` |
| | `ReportAgreesWithCase` | `ReportAgrees` |
| | `RegeneratedFromLatest` | `RegeneratesFromLatest` |
| | `EvidenceTyped` | `EvidenceTypeOK`, of the composition |
| | `EvidencePartsRun` | the composition's behaviours are behaviours of each part |

**The lodgement invariant.** `LodgementBacked` ("no round without a letter") is not inductive: at a
commit it needs to know that the letter of *this* transaction is out and not yet counted,
that the reference is still the row's, and that the limit read at the start still
holds. So

    LodgementInv = TypeOK, LodgementHolds, LodgementStamped, LodgementBacked,
                   resubmission_count <= MaxFurtherSubmissions

where `LodgementHolds` states what an open transaction may rely on. It is kept because
every other writer of the row waits for the lock. The proof says this once:
`QuietStep` describes any step that leaves the lodgement columns, the mail and the
transaction alone and moves the status only within its side of the lodgement;
`ManualIsQuiet` and `OthersAreQuiet` show that all actions but the lodgement's are quiet;
`QuietKeeps` that a quiet step keeps the invariant; and `BeginKeeps`, `SendKeeps`,
`CommitKeeps`, `RollBackKeeps` treat the four that are not.

**Trail, timeline and letters.** The other properties of the lifecycle do not look at columns but
at three kinds of step, and `StepKinds` says that every step is one of them, or the commit of a
lodgement: `PersonMove` (status, audit row and history in one commit), `SystemMove` (a promotion,
whose row comes later) and `StandStill` (perhaps with a system row). `AuditAccounts` and
`ImpliedWasHeld` are inductive over these, given the types; the latter rests on the table: a dominator of
the target of a legal step is the target or a dominator of its source. `RoundsCounted` is not:
a first lodgement is refused because the row has a date, so `RoundsInv` adds that a row without
one has no such row in its trail. `ClientLetters` is not either: nothing in it keeps
a case with letters from a further round, so `LettersInv` adds that a case with letters is agreed
or closed, from where only a close goes on.

**The refinement.** Phase, letters posted and rounds recorded are functions of the
status, of `Len(vgMail)` and of the submission columns. Manual moves are `Answer`,
`Agree`, `Close` or stutter, the letter is `Post`, the commit is `Record`, all else
stutters. The abstract guards follow from the invariant: `Record` needs
`recorded < posted` and the right phase, which is `LodgementHolds` at stage "save".

**Overrides and stale saves.** Neither `LodgementInv` nor its types of a lodged row survive a write
that ignores the lifecycle, so `OverrideInv` starts anew from what the row lock alone gives.
An open lodgement still has the lock, its decision and its letter (`OpenTx`), because
overrides and the UPDATE of a save wait for it; the rows of lodgements in the trail are at most the letters
(`LettersCover`); first lodgements in the trail are at most the one the row still shows and one
per save that put the date back (`Reverted`); and every status in the row or in a
copy held by a save is one the row has held (`StatusesHeld`). A save writes back columns of
*some* earlier row (`SavesTyped`), any of them: the proof does not look at which request began it.
Any number of forces and saves is covered where the run explores one of each.

**Follow-ups.** The runs of the monitor change only the count and the date of the last
enquiry, so `LodgementInv` goes through (the count is none of its columns) and serves again.
`ScheduleArmed` speaks of waiting cases, but a case is chased, answered and lodged again, so
`Armed` says the same of every row, and needs `DatesPast`: a follow-up's date is not before a
lodgement's since both were read off one clock. `CountedWasSent` needs that the run at the
mail is one above the count (`Counted`), and for that, that one run at a time holds the lock
(`RunsTyped`). `LimitHoldsPerRun` is not inductive: a run that listed the case may still add
to the count. `Limited` bounds the count *with the runs under way*: listing a case below the limit
adds a run, an enquiry turns a run into a count, and a rollback gives it back.

**One run at a time.** `OneRunAtATime` speaks of workers only; what keeps it is the job's
lock. `JobInv` says that only an active job is locked and that, unless a lock was lost under a
live run, whoever runs holds it. Requests then cannot touch a running job: `RemoveJob` and
`AddJob` act on unlocked and absent jobs, `StartAttempt` on a waiting one.

**The import lock.** `LockInv` is the property itself with the domain of `importer`: a run starts
on a free lock, which no unexpired run can be without; an expiry marks the holder as overrun;
a release frees the lock of its own run only.

**The watermark.** `PrefixStored` says that a maximum of dates speaks for all the weeks below it.
That takes three facts about every run, whoever else runs: the watermark it read is not
above today's; all weeks below the first it has left are accounted for (stored, or withdrawn
unstored); and what it has read of its week is in the table or staged (`RunAccounts`). They are kept by
a table that only grows (`TableGrows`, `RunsStayAccounted`), so that neither the lock nor
its loss matters: the theorem needs no `LockInv`. `Runs` says that the weeks a run has left follow one
another without a gap (from `OldestFirstCounts`: the selection is an interval, and its sorting
counts it up), and that its newest stamp bounds all it staged; so a commit, which asks that the newest stamp be
the week's own, moves the watermark to that week at the most. `WeeksAccounted` closes the
circle through the listing: a week that leaves it is withdrawn, unless a row of it is in
the table, and then all of it is.

**Rows of the mailbox.** While polls do not overlap, `OnePoll` says that the messages left to
a poll are unread or already seen, and that the one it has in hand is unread and not seen; and `Paid` that a message
still to be dealt with has at most one row per fault so far: a row without a read flag takes a fault
between the two, which `mailFaults` counts. Between record and mark a message has its row
and is unread without a fault; `AtMark` excepts it. That a fetched page lists
messages of the inbox (`InOrderLists`) is proved by counting positions, as no induction over lists is available.

**Reasons per job.** A budget: `reasonRuns`, plus the workers that have not saved reasons yet, plus one
if the job itself will run again, are at most the jobs added plus the faults of the queue
(`ReasonsPaid`). Adding a job pays for its run; a start moves the debt from the job to the
worker; saving reasons turns it into a run; a failure before them moves it back. A lock lost
under a live run, or a crash after the reasons, has the job run again, and is a fault.

**Report and case.** `AgreeInv` adds to `ReportAgrees` what runs hold: unless runs with different
figures have met, all figures held are one; and unless a person's figure or an older value has come over it
as well, a figure that a run has stored and not yet reported is the value of the case. Whoever stores a
figure while no other is held makes both true again, and an upload then brings the file to the value. So any
number of runs with one figure may overlap, and no run needs to be alone from start to end.

**The latest analysis.** `CopiesFresh` says of each copy, in memory of any process and in Redis, that
it is gone or no older than the last save that is over, and of each run the same of what it has read
and is about to remember. An analysis on its way to Redis has left its context, or a later one, in the
memory of its process (`Covered`), so that the end of its save leaves no older copy there; the others
are what `crossed` watches. Evictions, restarts and expiry only lose copies.

**Open cases.** `RecordsInv` adds that an intake under way has a client that is live, or
removed and remembered as overtaken, and that the property of its lot is that client's. It
needs that a client in hand never becomes due, the assumption on the retention period above.

**The dataflow.** `DomInv` is the textbook argument, made for the loop as it is written. The map
only descends (`Descending`: no set is smaller than the value it would be given next), so sets
of one size are one set and the code's size test misses nothing; while a sweep has changed nothing, what it
has visited satisfies the equations (`Settled`), so the loop ends in a fixpoint; and the map never
falls below any set of claims the equations support (`AboveSolutions`), the dominators by paths and
`STATUS_DOMINATORS` among them. The other inclusion is `FixpointBelow`: no node reached without passing
`d` has `d` in a fixpoint. The search in the definition of reachability is a recursive function over 0 to the number of
nodes; that it closes is `SearchCloses`, an argument on its size (it grows or has stopped) instead of an
induction. `TableIsComputed` then needs only that the table supports itself (`TableBelow`) and is
exact.

**Sorting.** `ListedLists` says of a finite set and any strict total order on it what every sort is used for:
the list has each member once, in order. It rests on places being different for different members
(`EarlierPlace`), so that counting them finds one at every place. Selection, tiers and figure cite
its instances `ByKeyLists` and `InOrderLists`.

**The selection.** The four properties speak of what is stored, which is decided in a step from the pool,
so `SelInv` is about the pool:

- `PoolInv`: what is gathered passed the gates, or the rules, on the values of its row; the gathered sales
  are exactly the resolved ones; and none is there twice that an answer did not double. A later round
  gathers only unresolved sales, whichever search brings them back, which keeps all three (`GatheringKeepsPool`).
- `RegularFirst`: the ranking adds its entries only when what is regular is short of the minimum.
  That needs `ShortIsWhole`: a selection below the target has walked every rung, so it
  is the whole pool. A gathered sale always has a rung (`HasRung`), which the automatic rule
  ensures for a widened tier, and the gates by tagging only the preferred one.
- `NothingLeft`: before the ranking all rounds were run, since a pool that ends them early has the
  target (`ShortAfterAllRounds`); after it the minimum is met, or every sale seen that would do is gathered.

At the store, `Selects` says what the selection of any pool is: its places, each once, by rung, and a rung only
if the target was not reached before it. `BestStored` then holds of the trimmed list, since a
prefix of a sorted list leaves out nothing better.

**The tiers.** The proof counts. `DiverseSubset` and `FloorSubset` say how many rows a share
has, whatever its order: all of them, or the cap, and with them vacant land as far as its floor. `ShareCounts` adds
what the leftover gives a tier, and `AssemblyShares` that each tier takes its extra rows from what those before it left; tiers are
disjoint (`TiersDisjoint`). What is left is arithmetic
over nine numbers.

**The figure.** The fences lie so far outside the quartiles that, however a quartile is interpolated, all but a
quarter of the sorted list at either end, rounded down, is inside them (`FencesLeaveTheMiddle`);
so at least half of the rates survive (`HalfStays`). A median has half of
the surviving rates on either side (`MedianHalves`), and half of at least half is a quarter.

**The types, and the compositions TLC explores.** The type invariants are conjunctions of the parts', and some of those
are no mere types: that a case in the database has its notice and its owner's row needs the order in which rows are
purged (`ReferenceInv`), and that a version in memory is one there was, that of every copy and run
(`SourceInv`). `EvidencePartsRun` and `BackgroundPartsRun` say that a behaviour of `MCComparables` or
`MCBackground` is a behaviour of every part (fairness left aside), so what is proved of a part holds of
the module the run explores.

The inductive invariants of the override, the follow-ups, the watermark, the mailbox, the reasons and the latest
analysis, and those of the two compositions with everything they consist of, also hold in TLC's exploration of
instances of the sizes in section 4, and `DomInv` on all graphs of three nodes, with one order that lists
a node twice. So none of them is proved from a contradiction in its own parts.

**Only model-checked**: the six properties of liveness, `Terminates`, `DueIsChased`, `BacklogImported`,
`RepliesDealtWith`, `QueuedRequestRuns` and `RemovedIsPurged`. They rest on weak and strong fairness, which means on
ENABLED, and on inductions over what is left to do; both are beyond the prover used here. Every
invariant and every action property that a passing run checks is a theorem. What is proved of
the dataflow, the selection, the tiers and the figure is of graphs, pools and lists of every size; what no theorem
says is that `Listed` and the search of `ReachableAvoiding` are what a loop in the code computes:
that is the models' translation.

## 8. What is left out, and why

- The components listed as `not_modelled` in `PROJECT.json`, with their reasons.
- Columns no guard reads (notes, fees, flags, verdicts), accountant notifications, text
  of letters and documents, validation of request bodies.
- Migrations and seeders, a quarter of the repository's lines, which run outside the system, and
  request and response types, controllers and modules, which only pass on.
- The formulas: valuation and land tax, the time and size adjustment of a sale's rate, the score of the
  ranked last resort. A sale's `kind` carries their outcome.
- SQL text, geocoding, prompts, the matching of addresses in mail, the parsing of `.DAT` lines: what
  they return is a choice of the actions that use them.
- Subjects without area, zoning, value or place in the selection of comparables.
- The start-up sweep of the import, the extraction of notices at intake, the retry of a case
  reference and all notifications.
- The stages of the analysis as far as they write objection reasons and evidence issues: how often, and
  not what.
- The read of the valuation notice and of the client's address in an advisory close is a free
  choice of the action: other tables' data, written by nobody here. `OnAdvisoryClose`
  therefore ranges over all values at the time of the close.
- Several cases at once: `removeMany` is `RemoveCase` per case, and runs of the
  monitor treat each case in a transaction of its own.
- Uniqueness of the minted reference between cases: the column has no constraint, and no
  code checks it.

## 9. Plan

Built so far, in this order: `DisputeStatus`, `StatusDominators`, `LodgementProtocol`,
`CaseLifecycle` with its proofs, `CaseOverride`, `VgFollowUp`; `PsiImport`, `VgMailbox`,
`AnalysisJobs`, `CaseRecords`; `ComparableSelection`, `CandidateTiers`, `HeadlineFigure`,
`ValuationReport`; their proofs; the proofs over the two compositions; the dataflow's, the
selection's, the tiers' and the figure's proofs, for which `Listing` took the place of recursive
sorts and folds; the types of the two compositions that TLC explores.

Next, most important first:

1. The authentication counters: INCR and EXPIRE apart, a reset token checked before its use.
   Properties: a lockout ends; a token changes a password once.
2. Evidence gathering and objection reasons: the work list of entities, the sequence of analysers, run
   numbers taken as a maximum plus one.
3. The land tax thresholds as functions against a reference definition.

Their safety properties are to be proved beside the others.
