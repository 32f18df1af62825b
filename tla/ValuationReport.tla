-------------------------- MODULE ValuationReport --------------------------
(***************************************************************************)
(* The valuation report of one case.  A run reads the comparables, stores  *)
(* the figure they give as the internal assessed value, has a language     *)
(* model write the report, puts the stored figure in place of whatever the *)
(* model wrote, and overwrites the report file.  A run is part of an       *)
(* analysis and is given that analysis's planning context, or is asked for *)
(* on its own and looks the context up: in the process's memory, then in   *)
(* Redis.                                                                  *)
(*                                                                         *)
(* Two others write the internal assessed value: the advisory close, with  *)
(* the figure a person typed, and whoever saves a case read earlier, which *)
(* puts back the value the entity was read with.                           *)
(*                                                                         *)
(* A figure is the version of the comparables it comes from, or NoFigure   *)
(* where they give none; a context is the number of the analysis that      *)
(* gathered it.  HeadlineFigure says how a figure is computed.             *)
(***************************************************************************)
EXTENDS Naturals

CONSTANTS
  Reports,         \* runs of generate
  Processes,       \* server processes, each with a memory of its own
  None, Other,     \* nothing, and a figure of no version: typed, or made up
  Unpriced,        \* versions without an eligible rate or a site area
  MaxChanges,      \* bound: changes of the comparables
  MaxAnalyses,     \* bound: analyses of the case
  MaxReportFaults  \* bound: failed calls and restarts

ASSUME ReportAssumption ==
  /\ MaxChanges \in Nat /\ MaxAnalyses \in Nat /\ MaxReportFaults \in Nat
  /\ None \notin Nat /\ Other \notin Nat /\ Other # None
  /\ Unpriced \subseteq Nat

VARIABLES
  evidence,     \* version of the stored comparables
  analyses,     \* analyses so far
  mem, redis,   \* the context of the case, in each process and shared
  report,       \* each run
  internalValue,\* internal_assessed_value
  blob,         \* the figure the report file states
  reportPath,   \* analysis_report_blob_path is set
  readValue,    \* the value in an entity read and not yet saved
  reportFaults,
  apart,        \* history: why value and report may differ; see Reasons
  saved,        \* history: the last analysis whose save is over
  crossed       \* history: a save left an older copy somewhere, or an older
                \* context was remembered over a newer one

reportVars == << evidence, analyses, mem, redis, report, internalValue, blob,
                 reportPath, readValue, reportFaults, apart, saved, crossed >>

\* contendedValue: null without an eligible rate or a site area, and then "-"
\* in the report.
NoFigure == 0
ContendedValue(version) == IF version \in Unpriced THEN NoFigure ELSE version

\* A run has stored its figure and no report has followed; two runs with
\* different figures were under way at once; a person's figure, or a value
\* read before, was written over the runs' own.
Reasons == {"unreported", "mixed", "typed", "restored"}

NoReport == [stage |-> "idle", at |-> None, given |-> None, seen |-> None,
             latest |-> None, figure |-> None, retried |-> FALSE,
             echo |-> None]

ReportStages == {"idle", "saving", "asked", "context", "remember", "figure",
                 "writing", "answered", "record", "path"}

ReportInit ==
  /\ evidence = 1 /\ analyses = 0
  /\ mem = [p \in Processes |-> None] /\ redis = None
  /\ report = [g \in Reports |-> NoReport]
  /\ internalValue = NoFigure
  /\ blob = None /\ reportPath = FALSE
  /\ readValue = None
  /\ reportFaults = 0
  /\ apart = {} /\ saved = 0 /\ crossed = FALSE

Cache == << analyses, mem, redis, saved, crossed >>
Outcome == << internalValue, blob, reportPath, readValue, apart >>

At(g, stage) == report[g].stage = stage
Goes(g, stage) == report' = [report EXCEPT ![g].stage = stage]

\* Another run is between its reading and its report, with another figure.
OtherFigure(g, figure) ==
  \E h \in Reports \ {g} : report[h].figure \notin {None, figure}

ReportFault ==
  /\ reportFaults < MaxReportFaults
  /\ reportFaults' = reportFaults + 1

-----------------------------------------------------------------------------
\* What goes on around the runs

\* Comparables are generated or added by hand.
ChangeComparables ==
  /\ evidence <= MaxChanges
  /\ evidence' = evidence + 1
  /\ UNCHANGED << Cache, report, Outcome, reportFaults >>

\* applyAdvisoryClose: the value a person typed.
AdvisoryClose ==
  /\ internalValue' = Other
  /\ apart' = apart \cup {"typed"}
  /\ UNCHANGED << evidence, Cache, report, blob, reportPath, readValue, reportFaults >>

\* update, and acceptTc likewise: the case is read without a lock,
ReadEntity ==
  /\ readValue = None
  /\ readValue' = internalValue
  /\ UNCHANGED << evidence, Cache, report, internalValue, blob, reportPath,
                  reportFaults, apart >>

\* and saved with every column in which it differs from the row.
SaveEntity ==
  /\ readValue # None
  /\ internalValue' = readValue
  /\ readValue' = None
  /\ apart' = IF internalValue = readValue THEN apart ELSE apart \cup {"restored"}
  /\ UNCHANGED << evidence, Cache, report, blob, reportPath, reportFaults >>

Begin(g, stage, p, given) ==
  /\ At(g, "idle")
  /\ report' = [report EXCEPT ![g] =
       [NoReport EXCEPT !.stage = stage, !.at = p, !.given = given]]

\* Mutant: saved in Redis only, the copy in memory is left.
LeaveMemory(p, c) == UNCHANGED mem

\* save sets the memory and then awaits Redis.
SetMemory(p, c) == mem' = [mem EXCEPT ![p] = c]

\* An analysis in process p gathers a context, saves it, and goes on to the
\* report with it.
Analyse(g, p) ==
  /\ analyses < MaxAnalyses
  /\ analyses' = analyses + 1
  /\ SetMemory(p, analyses + 1)
  /\ Begin(g, "saving", p, analyses + 1)
  /\ UNCHANGED << evidence, redis, saved, crossed, Outcome, reportFaults >>

Older(c) == c # None /\ c < saved'

\* Redis answers or fails, which is only logged.
SaveToRedis(g) ==
  LET r == report[g] IN
  /\ At(g, "saving")
  /\ \/ redis' = r.given /\ UNCHANGED reportFaults
     \/ UNCHANGED redis /\ ReportFault
  /\ saved' = IF r.given > saved THEN r.given ELSE saved
  /\ crossed' = \/ crossed
                \/ Older(redis')
                \/ \E q \in Processes \ {r.at} : Older(mem[q])
                \/ \E h \in Reports : At(h, "remember") /\ Older(report[h].seen)
  /\ Goes(g, "asked")
  /\ UNCHANGED << evidence, analyses, mem, Outcome >>

\* The regenerate endpoint.
Regenerate(g, p) ==
  /\ Begin(g, "asked", p, None)
  /\ UNCHANGED << evidence, Cache, Outcome, reportFaults >>

\* 500 cases are remembered; the oldest makes room for another case.
EvictContext(p) ==
  /\ mem[p] # None
  /\ mem' = [mem EXCEPT ![p] = None]
  /\ UNCHANGED << evidence, analyses, redis, saved, crossed, report, Outcome,
                  reportFaults >>

\* The seven days are over.
ExpireContext ==
  /\ redis # None
  /\ redis' = None
  /\ UNCHANGED << evidence, analyses, mem, saved, crossed, report, Outcome,
                  reportFaults >>

-----------------------------------------------------------------------------
\* generate

\* The case, its comparables, evidence issues and reasons, read once.
ReadCase(g) ==
  /\ At(g, "asked")
  /\ LET figure == ContendedValue(evidence) IN
     /\ report' = [report EXCEPT ![g].stage = "context", ![g].figure = figure]
     /\ apart' = IF OtherFigure(g, figure) THEN apart \cup {"mixed"} ELSE apart
  /\ UNCHANGED << evidence, Cache, internalValue, blob, reportPath, readValue,
                  reportFaults >>

Uses(g, c, stage) ==
  report' = [report EXCEPT ![g].stage = stage, ![g].seen = c,
                           ![g].latest = saved]

\* The context of the analysis, the copy in memory, or what Redis has, which
\* is remembered in a step of its own; without any, the report goes without.
RestoreContext(g) ==
  LET r == report[g] IN
  /\ At(g, "context")
  /\ \/ r.given # None /\ Uses(g, r.given, "figure")
     \/ r.given = None /\ mem[r.at] # None /\ Uses(g, mem[r.at], "figure")
     \/ r.given = None /\ mem[r.at] = None /\ redis # None
                       /\ Uses(g, redis, "remember")
     \/ r.given = None /\ mem[r.at] = None /\ Uses(g, None, "figure")
  /\ UNCHANGED << evidence, Cache, Outcome, reportFaults >>

RememberContext(g) ==
  /\ At(g, "remember")
  /\ mem' = [mem EXCEPT ![report[g].at] = report[g].seen]
  /\ crossed' = (crossed \/ report[g].seen < analyses)
  /\ Goes(g, "figure")
  /\ UNCHANGED << evidence, analyses, redis, saved, Outcome, reportFaults >>

\* Before the model is called: a failed report keeps the figure.
UpdateInternalAssessedValue(g) ==
  /\ At(g, "figure")
  /\ internalValue' = report[g].figure
  /\ apart' = {"unreported"} \cup
       (IF OtherFigure(g, report[g].figure) THEN apart \cap {"mixed"} ELSE {})
  /\ report' = [report EXCEPT
       ![g] = [NoReport EXCEPT !.stage = "writing", !.at = report[g].at,
                               !.figure = report[g].figure]]
  /\ UNCHANGED << evidence, Cache, blob, reportPath, readValue, reportFaults >>

\* The model is shown the figure and writes one: that one or another.
CallClaude(g) ==
  /\ At(g, "writing")
  /\ \E echo \in {report[g].figure, Other} :
       report' = [report EXCEPT ![g].stage = "answered", ![g].echo = echo,
                                ![g].retried = FALSE]
  /\ UNCHANGED << evidence, Cache, Outcome, reportFaults >>

\* One retry.
ClaudeFails(g) ==
  /\ At(g, "writing")
  /\ ReportFault
  /\ report' = [report EXCEPT
       ![g] = IF @.retried THEN NoReport ELSE [@ EXCEPT !.retried = TRUE]]
  /\ UNCHANGED << evidence, Cache, Outcome >>

\* Mutant: the figure as the model wrote it.
AsWritten(g) == report[g].echo

\* buildRenderData: the figure of this run, whatever the model wrote.
RenderData(g) == report[g].figure

UploadReport(g) ==
  /\ At(g, "answered")
  /\ blob' = RenderData(g)
  /\ apart' = apart \ {"unreported"}
  /\ report' = [report EXCEPT
       ![g] = [NoReport EXCEPT !.stage = "record", !.at = report[g].at]]
  /\ UNCHANGED << evidence, Cache, internalValue, reportPath, readValue,
                  reportFaults >>

CreateArtifactRecord(g) ==
  /\ At(g, "record")
  /\ Goes(g, "path")
  /\ UNCHANGED << evidence, Cache, Outcome, reportFaults >>

UpdateAnalysisReportPath(g) ==
  /\ At(g, "path")
  /\ reportPath' = TRUE
  /\ report' = [report EXCEPT ![g] = NoReport]
  /\ UNCHANGED << evidence, Cache, internalValue, blob, readValue, apart,
                  reportFaults >>

\* A read or a write fails; the answer is cut off, empty, unreadable or has
\* placeholders left in it; the rendering or the upload fails.
FailReport(g) ==
  /\ report[g].stage \notin {"idle", "saving", "writing", "remember"}
  /\ ReportFault
  /\ report' = [report EXCEPT ![g] = NoReport]
  /\ UNCHANGED << evidence, Cache, Outcome >>

\* A process restarts: its memory and its runs are gone.
RestartProcess(p) ==
  /\ ReportFault
  /\ mem' = [mem EXCEPT ![p] = None]
  /\ report' = [g \in Reports |->
       IF report[g].at = p THEN NoReport ELSE report[g]]
  /\ UNCHANGED << evidence, analyses, redis, saved, crossed, Outcome >>

-----------------------------------------------------------------------------

ReportNext ==
  \/ ChangeComparables \/ ExpireContext
  \/ AdvisoryClose \/ ReadEntity \/ SaveEntity
  \/ \E p \in Processes : EvictContext(p) \/ RestartProcess(p)
  \/ \E g \in Reports, p \in Processes : Analyse(g, p) \/ Regenerate(g, p)
  \/ \E g \in Reports :
       \/ SaveToRedis(g) \/ ReadCase(g) \/ RestoreContext(g) \/ RememberContext(g)
       \/ UpdateInternalAssessedValue(g) \/ CallClaude(g) \/ ClaudeFails(g)
       \/ UploadReport(g) \/ CreateArtifactRecord(g)
       \/ UpdateAnalysisReportPath(g) \/ FailReport(g)

ReportSpec == ReportInit /\ [][ReportNext]_reportVars

-----------------------------------------------------------------------------

ReportTypeOK ==
  /\ evidence \in 1..(MaxChanges + 1)
  /\ analyses \in 0..MaxAnalyses /\ saved \in 0..analyses
  /\ \A p \in Processes : mem[p] \in {None} \cup 1..analyses
  /\ redis \in {None} \cup 1..analyses
  /\ \A g \in Reports : report[g].stage \in ReportStages
  /\ internalValue \in {Other} \cup 0..evidence
  /\ readValue \in {None, Other} \cup 0..evidence
  /\ apart \subseteq Reasons
  /\ reportFaults \in 0..MaxReportFaults

\* The report on file states the value the case carries, "-" where it has none,
\* whatever the model wrote and however runs follow or overtake one another.
\* The two come apart only where a run's figure is not reported yet or its
\* report failed, where runs that read different comparables overlap, where an
\* advisory close puts a person's figure in the case, and where a save puts an
\* older value back; the next run to get through with no other figure about
\* brings them together again (generate).
ReportAgrees == apart = {} /\ blob # None => blob = internalValue

\* A report asked for on its own never rests on a context older than the last
\* one saved when it looked: no restart, eviction, expiry or failed report
\* brings an older one back.  A copy in another process does, so does Redis
\* where it missed a save or two saves overlapped, and a lookup that an
\* analysis overtook (ValuationCtxCacheService).
RegeneratesFromLatest ==
  ~crossed => \A g \in Reports :
    report[g].given = None /\ report[g].seen # None =>
      report[g].seen >= report[g].latest

-----------------------------------------------------------------------------
(* Where the code departs from what it says of itself *)

\* generate: the value is persisted and the report states "this same figure".
\* Without a failure, a person's figure or an older value put back, the two
\* are one whenever no run is under way.
SameFigure ==
  /\ reportFaults = 0 /\ apart \cap {"typed", "restored"} = {}
  /\ \A g \in Reports : At(g, "idle")
  /\ blob # None
  => blob = internalValue
=============================================================================
