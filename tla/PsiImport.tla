----------------------------- MODULE PsiImport -----------------------------
(***************************************************************************)
(* The weekly import of property sales information.  A cron tick takes a   *)
(* Redis lock that expires, reads the newest download_datetime stored (the *)
(* watermark), walks the listing back to the week of that label, and works *)
(* the newer weeks oldest first: each is downloaded, then parsed and       *)
(* inserted in one transaction, ON CONFLICT DO NOTHING on the dealing.     *)
(* Nothing but the watermark says which weeks were imported.               *)
(*                                                                         *)
(* A week is its number: the label, the order and the date are the same.   *)
(* An importer is a server process; a tick is skipped while its run lasts  *)
(* (waitForCompletion), so a run is named by its importer, and the lock of *)
(* a run that is gone is held by Orphan.                                   *)
(***************************************************************************)
EXTENDS Naturals, Sequences, FiniteSets

CONSTANTS
  Importers,    \* server processes that run the cron job
  LastWeek,     \* bound: weeks ever published
  Files,        \* .DAT files of a bundle
  BundleKinds,  \* what a week's archive may turn out to hold
  NoRun, Orphan,
  MaxFaults     \* bound: failures, crashes and failed releases

Weeks == 1..LastWeek

ASSUME PsiAssumption ==
  /\ LastWeek \in Nat \ {0}
  /\ Files \in Nat \ {0}
  /\ MaxFaults \in Nat
  /\ BundleKinds \subseteq
       {"good", "no_files", "no_records", "mis_stamped", "repeated"}
  /\ NoRun # Orphan
  /\ {NoRun, Orphan} \cap Importers = {}

VARIABLES
  bundle,     \* the kind of each week's archive; never changes
  page,       \* the listing: weeks page.first .. page.last
  rows,       \* property_sales_raw, committed
  importLock, \* psi:import:lock
  importer,   \* the run of each importer
  overran,    \* history: importers whose lock expired during their run
  withdrawn,  \* history: weeks that left the listing before they were stored
  faults

psiVars == << bundle, page, rows, importLock, importer, overran, withdrawn,
              faults >>

-----------------------------------------------------------------------------
\* Bundles

\* A record keeps what the import looks at: its dealing number, and the week
\* its download_datetime renders as.
Record(w, k, stamp) == [dealing |-> << w, k >>, stamp |-> stamp]

\* parseFile: the sale records of file k of week w.
Parsed(w, k) ==
  CASE bundle[w] = "good"        -> {Record(w, k, w)}
    [] bundle[w] = "no_records"  -> {}
    [] bundle[w] = "mis_stamped" -> {Record(w, k, w + 1)}
    [] bundle[w] = "repeated"    -> {Record(w - 1, k, w)}
                                    \cup {Record(w, j, w) : j \in {k} \cap {1}}
    [] OTHER                     -> {}

DatFiles(w) == IF bundle[w] = "no_files" THEN 0 ELSE Files

Dealings(records) == {r.dealing : r \in records}
DealingsOf(w) == UNION {Dealings(Parsed(w, k)) : k \in 1..DatFiles(w)}

Newest(stamps) ==
  IF stamps = {} THEN 0
  ELSE CHOOSE s \in stamps : \A t \in stamps : t <= s

\* findLatestDownloadDatetime, 0 for an empty table.
Watermark == Newest({r.stamp : r \in rows})

-----------------------------------------------------------------------------
\* A run

Idle == [stage |-> "idle", reference |-> 0, links |-> << >>, file |-> 0,
         staged |-> {}, newest |-> 0]

ImportStages ==
  {"idle", "started", "listing", "week", "ingest", "release"}

PsiInit ==
  /\ bundle \in [Weeks -> BundleKinds]
  /\ bundle[1] # "repeated"
  /\ page = [first |-> 1, last |-> 1]
  /\ rows = {}
  /\ importLock = NoRun
  /\ importer = [i \in Importers |-> Idle]
  /\ overran = {}
  /\ withdrawn = {}
  /\ faults = 0

Env == << bundle, page, withdrawn >>

\* SET NX: a tick that finds the lock taken leaves no trace.
RunWeeklyImport(i) ==
  /\ importer[i].stage = "idle"
  /\ importLock = NoRun
  /\ importLock' = i
  /\ importer' = [importer EXCEPT ![i].stage = "started"]
  /\ UNCHANGED << Env, rows, overran, faults >>

ResolveReference(i) ==
  /\ importer[i].stage = "started"
  /\ importer' = [importer EXCEPT ![i].stage = "listing",
                                  ![i].reference = Watermark]
  /\ UNCHANGED << Env, rows, importLock, overran, faults >>

\* selectNewerThan: a reference that is not on the page selects all of it.
NewerThan(reference) ==
  {w \in page.first..page.last :
     reference \in page.first..page.last => w > reference}

\* Mutant: the weeks in the order of the listing's own walk.
NewestFirst(weeks) ==
  [n \in 1..Cardinality(weeks) |-> Newest({w \in weeks :
     Cardinality({v \in weeks : v > w}) = n - 1})]

OldestFirst(weeks) ==
  [n \in 1..Cardinality(weeks) |-> Newest({w \in weeks :
     Cardinality({v \in weeks : v < w}) = n - 1})]

FindWeeklyDownloads(i) ==
  /\ importer[i].stage = "listing"
  /\ LET links == OldestFirst(NewerThan(importer[i].reference)) IN
       importer' = [importer EXCEPT
         ![i] = [Idle EXCEPT
           !.stage = IF links = << >> THEN "release" ELSE "week",
           !.links = links]]
  /\ UNCHANGED << Env, rows, importLock, overran, faults >>

\* A week is done with: on to the next, or to the end of the run.
NextWeek(r) ==
  [Idle EXCEPT !.stage = IF Len(r.links) = 1 THEN "release" ELSE "week",
               !.links = Tail(r.links)]

\* A failed week ends the run: the later ones stay pending.
StopRun == [Idle EXCEPT !.stage = "release"]

\* Downloaded and extracted; a bundle without .DAT files counts as a success.
DownloadWeek(i) ==
  /\ importer[i].stage = "week"
  /\ importer' =
       [importer EXCEPT ![i] =
          IF DatFiles(Head(@.links)) = 0 THEN NextWeek(@)
          ELSE [@ EXCEPT !.stage = "ingest", !.file = 1]]
  /\ UNCHANGED << Env, rows, importLock, overran, faults >>

\* Rows of file k that no stored row and no row of this transaction rejects.
Landing(i, records) ==
  {r \in records :
     r.dealing \notin Dealings(rows \cup importer[i].staged)}

\* insertSaleRecords for one file.  The insert of a dealing another
\* transaction has inserted waits for that transaction to end.
IngestFile(i) ==
  LET r == importer[i]
      w == Head(r.links)
      records == Parsed(w, r.file) IN
  /\ r.stage = "ingest"
  /\ r.file <= DatFiles(w)
  /\ \A j \in Importers \ {i} :
       Dealings(importer[j].staged) \cap Dealings(records) = {}
  /\ importer' = [importer EXCEPT
       ![i].file = @ + 1,
       ![i].staged = @ \cup Landing(i, records),
       ![i].newest = Newest({@} \cup {q.stamp : q \in records})]
  /\ UNCHANGED << Env, rows, importLock, overran, faults >>

\* Something was stored, and the newest stamp renders as the week's label.
Usable(r) == r.staged # {} /\ r.newest = Head(r.links)

CommitWeek(i) ==
  LET r == importer[i] IN
  /\ r.stage = "ingest"
  /\ r.file > DatFiles(Head(r.links))
  /\ Usable(r)
  /\ rows' = rows \cup r.staged
  /\ importer' = [importer EXCEPT ![i] = NextWeek(r)]
  /\ UNCHANGED << Env, importLock, overran, faults >>

\* PsiWeekUnusableException: rolled back.
RejectWeek(i) ==
  LET r == importer[i] IN
  /\ r.stage = "ingest"
  /\ r.file > DatFiles(Head(r.links))
  /\ ~Usable(r)
  /\ importer' = [importer EXCEPT ![i] = StopRun]
  /\ UNCHANGED << Env, rows, importLock, overran, faults >>

\* The database, the site, the download or the archive fails the step.
FailImport(i) ==
  /\ importer[i].stage \in {"started", "listing", "week", "ingest"}
  /\ faults < MaxFaults
  /\ faults' = faults + 1
  /\ importer' = [importer EXCEPT ![i] = StopRun]
  /\ UNCHANGED << Env, rows, importLock, overran >>

\* Mutant: DEL without comparing the value.
ReleaseAnyLock(i) ==
  /\ importer[i].stage = "release"
  /\ importLock' = NoRun
  /\ importer' = [importer EXCEPT ![i] = Idle]
  /\ overran' = overran \ {i}
  /\ UNCHANGED << Env, rows, faults >>

\* Compare and delete, in one script.
ReleaseLock(i) ==
  /\ importer[i].stage = "release"
  /\ importLock' = IF importLock = i THEN NoRun ELSE importLock
  /\ importer' = [importer EXCEPT ![i] = Idle]
  /\ overran' = overran \ {i}
  /\ UNCHANGED << Env, rows, faults >>

\* The run ends without releasing its lock: the script fails, and the error is
\* only logged, or the process dies, at any step.
AbandonLock(i) ==
  /\ importer[i].stage # "idle"
  /\ faults < MaxFaults
  /\ faults' = faults + 1
  /\ importLock' = IF importLock = i THEN Orphan ELSE importLock
  /\ importer' = [importer EXCEPT ![i] = Idle]
  /\ overran' = overran \ {i}
  /\ UNCHANGED << Env, rows >>

\* Mutant: the lock is set without a time to live.
NeverExpires == FALSE /\ UNCHANGED psiVars

\* The time to live runs out, whatever its holder is doing.
ExpireImportLock ==
  /\ importLock # NoRun
  /\ importLock' = NoRun
  /\ overran' = overran \cup ({importLock} \ {Orphan})
  /\ UNCHANGED << Env, rows, importer, faults >>

-----------------------------------------------------------------------------
\* The site

PublishWeek ==
  /\ page.last < LastWeek
  /\ page' = [page EXCEPT !.last = @ + 1]
  /\ UNCHANGED << bundle, rows, importLock, importer, overran, withdrawn,
                  faults >>

\* The page only reaches back so far.
WithdrawWeek ==
  /\ page.first < page.last
  /\ page' = [page EXCEPT !.first = @ + 1]
  /\ withdrawn' = withdrawn \cup
       ({page.first} \ {r.dealing[1] : r \in rows})
  /\ UNCHANGED << bundle, rows, importLock, importer, overran, faults >>

-----------------------------------------------------------------------------

ImportStep(i) ==
  \/ ResolveReference(i) \/ FindWeeklyDownloads(i) \/ DownloadWeek(i)
  \/ IngestFile(i) \/ CommitWeek(i) \/ RejectWeek(i) \/ ReleaseLock(i)

PsiNext ==
  \/ \E i \in Importers :
       \/ RunWeeklyImport(i)
       \/ ResolveReference(i) \/ FindWeeklyDownloads(i) \/ DownloadWeek(i)
       \/ IngestFile(i) \/ CommitWeek(i) \/ RejectWeek(i)
       \/ ReleaseLock(i) \/ FailImport(i) \/ AbandonLock(i)
  \/ ExpireImportLock
  \/ PublishWeek \/ WithdrawWeek

\* The weekly tick comes again, a run goes on, Redis drops an expired key.
PsiFairness ==
  /\ WF_psiVars(\E i \in Importers : RunWeeklyImport(i))
  /\ \A i \in Importers : WF_psiVars(ImportStep(i))
  /\ WF_psiVars(importLock = Orphan /\ ExpireImportLock)

PsiSpec == PsiInit /\ [][PsiNext]_psiVars /\ PsiFairness

-----------------------------------------------------------------------------

PsiTypeOK ==
  /\ bundle \in [Weeks -> BundleKinds]
  /\ page.first \in Weeks /\ page.last \in Weeks
  /\ \A r \in rows : r.dealing[1] \in Weeks
  /\ importLock \in Importers \cup {NoRun, Orphan}
  /\ \A i \in Importers :
       /\ importer[i].stage \in ImportStages
       /\ importer[i].stage \in {"week", "ingest"} =>
            importer[i].links # << >>
       /\ importer[i].staged # {} => importer[i].stage = "ingest"
  /\ overran \subseteq Importers
  /\ withdrawn \subseteq Weeks
  /\ faults \in 0..MaxFaults

\* The watermark asserts no more than is stored: of every week at or below it
\* that had data files and was on offer, every dealing is in the table. A week
\* half inserted, taken out of order or stamped with another week's date would
\* be passed over and lost without a trace (processWeeks, ingestWeek).
PrefixStored ==
  \A w \in Weeks :
    w <= Watermark /\ w \notin withdrawn =>
      DealingsOf(w) \subseteq Dealings(rows)

\* As long as its lock has not expired under it, a run is the only one that
\* has it: an overrunning run does not free its successor's lock
\* (releaseLock's comparison), and no third run starts beside the successor.
UnexpiredRunHoldsLock ==
  \A i \in Importers :
    importer[i].stage # "idle" /\ i \notin overran => importLock = i

\* When every archive can be stored, failures stop and the site stands still,
\* every week still on the page ends up in the table: no failure, expiry or
\* overlap leaves the import stuck behind a week or a lock.
BacklogImported ==
  <>[]((\A w \in Weeks : bundle[w] \in {"good", "no_files", "repeated"}) =>
         \A w \in page.first..page.last :
           DealingsOf(w) \subseteq Dealings(rows))

\* What processWeeks says of the watermark: it only moves over a contiguous
\* prefix of weeks that were stored.
WatermarkContiguous ==
  \A w \in Weeks :
    w <= Watermark /\ w \notin withdrawn => \E r \in rows : r.dealing[1] = w
=============================================================================
