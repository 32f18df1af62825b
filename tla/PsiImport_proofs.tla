-------------------------- MODULE PsiImport_proofs --------------------------
(***************************************************************************)
(* For any number of importers, weeks and faults: a run whose lock has not *)
(* expired under it is the one that holds it, and with or without a lock,  *)
(* what the watermark covers is stored.                                    *)
(***************************************************************************)
EXTENDS PsiImport, FiniteSetTheorems, SequenceTheorems,
        WellFoundedInduction, TLAPS

LockInv == importer = [i \in Importers |-> importer[i]] /\ UnexpiredRunHoldsLock

\* No importer runs at the start.
LEMMA LockInvInitially == PsiInit => LockInv
BY DEF PsiInit, LockInv, UnexpiredRunHoldsLock, Idle

\* Within a run the importer's own record changes and nothing about the lock.
LEMMA RunKeepsLockInv ==
  ASSUME LockInv, NEW i \in Importers,
         \/ ResolveReference(i) \/ FindWeeklyDownloads(i) \/ DownloadWeek(i)
         \/ IngestFile(i) \/ CommitWeek(i) \/ RejectWeek(i) \/ FailImport(i)
  PROVE  LockInv'
<1>1. /\ UNCHANGED << importLock, overran >>
      /\ importer[i].stage # "idle"
      /\ \E r : importer' = [importer EXCEPT ![i] = r]
  <2>1. CASE ResolveReference(i)
    <3>1. importer' = [importer EXCEPT ![i] = importer'[i]]
      BY <2>1 DEF ResolveReference, LockInv
    <3> QED BY <2>1, <3>1 DEF ResolveReference
  <2>2. CASE FindWeeklyDownloads(i)
    BY <2>2 DEF FindWeeklyDownloads
  <2>3. CASE DownloadWeek(i)
    BY <2>3 DEF DownloadWeek
  <2>4. CASE IngestFile(i)
    <3>1. importer' = [importer EXCEPT ![i] = importer'[i]]
      BY <2>4 DEF IngestFile, LockInv
    <3> QED BY <2>4, <3>1 DEF IngestFile
  <2>5. CASE CommitWeek(i)
    BY <2>5 DEF CommitWeek
  <2>6. CASE RejectWeek(i)
    BY <2>6 DEF RejectWeek
  <2>7. CASE FailImport(i)
    BY <2>7 DEF FailImport
  <2> QED BY <2>1, <2>2, <2>3, <2>4, <2>5, <2>6, <2>7
<1> QED BY <1>1 DEF LockInv, UnexpiredRunHoldsLock

\* A run starts on a free lock, which no unexpired run can be without.
LEMMA StartKeepsLockInv ==
  ASSUME LockInv, NEW i \in Importers, RunWeeklyImport(i)
  PROVE  LockInv'
<1>1. \A j \in Importers : importer[j].stage = "idle" \/ j \in overran
  BY PsiAssumption DEF RunWeeklyImport, LockInv, UnexpiredRunHoldsLock
<1>2. /\ importLock' = i /\ overran' = overran
      /\ \A j \in Importers \ {i} : importer'[j] = importer[j]
      /\ importer' = [j \in Importers |-> importer'[j]]
  BY DEF RunWeeklyImport, LockInv
<1> QED BY <1>1, <1>2 DEF LockInv, UnexpiredRunHoldsLock

\* A run gives up no lock but its own.
LEMMA EndKeepsLockInv ==
  ASSUME LockInv, NEW i \in Importers, ReleaseLock(i) \/ AbandonLock(i)
  PROVE  LockInv'
<1>1. /\ importer' = [importer EXCEPT ![i] = Idle]
      /\ overran' = overran \ {i}
      /\ importLock # i => importLock' = importLock
  BY DEF ReleaseLock, AbandonLock
<1>2. importer'[i].stage = "idle"
  BY <1>1 DEF LockInv, Idle
<1> QED BY <1>1, <1>2 DEF LockInv, UnexpiredRunHoldsLock

\* An expiry is remembered of the run it happens to.
LEMMA ExpiryKeepsLockInv == LockInv /\ ExpireImportLock => LockInv'
BY PsiAssumption DEF ExpireImportLock, LockInv, UnexpiredRunHoldsLock

\* The invariant of the lock is inductive.
LEMMA StepKeepsLockInv == LockInv /\ [PsiNext]_psiVars => LockInv'
<1> SUFFICES ASSUME LockInv, [PsiNext]_psiVars PROVE LockInv'
  OBVIOUS
<1>1. CASE UNCHANGED psiVars
  BY <1>1 DEF psiVars, LockInv, UnexpiredRunHoldsLock
<1>2. CASE PublishWeek \/ WithdrawWeek
  BY <1>2 DEF PublishWeek, WithdrawWeek, LockInv, UnexpiredRunHoldsLock
<1> QED BY <1>1, <1>2, RunKeepsLockInv, StartKeepsLockInv, EndKeepsLockInv,
           ExpiryKeepsLockInv DEF PsiNext

\* However many processes import and whatever expires, fails or dies, a run
\* whose lock has not expired is never without it: compare-and-delete frees
\* nobody else's.
THEOREM LockHeldByRun == PsiSpec => []UnexpiredRunHoldsLock
<1>1. LockInv => UnexpiredRunHoldsLock
  BY DEF LockInv
<1> QED BY <1>1, LockInvInitially, StepKeepsLockInv, PTL DEF PsiSpec

-----------------------------------------------------------------------------
(* Stamps and lists of weeks *)

\* The newest of some stamps that are bounded is one of them.
LEMMA NewestIsMax ==
  ASSUME NEW S \in SUBSET Nat, NEW bound \in Nat, \A s \in S : s <= bound
  PROVE  /\ Newest(S) \in Nat /\ Newest(S) <= bound
         /\ S # {} => Newest(S) \in S
         /\ \A s \in S : s <= Newest(S)
<1>1. CASE S = {}
  BY <1>1 DEF Newest
<1>2. CASE S # {}
  <2> DEFINE room == {n \in Nat : \E s \in S : s + n = bound}
             less == OpToRel(<, Nat)
  <2>1. room # {} /\ room \subseteq Nat
    <3>1. PICK s \in S : TRUE
      BY <1>2
    <3>2. bound - s \in Nat /\ s + (bound - s) = bound
      BY <3>1
    <3> QED
      BY <3>2
  <2>2. \E n \in room : \A m \in room : << m, n >> \notin less
    BY <2>1, NatLessThanWellFounded, WFMin
  <2>3. PICK n \in room : \A m \in room : ~(m < n)
    BY <2>2 DEF OpToRel
  <2>4. PICK s \in S : s + n = bound
    OBVIOUS
  <2>5. \A t \in S : t <= s
    <3> SUFFICES ASSUME NEW t \in S, t > s PROVE FALSE
      OBVIOUS
    <3>1. bound - t \in room /\ bound - t < n
      BY <2>4
    <3> QED
      BY <2>3, <3>1
  <2>6. Newest(S) \in S /\ \A t \in S : t <= Newest(S)
    BY <1>2, <2>5 DEF Newest
  <2> QED
    BY <2>6
<1> QED
  BY <1>1, <1>2

\* The weeks from a to b, the oldest first: a, a + 1, ... b.
LEMMA OldestFirstCounts ==
  ASSUME NEW a \in Nat, NEW b \in Nat
  PROVE  /\ a > b => OldestFirst(a..b) = << >>
         /\ a <= b => OldestFirst(a..b) = [n \in 1..(b - a + 1) |-> a + n - 1]
<1>1. Cardinality(a..b) = IF a > b THEN 0 ELSE b - a + 1
  BY FS_Interval
<1>2. CASE a > b
  BY <1>1, <1>2 DEF OldestFirst
<1>3. CASE a <= b
  <2> DEFINE nth(n) == Newest({w \in a..b : Cardinality({v \in a..b : v < w}) = n - 1})
  <2>1. ASSUME NEW n \in 1..(b - a + 1)
        PROVE  nth(n) = a + n - 1
    <3>1. ASSUME NEW w \in a..b PROVE Cardinality({v \in a..b : v < w}) = w - a
      <4>1. {v \in a..b : v < w} = a..(w - 1)
        OBVIOUS
      <4>2. Cardinality(a..(w - 1)) = IF a > w - 1 THEN 0 ELSE (w - 1) - a + 1
        BY FS_Interval
      <4>3. Cardinality(a..(w - 1)) = w - a
        BY <4>2
      <4> QED
        BY <4>1, <4>3
    <3>2. {w \in a..b : Cardinality({v \in a..b : v < w}) = n - 1} = {a + n - 1}
      <4>1. a + n - 1 \in a..b
        BY <1>3
      <4>2. \A w \in a..b : w - a = n - 1 <=> w = a + n - 1
        OBVIOUS
      <4> QED
        BY <3>1, <4>1, <4>2
    <3>3. Newest({a + n - 1}) = a + n - 1
      BY DEF Newest
    <3> QED
      BY <3>2, <3>3
  <2>2. OldestFirst(a..b) = [n \in 1..Cardinality(a..b) |-> nth(n)]
    BY DEF OldestFirst
  <2> HIDE DEF nth
  <2>3. Cardinality(a..b) = b - a + 1
    BY <1>1, <1>3
  <2> QED
    BY <1>3, <2>1, <2>2, <2>3
<1> QED
  BY <1>2, <1>3

-----------------------------------------------------------------------------
(* What is stored *)

SaleRecords == [dealing : Nat \X Nat, stamp : Nat \ {0}]

\* Every dealing of the week is in the table, or the week left the listing
\* before any of them was.
Accounted(w) == w \in withdrawn \/ DealingsOf(w) \subseteq Dealings(rows)

\* The weeks a run still has to do follow one another.
Runs ==
  {r \in [stage : ImportStages, reference : Nat, links : Seq(Weeks), file : Nat,
          staged : SUBSET SaleRecords, newest : Nat] :
     /\ r.stage \in {"week", "ingest"} => r.links # << >>
     /\ \A n \in 1..(Len(r.links) - 1) : r.links[n + 1] = r.links[n] + 1
     /\ \A q \in r.staged : q.stamp <= r.newest /\ q.dealing[1] <= r.links[1]}

\* A run looks for weeks above a watermark that is stored, begins with a week
\* below which all is accounted for, and has staged what it has read.
RunAccounts(r) ==
  /\ r.reference <= Watermark
  /\ r.links # << >> => \A v \in Weeks : v < r.links[1] => Accounted(v)
  /\ \A j \in 1..(r.file - 1) :
       Dealings(Parsed(r.links[1], j)) \subseteq Dealings(rows \cup r.staged)

RowsTyped ==
  /\ bundle \in [Weeks -> BundleKinds] /\ bundle[1] # "repeated"
  /\ page \in [first : Weeks, last : Weeks]
  /\ rows \subseteq SaleRecords /\ \A q \in rows : q.stamp \in Weeks
  /\ importer \in [Importers -> Runs]

\* A week is accounted for once the watermark covers it, the listing has
\* dropped it, or one row of it is in the table.
WeeksAccounted ==
  \A v \in Weeks :
    v <= Watermark \/ v < page.first \/ (\E q \in rows : q.dealing[1] = v) =>
      Accounted(v)

ImportInv ==
  RowsTyped /\ WeeksAccounted /\ \A i \in Importers : RunAccounts(importer[i])

\* A run that has not begun has nothing in hand.
LEMMA IdleRun ==
  /\ Idle \in Runs /\ Idle.stage = "idle" /\ Idle.reference = 0
  /\ Idle.links = << >> /\ Idle.file = 0 /\ Idle.staged = {} /\ Idle.newest = 0
<1>1. << >> \in Seq(Weeks) /\ Len(<< >>) = 0
  OBVIOUS
<1> QED
  BY <1>1 DEF Idle, Runs, ImportStages

\* The watermark is the newest stamp there is.
LEMMA WatermarkIs ==
  ASSUME NEW R \in SUBSET SaleRecords, \A q \in R : q.stamp \in Weeks
  PROVE  LET mark == Newest({q.stamp : q \in R}) IN
           /\ mark \in Nat
           /\ \A q \in R : q.stamp <= mark
           /\ R # {} => \E q \in R : q.stamp = mark
           /\ R = {} => mark = 0
<1> DEFINE stamps == {q.stamp : q \in R}
<1>1. stamps \in SUBSET Nat /\ LastWeek \in Nat /\ \A t \in stamps : t <= LastWeek
  BY PsiAssumption DEF Weeks
<1>2. R = {} => Newest(stamps) = 0
  BY DEF Newest
<1>3. \A q \in R : q.stamp \in stamps
  OBVIOUS
<1>4. R # {} => stamps # {}
  OBVIOUS
<1> HIDE DEF stamps
<1>5. /\ Newest(stamps) \in Nat /\ \A t \in stamps : t <= Newest(stamps)
      /\ stamps # {} => Newest(stamps) \in stamps
  BY <1>1, NewestIsMax
<1>6. R # {} => \E q \in R : q.stamp = Newest(stamps)
  BY <1>4, <1>5 DEF stamps
<1> QED
  BY <1>2, <1>3, <1>5, <1>6 DEF stamps

\* What an archive holds of a week: dealings of that week or the one before,
\* stamped with it or the one after.
LEMMA ParsedRecords ==
  ASSUME RowsTyped, NEW w \in Weeks, NEW k \in Nat
  PROVE  /\ Parsed(w, k) \subseteq SaleRecords
         /\ \A q \in Parsed(w, k) : /\ q.dealing[1] <= w
                                    /\ q.stamp \in {w, w + 1}
<1>1. w \in Nat /\ w - 1 \in Nat /\ w + 1 \in Nat
  BY PsiAssumption DEF Weeks
<1>2. ASSUME NEW q \in Parsed(w, k)
      PROVE  \E d \in {w - 1, w}, j \in Nat, t \in {w, w + 1} : q = Record(d, j, t)
  <2>1. CASE bundle[w] = "good"
    BY <1>2, <2>1 DEF Parsed
  <2>2. CASE bundle[w] = "no_records"
    BY <1>2, <2>2 DEF Parsed
  <2>3. CASE bundle[w] = "mis_stamped"
    BY <1>2, <2>3 DEF Parsed
  <2>4. CASE bundle[w] = "repeated"
    BY <1>2, <2>4 DEF Parsed
  <2>5. CASE bundle[w] \notin {"good", "no_records", "mis_stamped", "repeated"}
    BY <1>2, <2>5 DEF Parsed
  <2> QED
    BY <2>1, <2>2, <2>3, <2>4, <2>5
<1>3. ASSUME NEW d \in {w - 1, w}, NEW j \in Nat, NEW t \in {w, w + 1}
      PROVE  /\ Record(d, j, t) \in SaleRecords
             /\ Record(d, j, t).dealing[1] <= w
             /\ Record(d, j, t).stamp = t
  BY <1>1 DEF Record, SaleRecords
<1> QED
  BY <1>2, <1>3

\* Dealings are those of the one set and of the other.
LEMMA DealingsUnion ==
  ASSUME NEW S, NEW T
  PROVE  /\ Dealings(S \cup T) = Dealings(S) \cup Dealings(T)
         /\ S \subseteq T => Dealings(S) \subseteq Dealings(T)
         /\ Dealings({}) = {}
BY DEF Dealings


\* The archives never change.
LEMMA SameArchives ==
  ASSUME UNCHANGED bundle
  PROVE  \A w : /\ \A k : Parsed(w, k)' = Parsed(w, k)
               /\ DatFiles(w)' = DatFiles(w)
               /\ DealingsOf(w)' = DealingsOf(w)
<1> TAKE w
<1>1. \A k : Parsed(w, k)' = Parsed(w, k)
  BY DEF Parsed
<1>2. DatFiles(w)' = DatFiles(w)
  BY DEF DatFiles
<1>3. \A k : Dealings(Parsed(w, k))' = Dealings(Parsed(w, k))
  BY <1>1 DEF Dealings
<1>4. DealingsOf(w)' = DealingsOf(w)
  BY <1>2, <1>3 DEF DealingsOf
<1> QED
  BY <1>1, <1>2, <1>4

\* A table that grows forgets no week, and its watermark does not fall.
LEMMA TableGrows ==
  ASSUME RowsTyped, RowsTyped', UNCHANGED bundle,
         rows \subseteq rows', withdrawn \subseteq withdrawn'
  PROVE  /\ \A v : Accounted(v) => Accounted(v)'
         /\ Watermark \in Nat /\ Watermark' \in Nat /\ Watermark <= Watermark'
<1>1. \A v : Accounted(v) => Accounted(v)'
  <2>1. Dealings(rows) \subseteq Dealings(rows')
    BY DealingsUnion
  <2> QED
    BY <2>1, SameArchives DEF Accounted
<1>2. /\ rows \in SUBSET SaleRecords /\ \A q \in rows : q.stamp \in Weeks
      /\ rows' \in SUBSET SaleRecords /\ \A q \in rows' : q.stamp \in Weeks
  BY DEF RowsTyped
<1>3. /\ Watermark \in Nat
      /\ rows # {} => \E q \in rows : q.stamp = Watermark
      /\ rows = {} => Watermark = 0
  BY <1>2, WatermarkIs DEF Watermark
<1>4. Watermark' \in Nat /\ \A q \in rows' : q.stamp <= Watermark'
  BY <1>2, WatermarkIs DEF Watermark
<1>5. Watermark <= Watermark'
  <2>1. PICK mark \in Nat, now \in Nat : mark = Watermark /\ now = Watermark'
    BY <1>3, <1>4
  <2>2. CASE rows = {}
    BY <1>3, <2>1, <2>2
  <2>3. CASE rows # {}
    BY <1>3, <1>4, <2>1, <2>3
  <2> QED
    BY <2>2, <2>3
<1> QED
  BY <1>1, <1>3, <1>4, <1>5

\* At the start the table is empty and the listing has its first week.
LEMMA ImportInvInitially == PsiInit => ImportInv
<1> SUFFICES ASSUME PsiInit PROVE ImportInv
  OBVIOUS
<1>1. 1 \in Weeks /\ \A v \in Weeks : v \in Nat /\ v >= 1
  BY PsiAssumption DEF Weeks
<1>2. RowsTyped /\ rows = {} /\ page.first = 1
  BY <1>1, IdleRun DEF PsiInit, RowsTyped
<1>3. Watermark = 0
  BY <1>2, WatermarkIs DEF Watermark
<1>4. WeeksAccounted
  BY <1>1, <1>2, <1>3 DEF WeeksAccounted
<1>5. ASSUME NEW i \in Importers PROVE RunAccounts(importer[i])
  BY <1>3, IdleRun DEF PsiInit, RunAccounts
<1> QED
  BY <1>2, <1>4, <1>5 DEF ImportInv

\* A run that goes on and touches nothing but itself.
LEMMA RunGoesOn ==
  ASSUME ImportInv, NEW i \in Importers, NEW r \in Runs, RunAccounts(r),
         importer' = [importer EXCEPT ![i] = r],
         UNCHANGED << bundle, page, withdrawn, rows >>
  PROVE  ImportInv'
<1>1. RowsTyped'
  BY DEF ImportInv, RowsTyped
<1>2. /\ Watermark' = Watermark
      /\ \A v : Accounted(v)' <=> Accounted(v)
      /\ \A w, k : Parsed(w, k)' = Parsed(w, k)
  BY SameArchives DEF Watermark, Accounted
<1>3. WeeksAccounted'
  BY <1>2 DEF ImportInv, WeeksAccounted
<1>4. ASSUME NEW j \in Importers PROVE RunAccounts(importer[j])'
  <2>1. importer'[j] = IF j = i THEN r ELSE importer[j]
    BY DEF ImportInv, RowsTyped
  <2>2. PICK x : x = importer'[j] /\ RunAccounts(x)
    BY <2>1 DEF ImportInv
  <2>3. RunAccounts(x)'
    BY <1>2, <2>2 DEF RunAccounts
  <2> QED
    BY <2>2, <2>3 DEF RunAccounts
<1> QED
  BY <1>1, <1>3, <1>4 DEF ImportInv


-----------------------------------------------------------------------------
(* The steps of a run *)

\* The watermark is a number, 0 for the empty table.
LEMMA WatermarkNumber == ImportInv => Watermark \in Nat
BY WatermarkIs DEF ImportInv, RowsTyped, Watermark

\* A list that is not empty, and the rest of it.
LEMMA RestOfList ==
  ASSUME NEW S, NEW list \in Seq(S), list # << >>
  PROVE  /\ Len(list) \in Nat \ {0} /\ Head(list) = list[1] /\ list[1] \in S
         /\ Tail(list) \in Seq(S) /\ Len(Tail(list)) = Len(list) - 1
         /\ \A n \in 1..(Len(list) - 1) : Tail(list)[n] = list[n + 1]
         /\ Len(list) = 1 <=> Tail(list) = << >>
<1>1. Len(list) \in Nat \ {0} /\ Head(list) = list[1] /\ list[1] \in S
  OBVIOUS
<1>2. Tail(list) \in Seq(S) /\ Len(Tail(list)) = Len(list) - 1
  BY <1>1
<1>3. \A n \in 1..(Len(list) - 1) : Tail(list)[n] = list[n + 1]
  BY <1>1
<1>4. Len(list) = 1 <=> Tail(list) = << >>
  <2>1. Tail(list) = << >> <=> Len(Tail(list)) = 0
    BY <1>2, EmptySeq
  <2> QED
    BY <1>1, <1>2, <2>1
<1> QED
  BY <1>1, <1>2, <1>3, <1>4

\* A run that moves to another stage and keeps its weeks.
LEMMA RunAtStage ==
  ASSUME NEW r \in Runs, NEW stage \in ImportStages,
         stage \in {"week", "ingest"} => r.links # << >>
  PROVE  LET moved == [r EXCEPT !.stage = stage] IN
           /\ moved \in Runs /\ moved.stage = stage
           /\ moved.reference = r.reference /\ moved.links = r.links
           /\ moved.file = r.file /\ moved.staged = r.staged
           /\ moved.newest = r.newest
BY DEF Runs

\* A run without weeks and without anything staged.
LEMMA BareRun ==
  ASSUME ImportInv, NEW r \in Runs, r.links = << >>, r.reference <= Watermark,
         r.file \in {0, 1}
  PROVE  RunAccounts(r)
BY DEF RunAccounts

\* What is left of a run when a week is done with.
LEMMA NextWeekRun ==
  ASSUME NEW r \in Runs, r.links # << >>
  PROVE  /\ NextWeek(r) \in Runs
         /\ NextWeek(r).reference = 0 /\ NextWeek(r).file = 0
         /\ NextWeek(r).links = Tail(r.links)
         /\ Head(r.links) = r.links[1] /\ r.links[1] \in Weeks
         /\ Tail(r.links) # << >> => Tail(r.links)[1] = r.links[1] + 1
<1> DEFINE links == r.links
           next == NextWeek(r)
<1>1. /\ links \in Seq(Weeks) /\ links # << >>
      /\ \A n \in 1..(Len(links) - 1) : links[n + 1] = links[n] + 1
  BY DEF Runs
<1> HIDE DEF links
<1>2. /\ Len(links) \in Nat \ {0} /\ Head(links) = links[1] /\ links[1] \in Weeks
      /\ Tail(links) \in Seq(Weeks) /\ Len(Tail(links)) = Len(links) - 1
      /\ \A n \in 1..(Len(links) - 1) : Tail(links)[n] = links[n + 1]
      /\ Len(links) # 1 => Tail(links) # << >>
      /\ Len(links) = 1 => Tail(links) = << >>
  BY <1>1, RestOfList
<1>3. /\ next.links = Tail(links) /\ next.reference = 0 /\ next.file = 0
      /\ next.staged = {} /\ next.newest = 0
      /\ next.stage = IF Len(links) = 1 THEN "release" ELSE "week"
      /\ next \in [stage : ImportStages, reference : Nat, links : Seq(Weeks),
                   file : Nat, staged : SUBSET SaleRecords, newest : Nat]
  BY <1>2 DEF NextWeek, Idle, ImportStages, links
<1> HIDE DEF next
<1>4. Tail(links) # << >> => Tail(links)[1] = links[1] + 1
  BY <1>1, <1>2
<1>5. \A n \in 1..(Len(next.links) - 1) : next.links[n + 1] = next.links[n] + 1
  BY <1>1, <1>2, <1>3
<1>6. next \in Runs
  BY <1>2, <1>3, <1>5 DEF Runs
<1> QED
  BY <1>2, <1>3, <1>4, <1>6 DEF next, links

\* A run that gives its weeks up, or ends.
LEMMA StopKeeps ==
  ASSUME ImportInv, NEW i \in Importers,
         RejectWeek(i) \/ FailImport(i) \/ ReleaseLock(i) \/ AbandonLock(i)
  PROVE  ImportInv'
<1>1. PICK r \in {Idle, StopRun} : importer' = [importer EXCEPT ![i] = r]
  BY DEF RejectWeek, FailImport, ReleaseLock, AbandonLock
<1>2. UNCHANGED << bundle, page, withdrawn, rows >>
  BY DEF RejectWeek, FailImport, ReleaseLock, AbandonLock, Env
<1>3. StopRun \in Runs /\ StopRun.reference = 0 /\ StopRun.links = << >>
      /\ StopRun.file = 0
  BY IdleRun, RunAtStage DEF StopRun, ImportStages
<1>4. 0 <= Watermark
  BY WatermarkNumber
<1>5. r \in Runs /\ RunAccounts(r)
  BY <1>1, <1>3, <1>4, IdleRun, BareRun
<1> QED
  BY <1>1, <1>2, <1>5, RunGoesOn

\* A run begins, and reads the watermark.
LEMMA BeginKeeps ==
  ASSUME ImportInv, NEW i \in Importers,
         RunWeeklyImport(i) \/ ResolveReference(i)
  PROVE  ImportInv'
<1>1. UNCHANGED << bundle, page, withdrawn, rows >>
  BY DEF RunWeeklyImport, ResolveReference, Env
<1>2. /\ importer \in [Importers -> Runs] /\ importer[i] \in Runs
      /\ RunAccounts(importer[i])
  BY DEF ImportInv, RowsTyped
<1>3. Watermark \in Nat
  BY WatermarkNumber
<1>4. CASE RunWeeklyImport(i)
  <2> DEFINE r == [importer[i] EXCEPT !.stage = "started"]
  <2>1. importer' = [importer EXCEPT ![i] = r]
    BY <1>2, <1>4 DEF RunWeeklyImport
  <2>2. /\ r \in Runs /\ r.reference = importer[i].reference
        /\ r.links = importer[i].links /\ r.file = importer[i].file
        /\ r.staged = importer[i].staged
    BY <1>2, RunAtStage DEF ImportStages
  <2> HIDE DEF r
  <2>3. RunAccounts(r)
    BY <1>2, <2>2 DEF RunAccounts
  <2> QED
    BY <1>1, <2>1, <2>2, <2>3, RunGoesOn
<1>5. CASE ResolveReference(i)
  <2> DEFINE r == [importer[i] EXCEPT !.stage = "listing", !.reference = Watermark]
  <2>1. importer' = [importer EXCEPT ![i] = r]
    BY <1>2, <1>5 DEF ResolveReference
  <2>2. /\ r \in Runs /\ r.reference = Watermark
        /\ r.links = importer[i].links /\ r.file = importer[i].file
        /\ r.staged = importer[i].staged
    BY <1>2, <1>3 DEF Runs, ImportStages
  <2> HIDE DEF r
  <2>3. r.reference <= Watermark
    BY <1>3, <2>2
  <2>4. RunAccounts(r)
    BY <1>2, <2>2, <2>3 DEF RunAccounts
  <2> QED
    BY <1>1, <2>1, <2>2, <2>4, RunGoesOn
<1> QED
  BY <1>4, <1>5

\* The weeks to do begin right above the watermark the run has read, or with
\* the first on the listing.
LEMMA FindKeeps ==
  ASSUME ImportInv, NEW i \in Importers, FindWeeklyDownloads(i)
  PROVE  ImportInv'
<1> DEFINE reference == importer[i].reference
           links == OldestFirst(NewerThan(reference))
           r == [Idle EXCEPT !.stage = IF links = << >> THEN "release" ELSE "week",
                             !.links = links]
<1>1. /\ UNCHANGED << bundle, page, withdrawn, rows >>
      /\ importer' = [importer EXCEPT ![i] = r]
  BY DEF FindWeeklyDownloads, Env
<1>2. /\ page.first \in Weeks /\ page.last \in Weeks
      /\ reference \in Nat /\ reference <= Watermark
      /\ Watermark \in Nat
      /\ \A v \in Weeks : v <= Watermark \/ v < page.first => Accounted(v)
  BY WatermarkIs
  DEF ImportInv, RowsTyped, RunAccounts, WeeksAccounted, Watermark, Runs
<1>3. \A n \in Nat : n \in Weeks <=> 1 <= n /\ n <= LastWeek
  BY PsiAssumption DEF Weeks
<1>4. PICK a \in Nat : /\ NewerThan(reference) = a..page.last /\ a >= 1
                       /\ \A v \in Weeks : v < a => Accounted(v)
  <2>1. Weeks \subseteq Nat
    BY <1>3 DEF Weeks
  <2>2. CASE reference \in page.first..page.last
    <3>0. ASSUME NEW first \in Nat, NEW last \in Nat, NEW x \in first..last
          PROVE  {w \in first..last : w > x} = (x + 1)..last
      OBVIOUS
    <3>1. NewerThan(reference) = (reference + 1)..page.last
      <4>1. NewerThan(reference) = {w \in page.first..page.last : w > reference}
        BY <2>2 DEF NewerThan
      <4>2. page.first \in Nat /\ page.last \in Nat
        BY <1>2, <2>1
      <4> QED
        BY <2>2, <3>0, <4>1, <4>2
    <3>2. \A v \in Weeks : v < reference + 1 => Accounted(v)
      BY <1>2, <2>1
    <3> QED
      BY <1>2, <3>1, <3>2
  <2>3. CASE reference \notin page.first..page.last
    <3>1. NewerThan(reference) = page.first..page.last
      BY <2>3 DEF NewerThan
    <3> QED
      BY <1>2, <1>3, <2>1, <3>1
  <2> QED
    BY <2>2, <2>3
<1>5. /\ links \in Seq(Weeks)
      /\ \A n \in 1..(Len(links) - 1) : links[n + 1] = links[n] + 1
      /\ links # << >> => links[1] = a
  <2>1. page.last \in Nat /\ page.last <= LastWeek /\ LastWeek \in Nat
    BY <1>2, PsiAssumption DEF Weeks
  <2>2. CASE a > page.last
    <3>1. links = << >>
      BY <1>4, <2>1, <2>2, OldestFirstCounts
    <3> HIDE DEF links
    <3>2. links \in Seq(Weeks) /\ Len(links) = 0
      BY <3>1, EmptySeq
    <3> QED
      BY <3>1, <3>2
  <2>3. CASE a <= page.last
    <3> DEFINE size == page.last - a + 1
    <3>1. links = [n \in 1..size |-> a + n - 1]
      BY <1>4, <2>1, <2>3, OldestFirstCounts
    <3>2. size \in Nat /\ \A n \in 1..size : a + n - 1 \in Weeks
      BY <1>3, <1>4, <2>1, <2>3
    <3>3. links \in Seq(Weeks) /\ Len(links) = size /\ \A n \in 1..size : links[n] = a + n - 1
      BY <3>1, <3>2
    <3> HIDE DEF links
    <3>4. 1 \in 1..size /\ \A n \in 1..(size - 1) : n \in 1..size /\ n + 1 \in 1..size
      BY <1>4, <2>1, <2>3
    <3>5. \A n \in 1..(size - 1) : n \in Nat /\ a + (n + 1) - 1 = (a + n - 1) + 1
      BY <1>4
    <3>6. links[1] = a
      BY <1>4, <3>3, <3>4
    <3> HIDE DEF size
    <3> QED
      BY <3>3, <3>4, <3>5, <3>6
  <2> QED
    BY <2>1, <2>2, <2>3
<1> HIDE DEF links
<1>6. r \in Runs /\ r.reference = 0 /\ r.file = 0 /\ r.links = links
  BY <1>5 DEF Runs, Idle, ImportStages
<1> HIDE DEF r
<1>7. RunAccounts(r)
  BY <1>2, <1>4, <1>5, <1>6 DEF RunAccounts
<1> QED
  BY <1>1, <1>6, <1>7, RunGoesOn

\* The week in hand.
LEMMA WeekInHand ==
  ASSUME ImportInv, NEW i \in Importers, importer[i].stage \in {"week", "ingest"}
  PROVE  /\ importer \in [Importers -> Runs] /\ importer[i] \in Runs
         /\ RunAccounts(importer[i])
         /\ importer[i].links # << >>
         /\ importer[i].links[1] \in Weeks
         /\ Head(importer[i].links) = importer[i].links[1]
         /\ NextWeek(importer[i]) \in Runs
         /\ NextWeek(importer[i]).reference = 0 /\ NextWeek(importer[i]).file = 0
         /\ NextWeek(importer[i]).links # << >> =>
              NextWeek(importer[i]).links[1] = importer[i].links[1] + 1
<1>1. /\ importer \in [Importers -> Runs] /\ importer[i] \in Runs
      /\ RunAccounts(importer[i]) /\ importer[i].links # << >>
  BY DEF ImportInv, RowsTyped, Runs
<1> QED
  BY <1>1, NextWeekRun

\* A bundle without data files has nothing to store.
LEMMA DownloadKeeps ==
  ASSUME ImportInv, NEW i \in Importers, DownloadWeek(i)
  PROVE  ImportInv'
<1> DEFINE r == importer[i]
           w == r.links[1]
<1>1. /\ r.stage = "week" /\ UNCHANGED << bundle, page, withdrawn, rows >>
      /\ importer' = [importer EXCEPT ![i] =
           IF DatFiles(Head(r.links)) = 0 THEN NextWeek(r)
           ELSE [r EXCEPT !.stage = "ingest", !.file = 1]]
  BY DEF DownloadWeek, Env
<1>2. /\ r \in Runs /\ RunAccounts(r) /\ r.links # << >> /\ w \in Weeks
      /\ Head(r.links) = w /\ Weeks \subseteq Nat
      /\ NextWeek(r) \in Runs
      /\ NextWeek(r).reference = 0 /\ NextWeek(r).file = 0
      /\ NextWeek(r).links # << >> => NextWeek(r).links[1] = w + 1
  BY <1>1, WeekInHand DEF Weeks
<1>3. CASE DatFiles(w) = 0
  <2> DEFINE next == NextWeek(r)
  <2>1. Accounted(w)
    BY <1>3 DEF Accounted, DealingsOf
  <2>2. ASSUME NEW v \in Weeks, v < w + 1 PROVE v < w \/ v = w
    <3>1. v \in Nat /\ w \in Nat
      BY <1>2
    <3> QED
      BY <2>2, <3>1
  <2>3. next.links # << >> => \A v \in Weeks : v < next.links[1] => Accounted(v)
    BY <1>2, <2>1, <2>2 DEF RunAccounts
  <2>4. 0 <= Watermark
    BY WatermarkNumber
  <2> HIDE DEF next
  <2>5. next.reference = 0 /\ next.file = 0 /\ 1..(0 - 1) = {}
    BY <1>2 DEF next
  <2>6. RunAccounts(next)
    BY <2>3, <2>4, <2>5 DEF RunAccounts
  <2> QED
    BY <1>1, <1>2, <1>3, <2>6, RunGoesOn DEF next
<1>4. CASE DatFiles(w) # 0
  <2> DEFINE read == [r EXCEPT !.stage = "ingest", !.file = 1]
  <2>1. /\ read \in Runs /\ read.reference = r.reference /\ read.links = r.links
        /\ read.file = 1
    BY <1>2 DEF Runs, ImportStages
  <2> HIDE DEF read
  <2>2. RunAccounts(read)
    BY <1>2, <2>1 DEF RunAccounts
  <2> QED
    BY <1>1, <1>2, <1>4, <2>1, <2>2, RunGoesOn DEF read
<1> QED
  BY <1>3, <1>4

\* A run whose file, staged records and newest stamp are replaced.
LEMMA RunHavingRead ==
  ASSUME NEW r \in Runs, NEW staged \in SUBSET SaleRecords, NEW newest \in Nat,
         \A q \in staged : q.stamp <= newest /\ q.dealing[1] <= r.links[1]
  PROVE  LET read == [r EXCEPT !.file = @ + 1, !.staged = staged,
                               !.newest = newest] IN
           /\ read \in Runs
           /\ read.reference = r.reference /\ read.links = r.links
           /\ read.file = r.file + 1 /\ read.staged = staged
<1> DEFINE shape == [stage : ImportStages, reference : Nat, links : Seq(Weeks),
                     file : Nat, staged : SUBSET SaleRecords, newest : Nat]
<1>1. r \in shape /\ r.file + 1 \in Nat
  BY DEF Runs
<1>2. PICK file \in Nat : file = r.file + 1
  BY <1>1
<1> DEFINE read == [r EXCEPT !.file = file, !.staged = staged, !.newest = newest]
<1>3. /\ read \in shape /\ read.stage = r.stage
      /\ read.reference = r.reference /\ read.links = r.links
      /\ read.file = file /\ read.staged = staged /\ read.newest = newest
  BY <1>1
<1>4. read = [r EXCEPT !.file = @ + 1, !.staged = staged, !.newest = newest]
  BY <1>1, <1>2
<1> HIDE DEF read
<1>5. read \in Runs
  BY <1>3 DEF Runs
<1> QED
  BY <1>2, <1>3, <1>4, <1>5

\* A file's dealings are in the table or staged when it has been read, and the
\* newest stamp is kept.
LEMMA IngestKeeps ==
  ASSUME ImportInv, NEW i \in Importers, IngestFile(i)
  PROVE  ImportInv'
<1> DEFINE r == importer[i]
           w == r.links[1]
           records == Parsed(w, r.file)
           stamps == {r.newest} \cup {q.stamp : q \in records}
           staged == r.staged \cup Landing(i, records)
           read == [r EXCEPT !.file = @ + 1, !.staged = staged,
                             !.newest = Newest(stamps)]
<1>1. r.stage = "ingest" /\ UNCHANGED << bundle, page, withdrawn, rows >>
  BY DEF IngestFile, Env
<1>2. /\ importer \in [Importers -> Runs] /\ r \in Runs /\ RunAccounts(r)
      /\ r.links # << >> /\ w \in Weeks
      /\ Head(r.links) = w
  BY <1>1, WeekInHand
<1>3. importer' = [importer EXCEPT ![i] = read]
  BY <1>2 DEF IngestFile
<1>4. /\ r.stage \in ImportStages /\ r.reference \in Nat /\ r.links \in Seq(Weeks)
      /\ r.file \in Nat /\ r.staged \subseteq SaleRecords /\ r.newest \in Nat
      /\ \A n \in 1..(Len(r.links) - 1) : r.links[n + 1] = r.links[n] + 1
      /\ \A q \in r.staged : q.stamp <= r.newest /\ q.dealing[1] <= w
  BY <1>2 DEF Runs
<1>5. /\ records \subseteq SaleRecords
      /\ \A q \in records : q.dealing[1] <= w /\ q.stamp \in {w, w + 1}
  BY <1>2, <1>4, ParsedRecords DEF ImportInv
<1>6. /\ Newest(stamps) \in Nat
      /\ \A t \in stamps : t <= Newest(stamps)
  <2>1. w \in Nat
    BY <1>2 DEF Weeks
  <2>2. stamps \in SUBSET Nat /\ \A t \in stamps : t <= r.newest + w + 1
    <3>1. ASSUME NEW t \in stamps PROVE t = r.newest \/ t = w \/ t = w + 1
      BY <1>5
    <3>2. ASSUME NEW t, t = r.newest \/ t = w \/ t = w + 1
          PROVE  t \in Nat /\ t <= r.newest + w + 1
      BY <1>4, <2>1, <3>2
    <3> HIDE DEF stamps
    <3> QED
      BY <3>1, <3>2
  <2>3. r.newest + w + 1 \in Nat
    BY <1>4, <2>1
  <2> HIDE DEF stamps
  <2> QED
    BY <2>2, <2>3, NewestIsMax
<1>7. Landing(i, records) \subseteq records
  BY DEF Landing
<1>8. \A q \in staged : q.stamp <= Newest(stamps) /\ q.dealing[1] <= w
  <2>1. ASSUME NEW q \in r.staged PROVE q.stamp <= Newest(stamps)
    <3>1. q.stamp \in Nat /\ q.stamp <= r.newest /\ r.newest <= Newest(stamps)
      BY <1>4, <1>6 DEF SaleRecords
    <3> QED
      BY <1>4, <1>6, <3>1
  <2>2. ASSUME NEW q \in records PROVE q.stamp <= Newest(stamps)
    BY <1>6
  <2> QED
    BY <1>4, <1>5, <1>7, <2>1, <2>2
<1>9. \A j \in 1..r.file : Dealings(Parsed(w, j)) \subseteq Dealings(rows \cup staged)
  <2>1. ASSUME NEW j \in 1..(r.file - 1)
        PROVE  Dealings(Parsed(w, j)) \subseteq Dealings(rows \cup staged)
    <3>1. Dealings(Parsed(w, j)) \subseteq Dealings(rows \cup r.staged)
      BY <1>2 DEF RunAccounts
    <3>2. rows \cup r.staged \subseteq rows \cup staged
      OBVIOUS
    <3> HIDE DEF staged
    <3>3. Dealings(rows \cup r.staged) \subseteq Dealings(rows \cup staged)
      BY <3>2, DealingsUnion
    <3> QED
      BY <3>1, <3>3
  <2>2. Dealings(records) \subseteq Dealings(rows \cup staged)
    <3> SUFFICES ASSUME NEW q \in records PROVE q.dealing \in Dealings(rows \cup staged)
      BY DEF Dealings
    <3>1. CASE q \in Landing(i, records)
      BY <3>1 DEF Dealings
    <3>2. CASE q \notin Landing(i, records)
      <4>1. q.dealing \in Dealings(rows \cup r.staged)
        BY <3>2 DEF Landing
      <4> QED
        BY <4>1 DEF Dealings
    <3> QED
      BY <3>1, <3>2
  <2>3. \A j \in 1..r.file : j \in 1..(r.file - 1) \/ j = r.file
    BY <1>4
  <2> QED
    BY <2>1, <2>2, <2>3
<1>10. staged \subseteq SaleRecords
  BY <1>4, <1>5, <1>7
<1> HIDE DEF staged, stamps
<1>11. /\ read \in Runs
       /\ read.reference = r.reference /\ read.links = r.links
       /\ read.file = r.file + 1 /\ read.staged = staged
  <2>1. PICK run \in Runs, S \in SUBSET SaleRecords, newest \in Nat :
          run = r /\ S = staged /\ newest = Newest(stamps)
    BY <1>2, <1>6, <1>10
  <2>2. \A q \in S : q.stamp <= newest /\ q.dealing[1] <= run.links[1]
    BY <1>8, <2>1
  <2>3. LET next == [run EXCEPT !.file = @ + 1, !.staged = S, !.newest = newest] IN
          /\ next \in Runs
          /\ next.reference = run.reference /\ next.links = run.links
          /\ next.file = run.file + 1 /\ next.staged = S
    BY <2>2, RunHavingRead
  <2> QED
    BY <2>1, <2>3
<1> HIDE DEF read
<1>12. (r.file + 1) - 1 = r.file
  BY <1>4
<1>13. RunAccounts(read)
  BY <1>2, <1>9, <1>11, <1>12 DEF RunAccounts
<1> QED
  BY <1>1, <1>3, <1>11, <1>13, RunGoesOn

\* What another run has is not disturbed by a table that grows.
LEMMA RunsStayAccounted ==
  ASSUME RowsTyped, RowsTyped', UNCHANGED bundle,
         rows \subseteq rows', withdrawn \subseteq withdrawn',
         NEW r, r.reference \in Nat, RunAccounts(r)
  PROVE  RunAccounts(r)'
<1>1. /\ \A v : Accounted(v) => Accounted(v)'
      /\ Watermark \in Nat /\ Watermark' \in Nat /\ Watermark <= Watermark'
  BY TableGrows
<1>2. r.reference <= Watermark'
  <2>1. PICK mark \in Nat, now \in Nat : mark = Watermark /\ now = Watermark'
    BY <1>1
  <2>2. r.reference <= mark /\ mark <= now
    BY <1>1, <2>1 DEF RunAccounts
  <2> QED
    BY <2>1, <2>2
<1>3. Dealings(rows \cup r.staged) \subseteq Dealings(rows' \cup r.staged)
  BY DealingsUnion
<1>4. \A w, k : Parsed(w, k)' = Parsed(w, k)
  BY SameArchives
<1>5. \A j \in 1..(r.file - 1) :
        Dealings(Parsed(r.links[1], j)') \subseteq Dealings(rows' \cup r.staged)
  BY <1>3, <1>4 DEF RunAccounts
<1>6. \A S : Dealings(S)' = Dealings(S')
  BY DEF Dealings
<1> QED
  BY <1>1, <1>2, <1>5, <1>6 DEF RunAccounts, Dealings

\* The week committed is accounted for, as all below it were, and the watermark
\* moves no further than to it.
LEMMA CommitKeeps ==
  ASSUME ImportInv, NEW i \in Importers, CommitWeek(i)
  PROVE  ImportInv'
<1>0. PICK r, w, next : r = importer[i] /\ w = r.links[1] /\ next = NextWeek(r)
  OBVIOUS
<1>1. /\ r.stage = "ingest" /\ r.file > DatFiles(Head(r.links))
      /\ r.staged # {} /\ r.newest = Head(r.links)
      /\ rows' = rows \cup r.staged
      /\ importer' = [importer EXCEPT ![i] = next]
      /\ UNCHANGED << bundle, page, withdrawn >>
  BY <1>0 DEF CommitWeek, Usable, Env
<1>2. /\ importer \in [Importers -> Runs] /\ r \in Runs /\ RunAccounts(r)
      /\ r.links # << >> /\ w \in Weeks /\ Head(r.links) = w
      /\ next \in Runs /\ next.reference = 0 /\ next.file = 0
      /\ next.links # << >> => next.links[1] = w + 1
  BY <1>0, <1>1, WeekInHand
<1>3. /\ r.file \in Nat /\ r.staged \subseteq SaleRecords
      /\ \A q \in r.staged : q.stamp <= w /\ q.dealing[1] <= w
  BY <1>1, <1>2 DEF Runs
<1>4. LastWeek \in Nat /\ \A n : n \in Weeks <=> n \in Nat /\ 1 <= n /\ n <= LastWeek
  BY PsiAssumption DEF Weeks
<1>5. \A q \in SaleRecords : q.stamp \in Nat /\ 1 <= q.stamp /\ q.dealing[1] \in Nat
  BY DEF SaleRecords
<1>6. \A q \in r.staged : q.stamp \in Weeks
  BY <1>2, <1>3, <1>4, <1>5
<1>7. RowsTyped'
  <2>1. rows' \subseteq SaleRecords /\ \A q \in rows' : q.stamp \in Weeks
    BY <1>1, <1>3, <1>6 DEF ImportInv, RowsTyped
  <2>2. importer' \in [Importers -> Runs]
    BY <1>1, <1>2
  <2> QED
    BY <1>1, <2>1, <2>2 DEF ImportInv, RowsTyped
<1>8. RowsTyped /\ rows \subseteq rows'
  BY <1>1 DEF ImportInv
<1>9. /\ \A v : Accounted(v) => Accounted(v)'
      /\ Watermark \in Nat /\ Watermark' \in Nat
  BY <1>1, <1>7, <1>8, TableGrows
<1>10. Accounted(w)'
  <2>1. DatFiles(w) \in Nat /\ DatFiles(w) <= r.file - 1
    BY <1>1, <1>2, <1>3, PsiAssumption DEF DatFiles
  <2>2. \A j \in 1..DatFiles(w) : j \in 1..(r.file - 1)
    BY <1>3, <2>1
  <2>3. DealingsOf(w) \subseteq Dealings(rows \cup r.staged)
    <3>1. \A j \in 1..DatFiles(w) :
            Dealings(Parsed(w, j)) \subseteq Dealings(rows \cup r.staged)
      BY <1>0, <1>2, <2>2 DEF RunAccounts
    <3> QED
      BY <3>1 DEF DealingsOf
  <2>4. DealingsOf(w)' = DealingsOf(w)
    BY <1>1, SameArchives
  <2> QED
    BY <1>1, <2>3, <2>4 DEF Accounted, Dealings
<1>11. \A v \in Weeks : v < w + 1 => Accounted(v)'
  <2>1. ASSUME NEW v \in Weeks, v < w + 1 PROVE v < w \/ v = w
    BY <1>2, <1>4, <2>1
  <2> QED
    BY <1>2, <1>9, <1>10, <2>1 DEF RunAccounts
<1>12. Watermark' <= w \/ Watermark' <= Watermark
  <2>1. /\ rows \in SUBSET SaleRecords /\ \A q \in rows : q.stamp \in Weeks
        /\ rows' \in SUBSET SaleRecords /\ \A q \in rows' : q.stamp \in Weeks
    BY <1>7, <1>8 DEF RowsTyped
  <2>2. \A q \in rows : q.stamp <= Watermark
    BY <2>1, WatermarkIs DEF Watermark
  <2>3. rows' # {} => \E q \in rows' : q.stamp = Watermark'
    BY <2>1, WatermarkIs DEF Watermark
  <2>4. PICK q \in rows' : q.stamp = Watermark'
    BY <1>1, <2>3
  <2> QED
    BY <1>1, <1>3, <2>2, <2>4
<1>13. WeeksAccounted'
  <2> SUFFICES ASSUME NEW v \in Weeks,
                      \/ v <= Watermark' \/ v < page.first
                      \/ \E q \in rows' : q.dealing[1] = v
               PROVE  Accounted(v)'
    BY <1>1 DEF WeeksAccounted
  <2>1. v < w + 1 \/ v <= Watermark \/ v < page.first
        \/ \E q \in rows : q.dealing[1] = v
    <3>1. v \in Nat /\ w \in Nat
      BY <1>2, <1>4
    <3>2. CASE v <= Watermark'
      <4>1. PICK mark \in Nat, now \in Nat : mark = Watermark /\ now = Watermark'
        BY <1>9
      <4> QED
        BY <1>12, <3>1, <3>2, <4>1
    <3>3. CASE \E q \in rows' : q.dealing[1] = v
      BY <1>1, <1>3, <3>1, <3>3
    <3> QED
      BY <3>2, <3>3
  <2> QED
    BY <1>8, <1>9, <1>11, <2>1 DEF ImportInv, WeeksAccounted
<1>14. RunAccounts(next)'
  <2>1. next.reference <= Watermark'
    BY <1>2, <1>9
  <2>2. 1..(next.file - 1) = {}
    BY <1>2
  <2> QED
    BY <1>2, <1>11, <2>1, <2>2 DEF RunAccounts
<1>15. ASSUME NEW j \in Importers PROVE RunAccounts(importer[j])'
  <2>1. importer'[j] = IF j = i THEN next ELSE importer[j]
    BY <1>1, <1>2
  <2>2. CASE j = i
    BY <1>14, <2>1, <2>2 DEF RunAccounts
  <2>3. CASE j # i
    <3>1. PICK x : x = importer[j]
      OBVIOUS
    <3>2. x.reference \in Nat /\ RunAccounts(x) /\ importer'[j] = x
      BY <1>2, <2>1, <2>3, <3>1 DEF ImportInv, Runs
    <3>3. withdrawn \subseteq withdrawn'
      BY <1>1
    <3>4. RunAccounts(x)'
      BY <1>1, <1>7, <1>8, <3>2, <3>3, RunsStayAccounted
    <3> QED
      BY <3>2, <3>4 DEF RunAccounts
  <2> QED
    BY <2>2, <2>3
<1> QED
  BY <1>7, <1>13, <1>15 DEF ImportInv

-----------------------------------------------------------------------------
(* The listing *)

\* The listing moves; a week that leaves it is stored or withdrawn.
LEMMA SiteKeeps ==
  ASSUME ImportInv, PublishWeek \/ WithdrawWeek
  PROVE  ImportInv'
<1>1. UNCHANGED << bundle, rows, importer >> /\ withdrawn \subseteq withdrawn'
  BY DEF PublishWeek, WithdrawWeek
<1>2. \A n : n \in Weeks <=> n \in Nat /\ 1 <= n /\ n <= LastWeek
  BY PsiAssumption DEF Weeks
<1>3. page \in [first : Weeks, last : Weeks]
  BY DEF ImportInv, RowsTyped
<1>4. /\ page' \in [first : Weeks, last : Weeks]
      /\ \/ page'.first = page.first
         \/ /\ page'.first = page.first + 1
            /\ withdrawn' = withdrawn \cup
                 ({page.first} \ {q.dealing[1] : q \in rows})
  <2>1. CASE PublishWeek
    <3>1. page.last + 1 \in Weeks
      BY <1>2, <1>3, <2>1, PsiAssumption DEF PublishWeek
    <3> QED
      BY <1>3, <2>1, <3>1 DEF PublishWeek
  <2>2. CASE WithdrawWeek
    <3>1. page.first + 1 \in Weeks
      <4>1. PICK a \in Nat, b \in Nat : a = page.first /\ b = page.last
        BY <1>2, <1>3
      <4>2. a < b /\ b <= LastWeek
        BY <1>2, <1>3, <2>2, <4>1 DEF WithdrawWeek
      <4> QED
        BY <1>2, <4>1, <4>2, PsiAssumption
    <3> QED
      BY <1>3, <2>2, <3>1 DEF WithdrawWeek
  <2> QED
    BY <2>1, <2>2
<1>5. RowsTyped /\ RowsTyped'
  BY <1>1, <1>4 DEF ImportInv, RowsTyped
<1>6. /\ \A v : Accounted(v) => Accounted(v)'
      /\ Watermark' = Watermark
  BY <1>1, <1>5, TableGrows DEF Watermark
<1>7. WeeksAccounted'
  <2> SUFFICES ASSUME NEW v \in Weeks,
                      \/ v <= Watermark \/ v < page'.first
                      \/ \E q \in rows : q.dealing[1] = v
               PROVE  Accounted(v)'
    BY <1>1, <1>6 DEF WeeksAccounted
  <2>1. CASE v < page'.first /\ page'.first # page.first /\ v = page.first
    <3>1. CASE \E q \in rows : q.dealing[1] = v
      BY <1>6, <3>1 DEF ImportInv, WeeksAccounted
    <3>2. CASE ~ \E q \in rows : q.dealing[1] = v
      BY <1>4, <2>1, <3>2 DEF Accounted
    <3> QED
      BY <3>1, <3>2
  <2>2. v \in Nat /\ page.first \in Nat
    BY <1>2, <1>3
  <2>3. v < page'.first => v < page.first \/ v = page.first
    BY <1>4, <2>2
  <2>4. v < page'.first /\ page'.first = page.first => v < page.first
    OBVIOUS
  <2> QED
    BY <1>6, <2>1, <2>3, <2>4 DEF ImportInv, WeeksAccounted
<1>8. ASSUME NEW j \in Importers PROVE RunAccounts(importer[j])'
  <2>1. PICK x : x = importer[j]
    OBVIOUS
  <2>2. x.reference \in Nat /\ RunAccounts(x) /\ importer'[j] = x
    BY <1>1, <2>1 DEF ImportInv, RowsTyped, Runs
  <2>3. RunAccounts(x)'
    BY <1>1, <1>5, <2>2, RunsStayAccounted
  <2> QED
    BY <2>2, <2>3 DEF RunAccounts
<1> QED
  BY <1>5, <1>7, <1>8 DEF ImportInv

\* Nothing of the import but its lock.
LEMMA IdleKeepsImportInv ==
  ASSUME ImportInv, UNCHANGED << bundle, page, rows, withdrawn, importer >>
  PROVE  ImportInv'
<1>1. RowsTyped'
  BY DEF ImportInv, RowsTyped
<1>2. /\ Watermark' = Watermark
      /\ \A v : Accounted(v)' <=> Accounted(v)
      /\ \A w, k : Parsed(w, k)' = Parsed(w, k)
  BY SameArchives DEF Watermark, Accounted, Dealings
<1>3. WeeksAccounted'
  BY <1>2 DEF ImportInv, WeeksAccounted
<1>4. ASSUME NEW j \in Importers PROVE RunAccounts(importer[j])'
  <2>1. PICK x : x = importer[j] /\ x = importer'[j] /\ RunAccounts(x)
    BY DEF ImportInv
  <2>2. RunAccounts(x)'
    BY <1>2, <2>1 DEF RunAccounts, Dealings
  <2> QED
    BY <2>1, <2>2 DEF RunAccounts
<1> QED
  BY <1>1, <1>3, <1>4 DEF ImportInv

\* The invariant of what is stored is inductive.
LEMMA StepKeepsImportInv == ImportInv /\ [PsiNext]_psiVars => ImportInv'
<1> SUFFICES ASSUME ImportInv, [PsiNext]_psiVars PROVE ImportInv'
  OBVIOUS
<1>1. CASE UNCHANGED psiVars \/ ExpireImportLock
  BY <1>1, IdleKeepsImportInv DEF psiVars, ExpireImportLock, Env
<1> QED
  BY <1>1, StopKeeps, BeginKeeps, FindKeeps, DownloadKeeps, IngestKeeps,
     CommitKeeps, SiteKeeps DEF PsiNext

\* However the runs of any number of servers overlap, fail or outlive their
\* lock, every week at or below the newest stamp stored, and on offer until it
\* was stored, has all its dealings in the table: a week is committed whole, in
\* the listing's order and only when stamped with its own date, so the
\* watermark skips nothing (processWeeks, ingestWeek).
THEOREM WatermarkSkipsNothing == PsiSpec => []PrefixStored
<1>1. ImportInv => PrefixStored
  BY DEF ImportInv, WeeksAccounted, Accounted, PrefixStored
<1> QED
  BY <1>1, ImportInvInitially, StepKeepsImportInv, PTL DEF PsiSpec

-----------------------------------------------------------------------------
(* Types and bounds of the import *)

\* Only dealings of a listed week are read, only while a week is ingested is
\* anything staged, and lock, history and faults keep their bounds.
OfWeeks(records) == \A q \in records : q.dealing[1] \in Weeks

ImportKept ==
  /\ OfWeeks(rows)
  /\ \A i \in Importers :
       /\ OfWeeks(importer[i].staged)
       /\ importer[i].staged # {} => importer[i].stage = "ingest"
  /\ importLock \in Importers \cup {NoRun, Orphan}
  /\ overran \subseteq Importers
  /\ withdrawn \subseteq Weeks
  /\ faults \in 0..MaxFaults

\* The inductive invariant.
ImportTypeInv == ImportInv /\ ImportKept

\* Nothing is read at the start.
LEMMA ImportTypeInvInitially == PsiInit => ImportTypeInv
<1> SUFFICES ASSUME PsiInit PROVE ImportKept
  BY ImportInvInitially DEF ImportTypeInv
<1> QED BY PsiAssumption DEF PsiInit, ImportKept, OfWeeks, Idle

\* An archive holds no dealing of a week before the first: the first archive
\* repeats nothing.
LEMMA ParsedOfWeeks ==
  ASSUME ImportInv, NEW w \in Weeks, NEW k \in Nat
  PROVE  OfWeeks(Parsed(w, k))
<1>1. w \in Nat /\ w >= 1 /\ w <= LastWeek /\ LastWeek \in Nat  BY PsiAssumption DEF Weeks
<1>2. bundle[w] = "repeated" => w - 1 \in Weeks
  <2> SUFFICES ASSUME bundle[w] = "repeated" PROVE w - 1 \in Weeks  OBVIOUS
  <2>1. w # 1  BY DEF ImportInv, RowsTyped
  <2> QED BY <1>1, <2>1 DEF Weeks
<1> QED BY <1>2 DEF Parsed, Record, OfWeeks

\* A run that goes on with nothing new staged.
LEMMA RunKeepsTypes ==
  ASSUME ImportTypeInv, NEW i \in Importers, NEW r,
         importer' = [importer EXCEPT ![i] = r],
         OfWeeks(r.staged), r.staged # {} => r.stage = "ingest",
         OfWeeks(rows'), UNCHANGED withdrawn,
         importLock' \in Importers \cup {NoRun, Orphan},
         overran' \subseteq Importers, faults' \in 0..MaxFaults
  PROVE  ImportKept'
<1>1. \A j \in Importers : importer'[j] = IF j = i THEN r ELSE importer[j]
  BY DEF ImportTypeInv, ImportInv, RowsTyped
<1>2. \A j \in Importers : /\ OfWeeks(importer'[j].staged)
                           /\ importer'[j].staged # {} => importer'[j].stage = "ingest"
  BY <1>1 DEF ImportTypeInv, ImportKept
<1> QED BY <1>2 DEF ImportTypeInv, ImportKept, OfWeeks

\* The steps of a run: what is staged comes from the week in hand and is given
\* up with it.
LEMMA ImporterKeepsTypes ==
  ASSUME ImportTypeInv, NEW i \in Importers,
         \/ RunWeeklyImport(i)
         \/ ResolveReference(i) \/ FindWeeklyDownloads(i) \/ DownloadWeek(i)
         \/ IngestFile(i) \/ CommitWeek(i) \/ RejectWeek(i)
         \/ ReleaseLock(i) \/ FailImport(i) \/ AbandonLock(i)
  PROVE  ImportKept'
<1>0. /\ importer \in [Importers -> Runs] /\ importer[i] \in Runs
      /\ OfWeeks(rows) /\ OfWeeks(importer[i].staged) /\ OfWeeks({})
      /\ importer[i].staged # {} => importer[i].stage = "ingest"
      /\ importLock \in Importers \cup {NoRun, Orphan}
      /\ overran \subseteq Importers
      /\ faults \in 0..MaxFaults /\ MaxFaults \in Nat
  BY PsiAssumption DEF ImportTypeInv, ImportKept, ImportInv, RowsTyped, OfWeeks
<1>1. CASE RunWeeklyImport(i)
  <2>1. importer' = [importer EXCEPT ![i] = [importer[i] EXCEPT !.stage = "started"]]
    BY <1>0, <1>1 DEF RunWeeklyImport
  <2>2. [importer[i] EXCEPT !.stage = "started"].staged = {}
    BY <1>0, <1>1 DEF RunWeeklyImport, Runs
  <2>3. UNCHANGED << rows, withdrawn, overran, faults >> /\ importLock' = i
    BY <1>1 DEF RunWeeklyImport, Env
  <2> QED BY <1>0, <2>1, <2>2, <2>3, RunKeepsTypes
<1>2. CASE ResolveReference(i)
  <2> DEFINE r == [importer[i] EXCEPT !.stage = "listing", !.reference = Watermark]
  <2>1. importer' = [importer EXCEPT ![i] = r]
    BY <1>0, <1>2 DEF ResolveReference
  <2>2. r.staged = {}
    BY <1>0, <1>2 DEF ResolveReference, Runs
  <2>3. UNCHANGED << rows, withdrawn, overran, faults, importLock >>
    BY <1>2 DEF ResolveReference, Env
  <2> HIDE DEF r
  <2> QED BY <1>0, <2>1, <2>2, <2>3, RunKeepsTypes
<1>3. CASE FindWeeklyDownloads(i) \/ DownloadWeek(i) \/ RejectWeek(i)
  <2>1. UNCHANGED << rows, withdrawn, overran, faults, importLock >>
    BY <1>3 DEF FindWeeklyDownloads, DownloadWeek, RejectWeek, Env
  <2>2. \E r : importer' = [importer EXCEPT ![i] = r] /\ r.staged = {}
    <3>1. CASE FindWeeklyDownloads(i)
      <4> DEFINE links == OldestFirst(NewerThan(importer[i].reference))
                 r == [Idle EXCEPT !.stage = IF links = << >> THEN "release" ELSE "week",
                                   !.links = links]
      <4>1. importer' = [importer EXCEPT ![i] = r]  BY <3>1 DEF FindWeeklyDownloads
      <4>2. r.staged = {}  BY DEF Idle
      <4> HIDE DEF r
      <4> QED BY <4>1, <4>2
    <3>2. CASE DownloadWeek(i)
      <4>1. importer[i].stage = "week" /\ importer[i].staged = {}
        BY <1>0, <3>2 DEF DownloadWeek
      <4>2. NextWeek(importer[i]).staged = {}
        BY DEF NextWeek, Idle
      <4>3. [importer[i] EXCEPT !.stage = "ingest", !.file = 1].staged = {}
        BY <1>0, <4>1 DEF Runs
      <4>4. \/ importer' = [importer EXCEPT ![i] = NextWeek(importer[i])]
            \/ importer' = [importer EXCEPT
                 ![i] = [importer[i] EXCEPT !.stage = "ingest", !.file = 1]]
        BY <1>0, <3>2 DEF DownloadWeek
      <4> QED BY <4>2, <4>3, <4>4
    <3>3. CASE RejectWeek(i)
      <4>1. StopRun.staged = {}  BY DEF StopRun, Idle
      <4>2. importer' = [importer EXCEPT ![i] = StopRun]  BY <3>3 DEF RejectWeek
      <4> QED BY <4>1, <4>2
    <3> QED BY <1>3, <3>1, <3>2, <3>3
  <2>3. PICK r : importer' = [importer EXCEPT ![i] = r] /\ r.staged = {}
    BY <2>2
  <2> QED BY <1>0, <2>1, <2>3, RunKeepsTypes
<1>4. CASE IngestFile(i)
  <2> DEFINE w == Head(importer[i].links)
             records == Parsed(w, importer[i].file)
             r == [importer[i] EXCEPT !.file = @ + 1,
                                      !.staged = @ \cup Landing(i, records),
                                      !.newest = Newest({@} \cup {q.stamp : q \in records})]
  <2>1. importer[i].stage = "ingest"  BY <1>4 DEF IngestFile
  <2>2. w \in Weeks /\ importer[i].file \in Nat
    BY <1>0, <2>1, RestOfList DEF Runs
  <2>3. OfWeeks(records)  BY <2>2, ParsedOfWeeks DEF ImportTypeInv
  <2>4. importer' = [importer EXCEPT ![i] = r]
    BY <1>0, <1>4 DEF IngestFile
  <2>5. r.stage = "ingest" /\ r.staged = importer[i].staged \cup Landing(i, records)
    BY <1>0, <2>1 DEF Runs
  <2>6. OfWeeks(r.staged)
    BY <1>0, <2>3, <2>5 DEF Landing, OfWeeks
  <2>7. UNCHANGED << rows, withdrawn, overran, faults, importLock >>
    BY <1>4 DEF IngestFile, Env
  <2> HIDE DEF r
  <2> QED BY <1>0, <2>4, <2>5, <2>6, <2>7, RunKeepsTypes
<1>5. CASE CommitWeek(i)
  <2>1. /\ rows' = rows \cup importer[i].staged
        /\ importer' = [importer EXCEPT ![i] = NextWeek(importer[i])]
        /\ UNCHANGED << withdrawn, overran, faults, importLock >>
    BY <1>5 DEF CommitWeek, Env
  <2>2. NextWeek(importer[i]).staged = {}  BY DEF NextWeek, Idle
  <2>3. OfWeeks(rows')  BY <1>0, <2>1 DEF OfWeeks
  <2> QED BY <1>0, <2>1, <2>2, <2>3, RunKeepsTypes
<1>6. CASE ReleaseLock(i) \/ FailImport(i) \/ AbandonLock(i)
  <2>1. /\ UNCHANGED << rows, withdrawn >>
        /\ importLock' \in Importers \cup {NoRun, Orphan} /\ overran' \subseteq Importers
        /\ \E r : importer' = [importer EXCEPT ![i] = r] /\ r.staged = {}
    BY <1>0, <1>6 DEF ReleaseLock, FailImport, AbandonLock, StopRun, Idle, Env
  <2>2. faults' \in 0..MaxFaults
    BY <1>0, <1>6 DEF ReleaseLock, FailImport, AbandonLock
  <2>3. PICK r : importer' = [importer EXCEPT ![i] = r] /\ r.staged = {}
    BY <2>1
  <2> QED BY <1>0, <2>1, <2>2, <2>3, RunKeepsTypes
<1> QED BY <1>1, <1>2, <1>3, <1>4, <1>5, <1>6

\* The invariant is inductive.
LEMMA StepKeepsImportTypes == ImportTypeInv /\ [PsiNext]_psiVars => ImportTypeInv'
<1> SUFFICES ASSUME ImportTypeInv, [PsiNext]_psiVars PROVE ImportKept'
  BY StepKeepsImportInv DEF ImportTypeInv
<1>1. CASE UNCHANGED psiVars
  BY <1>1 DEF psiVars, ImportTypeInv, ImportKept, OfWeeks
<1>2. CASE ExpireImportLock
  BY <1>2 DEF ExpireImportLock, Env, ImportTypeInv, ImportKept, OfWeeks
<1>3. CASE PublishWeek
  BY <1>3 DEF PublishWeek, ImportTypeInv, ImportKept, OfWeeks
<1>4. CASE WithdrawWeek
  <2>1. page.first \in Weeks  BY DEF ImportTypeInv, ImportInv, RowsTyped
  <2> QED BY <1>4, <2>1 DEF WithdrawWeek, ImportTypeInv, ImportKept, OfWeeks
<1> QED BY <1>1, <1>2, <1>3, <1>4, ImporterKeepsTypes DEF PsiNext

\* So everything has its type.
LEMMA ImportIsTyped == ImportTypeInv => PsiTypeOK
BY DEF ImportTypeInv, ImportKept, OfWeeks, ImportInv, RowsTyped, Runs, PsiTypeOK
=============================================================================
