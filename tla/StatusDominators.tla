------------------------- MODULE StatusDominators -------------------------
(***************************************************************************)
(* computeStatusDominators (dispute-status.ts): the iterative dominator    *)
(* dataflow behind the timeline's "this status proves that one".           *)
(*                                                                         *)
(*   Dom(entry) = {entry}                                                  *)
(*   Dom(n)     = {n} \cup the intersection of Dom(p), p \in preds[n]      *)
(*                                                                         *)
(* started from the full node set and swept in DISPUTE_STATUS_ORDER until a *)
(* sweep changes nothing.  One action per loop iteration.  The source runs *)
(* it on one graph; here the graph is chosen from Graphs, so the algorithm *)
(* is checked on the real graph and on every small one.                    *)
(***************************************************************************)
EXTENDS DisputeStatus, Sequences, FiniteSets, Functions

CONSTANT Graphs     \* records [order |-> nodes, entry first; preds |-> ...]

\* The order lists the nodes, entry first, and every edge joins two of them.
ASSUME GraphsAreClosed ==
  \A g \in Graphs :
    /\ g.order \in Seq(Range(g.order)) /\ g.order # << >>
    /\ g.preds \in [Range(g.order) -> SUBSET Range(g.order)]

\* Every status but the entry has a predecessor.  The source takes this for
\* granted: a status nothing leads to would be given the singleton {itself},
\* and every status it leads to would lose its dominators to that set.
ASSUME GraphsHavePredecessors ==
  \A g \in Graphs : \A i \in 2..Len(g.order) : g.preds[g.order[i]] # {}

VARIABLES
  graph,            \* the graph of this run; never changes
  dom,              \* the map under construction
  cursor,           \* position of the inner loop in the order
  changed           \* the outer loop's flag

vars == << graph, dom, cursor, changed >>

Nodes == Range(graph.order)
Entry == graph.order[1]

\* Optimistic: everything but the entry starts with the full node set.
InitialDom(g) ==
  [n \in Range(g.order) |-> IF n = g.order[1] THEN {n} ELSE Range(g.order)]

\* Mutant: ancestors instead of dominators.
JoinOverPreds(n) == UNION {dom[p] : p \in graph.preds[n]} \cup {n}

\* A node without predecessors is dominated by itself only.
MeetOverPreds(n) ==
  IF graph.preds[n] = {}
    THEN {n}
    ELSE {d \in Nodes : \A p \in graph.preds[n] : d \in dom[p]} \cup {n}

Finished == cursor > Len(graph.order) /\ ~changed

Init ==
  /\ graph \in Graphs
  /\ dom = InitialDom(graph)
  /\ cursor = 1
  /\ changed = FALSE

SkipEntry ==
  /\ cursor <= Len(graph.order)
  /\ graph.order[cursor] = Entry
  /\ cursor' = cursor + 1
  /\ UNCHANGED << graph, dom, changed >>

\* The size is the source's change detector.
VisitNode ==
  /\ cursor <= Len(graph.order)
  /\ graph.order[cursor] # Entry
  /\ LET n == graph.order[cursor]
         next == MeetOverPreds(n)
     IN IF Cardinality(next) # Cardinality(dom[n])
          THEN dom' = [dom EXCEPT ![n] = next] /\ changed' = TRUE
          ELSE UNCHANGED << dom, changed >>
  /\ cursor' = cursor + 1
  /\ UNCHANGED graph

\* Mutant: the flag survives into the next sweep.
NextPassFlagKept ==
  /\ cursor > Len(graph.order)
  /\ changed
  /\ cursor' = 1
  /\ UNCHANGED << graph, dom, changed >>

NextPass ==
  /\ cursor > Len(graph.order)
  /\ changed
  /\ cursor' = 1
  /\ changed' = FALSE
  /\ UNCHANGED << graph, dom >>

Next == SkipEntry \/ VisitNode \/ NextPass

\* A synchronous loop at module load: nothing can stop it between iterations.
Spec == Init /\ [][Next]_vars /\ WF_vars(Next)

-----------------------------------------------------------------------------
(* Reference definition: d dominates n when n cannot be reached from the   *)
(* entry without passing through d.                                        *)

ReachableAvoiding(D) ==
  LET N == Nodes \ D
      within[k \in 0..Cardinality(Nodes)] ==
        IF k = 0 THEN {Entry} \cap N
        ELSE LET closer == within[k-1]
             IN closer \cup {n \in N : graph.preds[n] \cap closer # {}}
  IN within[Cardinality(Nodes)]

Reachable == ReachableAvoiding({})

TrueDominators(n) == {d \in Nodes : n \notin ReachableAvoiding({d})}

\* When the loops end, every reachable status maps to exactly its dominators:
\* the size test never stops the iteration early, and a cycle (the further-
\* submission loop) does not lead it to a smaller or larger fixpoint.
ExactOnFinish ==
  Finished => \A n \in Reachable : dom[n] = TrueDominators(n)

\* On the lifecycle graph the result is the table STATUS_DOMINATORS that the
\* case-lifecycle properties and proofs use.
TableIsComputed ==
  Finished /\ graph.preds = DominatorPredecessors => dom = STATUS_DOMINATORS

\* The outer loop terminates on every graph.
Terminates == <>Finished
=============================================================================
