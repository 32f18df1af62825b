---------------------- MODULE StatusDominators_proofs ----------------------
(***************************************************************************)
(* Proofs about StatusDominators, for every finite graph in which every    *)
(* node but the entry has a predecessor: when the sweeps end the map is    *)
(* exactly the dominator relation, and on the lifecycle graph it is the    *)
(* table STATUS_DOMINATORS.                                                *)
(*                                                                         *)
(* The map only ever descends, so equal sizes mean equal sets and a sweep  *)
(* without a change leaves a fixpoint; it stays above every fixpoint of    *)
(* the dataflow equations, the dominator relation and the table among      *)
(* them; and on any fixpoint a node reached without passing d cannot have  *)
(* d among its dominators.                                                 *)
(***************************************************************************)
EXTENDS StatusDominators, FiniteSetTheorems, WellFoundedInduction, TLAPS

-----------------------------------------------------------------------------
(* The inductive invariant *)

TypeOK ==
  /\ graph \in Graphs
  /\ dom \in [Nodes -> SUBSET Nodes]
  /\ cursor \in 1..Len(graph.order) + 1
  /\ changed \in BOOLEAN

\* What the map starts with and every sweep keeps: the entry is never touched,
\* and no node's set is smaller than its next value.
Descending ==
  /\ dom[Entry] = {Entry}
  /\ \A n \in Nodes \ {Entry} : MeetOverPreds(n) \subseteq dom[n]

\* While a sweep has changed nothing, what it has visited satisfies the equations.
Settled ==
  ~changed => \A i \in 1..(cursor - 1) :
                 graph.order[i] # Entry => dom[graph.order[i]] = MeetOverPreds(graph.order[i])

\* D satisfies the equations, or claims less than they give.
Below(D) ==
  /\ D \in [Nodes -> SUBSET Nodes]
  /\ D[Entry] \subseteq {Entry}
  /\ \A n \in Nodes \ {Entry} : \A d \in D[n] :
        d # n => \A p \in graph.preds[n] : d \in D[p]

\* The map never falls below a solution of the equations.
AboveSolutions ==
  \A D \in [Nodes -> SUBSET Nodes] : Below(D) => \A n \in Nodes : D[n] \subseteq dom[n]

DomInv == TypeOK /\ Descending /\ Settled /\ AboveSolutions

-----------------------------------------------------------------------------
(* Facts about graphs *)

\* The nodes of a graph are finitely many, and the entry is one of them.
LEMMA NodesFinite ==
  ASSUME graph \in Graphs
  PROVE  /\ Entry \in Nodes
         /\ IsFiniteSet(Nodes)
         /\ Cardinality(Nodes) \in Nat
         /\ Nodes = {graph.order[i] : i \in 1..Len(graph.order)}
         /\ graph.preds \in [Nodes -> SUBSET Nodes]
         /\ Len(graph.order) \in Nat \ {0}
<1> DEFINE order == graph.order
           N == Range(order)
<1>1. order \in Seq(N) /\ order # << >> /\ graph.preds \in [N -> SUBSET N]
  BY GraphsAreClosed
<1>2. N = {order[i] : i \in DOMAIN order}  BY DEF Range
<1> HIDE DEF N
<1>3. DOMAIN order = 1..Len(order) /\ Len(order) \in Nat \ {0}  BY <1>1
<1>4. order \in [1..Len(order) -> N]  BY <1>1
<1>5. order \in Surjection(1..Len(order), N)
  BY <1>2, <1>3, <1>4 DEF Surjection
<1>6. IsFiniteSet(1..Len(order))  BY <1>3, FS_Interval
<1>7. IsFiniteSet(N)  BY <1>5, <1>6, FS_Surjection
<1>8. Cardinality(N) \in Nat  BY <1>7, FS_CardinalityType
<1>9. order[1] \in N  BY <1>2, <1>3
<1> QED BY <1>1, <1>2, <1>3, <1>7, <1>8, <1>9 DEF Nodes, Entry, N

\* Every node but the entry has a predecessor.
LEMMA HasPredecessor ==
  ASSUME graph \in Graphs, NEW n \in Nodes, n # Entry
  PROVE  graph.preds[n] # {} /\ graph.preds[n] \subseteq Nodes
<1>1. PICK i \in 1..Len(graph.order) : n = graph.order[i]  BY NodesFinite
<1>2. i \in 2..Len(graph.order)  BY <1>1, NodesFinite DEF Entry
<1>3. graph.preds[graph.order[i]] # {}  BY <1>2, GraphsHavePredecessors
<1> QED BY <1>1, <1>3, NodesFinite

\* The next value of such a node, spelt out.
LEMMA MeetMembers ==
  ASSUME graph \in Graphs, NEW n \in Nodes, n # Entry
  PROVE  /\ MeetOverPreds(n) \subseteq Nodes
         /\ \A d \in Nodes :
              d \in MeetOverPreds(n) <=> d = n \/ \A p \in graph.preds[n] : d \in dom[p]
BY HasPredecessor DEF MeetOverPreds

-----------------------------------------------------------------------------
(* The invariant is inductive *)

\* At the start every set but the entry's is as large as it can be.
LEMMA DomInvInit == Init => DomInv
<1> SUFFICES ASSUME Init PROVE DomInv  OBVIOUS
<1>1. graph \in Graphs /\ cursor = 1 /\ changed = FALSE  BY DEF Init
<1>2. \A n \in Nodes : dom[n] = IF n = Entry THEN {n} ELSE Nodes
  BY DEF Init, InitialDom, Nodes, Entry
<1>3. dom \in [Nodes -> SUBSET Nodes]
  BY NodesFinite, <1>1 DEF Init, InitialDom, Nodes, Entry
<1>4. TypeOK
  <2>1. 1 \in 1..Len(graph.order) + 1  BY <1>1, NodesFinite
  <2> QED BY <2>1, <1>1, <1>3 DEF TypeOK
<1>5. Descending  BY <1>1, <1>2, NodesFinite, MeetMembers DEF Descending
<1>6. Settled  BY <1>1 DEF Settled
<1>7. AboveSolutions
  <2> SUFFICES ASSUME NEW D \in [Nodes -> SUBSET Nodes], Below(D), NEW n \in Nodes
               PROVE  D[n] \subseteq dom[n]
    BY DEF AboveSolutions
  <2>1. CASE n = Entry  BY <2>1, <1>2 DEF Below
  <2>2. CASE n # Entry  BY <2>2, <1>2
  <2> QED BY <2>1, <2>2
<1> QED BY <1>4, <1>5, <1>6, <1>7 DEF DomInv

\* Equal sizes are equal sets: the change detector of the sweep misses nothing.
LEMMA SameSizeSameSet ==
  ASSUME DomInv, NEW n \in Nodes, n # Entry,
         Cardinality(MeetOverPreds(n)) = Cardinality(dom[n])
  PROVE  MeetOverPreds(n) = dom[n]
<1>1. MeetOverPreds(n) \subseteq dom[n] /\ dom[n] \subseteq Nodes /\ graph \in Graphs
  BY DEF DomInv, Descending, TypeOK
<1>2. IsFiniteSet(dom[n])  BY <1>1, NodesFinite, FS_Subset
<1> QED BY <1>1, <1>2, FS_Subset

\* Replacing a set by its next value keeps the map descending and above every solution.
LEMMA VisitDescends ==
  ASSUME DomInv, NEW n \in Nodes, n # Entry, graph' = graph,
         dom' = [dom EXCEPT ![n] = MeetOverPreds(n)]
  PROVE  /\ dom' \in [Nodes -> SUBSET Nodes]
         /\ Descending'
         /\ AboveSolutions'
<1>0. graph \in Graphs /\ dom \in [Nodes -> SUBSET Nodes]  BY DEF DomInv, TypeOK
<1>1. Nodes' = Nodes /\ Entry' = Entry /\ graph' \in Graphs  BY <1>0 DEF Nodes, Entry
<1>2. MeetOverPreds(n) \subseteq Nodes  BY <1>0, MeetMembers
<1>3. dom'[n] = MeetOverPreds(n) /\ \A m \in Nodes : m # n => dom'[m] = dom[m]
  BY <1>0
<1>4. \A m \in Nodes : dom'[m] \subseteq dom[m]
  BY <1>3 DEF DomInv, Descending
<1>5. dom' \in [Nodes -> SUBSET Nodes]  BY <1>0, <1>2
<1>6. Descending'
  <2>1. dom'[Entry] = {Entry}  BY <1>0, <1>3, NodesFinite DEF DomInv, Descending
  <2>2. ASSUME NEW m \in Nodes, m # Entry
        PROVE  MeetOverPreds(m)' \subseteq dom'[m]
    <3>1. MeetOverPreds(m)' = {d \in Nodes : \A p \in graph.preds[m] : d \in dom'[p]} \cup {m}
      BY <2>2, <1>0, <1>1, HasPredecessor DEF MeetOverPreds
    <3>2. MeetOverPreds(m)' \subseteq MeetOverPreds(m)
      BY <3>1, <2>2, <1>0, <1>4, HasPredecessor DEF MeetOverPreds
    <3>3. MeetOverPreds(m) \subseteq dom[m]  BY <2>2 DEF DomInv, Descending
    <3>4. CASE m = n  BY <3>2, <3>4, <1>3
    <3>5. CASE m # n  BY <3>2, <3>3, <3>5, <1>3
    <3> QED BY <3>4, <3>5
  <2> QED BY <2>1, <2>2, <1>1 DEF Descending
<1>7. AboveSolutions'
  <2> SUFFICES ASSUME NEW D \in [Nodes -> SUBSET Nodes], Below(D), NEW m \in Nodes
               PROVE  D[m] \subseteq dom'[m]
    BY <1>1 DEF AboveSolutions, Below, Nodes, Entry
  <2>1. \A q \in Nodes : D[q] \subseteq dom[q]  BY DEF DomInv, AboveSolutions
  <2>2. CASE m # n  BY <2>1, <2>2, <1>3
  <2>3. CASE m = n
    <3>1. \A d \in D[n] : d # n => \A p \in graph.preds[n] : d \in dom[p]
      BY <2>1, <1>0, HasPredecessor DEF Below
    <3> QED BY <3>1, <2>3, <1>0, <1>3, MeetMembers
  <2> QED BY <2>2, <2>3
<1> QED BY <1>5, <1>6, <1>7

\* Every iteration keeps the invariant.
LEMMA DomInvNext == DomInv /\ [Next]_vars => DomInv'
<1> SUFFICES ASSUME DomInv, [Next]_vars PROVE DomInv'  OBVIOUS
<1>0. /\ graph \in Graphs /\ dom \in [Nodes -> SUBSET Nodes]
      /\ cursor \in 1..Len(graph.order) + 1 /\ changed \in BOOLEAN
      /\ Len(graph.order) \in Nat \ {0}
      /\ \A i \in 1..Len(graph.order) : graph.order[i] \in Nodes
  BY NodesFinite DEF DomInv, TypeOK
<1>1. CASE SkipEntry
  <2>1. UNCHANGED << graph, dom, changed >> /\ cursor' = cursor + 1
        /\ cursor <= Len(graph.order) /\ graph.order[cursor] = Entry
    BY <1>1 DEF SkipEntry
  <2>2. Nodes' = Nodes /\ Entry' = Entry /\ \A n \in Nodes : MeetOverPreds(n)' = MeetOverPreds(n)
    BY <2>1 DEF Nodes, Entry, MeetOverPreds
  <2>3. TypeOK'  BY <1>0, <2>1, <2>2 DEF TypeOK
  <2>4. Descending'  BY <2>1, <2>2 DEF DomInv, Descending
  <2>5. Settled'
    <3>1. ~changed => \A i \in 1..cursor : graph.order[i] # Entry =>
                         dom[graph.order[i]] = MeetOverPreds(graph.order[i])
      BY <2>1, <1>0 DEF DomInv, Settled
    <3>2. cursor' - 1 = cursor  BY <2>1, <1>0
    <3> QED BY <3>1, <3>2, <2>1 DEF Settled, Entry, MeetOverPreds, Nodes
  <2>6. AboveSolutions'
    BY <2>1, <2>2 DEF DomInv, AboveSolutions, Below, Nodes, Entry
  <2> QED BY <2>3, <2>4, <2>5, <2>6 DEF DomInv
<1>2. CASE VisitNode
  <2> DEFINE n == graph.order[cursor]
  <2>1. cursor' = cursor + 1 /\ graph' = graph /\ cursor <= Len(graph.order) /\ n # Entry
    BY <1>2 DEF VisitNode
  <2>2. n \in Nodes  BY <1>0, <2>1
  <2>3. Nodes' = Nodes /\ Entry' = Entry  BY <2>1 DEF Nodes, Entry
  <2>4. CASE Cardinality(MeetOverPreds(n)) # Cardinality(dom[n])
    <3>1. dom' = [dom EXCEPT ![n] = MeetOverPreds(n)] /\ changed' = TRUE
      BY <1>2, <2>4 DEF VisitNode
    <3>2. dom' \in [Nodes -> SUBSET Nodes] /\ Descending' /\ AboveSolutions'
      BY <2>1, <2>2, <3>1, VisitDescends
    <3>3. TypeOK'  BY <1>0, <2>1, <2>3, <3>1, <3>2 DEF TypeOK
    <3>4. Settled'  BY <3>1 DEF Settled
    <3> QED BY <3>2, <3>3, <3>4 DEF DomInv
  <2>5. CASE Cardinality(MeetOverPreds(n)) = Cardinality(dom[n])
    <3>1. UNCHANGED << dom, changed >>  BY <1>2, <2>5 DEF VisitNode
    <3>2. MeetOverPreds(n) = dom[n]  BY <2>1, <2>2, <2>5, SameSizeSameSet
    <3>3. \A m \in Nodes : MeetOverPreds(m)' = MeetOverPreds(m)
      BY <3>1, <2>1 DEF MeetOverPreds, Nodes
    <3>4. TypeOK'  BY <1>0, <2>1, <2>3, <3>1 DEF TypeOK
    <3>5. Descending'  BY <2>3, <3>1, <3>3 DEF DomInv, Descending
    <3>6. Settled'
      <4>1. ~changed => \A i \in 1..cursor : graph.order[i] # Entry =>
                           dom[graph.order[i]] = MeetOverPreds(graph.order[i])
        BY <3>2, <1>0 DEF DomInv, Settled
      <4>2. cursor' - 1 = cursor  BY <2>1, <1>0
      <4> QED BY <4>1, <4>2, <2>1, <3>1 DEF Settled, Entry, MeetOverPreds, Nodes
    <3>7. AboveSolutions'
      BY <2>1, <3>1, <2>3 DEF DomInv, AboveSolutions, Below, Nodes, Entry
    <3> QED BY <3>4, <3>5, <3>6, <3>7 DEF DomInv
  <2> QED BY <2>4, <2>5
<1>3. CASE NextPass
  <2>1. UNCHANGED << graph, dom >> /\ cursor' = 1 /\ changed' = FALSE
    BY <1>3 DEF NextPass
  <2>2. Nodes' = Nodes /\ Entry' = Entry /\ \A n \in Nodes : MeetOverPreds(n)' = MeetOverPreds(n)
    BY <2>1 DEF Nodes, Entry, MeetOverPreds
  <2>3. TypeOK'
    <3>1. 1 \in 1..Len(graph.order) + 1  BY <1>0
    <3> QED BY <3>1, <1>0, <2>1, <2>2 DEF TypeOK
  <2>4. Descending'  BY <2>1, <2>2 DEF DomInv, Descending
  <2>5. Settled'  BY <2>1 DEF Settled
  <2>6. AboveSolutions'
    BY <2>1, <2>2 DEF DomInv, AboveSolutions, Below, Nodes, Entry
  <2> QED BY <2>3, <2>4, <2>5, <2>6 DEF DomInv
<1>4. CASE UNCHANGED vars
  <2>1. UNCHANGED << graph, dom, cursor, changed >>  BY <1>4 DEF vars
  <2>2. TypeOK'  BY <2>1 DEF DomInv, TypeOK, Nodes
  <2>3. Descending'  BY <2>1 DEF DomInv, Descending, Nodes, Entry, MeetOverPreds
  <2>4. Settled'  BY <2>1 DEF DomInv, Settled, Nodes, Entry, MeetOverPreds
  <2>5. AboveSolutions'  BY <2>1 DEF DomInv, AboveSolutions, Below, Nodes, Entry
  <2> QED BY <2>2, <2>3, <2>4, <2>5 DEF DomInv
<1> QED BY <1>1, <1>2, <1>3, <1>4 DEF Next

\* The invariant holds in every state of every run on every graph.
THEOREM SweepInvariant == Spec => []DomInv
<1>1. Init => DomInv  BY DomInvInit
<1>2. DomInv /\ [Next]_vars => DomInv'  BY DomInvNext
<1> QED BY <1>1, <1>2, PTL DEF Spec

-----------------------------------------------------------------------------
(* Reachability *)

\* One step of the search from B along the predecessor map p, inside N.
Closer(N, p, B) == B \cup {n \in N : p[n] \cap B # {}}

\* f is the search from the set base: f[k] holds what k steps reach.
IsSearch(f, N, p, base, K) ==
  f = [k \in 0..K |-> IF k = 0 THEN base ELSE Closer(N, p, f[k-1])]

\* Every non-empty set of numbers has a least element.
LEMMA LeastNumber ==
  ASSUME NEW S, S \subseteq Nat, S # {}
  PROVE  \E k \in S : \A m \in S : k <= m
<1>1. \E k \in S : \A m \in S : ~(<<m, k>> \in OpToRel(<, Nat))
  BY NatLessThanWellFounded, WFMin
<1>2. PICK k \in S : \A m \in S : ~(<<m, k>> \in OpToRel(<, Nat))  BY <1>1
<1>3. \A m \in S : ~(m < k)  BY <1>2 DEF OpToRel
<1>4. \A m \in S : k <= m  BY <1>3
<1> QED BY <1>4

\* The search of every length exists.
LEMMA SearchExists ==
  ASSUME NEW N, NEW p, NEW base, NEW K \in Nat
  PROVE  \E f : IsSearch(f, N, p, base, K)
<1> DEFINE Bad == {k \in Nat : ~ \E f : IsSearch(f, N, p, base, k)}
<1> SUFFICES ASSUME Bad # {} PROVE FALSE  OBVIOUS
<1>1. PICK k \in Bad : \A m \in Bad : k <= m  BY LeastNumber
<1>2. k # 0
  <2>1. IsSearch([j \in 0..0 |-> base], N, p, base, 0)  BY DEF IsSearch
  <2> QED BY <2>1, <1>1
<1>3. k - 1 \in Nat /\ ~(k - 1 \in Bad)  BY <1>1, <1>2
<1>4. PICK f : IsSearch(f, N, p, base, k - 1)  BY <1>3
<1> DEFINE g == [j \in 0..k |-> IF j = k THEN Closer(N, p, f[k-1]) ELSE f[j]]
<1>5. \A j \in 0..k : g[j] = IF j = 0 THEN base ELSE Closer(N, p, g[j-1])
  <2> TAKE j \in 0..k
  <2>1. CASE j = k
    <3>1. g[j-1] = f[k-1] /\ j # 0  BY <2>1, <1>2, <1>1
    <3> QED BY <3>1, <2>1
  <2>2. CASE j # k
    <3>1. j \in 0..(k-1) /\ g[j] = f[j]  BY <2>2, <1>1
    <3>2. f[j] = IF j = 0 THEN base ELSE Closer(N, p, f[j-1])  BY <3>1, <1>4 DEF IsSearch
    <3>3. j # 0 => g[j-1] = f[j-1]  BY <3>1, <1>1
    <3> QED BY <3>1, <3>2, <3>3
  <2> QED BY <2>1, <2>2
<1>6. g = [j \in 0..k |-> IF j = 0 THEN base ELSE Closer(N, p, g[j-1])]
  <2>1. g = [j \in 0..k |-> g[j]]  OBVIOUS
  <2> HIDE DEF g
  <2> QED BY <2>1, <1>5
<1>7. IsSearch(g, N, p, base, k)  BY <1>6 DEF IsSearch
<1> QED BY <1>7, <1>1

\* Nothing is one step outside B.
IsClosed(N, p, B) == \A n \in N : p[n] \cap B # {} => n \in B

\* Until it is closed the search grows at every step.
LEMMA SearchGrows ==
  ASSUME NEW N, IsFiniteSet(N), NEW p, NEW base \in SUBSET N, NEW K \in Nat,
         NEW f, IsSearch(f, N, p, base, K)
  PROVE  \A k \in 0..K : /\ f[k] \subseteq N
                         /\ IsClosed(N, p, f[k]) \/ Cardinality(f[k]) >= k
<1> DEFINE Good(k) == /\ f[k] \subseteq N
                      /\ IsClosed(N, p, f[k]) \/ Cardinality(f[k]) >= k
           Bad == {k \in 0..K : ~Good(k)}
<1> SUFFICES ASSUME Bad # {} PROVE FALSE  OBVIOUS
<1>1. PICK k \in Bad : \A m \in Bad : k <= m
  <2>1. Bad \subseteq Nat  OBVIOUS
  <2> HIDE DEF Bad
  <2> QED BY <2>1, LeastNumber
<1>2. f[0] = base  BY DEF IsSearch
<1>3. k # 0
  <2>1. Cardinality(base) \in Nat  BY FS_Subset, FS_CardinalityType
  <2>2. Good(0)  BY <1>2, <2>1
  <2> QED BY <2>2, <1>1
<1>4. k - 1 \in 0..K /\ Good(k - 1)  BY <1>1, <1>3
<1>5. f[k] = Closer(N, p, f[k-1])  BY <1>1, <1>3 DEF IsSearch
<1>6. f[k] \subseteq N /\ f[k-1] \subseteq f[k]  BY <1>4, <1>5 DEF Closer
<1>7. CASE IsClosed(N, p, f[k-1])
  <2>1. f[k] = f[k-1]  BY <1>5, <1>7 DEF Closer, IsClosed
  <2> QED BY <2>1, <1>4, <1>6, <1>7, <1>1
<1>8. CASE ~IsClosed(N, p, f[k-1])
  <2>1. PICK n \in N : n \in f[k] /\ n \notin f[k-1]  BY <1>5, <1>8 DEF Closer, IsClosed
  <2>2. IsFiniteSet(f[k]) /\ IsFiniteSet(f[k-1])  BY <1>4, <1>6, FS_Subset
  <2>3. Cardinality(f[k]) \in Nat /\ Cardinality(f[k-1]) \in Nat  BY <2>2, FS_CardinalityType
  <2>4. Cardinality(f[k-1]) <= Cardinality(f[k]) /\ (Cardinality(f[k-1]) = Cardinality(f[k]) => f[k-1] = f[k])
    BY <2>2, <1>6, FS_Subset
  <2>5. Cardinality(f[k-1]) < Cardinality(f[k])  BY <2>1, <2>3, <2>4
  <2>6. Cardinality(f[k-1]) >= k - 1  BY <1>4, <1>8
  <2> QED BY <2>3, <2>5, <2>6, <1>1, <1>6
<1> QED BY <1>7, <1>8

\* A search as long as the graph is large is closed.
LEMMA SearchCloses ==
  ASSUME NEW M, IsFiniteSet(M), NEW N \in SUBSET M, NEW p, NEW base \in SUBSET N,
         NEW f, IsSearch(f, N, p, base, Cardinality(M))
  PROVE  IsClosed(N, p, f[Cardinality(M)])
<1> DEFINE K == Cardinality(M)
<1>1. K \in Nat /\ IsFiniteSet(N)  BY FS_CardinalityType, FS_Subset
<1>2. f[K] \subseteq N /\ (IsClosed(N, p, f[K]) \/ Cardinality(f[K]) >= K)
  <2>1. IsSearch(f, N, p, base, K)  OBVIOUS
  <2> HIDE DEF K
  <2>2. \A k \in 0..K : /\ f[k] \subseteq N
                        /\ IsClosed(N, p, f[k]) \/ Cardinality(f[k]) >= k
    BY <1>1, <2>1, SearchGrows
  <2> QED BY <2>2, <1>1
<1>3. CASE Cardinality(f[K]) >= K
  <2>1. Cardinality(f[K]) <= K /\ (Cardinality(f[K]) = K => f[K] = M)
    BY <1>2, FS_Subset
  <2>2. Cardinality(f[K]) \in Nat  BY <1>1, <1>2, FS_Subset, FS_CardinalityType
  <2>3. f[K] = M  BY <2>1, <2>2, <1>1, <1>3
  <2> QED BY <2>3 DEF IsClosed
<1> QED BY <1>2, <1>3

\* ReachableAvoiding(D) is the last set of such a search of the graph without D.
LEMMA ReachIsSearch ==
  ASSUME graph \in Graphs, NEW D
  PROVE  \E f : /\ IsSearch(f, Nodes \ D, graph.preds, {Entry} \cap (Nodes \ D), Cardinality(Nodes))
                /\ ReachableAvoiding(D) = f[Cardinality(Nodes)]
<1> DEFINE N == Nodes \ D
           base == {Entry} \cap N
           K == Cardinality(Nodes)
           f == CHOOSE g : IsSearch(g, N, graph.preds, base, K)
<1>1. K \in Nat  BY NodesFinite
<1>2. IsSearch(f, N, graph.preds, base, K)
  <2> HIDE DEF N, base, K
  <2> QED BY <1>1, SearchExists
<1>3. ReachableAvoiding(D) = f[K]
  BY DEF ReachableAvoiding, IsSearch, Closer
<1> QED BY <1>2, <1>3

\* What is reached without D is closed under the edges that avoid D.
LEMMA ReachIsClosed ==
  ASSUME graph \in Graphs, NEW D
  PROVE  /\ ReachableAvoiding(D) \subseteq Nodes \ D
         /\ Entry \notin D => Entry \in ReachableAvoiding(D)
         /\ IsClosed(Nodes \ D, graph.preds, ReachableAvoiding(D))
<1> DEFINE N == Nodes \ D
           base == {Entry} \cap N
           K == Cardinality(Nodes)
<1>1. PICK f : IsSearch(f, N, graph.preds, base, K) /\ ReachableAvoiding(D) = f[K]
  BY ReachIsSearch
<1>2. K \in Nat /\ IsFiniteSet(Nodes) /\ Entry \in Nodes  BY NodesFinite
<1>3. IsFiniteSet(N)  BY <1>2, FS_Subset
<1>4. IsClosed(N, graph.preds, f[K])
  BY <1>1, <1>2, SearchCloses
<1>5. \A k \in 0..K : f[k] \subseteq N
  <2> HIDE DEF N, K
  <2>1. base \in SUBSET N  OBVIOUS
  <2> HIDE DEF base
  <2> QED BY <1>1, <1>2, <1>3, <2>1, SearchGrows
<1>6. \A k \in 0..K : base \subseteq f[k]
  <2> DEFINE Bad == {k \in 0..K : ~(base \subseteq f[k])}
  <2> SUFFICES ASSUME Bad # {} PROVE FALSE  OBVIOUS
  <2>1. PICK k \in Bad : \A m \in Bad : k <= m
    <3>1. Bad \subseteq Nat  BY <1>2
    <3> HIDE DEF Bad
    <3> QED BY <3>1, LeastNumber
  <2> HIDE DEF N, base, K
  <2>2. k # 0  BY <1>1, <1>2, <2>1 DEF IsSearch
  <2>3. k - 1 \in 0..K /\ base \subseteq f[k-1]  BY <2>1, <2>2, <1>2
  <2>4. f[k] = Closer(N, graph.preds, f[k-1])  BY <1>1, <2>1, <2>2, <1>2 DEF IsSearch
  <2> QED BY <2>1, <2>3, <2>4 DEF Closer
<1>7. K \in 0..K  BY <1>2
<1> QED BY <1>1, <1>2, <1>4, <1>5, <1>6, <1>7

-----------------------------------------------------------------------------
(* Exactness *)

\* The dominator relation satisfies the equations from above: a dominator of a
\* node, other than the node, dominates each of its predecessors.
LEMMA DominatorsBelow ==
  ASSUME graph \in Graphs
  PROVE  Below([n \in Nodes |-> TrueDominators(n)])
<1> DEFINE D == [n \in Nodes |-> TrueDominators(n)]
<1>1. D \in [Nodes -> SUBSET Nodes]  BY DEF TrueDominators
<1>2. D[Entry] \subseteq {Entry}
  <2> SUFFICES ASSUME NEW d \in D[Entry], d # Entry PROVE FALSE  OBVIOUS
  <2>1. d \in Nodes /\ Entry \notin ReachableAvoiding({d})  BY NodesFinite DEF TrueDominators
  <2> QED BY <2>1, ReachIsClosed
<1>3. ASSUME NEW n \in Nodes \ {Entry}, NEW d \in D[n], d # n, NEW p \in graph.preds[n]
      PROVE  d \in D[p]
  <2>1. d \in Nodes /\ n \notin ReachableAvoiding({d})  BY <1>3 DEF TrueDominators
  <2>2. p \in Nodes  BY <1>3, HasPredecessor
  <2>3. p \notin ReachableAvoiding({d})
    BY <1>3, <2>1, ReachIsClosed DEF IsClosed
  <2> QED BY <2>1, <2>2, <2>3 DEF TrueDominators
<1> QED BY <1>1, <1>2, <1>3 DEF Below

\* On a map that satisfies the equations no node reached without passing d has d.
LEMMA FixpointBelow ==
  ASSUME graph \in Graphs, dom \in [Nodes -> SUBSET Nodes], dom[Entry] = {Entry},
         \A n \in Nodes \ {Entry} : dom[n] = MeetOverPreds(n),
         NEW d \in Nodes
  PROVE  \A n \in ReachableAvoiding({d}) : d \notin dom[n]
<1> DEFINE N == Nodes \ {d}
           base == {Entry} \cap N
           K == Cardinality(Nodes)
<1>1. PICK f : IsSearch(f, N, graph.preds, base, K) /\ ReachableAvoiding({d}) = f[K]
  BY ReachIsSearch
<1>2. K \in Nat  BY NodesFinite
<1> DEFINE Bad == {k \in 0..K : \E n \in f[k] : n \notin N \/ d \in dom[n]}
<1>3. ASSUME Bad # {} PROVE FALSE
  <2>1. PICK k \in Bad : \A m \in Bad : k <= m
    <3>1. Bad \subseteq Nat  BY <1>2
    <3> HIDE DEF Bad
    <3> QED BY <1>3, <3>1, LeastNumber
  <2>2. PICK n \in f[k] : n \notin N \/ d \in dom[n]  BY <2>1
  <2>3. CASE k = 0
    <3>1. f[k] = base  BY <1>1, <1>2, <2>3 DEF IsSearch
    <3> QED BY <2>2, <3>1
  <2>4. CASE k # 0
    <3>1. f[k] = Closer(N, graph.preds, f[k-1])  BY <1>1, <1>2, <2>1, <2>4 DEF IsSearch
    <3>2. k - 1 \in 0..K /\ ~(k - 1 \in Bad)  BY <1>2, <2>1, <2>4
    <3>3. \A m \in f[k-1] : m \in N /\ d \notin dom[m]  BY <3>2
    <3>4. n \in N /\ d \in dom[n] /\ graph.preds[n] \cap f[k-1] # {}
      BY <2>2, <3>1, <3>3 DEF Closer
    <3>5. PICK p \in graph.preds[n] : p \in f[k-1]  BY <3>4
    <3>6. n # Entry  BY <3>4
    <3>7. d \in dom[p]  BY <3>4, <3>5, <3>6, MeetMembers
    <3> QED BY <3>3, <3>5, <3>7
  <2> QED BY <2>3, <2>4
<1>4. K \in 0..K /\ ~(K \in Bad)  BY <1>2, <1>3
<1> QED BY <1>1, <1>4

\* When the sweeps end, the map satisfies the equations.
LEMMA FinishedIsFixpoint ==
  ASSUME DomInv, Finished
  PROVE  \A n \in Nodes \ {Entry} : dom[n] = MeetOverPreds(n)
<1> TAKE n \in Nodes \ {Entry}
<1>1. PICK i \in 1..Len(graph.order) : graph.order[i] = n
  BY NodesFinite DEF DomInv, TypeOK
<1>2. i \in 1..(cursor - 1)  BY <1>1, NodesFinite DEF DomInv, TypeOK, Finished
<1> QED BY <1>1, <1>2 DEF DomInv, Settled, Finished

\* When the sweeps end, every node has exactly its dominators, on every graph,
\* whatever its cycles and the order of the sweep.
THEOREM SweepIsExact == Spec => []ExactOnFinish
<1>1. DomInv => ExactOnFinish
  <2> SUFFICES ASSUME DomInv, Finished, NEW n \in Reachable
               PROVE  dom[n] = TrueDominators(n)
    BY DEF ExactOnFinish
  <2>1. graph \in Graphs /\ dom \in [Nodes -> SUBSET Nodes] /\ dom[Entry] = {Entry}
    BY DEF DomInv, TypeOK, Descending
  <2>2. n \in Nodes  BY <2>1, ReachIsClosed DEF Reachable
  <2> DEFINE T == [m \in Nodes |-> TrueDominators(m)]
  <2>3. TrueDominators(n) \subseteq dom[n]
    <3>1. Below(T) /\ T \in [Nodes -> SUBSET Nodes]
      BY <2>1, DominatorsBelow DEF TrueDominators
    <3>2. T[n] \subseteq dom[n]
      <4> HIDE DEF T
      <4> QED BY <2>2, <3>1 DEF DomInv, AboveSolutions
    <3> QED BY <2>2, <3>2
  <2>4. dom[n] \subseteq TrueDominators(n)
    <3> SUFFICES ASSUME NEW d \in dom[n], d \notin TrueDominators(n) PROVE FALSE  OBVIOUS
    <3>1. d \in Nodes /\ n \in ReachableAvoiding({d})  BY <2>1, <2>2 DEF TrueDominators
    <3>2. \A m \in Nodes \ {Entry} : dom[m] = MeetOverPreds(m)  BY FinishedIsFixpoint
    <3> QED BY <2>1, <3>1, <3>2, FixpointBelow
  <2> QED BY <2>3, <2>4
<1> QED BY <1>1, SweepInvariant, PTL

-----------------------------------------------------------------------------
(* The lifecycle graph *)

\* On the lifecycle graph the nodes are the statuses and `created` is the entry:
\* it is the one status nothing leads to.
LEMMA LifecycleNodes ==
  ASSUME graph \in Graphs, graph.preds = DominatorPredecessors
  PROVE  Nodes = DisputeStatuses /\ Entry = "created"
<1>1. DOMAIN graph.preds = Nodes  BY NodesFinite
<1>2. DOMAIN DominatorPredecessors = DisputeStatuses  BY DEF DominatorPredecessors
<1>3. Nodes = DisputeStatuses  BY <1>1, <1>2
<1>4. "created" \in DisputeStatuses  BY DEF DisputeStatuses
<1>5. DominatorPredecessors["created"] = {}
  BY DEF DominatorPredecessors, DisputeStatuses, CanTransition, DISPUTE_STATUS_TRANSITIONS
<1> QED BY <1>3, <1>4, <1>5, HasPredecessor

\* Who precedes whom on the lifecycle graph.
LEMMA LifecycleEdges ==
  /\ DominatorPredecessors["created"] = {}
  /\ DominatorPredecessors["tnc_agreed"] = {"created"}
  /\ DominatorPredecessors["reports_uploaded"] = {"tnc_agreed"}
  /\ DominatorPredecessors["analysed"] = {"created", "tnc_agreed", "reports_uploaded"}
  /\ DominatorPredecessors["objection_submitted"] = {"analysed"}
  /\ DominatorPredecessors["vg_response_received"] =
       {"objection_submitted", "ai_further_submission"}
  /\ DominatorPredecessors["ai_further_submission"] = {"vg_response_received"}
  /\ DominatorPredecessors["vg_agreed"] = {"vg_response_received"}
  /\ DominatorPredecessors["case_closed"] = DisputeStatuses \ {"case_closed"}
BY DEF DominatorPredecessors, DisputeStatuses, CanTransition, DISPUTE_STATUS_TRANSITIONS,
       MARK_ANALYSED_SOURCE_STATUSES

\* The table satisfies the equations of the lifecycle graph.
LEMMA TableBelow ==
  ASSUME graph \in Graphs, graph.preds = DominatorPredecessors
  PROVE  Below(STATUS_DOMINATORS) /\ STATUS_DOMINATORS \in [Nodes -> SUBSET Nodes]
<1>1. Nodes = DisputeStatuses /\ Entry = "created"  BY LifecycleNodes
<1>2. STATUS_DOMINATORS \in [Nodes -> SUBSET Nodes]
  BY <1>1 DEF STATUS_DOMINATORS, DisputeStatuses
<1>3. ASSUME NEW n \in Nodes \ {Entry}, NEW d \in STATUS_DOMINATORS[n], d # n,
             NEW p \in DominatorPredecessors[n]
      PROVE  d \in STATUS_DOMINATORS[p]
  BY <1>1, <1>3, LifecycleEdges DEF STATUS_DOMINATORS, DisputeStatuses
<1> QED BY <1>1, <1>2, <1>3 DEF Below, STATUS_DOMINATORS

\* The dataflow run on the lifecycle graph ends with the table STATUS_DOMINATORS,
\* which every proof about what a status implies takes for it.
THEOREM SweepComputesTheTable == Spec => []TableIsComputed
<1>1. DomInv => TableIsComputed
  <2> SUFFICES ASSUME DomInv, Finished, graph.preds = DominatorPredecessors
               PROVE  dom = STATUS_DOMINATORS
    BY DEF TableIsComputed
  <2>1. graph \in Graphs /\ dom \in [Nodes -> SUBSET Nodes] /\ dom[Entry] = {Entry}
    BY DEF DomInv, TypeOK, Descending
  <2>2. Nodes = DisputeStatuses /\ Entry = "created"  BY <2>1, LifecycleNodes
  <2>3. STATUS_DOMINATORS \in [Nodes -> SUBSET Nodes]  BY <2>1, TableBelow
  <2>4. \A n \in Nodes : STATUS_DOMINATORS[n] \subseteq dom[n]
    BY <2>1, TableBelow DEF DomInv, AboveSolutions
  <2>5. \A n \in Nodes \ {Entry} : \A p \in DominatorPredecessors[n] :
          dom[n] \subseteq dom[p] \cup {n}
    BY <2>1, FinishedIsFixpoint, MeetMembers
  <2>6. /\ dom["created"] = {"created"}
        /\ dom["tnc_agreed"] \subseteq dom["created"] \cup {"tnc_agreed"}
        /\ dom["reports_uploaded"] \subseteq dom["tnc_agreed"] \cup {"reports_uploaded"}
        /\ dom["analysed"] \subseteq dom["created"] \cup {"analysed"}
        /\ dom["objection_submitted"] \subseteq dom["analysed"] \cup {"objection_submitted"}
        /\ dom["vg_response_received"] \subseteq
             dom["objection_submitted"] \cup {"vg_response_received"}
        /\ dom["ai_further_submission"] \subseteq
             dom["vg_response_received"] \cup {"ai_further_submission"}
        /\ dom["vg_agreed"] \subseteq dom["vg_response_received"] \cup {"vg_agreed"}
        /\ dom["case_closed"] \subseteq dom["created"] \cup {"case_closed"}
    BY <2>1, <2>2, <2>5, LifecycleEdges DEF DisputeStatuses
  <2>7. \A n \in Nodes : dom[n] \subseteq STATUS_DOMINATORS[n]
    BY <2>2, <2>6 DEF STATUS_DOMINATORS, DisputeStatuses
  <2>8. \A n \in Nodes : dom[n] = STATUS_DOMINATORS[n]  BY <2>4, <2>7
  <2> QED BY <2>1, <2>3, <2>8
<1> QED BY <1>1, SweepInvariant, PTL

=============================================================================
