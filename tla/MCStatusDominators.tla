------------------------ MODULE MCStatusDominators ------------------------
(* The lifecycle graph, and every graph of four nodes without self-loops in *)
(* which every node but the entry has a predecessor.                        *)
EXTENDS StatusDominators

LifecycleGraph == [order |-> DISPUTE_STATUS_ORDER, preds |-> DominatorPredecessors]

SmallGraphs ==
  LET node == {"a", "b", "c", "d"} IN
  { [order |-> <<"a", "b", "c", "d">>,
     preds |-> [n \in node |-> IF n = "a" THEN {} ELSE p[n]]] :
    p \in {q \in [{"b", "c", "d"} -> SUBSET node] : \A n \in {"b", "c", "d"} : n \notin q[n] /\ q[n] # {}} }

MCGraphs == {LifecycleGraph} \cup SmallGraphs
=============================================================================
