--------------------------- MODULE DependencyGraph ----------------------------
(***************************************************************************)
(* The dependency graph shared by the execution graphs and by AppState:     *)
(* nodes and prerequisite edges, and the cached validation that rejects     *)
(* cycles and arranges the nodes in dependency-first layers.  Every public  *)
(* operation is one critical section of the graph's mutex.  A layer is the  *)
(* set of its nodes: their order in it is that of registration.             *)
(***************************************************************************)
EXTENDS Naturals, Sequences, FiniteSets, FiniteSetsExt, Relation

CONSTANT NodeType  \* the identities a client may register

VARIABLES
  nodes,       \* nodes_
  edges,       \* dependents_, as <<prerequisite, dependent>> pairs
  counts,      \* dependency_counts_
  topologyValid,
  layers       \* forward_layer_indices_

vars == <<nodes, edges, counts, topologyValid, layers>>

TypeOK ==
  /\ nodes \subseteq NodeType
  /\ edges \subseteq nodes \X nodes
  /\ counts \in [NodeType -> Nat]
  /\ \A n \in NodeType : counts[n] = Cardinality({e \in edges : e[2] = n})
  /\ topologyValid \in BOOLEAN
  /\ layers \in Seq(SUBSET nodes)

Init ==
  /\ nodes = {} /\ edges = {}
  /\ counts = [n \in NodeType |-> 0]
  /\ topologyValid = FALSE /\ layers = <<>>

-----------------------------------------------------------------------------

\* A duplicate node is refused.
add_node(n) ==
  /\ n \notin nodes
  /\ nodes' = nodes \cup {n}
  /\ topologyValid' = FALSE
  /\ UNCHANGED <<edges, counts, layers>>

Count(m, n) == [counts EXCEPT ![n] = @ + 1]

KeepCache == UNCHANGED topologyValid

DropCache == topologyValid' = FALSE

\* m must come before n; both must be registered and the edge new.  An edge
\* from a node to itself is accepted here and rejected by the validation.
add_dependency(m, n) ==
  /\ {m, n} \subseteq nodes
  /\ <<m, n>> \notin edges
  /\ edges' = edges \cup {<<m, n>>}
  /\ counts' = Count(m, n)
  /\ DropCache
  /\ UNCHANGED <<nodes, layers>>

\* The layers peeled off one after the other: the ready nodes, then those
\* whose last prerequisite is among them.
RECURSIVE Peel(_, _)
Peel(ready, remaining) ==
  IF ready = {} THEN <<>>
  ELSE LET left == [n \in nodes |->
                      remaining[n] - Cardinality({m \in ready : <<m, n>> \in edges})]
           next == {n \in nodes : remaining[n] > 0 /\ left[n] = 0}
       IN  <<ready>> \o Peel(next, left)

Visited(ls) == FoldSet(LAMBDA i, n : Cardinality(ls[i]) + n, 0, DOMAIN ls)

AllVisited(ls) == Visited(ls) = Cardinality(nodes)

\* validate_locked, which snapshot() and forward_layers() begin with.  It
\* answers OK when it leaves the topology valid, else DEPENDENCY_CYCLE.
validate ==
  /\ ~topologyValid
  /\ LET found == Peel({n \in nodes : counts[n] = 0}, counts) IN
       /\ topologyValid' = AllVisited(found)
       /\ layers' = IF AllVisited(found) THEN found ELSE <<>>
  /\ UNCHANGED <<nodes, edges, counts>>

Next ==
  \/ \E n \in NodeType : add_node(n)
  \/ \E m, n \in NodeType : add_dependency(m, n)
  \/ validate

Spec == Init /\ [][Next]_vars

-----------------------------------------------------------------------------
\* Properties

DependsOn == TransitiveClosure([e \in nodes \X nodes |-> e \in edges], nodes)

Cyclic == \E n \in nodes : DependsOn[n, n]

LayerOf(n) == {i \in DOMAIN layers : n \in layers[i]}

(* A graph the cache calls valid has no cycle, and its layers are the ones  *)
(* the dependencies dictate: every node is in exactly one of them, the one  *)
(* right after the last of its prerequisites.  So a layer may run in        *)
(* parallel once the layers before it are done, and none is larger than it  *)
(* has to be, whatever was added since the graph was last validated.        *)
CachedLayersCorrect ==
  topologyValid =>
    /\ ~Cyclic
    /\ \A n \in nodes : \E i \in DOMAIN layers :
         /\ LayerOf(n) = {i}
         /\ i = 1 + Max({0} \cup UNION {LayerOf(e[1]) : e \in {e \in edges : e[2] = n}})

(* validate_locked reports a cycle exactly when some node depends on        *)
(* itself, directly or through others.                                      *)
CycleReportedExactly == validate => (~topologyValid' <=> Cyclic)

TopologyStep == CachedLayersCorrect' /\ CycleReportedExactly

(* The cached topology is that of the graph, and a cycle is reported when   *)
(* there is one (DependencyGraph::validate_locked and its cache).           *)
TopologyExact == [][TopologyStep]_vars

=============================================================================
