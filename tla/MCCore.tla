-------------------------------- MODULE MCCore --------------------------------
(* The parts of the application core, checked side by side: a behaviour is   *)
(* that of the one part chosen at the start, while the others rest.          *)
EXTENDS TurnTree, TurnCommit, TurnPipeline, AppState, Metronome, TLC

CONSTANTS NodeType               \* nodes of the dependency graph

VARIABLES
  which,
  nodes, edges, counts, topologyValid, layers,
  priorityOf, durableHistory, history, prepared, faults

-----------------------------------------------------------------------------
\* The canvas root and its first Turn can be replied to.
RootAndFirst == {Root, <<Root, "NUMERIC", 1>>}

(* A chain, as the logger, the directory and the canvas; workers that only   *)
(* the canvas needs, so that their layer is not the one after their          *)
(* dependent's; and one that names itself as its dependency.                 *)
Bootstrap ==
  "logger" :> {} @@ "workers" :> {} @@ "directory" :> {"logger"}
    @@ "canvas" :> {"directory", "workers"} @@ "selfish" :> {"selfish"}
Bootstrapped == DOMAIN Bootstrap

\* The stages of the Canvas pipeline form a chain.
Chain == "persist" :> {} @@ "update" :> {"persist"}
Stages == DOMAIN Chain

\* Turns 1 and 2 reply to the canvas, Turn 1.1 to Turn 1.
Replies == "1" :> "none" @@ "1.1" :> "1" @@ "2" :> "none"
Submitted == DOMAIN Replies

Graph == INSTANCE DependencyGraph

\* Addresses whose order differs from that of their text: 2, 10, 2.b and 2.aa.
Number(n) == [kind |-> "NUMERIC", ordinal |-> n]
Letter(n) == [kind |-> "ALPHABETIC", ordinal |-> n]
Spread == {<<Number(2)>>, <<Number(10)>>, <<Number(2), Letter(2)>>, <<Number(2), Letter(27)>>}

History == INSTANCE Presentation WITH
  Addresses <- Spread, Priorities <- {0, 1}, MaxFaults <- 2,
  durable <- durableHistory, root <- history, pending <- prepared

-----------------------------------------------------------------------------
ASSUME SubsystemsAssumption /\ PipelineAssumption /\ TurnsAssumption

graphVars == <<nodes, edges, counts, topologyValid, layers>>
historyVars == <<priorityOf, durableHistory, history, prepared, faults>>
allVars == <<which, treeVars, graphVars, appVars, vars, commitVars, historyVars,
             heartbeatVars>>

Parts == {"tree", "graph", "application", "pipeline", "commit", "history", "heartbeat"}

CoreInit ==
  /\ which \in Parts
  /\ TreeInit /\ Graph!Init /\ AppInit /\ Init /\ CommitInit
  /\ History!Init /\ (which # "history" => priorityOf = [t \in History!PresentedTurns |-> 0])
  /\ HeartbeatInit

CoreNext ==
  \/ /\ which = "tree" /\ TreeNext
     /\ UNCHANGED <<which, graphVars, appVars, vars, commitVars, historyVars, heartbeatVars>>
  \/ /\ which = "graph" /\ Graph!Next
     /\ UNCHANGED <<which, treeVars, appVars, vars, commitVars, historyVars, heartbeatVars>>
  \/ /\ which = "application" /\ AppNext
     /\ UNCHANGED <<which, treeVars, graphVars, vars, commitVars, historyVars, heartbeatVars>>
  \/ /\ which = "pipeline" /\ Next
     /\ UNCHANGED <<which, treeVars, graphVars, appVars, commitVars, historyVars, heartbeatVars>>
  \/ /\ which = "commit" /\ CommitNext
     /\ UNCHANGED <<which, treeVars, graphVars, appVars, vars, historyVars, heartbeatVars>>
  \/ /\ which = "history" /\ History!Next
     /\ UNCHANGED <<which, treeVars, graphVars, appVars, vars, commitVars, heartbeatVars>>
  \/ /\ which = "heartbeat" /\ HeartbeatNext
     /\ UNCHANGED <<which, treeVars, graphVars, appVars, vars, commitVars, historyVars>>

CoreSpec == CoreInit /\ [][CoreNext]_allVars

\* The pool's threads and the submissions they serve are interchangeable.
Interchangeable == Permutations(Runs) \cup Permutations(Workers)

-----------------------------------------------------------------------------
(* Properties *)

(* The layers the dependency graph has cached are those of its nodes and    *)
(* edges: adding an edge or a node drops a stale topology; and a cycle is   *)
(* reported exactly when there is one.                                      *)
TopologyExact == [][Graph!TopologyStep]_allVars

(* The durable presentation tree can be read back in address order, with    *)
(* every committed Turn in it, through failed and repeated commits.         *)
HistoryReadable == History!HistoryReadable

=============================================================================
