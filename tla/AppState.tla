------------------------------- MODULE AppState -------------------------------
(***************************************************************************)
(* The application lifecycle of state/: subsystems are registered, then     *)
(* initialized and started dependency-first, stopped and terminated         *)
(* dependent-first, one layer of the dependency graph after another.  Any   *)
(* hook may fail; the code rolls back, stops short or carries on depending  *)
(* on the operation.                                                        *)
(*                                                                         *)
(* lifecycle_mutex_ serializes the operations, and an operation called from *)
(* inside a hook is refused, so one operation runs at a time; each hook it  *)
(* calls is a step.  Inside a layer the code uses registration order, which *)
(* is arbitrary, so the model takes the members in any order.               *)
(***************************************************************************)
EXTENDS Naturals, Sequences, FiniteSets

CONSTANTS
  Subsystems,   \* adapters that may be registered
  Dependencies  \* what each declares as its dependencies

SubsystemsAssumption == Dependencies \in [Subsystems -> SUBSET Subsystems]

VARIABLES
  state,        \* state_
  subsystems,   \* subsystems_
  graph,        \* nodes of topology_, empty until it was built
  layerOf,      \* index in forward_layers_ of each of them
  initialized,  \* entries with initialized = true
  started,      \* entries with started = true
  op,           \* loop the running operation is in
  previous,     \* previous_state of start(), the state stop() was called in
  unvisited,    \* entries the loop has not visited
  layer,        \* those of them in the current layer
  trail,        \* entries this initialize() or start() completed, in order
  failed,       \* first_failure is not OK
  layerFailed,  \* layer_failure is not OK
  tornDown      \* terminate() was called

loopVars == <<op, previous, unvisited, layer, trail, failed, layerFailed>>
appVars == <<state, subsystems, graph, layerOf, initialized, started, loopVars, tornDown>>

States == {"UNINITIALIZED", "INITIALIZING", "INITIALIZED", "STARTING", "RUNNING",
           "STOPPING", "STOPPED", "TERMINATING", "TERMINATED", "CRASHED"}
Operations == {"none", "initialize", "start", "stop", "terminate: stop", "terminate",
               "roll back initialize", "roll back start"}

AppInit ==
  /\ state = "UNINITIALIZED"
  /\ subsystems = {} /\ graph = {} /\ layerOf = [s \in {} |-> 0]
  /\ initialized = {} /\ started = {}
  /\ op = "none" /\ previous = "UNINITIALIZED"
  /\ unvisited = {} /\ layer = {} /\ trail = <<>>
  /\ failed = FALSE /\ layerFailed = FALSE
  /\ tornDown = FALSE

AppTypeOK ==
  /\ state \in States
  /\ subsystems \subseteq Subsystems
  /\ graph \subseteq subsystems
  /\ layerOf \in [graph -> Nat]
  /\ initialized \subseteq graph
  /\ started \subseteq graph
  /\ op \in Operations
  /\ previous \in States
  /\ unvisited \subseteq graph
  /\ layer \subseteq unvisited
  /\ trail \in Seq(graph)
  /\ failed \in BOOLEAN /\ layerFailed \in BOOLEAN /\ tornDown \in BOOLEAN

-----------------------------------------------------------------------------
\* The layers of DependencyGraph

\* forward_layers(): nodes without dependencies are in layer 0, every other one
\* in the layer after the last of its dependencies'.  An acyclic graph has one.
ForwardLayers(S) ==
  {f \in [S -> 0..Cardinality(S)] : \A s \in S :
     /\ \A d \in Dependencies[s] : f[d] < f[s]
     /\ f[s] # 0 => \E d \in Dependencies[s] : f[d] = f[s] - 1}

\* The next forward layer of what is left of the nodes.
Front(f, S) == {s \in S : \A t \in S : f[s] <= f[t]}

\* The next reverse layer: reverse_layers() are the forward ones, last first.
Rear(f, S) == {s \in S : \A t \in S : f[t] <= f[s]}

\* Visit s; after the last of its layer the loop goes on with the next one.
Visit(s, next) ==
  /\ unvisited' = unvisited \ {s}
  /\ layer' = IF layer = {s} THEN next ELSE layer \ {s}

\* No operation is running; its locals are gone.
Return ==
  /\ op' = "none"
  /\ previous' = "UNINITIALIZED"
  /\ unvisited' = {} /\ layer' = {} /\ trail' = <<>>
  /\ failed' = FALSE /\ layerFailed' = FALSE

-----------------------------------------------------------------------------
\* register_subsystem: refused once initialize() or terminate() was called

Register(s) ==
  /\ state = "UNINITIALIZED"
  /\ s \notin subsystems
  /\ subsystems' = subsystems \cup {s}
  /\ UNCHANGED <<state, graph, layerOf, initialized, started, loopVars, tornDown>>

-----------------------------------------------------------------------------
\* initialize

Cyclic == \E C \in SUBSET subsystems \ {{}} : \A s \in C : Dependencies[s] \cap C # {}

MissingDependency == \E s \in subsystems : ~(Dependencies[s] \subseteq subsystems)

Initialize ==
  /\ op = "none"
  /\ state = "UNINITIALIZED"
  /\ IF MissingDependency \/ Cyclic
       THEN state' = "CRASHED" /\ UNCHANGED <<graph, layerOf, loopVars>>
       ELSE /\ state' = "INITIALIZING"
            /\ graph' = subsystems
            /\ op' = "initialize"
            /\ layerOf' \in ForwardLayers(subsystems)
            /\ unvisited' = subsystems /\ layer' = Front(layerOf', subsystems)
            /\ UNCHANGED <<previous, trail, failed, layerFailed>>
  /\ UNCHANGED <<subsystems, initialized, started, tornDown>>

InitializeHook(s) ==
  /\ op = "initialize"
  /\ s \in layer
  /\ \/ /\ initialized' = initialized \cup {s}
        /\ trail' = Append(trail, s)
        /\ Visit(s, Front(layerOf, unvisited \ {s}))
        /\ UNCHANGED op
     \/ /\ op' = "roll back initialize"
        /\ unvisited' = {} /\ layer' = {}
        /\ UNCHANGED <<initialized, trail>>
  /\ UNCHANGED <<state, subsystems, graph, layerOf, started, previous, failed, layerFailed,
                 tornDown>>

Initialized ==
  /\ op = "initialize"
  /\ unvisited = {}
  /\ state' = "INITIALIZED"
  /\ Return
  /\ UNCHANGED <<subsystems, graph, layerOf, initialized, started, tornDown>>

-----------------------------------------------------------------------------
\* start

Startable == {"INITIALIZED", "STOPPED"}

Start ==
  /\ op = "none"
  /\ state \in Startable
  /\ state' = "STARTING"
  /\ previous' = state
  /\ op' = "start"
  /\ unvisited' = graph /\ layer' = Front(layerOf, graph)
  /\ UNCHANGED <<subsystems, graph, layerOf, initialized, started, trail, failed,
                 layerFailed, tornDown>>

\* An entry that is not initialized fails the start for good.
StartHook(s) ==
  /\ op = "start"
  /\ s \in layer
  /\ \/ /\ s \in initialized
        /\ started' = started \cup {s}
        /\ trail' = Append(trail, s)
        /\ Visit(s, Front(layerOf, unvisited \ {s}))
        /\ UNCHANGED <<op, previous>>
     \/ /\ op' = "roll back start"
        /\ previous' = IF s \in initialized THEN previous ELSE "CRASHED"
        /\ unvisited' = {} /\ layer' = {}
        /\ UNCHANGED <<started, trail>>
  /\ UNCHANGED <<state, subsystems, graph, layerOf, initialized, failed, layerFailed,
                 tornDown>>

Started ==
  /\ op = "start"
  /\ unvisited = {}
  /\ state' = "RUNNING"
  /\ Return
  /\ UNCHANGED <<subsystems, graph, layerOf, initialized, started, tornDown>>

-----------------------------------------------------------------------------
\* Rolling back a successful prefix, last entry first

\* The entry a rollback visits next and the ones left after it.
RollBackNext == <<trail[Len(trail)], SubSeq(trail, 1, Len(trail) - 1)>>

AfterFailedRollBackRetry == previous

AfterFailedRollBack == "CRASHED"

\* rollback_started gives up at the first stop hook that fails.
RollBackStart ==
  /\ op = "roll back start"
  /\ trail # <<>>
  /\ \/ /\ started' = started \ {RollBackNext[1]}
        /\ trail' = RollBackNext[2]
        /\ UNCHANGED <<state, op, previous, unvisited, layer, failed, layerFailed>>
     \/ /\ state' = AfterFailedRollBack
        /\ Return
        /\ UNCHANGED started
  /\ UNCHANGED <<subsystems, graph, layerOf, initialized, tornDown>>

StartRolledBack ==
  /\ op = "roll back start"
  /\ trail = <<>>
  /\ state' = previous
  /\ Return
  /\ UNCHANGED <<subsystems, graph, layerOf, initialized, started, tornDown>>

\* rollback_initialized gives up at the first terminate hook that fails.
RollBackInitialize ==
  /\ op = "roll back initialize"
  /\ trail # <<>>
  /\ \/ /\ initialized' = initialized \ {RollBackNext[1]}
        /\ started' = started \ {RollBackNext[1]}
        /\ trail' = RollBackNext[2]
        /\ UNCHANGED <<state, op, previous, unvisited, layer, failed, layerFailed>>
     \/ /\ state' = "CRASHED"
        /\ Return
        /\ UNCHANGED <<initialized, started>>
  /\ UNCHANGED <<subsystems, graph, layerOf, tornDown>>

InitializeRolledBack ==
  /\ op = "roll back initialize"
  /\ trail = <<>>
  /\ state' = "CRASHED"
  /\ Return
  /\ UNCHANGED <<subsystems, graph, layerOf, initialized, started, tornDown>>

-----------------------------------------------------------------------------
\* stop and terminate

\* The reverse layers cover the built topology, nothing if it was refused.
Sweep == graph

Stop ==
  /\ op = "none"
  /\ state \in {"RUNNING", "CRASHED"}
  /\ previous' = state
  /\ state' = "STOPPING"
  /\ op' = "stop"
  /\ unvisited' = Sweep /\ layer' = Rear(layerOf, Sweep)
  /\ UNCHANGED <<subsystems, graph, layerOf, initialized, started, trail, failed,
                 layerFailed, tornDown>>

\* stop() does not go past a layer in which a hook failed.
BreaksAfter(s, broken) == op = "stop" /\ layer = {s} /\ broken

\* The body of the loop of stop_started; a hook is called if s is started.
StopHook(s) ==
  /\ op \in {"stop", "terminate: stop"}
  /\ s \in layer
  /\ \E ok \in IF s \in started THEN BOOLEAN ELSE {TRUE} :
       LET broken == layerFailed \/ ~ok IN
       /\ started' = IF ok THEN started \ {s} ELSE started
       /\ failed' = (failed \/ ~ok)
       /\ IF BreaksAfter(s, broken)
            THEN unvisited' = {} /\ layer' = {}
            ELSE Visit(s, Rear(layerOf, unvisited \ {s}))
       /\ layerFailed' = (broken /\ layer # {s})
  /\ UNCHANGED <<state, subsystems, graph, layerOf, initialized, op, previous, trail,
                 tornDown>>

Stopped ==
  /\ op = "stop"
  /\ unvisited = {}
  /\ state' = IF ~failed /\ previous # "CRASHED" THEN "STOPPED" ELSE "CRASHED"
  /\ Return
  /\ UNCHANGED <<subsystems, graph, layerOf, initialized, started, tornDown>>

\* terminate() in the states that let it act.
Terminate ==
  /\ op = "none"
  /\ tornDown' = TRUE
  /\ \/ /\ state = "UNINITIALIZED"
        /\ state' = "TERMINATED"
        /\ UNCHANGED <<op, unvisited, layer>>
     \/ /\ state \in {"INITIALIZED", "RUNNING", "STOPPED", "CRASHED"}
        /\ state' = "TERMINATING"
        /\ op' = "terminate: stop"
        /\ unvisited' = Sweep /\ layer' = Rear(layerOf, Sweep)
  /\ UNCHANGED <<subsystems, graph, layerOf, initialized, started, previous, trail, failed,
                 layerFailed>>

AfterStop == "terminate"

\* stop_started(true) is over and terminate_initialized begins.
AllStopped ==
  /\ op = "terminate: stop"
  /\ unvisited = {}
  /\ op' = AfterStop
  /\ unvisited' = Sweep /\ layer' = Rear(layerOf, Sweep)
  /\ UNCHANGED <<state, subsystems, graph, layerOf, initialized, started, previous, trail,
                 failed, layerFailed, tornDown>>

TerminateHook(s) ==
  /\ op = "terminate"
  /\ s \in layer
  /\ IF s \in initialized
       THEN \/ /\ initialized' = initialized \ {s}
               /\ started' = started \ {s}
               /\ UNCHANGED failed
            \/ failed' = TRUE /\ UNCHANGED <<initialized, started>>
       ELSE UNCHANGED <<initialized, started, failed>>
  /\ Visit(s, Rear(layerOf, unvisited \ {s}))
  /\ UNCHANGED <<state, subsystems, graph, layerOf, op, previous, trail, layerFailed, tornDown>>

Terminated ==
  /\ op = "terminate"
  /\ unvisited = {}
  /\ state' = IF failed THEN "CRASHED" ELSE "TERMINATED"
  /\ Return
  /\ UNCHANGED <<subsystems, graph, layerOf, initialized, started, tornDown>>

-----------------------------------------------------------------------------

Hook(s) ==
  InitializeHook(s) \/ StartHook(s) \/ StopHook(s) \/ TerminateHook(s)

\* A step of the running operation.
Proceed ==
  \/ \E s \in Subsystems : Hook(s)
  \/ Initialized \/ Started \/ Stopped \/ AllStopped \/ Terminated
  \/ RollBackStart \/ StartRolledBack \/ RollBackInitialize \/ InitializeRolledBack

\* The application was terminated and its AppState may be destroyed.
Finished == state = "TERMINATED" /\ UNCHANGED appVars

AppNext ==
  \/ \E s \in Subsystems : Register(s)
  \/ Initialize \/ Start \/ Stop \/ Terminate
  \/ Proceed
  \/ Finished

AppSpec == AppInit /\ [][AppNext]_appVars

-----------------------------------------------------------------------------
\* Properties

(* Between operations the state says what the subsystems are doing: all run *)
(* in RUNNING; none runs in INITIALIZED and STOPPED, also when a failed     *)
(* start() was rolled back to them, and all are initialized; nothing is     *)
(* left in TERMINATED. Until terminate() tears down regardless of failures, *)
(* no subsystem runs without its dependencies: start() goes                 *)
(* dependency-first, its rollback last-first and gives up at a failure, and *)
(* stop() never crosses a failed layer, also when a crashed application is  *)
(* stopped again.                                                           *)
StateTruthful ==
  /\ state = "RUNNING" => started = subsystems
  /\ state \in {"INITIALIZED", "STOPPED"} => started = {}
  /\ state \in {"INITIALIZED", "STOPPED", "RUNNING"} => initialized = subsystems
  /\ state = "TERMINATED" => started = {} /\ initialized = {}
  /\ ~tornDown => \A s \in started : Dependencies[s] \subseteq started

=============================================================================
