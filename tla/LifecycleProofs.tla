--------------------------- MODULE LifecycleProofs ---------------------------
(***************************************************************************)
(* TLAPS proofs about what the application starts and stops: AppState, for  *)
(* any set of subsystems and any declared dependencies; Metronome, for any  *)
(* number of lifecycles, while ticks of earlier ones may be anywhere on the *)
(* pool; and Screen, the ownership of the terminal, for any depth of the    *)
(* command channel and any number of starts, resizes and failing writes.    *)
(***************************************************************************)
EXTENDS AppState, Metronome, Screen, SequenceTheorems, TLAPS

-----------------------------------------------------------------------------
\* AppState

(***************************************************************************)
(* The inductive invariant says how far the running operation has come.     *)
(* stop() needs the most: a subsystem of the layer it is in has no          *)
(* dependent among those it has not visited, nor among those of the layer   *)
(* whose hook failed, and past a layer no failure is behind it.             *)
(***************************************************************************)

\* The state an operation leaves behind while it runs.
Phases ==
  /\ op = "none" => state \notin {"INITIALIZING", "STARTING", "STOPPING", "TERMINATING"}
  /\ op \in {"initialize", "roll back initialize"} => state = "INITIALIZING"
  /\ op \in {"start", "roll back start"} => state = "STARTING"
  /\ op = "stop" => state = "STOPPING"
  /\ op \in {"terminate: stop", "terminate"} => state = "TERMINATING"

\* No operation is running, and its locals are gone.
AtRest ==
  op = "none" => unvisited = {} /\ layer = {} /\ trail = <<>> /\ ~failed /\ ~layerFailed
     
\* The topology was not built, or covers what is registered and is closed; a
\* subsystem is in a later layer than its dependencies.
TopologySound ==
  /\ graph = {} \/ (graph = subsystems /\ \A s \in graph : Dependencies[s] \subseteq graph)
  /\ \A s \in graph : \A d \in Dependencies[s] : layerOf[d] < layerOf[s]
  /\ state = "UNINITIALIZED" => graph = {}
  /\ state \in {"INITIALIZING", "INITIALIZED", "STARTING", "RUNNING", "STOPPED"}
       => graph = subsystems

Initializing ==
  /\ op = "initialize" => initialized = graph \ unvisited
  /\ state = "INITIALIZING" => started = {}

\* What start() has completed, in an order that respects the dependencies.
TrailSound ==
  /\ \A s \in started : \E i \in 1..Len(trail) : trail[i] = s
  /\ \A i \in 1..Len(trail) : trail[i] \in started
  /\ \A i, k \in 1..Len(trail) : trail[i] = trail[k] => i = k
  /\ \A i \in 1..Len(trail), d \in Subsystems : d \in Dependencies[trail[i]] =>
       \E k \in 1..Len(trail) : k < i /\ trail[k] = d

Starting ==
  /\ op = "start" =>
       started = graph \ unvisited /\ \A s \in layer : Dependencies[s] \cap unvisited = {}
  /\ state = "STARTING" => TrailSound /\ initialized = subsystems
                           /\ previous \in {"INITIALIZED", "STOPPED"}

Stopping ==
  op = "stop" =>
    /\ \A s \in layer : \A t \in unvisited \cup started : s \notin Dependencies[t]
    /\ ~failed => started \subseteq unvisited
    /\ failed => layerFailed \/ unvisited = {}
    /\ layerFailed => failed
    /\ previous # "CRASHED" => initialized = subsystems /\ graph = subsystems

Terminating ==
  /\ op = "terminate: stop" /\ ~failed => started \subseteq unvisited
  /\ op = "terminate" /\ ~failed => started = {} /\ initialized \subseteq unvisited
  /\ state \in {"TERMINATING", "TERMINATED"} => tornDown

AppInv ==
  /\ AppTypeOK /\ Phases /\ AtRest /\ TopologySound
  /\ Initializing /\ Starting /\ Stopping /\ Terminating
  /\ StateTruthful

-----------------------------------------------------------------------------

(* An entry put at the end of the list of successful entries.               *)
LEMMA Extended ==
  ASSUME NEW S, NEW q \in Seq(S), NEW e \in S
  PROVE  /\ Append(q, e) \in Seq(S)
         /\ Len(q) \in Nat /\ Len(Append(q, e)) = Len(q) + 1
         /\ \A i \in 1..Len(q) : Append(q, e)[i] = q[i]
         /\ Append(q, e)[Len(q) + 1] = e
OBVIOUS

(* A rollback takes the last of the successful entries.                     *)
LEMMA Shortened ==
  ASSUME NEW S, NEW q \in Seq(S), q # <<>>
  PROVE  /\ SubSeq(q, 1, Len(q) - 1) \in Seq(S)
         /\ Len(q) \in Nat \ {0} /\ Len(SubSeq(q, 1, Len(q) - 1)) = Len(q) - 1
         /\ \A i \in 1..(Len(q) - 1) : SubSeq(q, 1, Len(q) - 1)[i] = q[i]
         /\ q[Len(q)] \in S
<1>1. Len(q) \in Nat \ {0}
  OBVIOUS
<1>2. q[Len(q)] \in S
  BY <1>1
<1>3. SubSeq(q, 1, Len(q) - 1) \in Seq(S) /\ Len(SubSeq(q, 1, Len(q) - 1)) = Len(q) - 1
  <2>1. \A i \in 1..(Len(q) - 1) : q[i] \in S
    BY <1>1
  <2>2. /\ SubSeq(q, 1, Len(q) - 1) \in Seq(S)
        /\ Len(SubSeq(q, 1, Len(q) - 1)) = IF 1 <= Len(q) - 1 THEN Len(q) - 1 - 1 + 1 ELSE 0
    BY <1>1, <2>1, SubSeqProperties
  <2>3. ASSUME NEW n \in Nat \ {0} PROVE (IF 1 <= n - 1 THEN n - 1 - 1 + 1 ELSE 0) = n - 1
    BY <2>3
  <2> QED
    BY Zenon, <1>1, <2>2, <2>3
<1>4. \A i \in 1..(Len(q) - 1) : SubSeq(q, 1, Len(q) - 1)[i] = q[i]
  BY <1>1
<1> QED
  BY Zenon, <1>1, <1>2, <1>3, <1>4

(* No entry was completed yet.                                              *)
LEMMA NothingDone == ASSUME NEW S PROVE <<>> \in Seq(S) /\ 1..Len(<<>>) = {}
OBVIOUS

(* A subsystem of the next forward layer has no dependency left.            *)
LEMMA FrontReady ==
  ASSUME AppTypeOK, TopologySound, NEW S \in SUBSET graph, NEW s \in Front(layerOf, S)
  PROVE  Dependencies[s] \cap S = {}
<1> SUFFICES ASSUME NEW d \in S, d \in Dependencies[s] PROVE FALSE
  OBVIOUS
<1>1. layerOf[s] <= layerOf[d] /\ layerOf[d] < layerOf[s]
  BY Zenon DEF Front, TopologySound
<1>2. layerOf[s] \in Nat /\ layerOf[d] \in Nat
  BY Zenon DEF Front, AppTypeOK
<1> QED
  BY <1>1, <1>2

(* A subsystem of the next reverse layer has no dependent left.             *)
LEMMA RearFree ==
  ASSUME AppTypeOK, TopologySound, NEW S \in SUBSET graph, NEW s \in Rear(layerOf, S),
         NEW t \in S
  PROVE  s \notin Dependencies[t]
<1> SUFFICES ASSUME s \in Dependencies[t] PROVE FALSE
  OBVIOUS
<1>1. layerOf[t] <= layerOf[s] /\ layerOf[s] < layerOf[t]
  BY Zenon DEF Rear, TopologySound
<1>2. layerOf[s] \in Nat /\ layerOf[t] \in Nat
  BY Zenon DEF Rear, AppTypeOK
<1> QED
  BY <1>1, <1>2

(* An operation that returns leaves its locals well typed.                  *)
LEMMA ReturnTyped ==
  ASSUME AppTypeOK, Return, state' \in States,
         UNCHANGED <<subsystems, graph, layerOf, initialized, started, tornDown>>
  PROVE  AppTypeOK'
<1>1. <<>> \in Seq(graph')
  BY Zenon, NothingDone
<1> QED
  BY Zenon, <1>1 DEF AppTypeOK, Return, States, Operations

(* register_subsystem changes nothing an operation has done.                *)
LEMMA RegisterStep ==
  ASSUME SubsystemsAssumption, AppInv, NEW s \in Subsystems, Register(s)
  PROVE  AppInv'
<1> USE DEF AppInv, Register, loopVars
<1>1. AppTypeOK'
  BY Zenon DEF AppTypeOK
<1>2. Phases' /\ AtRest'
  BY Zenon DEF Phases, AtRest
<1>3. TopologySound'
  BY Zenon DEF TopologySound
<1>4. Initializing'
  BY Zenon DEF Initializing
<1>5. Starting'
  BY Zenon DEF Starting
<1>6. Stopping'
  BY Zenon DEF Stopping, Phases
<1>7. Terminating'
  BY Zenon DEF Terminating
<1>8. StateTruthful'
  BY Zenon DEF StateTruthful
<1> QED
  BY Zenon, <1>1, <1>2, <1>3, <1>4, <1>5, <1>6, <1>7, <1>8

(* initialize() builds a topology, or is refused and crashes.               *)
LEMMA InitializeStep ==
  ASSUME SubsystemsAssumption, AppInv, Initialize
  PROVE  AppInv'
<1> USE DEF AppInv, Initialize, loopVars, MissingDependency
<1>1. AppTypeOK'
  <2>1. trail' = <<>>
    BY Zenon DEF AtRest
  <2>2. trail' \in Seq(graph')
    BY Zenon, <2>1, NothingDone
  <2>3. ASSUME NEW S, NEW f \in ForwardLayers(S) PROVE f \in [S -> Nat]
    BY <2>3 DEF ForwardLayers
  <2>4. layerOf' \in [graph' -> Nat]
    BY Zenon, <2>3 DEF AppTypeOK
  <2> QED
    BY Zenon, <2>2, <2>4 DEF AppTypeOK, States, Operations, Front
<1>2. Phases' /\ AtRest'
  BY Zenon DEF Phases, AtRest
<1>3. TopologySound'
  BY Zenon DEF TopologySound, ForwardLayers
<1>4. Initializing'
  BY Zenon DEF Initializing, AppTypeOK, TopologySound
<1>5. Starting'
  BY Zenon DEF Starting
<1>6. Stopping'
  BY Zenon DEF Stopping
<1>7. Terminating'
  BY Zenon DEF Terminating
<1>8. StateTruthful'
  BY Zenon DEF StateTruthful
<1> QED
  BY Zenon, <1>1, <1>2, <1>3, <1>4, <1>5, <1>6, <1>7, <1>8

(* One initialize hook succeeds, or fails and a rollback begins.            *)
LEMMA InitializeHookStep ==
  ASSUME SubsystemsAssumption, AppInv, NEW s \in Subsystems, InitializeHook(s)
  PROVE  AppInv'
<1> USE DEF AppInv, InitializeHook, Visit, Front
<1>1. AppTypeOK'
  <2>1. s \in graph /\ Append(trail, s) \in Seq(graph) /\ trail \in Seq(graph)
    BY Zenon, Extended DEF AppTypeOK
  <2>2. trail' \in Seq(graph)
    BY Zenon, <2>1
  <2> QED
    BY Zenon, <2>1, <2>2 DEF AppTypeOK, Operations
<1>2. Phases' /\ AtRest'
  BY Zenon DEF Phases, AtRest
<1>3. TopologySound'
  BY Zenon DEF TopologySound
<1>4. Initializing'
  BY Zenon DEF Initializing, AppTypeOK
<1>5. Starting'
  BY Zenon DEF Starting, Phases
<1>6. Stopping'
  BY Zenon DEF Stopping
<1>7. Terminating'
  BY Zenon DEF Terminating
<1>8. StateTruthful'
  BY Zenon DEF StateTruthful, Phases
<1> QED
  BY Zenon, <1>1, <1>2, <1>3, <1>4, <1>5, <1>6, <1>7, <1>8

(* initialize() returns with every subsystem initialized.                   *)
LEMMA InitializedStep ==
  ASSUME SubsystemsAssumption, AppInv, Initialized
  PROVE  AppInv'
<1> USE DEF AppInv, Initialized, Return
<1>1. AppTypeOK'
  BY Zenon, ReturnTyped DEF States
<1>2. Phases' /\ AtRest'
  BY Zenon DEF Phases, AtRest
<1>3. TopologySound'
  BY Zenon DEF TopologySound, Phases
<1>4. Initializing'
  BY Zenon DEF Initializing
<1>5. Starting'
  BY Zenon DEF Starting
<1>6. Stopping'
  BY Zenon DEF Stopping
<1>7. Terminating'
  BY Zenon DEF Terminating
<1>8. StateTruthful'
  BY Zenon DEF StateTruthful, Phases, TopologySound, Initializing
<1> QED
  BY Zenon, <1>1, <1>2, <1>3, <1>4, <1>5, <1>6, <1>7, <1>8

(* start() begins where no subsystem runs.                                  *)
LEMMA StartStep ==
  ASSUME SubsystemsAssumption, AppInv, Start
  PROVE  AppInv'
<1> USE DEF AppInv, Start, Startable, Front
<1>1. AppTypeOK'
  BY Zenon DEF AppTypeOK, States, Operations
<1>2. Phases' /\ AtRest'
  BY Zenon DEF Phases, AtRest
<1>3. TopologySound'
  BY Zenon DEF TopologySound
<1>4. Initializing'
  BY Zenon DEF Initializing
<1>5. Starting'
  <2>1. \A s \in layer' : Dependencies[s] \cap unvisited' = {}
    <3>1. layer' = Front(layerOf, graph) /\ unvisited' = graph
      BY Zenon
    <3> HIDE DEF Front
    <3> QED
      BY Zenon, <3>1, FrontReady
  <2>2. started = {} /\ initialized = subsystems /\ trail = <<>> /\ state' = "STARTING"
        /\ previous' \in {"INITIALIZED", "STOPPED"}
    BY Zenon DEF StateTruthful, AtRest
  <2>3. TrailSound'
    BY Zenon, <2>2, NothingDone DEF TrailSound
  <2> QED
    BY Zenon, <2>1, <2>2, <2>3 DEF Starting
<1>6. Stopping'
  BY Zenon DEF Stopping
<1>7. Terminating'
  BY Zenon DEF Terminating
<1>8. StateTruthful'
  BY Zenon DEF StateTruthful
<1> QED
  BY Zenon, <1>1, <1>2, <1>3, <1>4, <1>5, <1>6, <1>7, <1>8

(* With one more entry, whose dependencies run, the list of successful       *)
(* entries is still what runs, and in dependency order.                     *)
LEMMA LongerTrail ==
  ASSUME SubsystemsAssumption, AppTypeOK, TrailSound, NEW s \in graph, s \notin started,
         Dependencies[s] \subseteq started, trail' = Append(trail, s), started' = started \cup {s}
  PROVE  TrailSound'
<1>1. /\ Len(trail) \in Nat /\ Len(trail') = Len(trail) + 1
      /\ \A i \in 1..Len(trail) : trail'[i] = trail[i]
      /\ trail'[Len(trail) + 1] = s
  BY Extended DEF AppTypeOK
<1>2. \A i \in 1..Len(trail') : i \in 1..Len(trail) \/ i = Len(trail) + 1
  BY <1>1
<1>3. \A i \in 1..Len(trail) : i \in 1..Len(trail') /\ i < Len(trail) + 1
  BY <1>1
<1>4. Len(trail) + 1 \in 1..Len(trail')
  BY <1>1
<1>5. \A t \in started' : \E i \in 1..Len(trail') : trail'[i] = t
  BY ZenonT(30), <1>1, <1>3, <1>4 DEF TrailSound
<1>6. \A i \in 1..Len(trail') : trail'[i] \in started'
  BY Zenon, <1>1, <1>2 DEF TrailSound
<1>7. \A i, k \in 1..Len(trail') : trail'[i] = trail'[k] => i = k
  <2>1. \A i \in 1..Len(trail) : trail'[i] \in started
    BY Zenon, <1>1 DEF TrailSound
  <2>2. ASSUME NEW i \in 1..Len(trail'), NEW k \in 1..Len(trail'), trail'[i] = trail'[k]
        PROVE  i = k
    <3>1. CASE i = Len(trail) + 1
      BY Zenon, <1>1, <1>2, <2>1, <2>2, <3>1
    <3>2. CASE k = Len(trail) + 1
      BY Zenon, <1>1, <1>2, <2>1, <2>2, <3>2
    <3>3. CASE i \in 1..Len(trail) /\ k \in 1..Len(trail)
      <4>1. trail[i] = trail[k]
        BY Zenon, <1>1, <2>2, <3>3
      <4> QED
        BY Zenon, <3>3, <4>1 DEF TrailSound
    <3> QED
      BY Zenon, <1>2, <3>1, <3>2, <3>3
  <2> QED
    BY Zenon, <2>2
<1>8. ASSUME NEW i \in 1..Len(trail'), NEW d \in Subsystems, d \in Dependencies[trail'[i]]
      PROVE  \E k \in 1..Len(trail') : k < i /\ trail'[k] = d
  <2>1. CASE i \in 1..Len(trail)
    <3>1. PICK k \in 1..Len(trail) : k < i /\ trail[k] = d
      BY Zenon, <1>1, <1>8, <2>1 DEF TrailSound
    <3> QED
      BY Zenon, <1>1, <1>3, <3>1
  <2>2. CASE i = Len(trail) + 1
    <3>1. d \in started
      BY Zenon, <1>1, <1>8, <2>2
    <3> QED
      BY Zenon, <1>1, <1>3, <2>2, <3>1 DEF TrailSound
  <2> QED
    BY Zenon, <1>2, <2>1, <2>2
<1> QED
  BY Zenon, <1>5, <1>6, <1>7, <1>8 DEF TrailSound

(* One start hook succeeds after those of its dependencies, or fails.       *)
LEMMA StartHookStep ==
  ASSUME SubsystemsAssumption, AppInv, NEW s \in Subsystems, StartHook(s)
  PROVE  AppInv'
<1> USE DEF AppInv, StartHook, Visit, Front
<1>1. AppTypeOK'
  <2>1. s \in graph /\ Append(trail, s) \in Seq(graph) /\ trail \in Seq(graph)
    BY Zenon, Extended DEF AppTypeOK
  <2>2. trail' \in Seq(graph)
    BY Zenon, <2>1
  <2> QED
    BY ZenonT(30), <2>1, <2>2 DEF AppTypeOK, Operations, States
<1>2. Phases' /\ AtRest'
  BY Zenon DEF Phases, AtRest
<1>3. TopologySound'
  BY Zenon DEF TopologySound
<1>4. Initializing'
  BY Zenon DEF Initializing, Phases
<1>5. Starting'
  <2>1. /\ state = "STARTING" /\ graph = subsystems /\ s \in graph /\ s \in initialized
        /\ s \in unvisited /\ s \notin started /\ Dependencies[s] \subseteq started
    BY Zenon DEF Phases, TopologySound, Starting, AppTypeOK
  <2>2. CASE op' = "roll back start"
    BY ZenonT(30), <2>1, <2>2 DEF Starting, TrailSound
  <2>3. CASE op' # "roll back start"
    <3>1. /\ started' = started \cup {s} /\ trail' = Append(trail, s) /\ op' = op
          /\ unvisited' = unvisited \ {s} /\ layer' \in {Front(layerOf, unvisited'), layer \ {s}}
          /\ UNCHANGED <<state, graph, initialized, subsystems, previous>>
      BY Zenon, <2>3
    <3>3. TrailSound'
      BY Zenon, <2>1, <3>1, LongerTrail DEF Starting
    <3>4. started' = graph' \ unvisited'
      BY <2>1, <3>1 DEF Starting
    <3>5. ASSUME NEW t \in layer' PROVE Dependencies[t] \cap unvisited' = {}
      <4>1. unvisited' \in SUBSET graph
        BY Zenon, <3>1 DEF AppTypeOK
      <4> HIDE DEF Front
      <4>2. CASE t \in Front(layerOf, unvisited')
        BY Zenon, <4>1, <4>2, FrontReady
      <4>3. CASE t \in layer \ {s}
        BY Zenon, <3>1, <4>3 DEF Starting
      <4> QED
        BY Zenon, <3>1, <3>5, <4>2, <4>3
    <3> QED
      BY Zenon, <2>1, <3>1, <3>3, <3>4, <3>5 DEF Starting
  <2> QED
    BY Zenon, <2>2, <2>3
<1>6. Stopping'
  BY Zenon DEF Stopping
<1>7. Terminating'
  BY Zenon DEF Terminating
<1>8. StateTruthful'
  BY Zenon DEF StateTruthful, Phases, TopologySound, Starting
<1> QED
  BY Zenon, <1>1, <1>2, <1>3, <1>4, <1>5, <1>6, <1>7, <1>8

(* start() returns with every subsystem running.                            *)
LEMMA StartedStep ==
  ASSUME SubsystemsAssumption, AppInv, Started
  PROVE  AppInv'
<1> USE DEF AppInv, Started, Return
<1>1. AppTypeOK'
  BY Zenon, ReturnTyped DEF States
<1>2. Phases' /\ AtRest'
  BY Zenon DEF Phases, AtRest
<1>3. TopologySound'
  BY Zenon DEF TopologySound, Phases
<1>4. Initializing'
  BY Zenon DEF Initializing
<1>5. Starting'
  BY Zenon DEF Starting
<1>6. Stopping'
  BY Zenon DEF Stopping
<1>7. Terminating'
  BY Zenon DEF Terminating
<1>8. StateTruthful'
  BY Zenon DEF StateTruthful, Phases, Initializing, Starting, Terminating, AppTypeOK
<1> QED
  BY Zenon, <1>1, <1>2, <1>3, <1>4, <1>5, <1>6, <1>7, <1>8

(* Without its last entry the list of successful entries is still what runs, *)
(* and in dependency order: rollback_started never leaves a dependent behind. *)
LEMMA RolledBackTrail ==
  ASSUME SubsystemsAssumption, AppTypeOK, TrailSound, trail # <<>>,
         trail' = SubSeq(trail, 1, Len(trail) - 1), started' = started \ {trail[Len(trail)]}
  PROVE  TrailSound' /\ \A t \in started' : Dependencies[t] \subseteq started'
<1>1. /\ Len(trail) \in Nat \ {0} /\ Len(trail') = Len(trail) - 1
      /\ \A i \in 1..(Len(trail) - 1) : trail'[i] = trail[i]
  BY Zenon, Shortened DEF AppTypeOK
<1>2. Len(trail) \in 1..Len(trail) /\ 1..Len(trail') = 1..(Len(trail) - 1)
  BY <1>1
<1>3. \A i \in 1..Len(trail) : i \in 1..Len(trail') <=> i # Len(trail)
  BY <1>1
<1>4. \A i \in 1..Len(trail') : i \in 1..Len(trail) /\ i # Len(trail) /\ trail'[i] = trail[i]
  BY <1>1
<1>5. \A i \in 1..Len(trail'), k \in 1..Len(trail) : k < i => k \in 1..Len(trail')
  BY <1>1
<1>6. /\ \A t \in started' : \E i \in 1..Len(trail') : trail'[i] = t
      /\ \A i \in 1..Len(trail') : trail'[i] \in started'
  <2>1. ASSUME NEW t \in started' PROVE \E i \in 1..Len(trail') : trail'[i] = t
    <3>1. PICK i \in 1..Len(trail) : trail[i] = t
      BY Zenon, <2>1 DEF TrailSound
    <3>2. i # Len(trail)
      BY Zenon, <2>1, <3>1
    <3> QED
      BY Zenon, <1>3, <1>4, <3>1, <3>2
  <2>2. ASSUME NEW i \in 1..Len(trail') PROVE trail'[i] \in started'
    <3>1. trail[i] \in started /\ trail[i] # trail[Len(trail)]
      BY Zenon, <1>2, <1>4 DEF TrailSound
    <3> QED
      BY Zenon, <1>4, <3>1
  <2> QED
    BY Zenon, <2>1, <2>2
<1>7. /\ \A i, k \in 1..Len(trail') : trail'[i] = trail'[k] => i = k
      /\ \A i \in 1..Len(trail'), d \in Subsystems : d \in Dependencies[trail'[i]] =>
           \E k \in 1..Len(trail') : k < i /\ trail'[k] = d
  <2>1. ASSUME NEW i \in 1..Len(trail'), NEW k \in 1..Len(trail'), trail'[i] = trail'[k]
        PROVE  i = k
    <3>1. i \in 1..Len(trail) /\ k \in 1..Len(trail) /\ trail[i] = trail[k]
      BY Zenon, <1>4, <2>1
    <3> QED
      BY Zenon, <3>1 DEF TrailSound
  <2>2. ASSUME NEW i \in 1..Len(trail'), NEW d \in Subsystems, d \in Dependencies[trail'[i]]
        PROVE  \E k \in 1..Len(trail') : k < i /\ trail'[k] = d
    <3>1. PICK k \in 1..Len(trail) : k < i /\ trail[k] = d
      BY Zenon, <1>4, <2>2 DEF TrailSound
    <3> QED
      BY Zenon, <1>4, <1>5, <3>1
  <2> QED
    BY Zenon, <2>1, <2>2
<1>8. ASSUME NEW t \in started', NEW d \in Dependencies[t] PROVE d \in started'
  <2>1. t \in Subsystems /\ d \in Subsystems
    BY Zenon, <1>8 DEF AppTypeOK, SubsystemsAssumption
  <2> QED
    <3>1. PICK i \in 1..Len(trail') : trail'[i] = t
      BY Zenon, <1>6
    <3>2. d \in Dependencies[trail'[i]]
      BY Zenon, <3>1
    <3>3. PICK k \in 1..Len(trail') : k < i /\ trail'[k] = d
      BY ZenonT(30), <1>7, <2>1, <3>2
    <3> QED
      BY Zenon, <1>6, <3>3
<1> QED
  BY Zenon, <1>6, <1>7, <1>8 DEF TrailSound

(* rollback_started stops the last started entry, or gives up.              *)
LEMMA RollBackStartStep ==
  ASSUME SubsystemsAssumption, AppInv, RollBackStart
  PROVE  AppInv'
<1> USE DEF AppInv, RollBackStart, RollBackNext, AfterFailedRollBack, Return
<1>1. AppTypeOK'
  <2>1. CASE UNCHANGED op
    <3>1. /\ trail' = SubSeq(trail, 1, Len(trail) - 1) /\ started' \subseteq started
          /\ UNCHANGED <<state, op, previous, unvisited, layer, failed, layerFailed>>
      BY Zenon, <2>1
    <3>2. trail' \in Seq(graph)
      BY Zenon, <3>1, Shortened DEF AppTypeOK
    <3> QED
      BY Zenon, <3>1, <3>2 DEF AppTypeOK
  <2>2. CASE ~UNCHANGED op
    BY Zenon, <2>2, ReturnTyped DEF States
  <2> QED
    BY Zenon, <2>1, <2>2
<1>2. Phases' /\ AtRest'
  BY Zenon DEF Phases, AtRest
<1>3. TopologySound'
  BY Zenon DEF TopologySound
<1>4. Initializing'
  BY Zenon DEF Initializing
<1>5. Starting'
  <2>1. CASE UNCHANGED op
    BY Zenon, <2>1, RolledBackTrail DEF Starting
  <2>2. CASE ~UNCHANGED op
    BY Zenon, <2>2 DEF Starting
  <2> QED
    BY Zenon, <2>1, <2>2
<1>6. Stopping'
  BY Zenon DEF Stopping
<1>7. Terminating'
  BY Zenon DEF Terminating
<1>8. StateTruthful'
  <2>1. CASE UNCHANGED op
    BY Zenon, <2>1, RolledBackTrail DEF StateTruthful, Phases, Starting
  <2>2. CASE ~UNCHANGED op
    BY Zenon, <2>2 DEF StateTruthful
  <2> QED
    BY Zenon, <2>1, <2>2
<1> QED
  BY Zenon, <1>1, <1>2, <1>3, <1>4, <1>5, <1>6, <1>7, <1>8

(* A failed start() returns to the state it was called in.                  *)
LEMMA StartRolledBackStep ==
  ASSUME SubsystemsAssumption, AppInv, StartRolledBack
  PROVE  AppInv'
<1> USE DEF AppInv, StartRolledBack, Return
<1>1. AppTypeOK'
  BY Zenon, ReturnTyped DEF AppTypeOK
<1>2. Phases' /\ AtRest'
  BY Zenon DEF Phases, AtRest, Starting
<1>3. TopologySound'
  BY Zenon DEF TopologySound, Phases, Starting
<1>4. Initializing'
  BY Zenon DEF Initializing, Phases, Starting
<1>5. Starting'
  BY Zenon DEF Starting, Phases
<1>6. Stopping'
  BY Zenon DEF Stopping
<1>7. Terminating'
  BY Zenon DEF Terminating, Phases, Starting
<1>8. StateTruthful'
  <2>1. /\ TrailSound /\ initialized = subsystems
        /\ state' \in {"INITIALIZED", "STOPPED"}
    BY Zenon DEF Phases, Starting
  <2>2. started' = {} /\ initialized' = subsystems'
    <3>1. 1..Len(trail) = {}
      BY Zenon, NothingDone
    <3> QED
      BY Zenon, <2>1, <3>1 DEF TrailSound
  <2> QED
    BY Zenon, <2>1, <2>2 DEF StateTruthful
<1> QED
  BY Zenon, <1>1, <1>2, <1>3, <1>4, <1>5, <1>6, <1>7, <1>8

(* rollback_initialized terminates the last entry, or gives up.             *)
LEMMA RollBackInitializeStep ==
  ASSUME SubsystemsAssumption, AppInv, RollBackInitialize
  PROVE  AppInv'
<1> USE DEF AppInv, RollBackInitialize, RollBackNext, Return
<1>1. AppTypeOK'
  <2>1. CASE UNCHANGED op
    <3>1. /\ trail' = SubSeq(trail, 1, Len(trail) - 1)
          /\ started' \subseteq started /\ initialized' \subseteq initialized
          /\ UNCHANGED <<state, op, previous, unvisited, layer, failed, layerFailed>>
      BY Zenon, <2>1
    <3>2. trail' \in Seq(graph)
      BY Zenon, <3>1, Shortened DEF AppTypeOK
    <3> QED
      BY Zenon, <3>1, <3>2 DEF AppTypeOK
  <2>2. CASE ~UNCHANGED op
    BY Zenon, <2>2, ReturnTyped DEF States
  <2> QED
    BY Zenon, <2>1, <2>2
<1>2. Phases' /\ AtRest'
  BY Zenon DEF Phases, AtRest
<1>3. TopologySound'
  BY Zenon DEF TopologySound
<1>4. Initializing'
  BY Zenon DEF Initializing
<1>5. Starting'
  BY Zenon DEF Starting, Phases
<1>6. Stopping'
  BY Zenon DEF Stopping
<1>7. Terminating'
  BY Zenon DEF Terminating
<1>8. StateTruthful'
  BY Zenon DEF StateTruthful, Phases, Initializing
<1> QED
  BY Zenon, <1>1, <1>2, <1>3, <1>4, <1>5, <1>6, <1>7, <1>8

(* A failed initialize() leaves the application crashed.                    *)
LEMMA InitializeRolledBackStep ==
  ASSUME SubsystemsAssumption, AppInv, InitializeRolledBack
  PROVE  AppInv'
<1> USE DEF AppInv, InitializeRolledBack, Return
<1>1. AppTypeOK'
  BY Zenon, ReturnTyped DEF States
<1>2. Phases' /\ AtRest'
  BY Zenon DEF Phases, AtRest
<1>3. TopologySound'
  BY Zenon DEF TopologySound
<1>4. Initializing'
  BY Zenon DEF Initializing
<1>5. Starting'
  BY Zenon DEF Starting
<1>6. Stopping'
  BY Zenon DEF Stopping
<1>7. Terminating'
  BY Zenon DEF Terminating
<1>8. StateTruthful'
  BY Zenon DEF StateTruthful
<1> QED
  BY Zenon, <1>1, <1>2, <1>3, <1>4, <1>5, <1>6, <1>7, <1>8

(* stop() begins at the subsystems nothing depends on.                      *)
LEMMA StopStep ==
  ASSUME SubsystemsAssumption, AppInv, Stop
  PROVE  AppInv'
<1> USE DEF AppInv, Stop, Sweep, Rear
<1>1. AppTypeOK'
  BY Zenon DEF AppTypeOK, States, Operations
<1>2. Phases' /\ AtRest'
  BY Zenon DEF Phases, AtRest
<1>3. TopologySound'
  BY Zenon DEF TopologySound
<1>4. Initializing'
  BY Zenon DEF Initializing
<1>5. Starting'
  BY Zenon DEF Starting
<1>6. Stopping'
  <2>1. /\ layer' = Rear(layerOf, graph) /\ unvisited' = graph /\ started' \subseteq graph
        /\ ~failed' /\ ~layerFailed'
        /\ (previous' # "CRASHED" => initialized' = subsystems' /\ graph' = subsystems')
    BY Zenon DEF AppTypeOK, StateTruthful, AtRest, TopologySound
  <2> HIDE DEF Rear
  <2>2. \A s \in layer' : \A t \in unvisited' \cup started' : s \notin Dependencies[t]
    BY Zenon, <2>1, RearFree
  <2> QED
    BY Zenon, <2>1, <2>2 DEF Stopping
<1>7. Terminating'
  BY Zenon DEF Terminating
<1>8. StateTruthful'
  BY Zenon DEF StateTruthful
<1> QED
  BY Zenon, <1>1, <1>2, <1>3, <1>4, <1>5, <1>6, <1>7, <1>8

(* One stop hook succeeds or fails, in stop() or in terminate().            *)
LEMMA StopHookStep ==
  ASSUME SubsystemsAssumption, AppInv, NEW s \in Subsystems, StopHook(s)
  PROVE  AppInv'
<1> USE DEF AppInv, StopHook, BreaksAfter, Visit, Rear
<1>1. AppTypeOK'
  BY Zenon DEF AppTypeOK
<1>2. Phases' /\ AtRest'
  BY Zenon DEF Phases, AtRest
<1>3. TopologySound'
  BY Zenon DEF TopologySound
<1>4. Initializing'
  BY Zenon DEF Initializing
<1>5. Starting'
  BY Zenon DEF Starting, Phases
<1>6. Stopping'
  <2>1. SUFFICES ASSUME op = "stop" PROVE Stopping'
    BY Zenon DEF Stopping
  <2>2. PICK ok \in BOOLEAN :
          /\ s \in layer /\ (s \in started \/ ok)
          /\ started' = (IF ok THEN started \ {s} ELSE started)
          /\ failed' = (failed \/ ~ok)
          /\ IF layer = {s} /\ (layerFailed \/ ~ok)
               THEN unvisited' = {} /\ layer' = {}
               ELSE /\ unvisited' = unvisited \ {s}
                    /\ layer' = IF layer = {s} THEN Rear(layerOf, unvisited \ {s}) ELSE layer \ {s}
          /\ layerFailed' = ((layerFailed \/ ~ok) /\ layer # {s})
          /\ UNCHANGED <<op, previous, initialized, subsystems, graph>>
    BY Zenon, <2>1
  <2>3. s \in unvisited /\ layer \subseteq unvisited
    BY Zenon, <2>2 DEF AppTypeOK
  <2>4. CASE layer = {s} /\ (layerFailed \/ ~ok)
    <3>1. unvisited' = {} /\ layer' = {} /\ (failed' \/ started' = {})
      <4>1. failed'
        <5>1. CASE ok
          <6>1. layerFailed
            BY Zenon, <2>4, <5>1
          <6> QED
            BY Zenon, <2>1, <2>2, <2>3, <5>1, <6>1 DEF Stopping
        <5>2. CASE ~ok
          BY Zenon, <2>2, <5>2
        <5> QED
          BY Zenon, <5>1, <5>2
      <4> QED
        BY Zenon, <2>2, <2>4, <4>1
    <3> QED
      BY Zenon, <2>1, <2>2, <3>1 DEF Stopping
  <2>5. CASE layer = {s} /\ ~layerFailed /\ ok
    <3>1. /\ ~failed /\ started' \subseteq unvisited' /\ ~failed'
          /\ layer' = Rear(layerOf, unvisited') /\ unvisited' \in SUBSET graph
      BY Zenon, <2>1, <2>2, <2>3, <2>5 DEF Stopping, AppTypeOK
    <3> HIDE DEF Rear
    <3>2. \A x \in layer' : \A t \in unvisited' \cup started' : x \notin Dependencies[t]
      BY Zenon, <3>1, RearFree
    <3> QED
      BY Zenon, <2>1, <2>2, <2>5, <3>1, <3>2 DEF Stopping
  <2>6. CASE layer # {s}
    <3>1. started' \subseteq started /\ unvisited' = unvisited \ {s} /\ layer' = layer \ {s}
      BY Zenon, <2>2, <2>6
    <3>2. \A x \in layer' : \A t \in unvisited' \cup started' : x \notin Dependencies[t]
      BY Zenon, <2>1, <3>1 DEF Stopping
    <3>3. /\ ~failed' => started' \subseteq unvisited'
          /\ failed' => layerFailed' \/ unvisited' = {}
          /\ layerFailed' => failed'
      BY Zenon, <2>1, <2>2, <2>3, <2>6, <3>1 DEF Stopping
    <3> QED
      BY Zenon, <2>1, <2>2, <3>2, <3>3 DEF Stopping
  <2> QED
    BY Zenon, <2>4, <2>5, <2>6
<1>7. Terminating'
  BY Zenon DEF Terminating
<1>8. StateTruthful'
  <2>1. state' \in {"STOPPING", "TERMINATING"} /\ (~tornDown' => op = "stop" /\ ~tornDown)
    BY Zenon DEF Phases, Terminating
  <2>2. s \in layer /\ started' \in {started, started \ {s}}
    BY Zenon
  <2>3. op = "stop" => \A t \in started : s \notin Dependencies[t]
    BY Zenon, <2>2 DEF Stopping
  <2> QED
    BY Zenon, <2>1, <2>2, <2>3 DEF StateTruthful
<1> QED
  BY Zenon, <1>1, <1>2, <1>3, <1>4, <1>5, <1>6, <1>7, <1>8

(* stop() returns with no subsystem running, or crashed.                    *)
LEMMA StoppedStep ==
  ASSUME SubsystemsAssumption, AppInv, Stopped
  PROVE  AppInv'
<1> USE DEF AppInv, Stopped, Return
<1>1. AppTypeOK'
  BY Zenon, ReturnTyped DEF States
<1>2. Phases' /\ AtRest'
  BY Zenon DEF Phases, AtRest
<1>3. TopologySound'
  BY Zenon DEF TopologySound, Stopping
<1>4. Initializing'
  BY Zenon DEF Initializing
<1>5. Starting'
  BY Zenon DEF Starting
<1>6. Stopping'
  BY Zenon DEF Stopping
<1>7. Terminating'
  BY Zenon DEF Terminating
<1>8. StateTruthful'
  BY Zenon DEF StateTruthful, Stopping
<1> QED
  BY Zenon, <1>1, <1>2, <1>3, <1>4, <1>5, <1>6, <1>7, <1>8

(* terminate() begins, from a state that lets it act.                       *)
LEMMA TerminateStep ==
  ASSUME SubsystemsAssumption, AppInv, Terminate
  PROVE  AppInv'
<1> USE DEF AppInv, Terminate, Sweep, Rear
<1>1. AppTypeOK'
  BY Zenon DEF AppTypeOK, States, Operations
<1>2. Phases' /\ AtRest'
  BY Zenon DEF Phases, AtRest
<1>3. TopologySound'
  BY Zenon DEF TopologySound
<1>4. Initializing'
  BY Zenon DEF Initializing
<1>5. Starting'
  BY Zenon DEF Starting
<1>6. Stopping'
  BY Zenon DEF Stopping
<1>7. Terminating'
  BY Zenon DEF Terminating, AppTypeOK
<1>8. StateTruthful'
  BY Zenon DEF StateTruthful, TopologySound, AppTypeOK
<1> QED
  BY Zenon, <1>1, <1>2, <1>3, <1>4, <1>5, <1>6, <1>7, <1>8

(* terminate() goes from stopping to terminating.                           *)
LEMMA AllStoppedStep ==
  ASSUME SubsystemsAssumption, AppInv, AllStopped
  PROVE  AppInv'
<1> USE DEF AppInv, AllStopped, AfterStop, Sweep, Rear
<1>1. AppTypeOK'
  BY Zenon DEF AppTypeOK, Operations
<1>2. Phases' /\ AtRest'
  BY Zenon DEF Phases, AtRest
<1>3. TopologySound'
  BY Zenon DEF TopologySound
<1>4. Initializing'
  BY Zenon DEF Initializing
<1>5. Starting'
  BY Zenon DEF Starting, Phases
<1>6. Stopping'
  BY Zenon DEF Stopping
<1>7. Terminating'
  BY Zenon DEF Terminating, AppTypeOK
<1>8. StateTruthful'
  BY Zenon DEF StateTruthful
<1> QED
  BY Zenon, <1>1, <1>2, <1>3, <1>4, <1>5, <1>6, <1>7, <1>8

(* One terminate hook succeeds or fails; the loop goes on.                  *)
LEMMA TerminateHookStep ==
  ASSUME SubsystemsAssumption, AppInv, NEW s \in Subsystems, TerminateHook(s)
  PROVE  AppInv'
<1> USE DEF AppInv, TerminateHook, Visit, Rear
<1>1. AppTypeOK'
  BY Zenon DEF AppTypeOK
<1>2. Phases' /\ AtRest'
  BY Zenon DEF Phases, AtRest
<1>3. TopologySound'
  BY Zenon DEF TopologySound
<1>4. Initializing'
  BY Zenon DEF Initializing
<1>5. Starting'
  BY Zenon DEF Starting, Phases
<1>6. Stopping'
  BY Zenon DEF Stopping
<1>7. Terminating'
  BY DEF Terminating
<1>8. StateTruthful'
  BY Zenon DEF StateTruthful, Phases, Terminating
<1> QED
  BY Zenon, <1>1, <1>2, <1>3, <1>4, <1>5, <1>6, <1>7, <1>8

(* terminate() returns with nothing left, or crashed.                       *)
LEMMA TerminatedStep ==
  ASSUME SubsystemsAssumption, AppInv, Terminated
  PROVE  AppInv'
<1> USE DEF AppInv, Terminated, Return
<1>1. AppTypeOK'
  BY Zenon, ReturnTyped DEF States
<1>2. Phases' /\ AtRest'
  BY Zenon DEF Phases, AtRest
<1>3. TopologySound'
  BY Zenon DEF TopologySound
<1>4. Initializing'
  BY Zenon DEF Initializing
<1>5. Starting'
  BY Zenon DEF Starting
<1>6. Stopping'
  BY Zenon DEF Stopping
<1>7. Terminating'
  BY Zenon DEF Terminating, Phases
<1>8. StateTruthful'
  BY Zenon DEF StateTruthful, Terminating
<1> QED
  BY Zenon, <1>1, <1>2, <1>3, <1>4, <1>5, <1>6, <1>7, <1>8

(* Initially nothing is registered and no operation runs.                   *)
LEMMA AppInvInit == AppInit => AppInv
<1> SUFFICES ASSUME AppInit PROVE AppInv
  BY Zenon
<1>1. <<>> \in Seq({})
  OBVIOUS
<1>2. AppTypeOK
  BY Zenon, <1>1 DEF AppInit, AppTypeOK, States, Operations
<1>3. Phases /\ AtRest /\ TopologySound /\ Initializing /\ Starting
  BY Zenon DEF AppInit, Phases, AtRest, TopologySound, Initializing, Starting
<1>4. Stopping /\ Terminating /\ StateTruthful
  BY Zenon DEF AppInit, Stopping, Terminating, StateTruthful
<1> QED
  BY Zenon, <1>2, <1>3, <1>4 DEF AppInv

(* A step that changes nothing.                                             *)
LEMMA AppStutter == AppInv /\ UNCHANGED appVars => AppInv'
<1> SUFFICES ASSUME AppInv, UNCHANGED appVars PROVE AppInv'
  BY Zenon
<1> USE DEF AppInv, appVars, loopVars
<1>1. AppTypeOK' /\ Phases' /\ AtRest'
  BY Zenon DEF AppTypeOK, Phases, AtRest
<1>2. TopologySound' /\ Initializing'
  BY Zenon DEF TopologySound, Initializing
<1>3. Starting'
  BY ZenonT(30) DEF Starting, TrailSound
<1>4. Stopping' /\ Terminating' /\ StateTruthful'
  BY Zenon DEF Stopping, Terminating, StateTruthful
<1> QED
  BY Zenon, <1>1, <1>2, <1>3, <1>4

(* Between lifecycle operations AppState::state() says what the subsystems  *)
(* do, and until terminate() no subsystem runs without its dependencies,    *)
(* whatever the dependencies are and whichever hooks fail.                  *)
THEOREM StateCorrect == ASSUME SubsystemsAssumption PROVE AppSpec => []StateTruthful
<1>1. ASSUME AppInv, [AppNext]_appVars PROVE AppInv'
  <2>1. ASSUME NEW s \in Subsystems, Register(s) \/ Hook(s) PROVE AppInv'
    BY Zenon, <1>1, <2>1, RegisterStep, InitializeHookStep, StartHookStep, StopHookStep,
       TerminateHookStep DEF Hook
  <2>2. ASSUME Initialize \/ Start \/ Stop \/ Terminate PROVE AppInv'
    BY Zenon, <1>1, <2>2, InitializeStep, StartStep, StopStep, TerminateStep
  <2>3. ASSUME Initialized \/ Started \/ Stopped \/ AllStopped \/ Terminated PROVE AppInv'
    BY Zenon, <1>1, <2>3, InitializedStep, StartedStep, StoppedStep, AllStoppedStep,
       TerminatedStep
  <2>4. ASSUME \/ RollBackStart \/ StartRolledBack
               \/ RollBackInitialize \/ InitializeRolledBack
        PROVE  AppInv'
    BY Zenon, <1>1, <2>4, RollBackStartStep, StartRolledBackStep, RollBackInitializeStep,
       InitializeRolledBackStep
  <2>5. CASE UNCHANGED appVars
    BY Zenon, <1>1, <2>5, AppStutter
  <2> QED
    BY Zenon, <1>1, <2>1, <2>2, <2>3, <2>4, <2>5 DEF AppNext, Proceed, Finished
<1>2. AppInv => StateTruthful
  BY Zenon DEF AppInv
<1> QED
  BY <1>1, <1>2, AppInvInit, PTL DEF AppSpec

-----------------------------------------------------------------------------
\* Metronome

(***************************************************************************)
(* The inductive invariant.  At most one lifecycle is owned, by the call in *)
(* progress or by the Metronome between calls; only that one may have a     *)
(* name, a channel, a pending heartbeat or a periodic job.  A tick that     *)
(* found its channel detached is harmless because stop() and the failed     *)
(* start() clear running before they let the channel go.                    *)
(***************************************************************************)

LifeType ==
  [running : BOOLEAN, active : BOOLEAN, attached : BOOLEAN, scheduled : BOOLEAN,
   job : {"none", "queued", "check", "transmit", "recheck", "done"}]

HeartTyped ==
  /\ life \in [Lives -> LifeType]
  /\ route \in Lives \cup {NoLife, Other}
  /\ tick \in Lives \cup {NoLife}
  /\ call \in [at : {"free", "schedule", "cancel", "erase", "detach", "drain"},
               life : Lives \cup {NoLife}]
  /\ starts \in 0..MaxLives /\ terminated \in BOOLEAN

Owner == IF call = Free THEN tick ELSE call.life

\* The call in progress works on a lifecycle, and on what state points to.
CallSound ==
  /\ call.at = "free" => call = Free
  /\ call.at # "free" => /\ call.life \in Lives /\ call.life <= starts
                         /\ tick \in {NoLife, call.life}
  /\ call.at = "schedule" => tick = NoLife /\ ~life[call.life].active
  /\ tick # NoLife => tick <= starts

\* stop() and a failed start() take a lifecycle down in this order.
Teardown ==
  LET g == call.life IN
  /\ call.at \in {"cancel", "erase", "detach", "drain"} => ~life[g].running
  /\ call.at \in {"erase", "detach", "drain"} => ~life[g].active
  /\ call.at \in {"detach", "drain"} => route \notin Lives
  /\ call.at = "drain" => ~life[g].attached

\* Nothing but ticks of their own is left of the other lifecycles.
OthersQuiet ==
  /\ \A g \in Lives : g # Owner => ~life[g].attached /\ ~life[g].scheduled /\ ~life[g].active
  /\ route \in Lives => route = Owner
  /\ \A g \in Lives : g > starts => life[g].job = "none"

TicksHarmless ==
  \A g \in Lives : /\ life[g].running => life[g].attached
                   /\ life[g].job = "recheck" => ~life[g].running

HeartInv == HeartTyped /\ ~terminated /\ CallSound /\ Teardown /\ OthersQuiet /\ TicksHarmless

-----------------------------------------------------------------------------

(* A Metronome that was never started.                                      *)
LEMMA HeartInit == ASSUME MaxLives \in Nat PROVE HeartbeatInit => HeartInv
<1> SUFFICES ASSUME HeartbeatInit
             PROVE  HeartInv
  BY Zenon
<1>1. /\ FreshLife \in LifeType /\ life \in [Lives -> LifeType]
      /\ \A g \in Lives : life[g] = FreshLife
      /\ ~terminated /\ terminated \in BOOLEAN
  BY Zenon DEF HeartbeatInit, LifeType, FreshLife
<1>2. HeartTyped
  BY <1>1 DEF HeartbeatInit, HeartTyped, NoLife, Free
<1>3. route \notin Lives /\ call.at = "free" /\ call = Free
  BY DEF HeartbeatInit, Free, Lives, NoLife
<1> QED
  BY Zenon, <1>1, <1>2, <1>3 DEF HeartbeatInit, HeartInv, CallSound, Teardown, OthersQuiet,
     TicksHarmless, FreshLife, Free

(* A step that changes nothing keeps the invariant.                         *)
LEMMA HeartStutter == HeartInv /\ UNCHANGED heartbeatVars => HeartInv'
  BY DEF heartbeatVars, HeartInv, HeartTyped, CallSound, Teardown, OthersQuiet, TicksHarmless,
     Owner

(* start: a new lifecycle gets the channel when the name is free.           *)
LEMMA HeartStartStep ==
  ASSUME MaxLives \in Nat, HeartInv, start
  PROVE  HeartInv'
<1> DEFINE g == starts + 1
<1>1. /\ call = Free /\ tick = NoLife /\ starts < MaxLives /\ starts' = g
      /\ UNCHANGED <<tick, terminated>> /\ HeartTyped
      /\ starts \in Nat /\ g \in Lives /\ g > starts /\ starts' \in 0..MaxLives
  BY DEF start, HeartInv, HeartTyped, Lives
<1>2. /\ \A h \in Lives : ~life[h].attached /\ ~life[h].scheduled /\ ~life[h].active
                            /\ ~life[h].running
      /\ route \notin Lives /\ call.at = "free"
      /\ \A h \in Lives : h >= g => life[h].job = "none"
  <2>1. Owner = tick /\ \A h \in Lives : h # tick
    BY <1>1 DEF Owner, Lives, NoLife
  <2>2. \A h \in Lives : h >= g => h > starts
    BY <1>1 DEF Lives
  <2>3. call.at = "free"
    BY Zenon, <1>1 DEF Free
  <2>4. \A h \in Lives : ~life[h].attached /\ ~life[h].scheduled /\ ~life[h].active
    BY Zenon, <2>1 DEF HeartInv, OthersQuiet
  <2>5. \A h \in Lives : ~life[h].running
    BY <2>4 DEF HeartInv, TicksHarmless
  <2>6. route \notin Lives
    BY Zenon, <2>1 DEF HeartInv, OthersQuiet
  <2>7. \A h \in Lives : h >= g => life[h].job = "none"
    BY Zenon, <2>2 DEF HeartInv, OthersQuiet
  <2> QED
    BY Zenon, <2>3, <2>4, <2>5, <2>6, <2>7
<1>3. CASE route = NoLife
  <2>1. /\ life' = [life EXCEPT ![g].attached = TRUE, ![g].running = TRUE]
        /\ route' = g /\ call' = [at |-> "schedule", life |-> g]
    BY Zenon, <1>3 DEF start, CallAt
  <2>2. /\ life' \in [Lives -> LifeType]
        /\ \A h \in Lives : h # g => life'[h] = life[h]
        /\ life'[g].attached /\ ~life'[g].active /\ life'[g].job = "none"
    <3> DEFINE new == [life[g] EXCEPT !.attached = TRUE, !.running = TRUE]
    <3>1. life' = [life EXCEPT ![g] = new]
      BY Zenon, <1>1, <2>1
    <3>2. new \in LifeType /\ new.active = life[g].active /\ new.job = life[g].job
      BY ZenonT(30), <1>1 DEF HeartTyped, LifeType
    <3>3. new.attached
      BY Zenon, <1>1 DEF HeartTyped, LifeType
    <3> HIDE DEF new
    <3> QED
      BY <1>1, <1>2, <3>1, <3>2, <3>3 DEF HeartTyped
  <2>3. HeartTyped' /\ call'.at = "schedule" /\ call'.life = g
    BY Zenon, <1>1, <2>1, <2>2 DEF HeartTyped
  <2>4. CallSound' /\ Teardown'
    BY <1>1, <2>1, <2>2, <2>3 DEF CallSound, Teardown
  <2>5. Owner' = g
    BY Zenon, <2>1, <2>3 DEF Owner, Free
  <2>6. OthersQuiet'
    BY <1>1, <1>2, <2>1, <2>2, <2>5 DEF OthersQuiet, Lives
  <2>7. TicksHarmless'
    BY Zenon, <1>2, <2>2 DEF TicksHarmless
  <2> QED
    BY Zenon, <1>1, <2>3, <2>4, <2>6, <2>7 DEF HeartInv
<1>4. CASE route # NoLife
  <2>1. UNCHANGED <<life, route, call, tick, terminated>>
    BY Zenon, <1>1, <1>4 DEF start
  <2>2. HeartTyped' /\ Owner' = Owner
    BY Zenon, <1>1, <2>1 DEF HeartTyped, Owner
  <2>3. CallSound' /\ Teardown' /\ OthersQuiet' /\ TicksHarmless'
    BY <1>1, <1>2, <2>1, <2>2 DEF HeartInv, CallSound, Teardown, OthersQuiet, TicksHarmless, Lives
  <2> QED
    BY Zenon, <1>1, <2>2, <2>3 DEF HeartInv
<1> QED
  BY Zenon, <1>3, <1>4

(* scheduler.every accepts the tick or refuses it; a refusal is torn down.  *)
LEMMA ScheduleStep ==
  ASSUME MaxLives \in Nat, HeartInv, Schedule
  PROVE  HeartInv'
<1> DEFINE g == call.life
<1>1. /\ call.at = "schedule" /\ g \in Lives /\ g <= starts /\ tick = NoLife /\ HeartTyped
      /\ UNCHANGED <<route, starts, terminated>> /\ ~life[g].active /\ Owner = g
      /\ g # NoLife
  BY DEF Schedule, HeartInv, CallSound, Owner, Free, Lives, NoLife
<1> HIDE DEF g
<1>2. CASE /\ life' = [life EXCEPT ![g].active = TRUE, ![g].job = "queued"]
           /\ tick' = g /\ call' = Free
  <2>1. /\ life' \in [Lives -> LifeType]
        /\ \A h \in Lives : h # g => life'[h] = life[h]
        /\ life'[g].running = life[g].running /\ life'[g].attached = life[g].attached
        /\ life'[g].job = "queued"
    <3> DEFINE new == [life[g] EXCEPT !.active = TRUE, !.job = "queued"]
    <3>1. life' = [life EXCEPT ![g] = new]
      BY Zenon, <1>1, <1>2
    <3>2. new \in LifeType /\ new.running = life[g].running /\ new.attached = life[g].attached
      BY ZenonT(30), <1>1 DEF HeartTyped, LifeType
    <3>3. new.job = "queued"
      BY Zenon, <1>1 DEF HeartTyped, LifeType
    <3> HIDE DEF new
    <3> QED
      BY Zenon, <1>1, <3>1, <3>2, <3>3 DEF HeartTyped
  <2>2. HeartTyped' /\ call'.at = "free" /\ Owner' = g
    BY Zenon, <1>1, <1>2, <2>1 DEF HeartTyped, Free, Owner
  <2>3. CallSound' /\ Teardown'
    BY Zenon, <1>1, <1>2, <2>2 DEF CallSound, Teardown
  <2>4. OthersQuiet'
    BY <1>1, <1>2, <2>1, <2>2 DEF HeartInv, HeartTyped, OthersQuiet, Lives
  <2>5. TicksHarmless'
    BY Zenon, <2>1 DEF HeartInv, TicksHarmless
  <2> QED
    BY Zenon, <1>1, <2>2, <2>3, <2>4, <2>5 DEF HeartInv
<1>3. CASE /\ life' = [life EXCEPT ![g].running = FALSE]
           /\ call' = [at |-> "erase", life |-> g] /\ UNCHANGED tick
  <2>1. /\ life' \in [Lives -> LifeType]
        /\ \A h \in Lives : h # g => life'[h] = life[h]
        /\ ~life'[g].running /\ life'[g].active = life[g].active
        /\ life'[g].job = life[g].job
    BY ZenonT(30), <1>1, <1>3 DEF HeartTyped, LifeType
  <2>2. HeartTyped' /\ call'.at = "erase" /\ call'.life = g
    BY Zenon, <1>1, <1>3, <2>1 DEF HeartTyped
  <2>3. CallSound' /\ Teardown'
    BY Zenon, <1>1, <1>3, <2>1, <2>2 DEF CallSound, Teardown
  <2>4. Owner' = g
    BY <2>2 DEF Owner, Free
  <2>5. OthersQuiet'
    BY Zenon, <1>1, <1>3, <2>1, <2>4 DEF HeartInv, OthersQuiet
  <2>6. TicksHarmless'
    BY Zenon, <2>1 DEF HeartInv, TicksHarmless
  <2> QED
    BY Zenon, <1>1, <2>2, <2>3, <2>5, <2>6 DEF HeartInv
<1> QED
  BY Zenon, <1>2, <1>3 DEF Schedule, CallAt, g

(* stop() clears running first.                                             *)
LEMMA HeartStopStep ==
  ASSUME MaxLives \in Nat, HeartInv, stop
  PROVE  HeartInv'
<1> USE DEF HeartInv, stop, CallAt
<1>1. HeartTyped'
  BY ZenonT(30) DEF HeartTyped, LifeType, CallSound, Lives, NoLife, Other, Free
<1>2. CallSound'
  BY Zenon DEF HeartTyped, LifeType, CallSound, OthersQuiet, Owner, Lives, NoLife, Free
<1>3. Teardown'
  BY Zenon DEF HeartTyped, LifeType, CallSound, Teardown, OthersQuiet, Owner, Lives, NoLife,
     Other, Free
<1>4. OthersQuiet'
  BY Zenon DEF HeartTyped, LifeType, CallSound, Teardown, OthersQuiet, Owner, Lives, NoLife,
     Other, Free
<1>5. TicksHarmless'
  BY DEF HeartTyped, LifeType, CallSound, Teardown, OthersQuiet, TicksHarmless, Lives, NoLife,
     Free
<1> QED
  BY Zenon, <1>1, <1>2, <1>3, <1>4, <1>5

(* stop() cancels the periodic job.                                         *)
LEMMA CancelStep ==
  ASSUME MaxLives \in Nat, HeartInv, Cancel
  PROVE  HeartInv'
<1> USE DEF HeartInv, Cancel, CallAt
<1>1. HeartTyped'
  BY ZenonT(30) DEF HeartTyped, LifeType, CallSound, Lives, NoLife, Other, Free
<1>2. CallSound'
  BY Zenon DEF HeartTyped, LifeType, CallSound, OthersQuiet, Owner, Lives, NoLife, Free
<1>3. Teardown'
  BY DEF HeartTyped, LifeType, CallSound, Teardown, OthersQuiet, Owner, Lives, NoLife, Other, Free
<1>4. OthersQuiet'
  BY DEF HeartTyped, LifeType, CallSound, Teardown, OthersQuiet, Owner, Lives, NoLife, Other, Free
<1>5. TicksHarmless'
  BY ZenonT(30) DEF HeartTyped, LifeType, CallSound, Teardown, OthersQuiet, TicksHarmless,
     Lives, NoLife, Free
<1> QED
  BY Zenon, <1>1, <1>2, <1>3, <1>4, <1>5

(* close_channel removes the name of the lifecycle being torn down.         *)
LEMMA EraseStep ==
  ASSUME MaxLives \in Nat, HeartInv, Erase
  PROVE  HeartInv'
<1> USE DEF HeartInv, Erase, CallAt
<1>1. HeartTyped'
  BY Zenon DEF HeartTyped, LifeType, CallSound, Lives, NoLife, Other, Free
<1>2. CallSound'
  BY Zenon DEF HeartTyped, LifeType, CallSound, OthersQuiet, Owner, Lives, NoLife, Free
<1>3. Teardown'
  BY DEF HeartTyped, LifeType, CallSound, Teardown, OthersQuiet, Owner, Lives, NoLife, Other, Free
<1>4. OthersQuiet'
  BY DEF HeartTyped, LifeType, CallSound, Teardown, OthersQuiet, Owner, Lives, NoLife, Other, Free
<1>5. TicksHarmless'
  BY Zenon DEF HeartTyped, LifeType, CallSound, Teardown, OthersQuiet, TicksHarmless, Lives,
     NoLife, Free
<1> QED
  BY Zenon, <1>1, <1>2, <1>3, <1>4, <1>5

(* The channel is detached when running is already false.                   *)
LEMMA DetachStep ==
  ASSUME MaxLives \in Nat, HeartInv, DetachChannel
  PROVE  HeartInv'
<1> USE DEF HeartInv, DetachChannel, CallAt
<1>1. HeartTyped'
  BY ZenonT(30) DEF HeartTyped, LifeType, CallSound, Lives, NoLife, Other, Free
<1>2. CallSound'
  BY Zenon DEF HeartTyped, LifeType, CallSound, OthersQuiet, Owner, Lives, NoLife, Free
<1>3. Teardown'
  BY DEF HeartTyped, LifeType, CallSound, Teardown, OthersQuiet, Owner, Lives, NoLife, Other, Free
<1>4. OthersQuiet'
  BY DEF HeartTyped, LifeType, CallSound, Teardown, OthersQuiet, Owner, Lives, NoLife, Other, Free
<1>5. TicksHarmless'
  BY Zenon DEF HeartTyped, LifeType, CallSound, Teardown, OthersQuiet, TicksHarmless, Lives,
     NoLife, Free
<1> QED
  BY Zenon, <1>1, <1>2, <1>3, <1>4, <1>5

(* The wait for the delivery is over: the lifecycle is owned no more.       *)
LEMMA DrainedStep ==
  ASSUME MaxLives \in Nat, HeartInv, ChannelDrained
  PROVE  HeartInv'
<1> USE DEF HeartInv, ChannelDrained
<1>1. HeartTyped'
  BY Zenon DEF HeartTyped, LifeType, CallSound, Lives, NoLife, Other, Free
<1>2. CallSound'
  BY Zenon DEF HeartTyped, LifeType, CallSound, OthersQuiet, Owner, Lives, NoLife, Free
<1>3. Teardown'
  BY Zenon DEF HeartTyped, LifeType, CallSound, Teardown, OthersQuiet, Owner, Lives, NoLife,
     Other, Free
<1>4. OthersQuiet'
  BY Zenon DEF HeartTyped, LifeType, CallSound, Teardown, OthersQuiet, Owner, Lives, NoLife,
     Other, Free
<1>5. TicksHarmless'
  BY Zenon DEF HeartTyped, LifeType, CallSound, Teardown, OthersQuiet, TicksHarmless, Lives,
     NoLife, Free
<1> QED
  BY Zenon, <1>1, <1>2, <1>3, <1>4, <1>5

(* Another owner of the name never displaces a lifecycle.                   *)
LEMMA ForeignStep ==
  ASSUME MaxLives \in Nat, HeartInv, Foreign
  PROVE  HeartInv'
<1> USE DEF HeartInv, Foreign
<1>1. HeartTyped'
  BY Zenon DEF HeartTyped, LifeType, CallSound, Lives, NoLife, Other, Free
<1>2. CallSound'
  BY Zenon DEF HeartTyped, LifeType, CallSound, OthersQuiet, Owner, Lives, NoLife, Free
<1>3. Teardown'
  BY DEF HeartTyped, LifeType, CallSound, Teardown, OthersQuiet, Owner, Lives, NoLife, Other, Free
<1>4. OthersQuiet'
  BY DEF HeartTyped, LifeType, CallSound, Teardown, OthersQuiet, Owner, Lives, NoLife, Other, Free
<1>5. TicksHarmless'
  BY Zenon DEF HeartTyped, LifeType, CallSound, Teardown, OthersQuiet, TicksHarmless, Lives,
     NoLife, Free
<1> QED
  BY Zenon, <1>1, <1>2, <1>3, <1>4, <1>5

(* The periodic entry is due.                                               *)
LEMMA TakeStep ==
  ASSUME MaxLives \in Nat, HeartInv, NEW g \in Lives, TakeTick(g)
  PROVE  HeartInv'
<1> USE DEF HeartInv, TakeTick, Set
<1>1. HeartTyped'
  BY DEF HeartTyped, LifeType
<1>2. CallSound' /\ Teardown'
  BY Zenon DEF HeartTyped, LifeType, CallSound, Teardown
<1>3. OthersQuiet'
  BY ZenonT(30) DEF HeartTyped, LifeType, OthersQuiet, Owner
<1>4. TicksHarmless' /\ ~terminated'
  BY Zenon DEF HeartTyped, LifeType, TicksHarmless
<1> QED
  BY Zenon, <1>1, <1>2, <1>3, <1>4

(* publish_tick tests running.                                              *)
LEMMA CheckStep ==
  ASSUME MaxLives \in Nat, HeartInv, NEW g \in Lives, Check(g)
  PROVE  HeartInv'
<1> USE DEF HeartInv, Check, Set
<1>1. HeartTyped'
  BY DEF HeartTyped, LifeType
<1>2. CallSound' /\ Teardown'
  BY Zenon DEF HeartTyped, LifeType, CallSound, Teardown
<1>3. OthersQuiet'
  BY Zenon DEF HeartTyped, LifeType, OthersQuiet, Owner
<1>4. TicksHarmless' /\ ~terminated'
  BY ZenonT(30) DEF HeartTyped, LifeType, TicksHarmless
<1> QED
  BY Zenon, <1>1, <1>2, <1>3, <1>4

(* transmit() fails only when the channel is detached, and so not running.  *)
LEMMA TransmitStep ==
  ASSUME MaxLives \in Nat, HeartInv, NEW g \in Lives, Transmit(g)
  PROVE  HeartInv'
<1> DEFINE place == IF life[g].attached THEN "done" ELSE "recheck"
           pending == life[g].scheduled \/ life[g].attached
           new == [life[g] EXCEPT !.job = place, !.scheduled = pending]
<1>1. /\ life[g].job = "transmit" /\ UNCHANGED <<route, tick, call, starts, terminated>>
      /\ HeartTyped /\ life[g] \in LifeType
  BY Zenon DEF Transmit, HeartInv, HeartTyped
<1>2. life' = [life EXCEPT ![g] = new]
  BY Zenon DEF Transmit, HeartInv, HeartTyped
<1>3. place \in {"done", "recheck"} /\ pending \in BOOLEAN
  BY Zenon
<1>4. new \in LifeType
  <2> HIDE DEF place, pending
  <2> QED
    BY Zenon, <1>1, <1>3 DEF LifeType
<1>5. /\ new.running = life[g].running /\ new.attached = life[g].attached
      /\ new.active = life[g].active
      /\ new.job \in {"done", "recheck"} /\ (new.job = "recheck" => ~life[g].attached)
  BY Zenon, <1>1 DEF LifeType
<1>6. new.scheduled => pending
  BY Zenon, <1>1 DEF LifeType
<1> HIDE DEF new
<1>7. /\ life' \in [Lives -> LifeType] /\ life'[g] = new
      /\ \A h \in Lives : h # g => life'[h] = life[h]
  BY Zenon, <1>1, <1>2, <1>4 DEF HeartTyped
<1>8. HeartTyped' /\ Owner' = Owner
  BY Zenon, <1>1, <1>7 DEF HeartTyped, Owner
<1>9. CallSound' /\ Teardown'
  BY Zenon, <1>1, <1>5, <1>7 DEF HeartInv, CallSound, Teardown
<1>10. OthersQuiet'
  <2>1. g # Owner => ~new.attached /\ ~new.scheduled /\ ~new.active
    BY Zenon, <1>5, <1>6 DEF HeartInv, OthersQuiet
  <2>2. ~(g > starts)
    BY Zenon, <1>1 DEF HeartInv, OthersQuiet
  <2> QED
    BY Zenon, <1>1, <1>7, <1>8, <2>1, <2>2 DEF HeartInv, OthersQuiet
<1>11. TicksHarmless'
  BY Zenon, <1>1, <1>5, <1>7 DEF HeartInv, TicksHarmless
<1> QED
  BY Zenon, <1>1, <1>8, <1>9, <1>10, <1>11 DEF HeartInv

(* A failed tick finds running false.                                       *)
LEMMA RecheckStep ==
  ASSUME MaxLives \in Nat, HeartInv, NEW g \in Lives, Recheck(g)
  PROVE  HeartInv'
<1> USE DEF HeartInv, Recheck, Set
<1>1. ~life[g].running /\ life[g].running \in BOOLEAN
  <2>1. life[g] \in LifeType
    BY Zenon DEF HeartTyped
  <2>2. ~life[g].running
    BY Zenon DEF TicksHarmless
  <2> QED
    BY <2>1, <2>2 DEF LifeType
<1>2. terminated' = FALSE
  <2>1. terminated' = life[g].running
    BY Zenon
  <2>2. life[g].running = FALSE
    BY Zenon, <1>1
  <2> QED
    BY Zenon, <2>1, <2>2
<1>3. HeartTyped'
  BY ZenonT(30), <1>2 DEF HeartTyped, LifeType
<1>4. CallSound' /\ Teardown'
  BY Zenon DEF HeartTyped, LifeType, CallSound, Teardown
<1>5. OthersQuiet'
  BY ZenonT(30) DEF HeartTyped, LifeType, OthersQuiet, Owner
<1>6. TicksHarmless'
  BY Zenon DEF HeartTyped, LifeType, TicksHarmless
<1> QED
  BY Zenon, <1>2, <1>3, <1>4, <1>5, <1>6

(* The entry is queued again only while its handle is active.               *)
LEMMA RequeueStep ==
  ASSUME MaxLives \in Nat, HeartInv, NEW g \in Lives, Requeue(g)
  PROVE  HeartInv'
<1> USE DEF HeartInv, Requeue, Set
<1>1. HeartTyped'
  BY DEF HeartTyped, LifeType
<1>2. CallSound' /\ Teardown'
  BY DEF CallSound, Teardown
<1>3. OthersQuiet'
  BY DEF OthersQuiet, Owner
<1>4. TicksHarmless' /\ ~terminated'
  BY Zenon DEF HeartTyped, LifeType, TicksHarmless
<1> QED
  BY Zenon, <1>1, <1>2, <1>3, <1>4

(* A heartbeat is delivered.                                                *)
LEMMA DeliverStep ==
  ASSUME MaxLives \in Nat, HeartInv, NEW g \in Lives, Deliver(g)
  PROVE  HeartInv'
<1> USE DEF HeartInv, Deliver
<1>1. HeartTyped'
  BY ZenonT(30) DEF HeartTyped, LifeType, TicksHarmless
<1>2. CallSound' /\ Teardown'
  BY Zenon DEF HeartTyped, LifeType, CallSound, Teardown
<1>3. OthersQuiet'
  BY Zenon DEF HeartTyped, LifeType, OthersQuiet, Owner
<1>4. TicksHarmless' /\ ~terminated'
  BY ZenonT(30) DEF HeartTyped, LifeType, TicksHarmless
<1> QED
  BY Zenon, <1>1, <1>2, <1>3, <1>4

(* Every step of the Metronome and of the pool keeps the invariant.         *)
LEMMA HeartStep ==
  ASSUME MaxLives \in Nat
  PROVE  HeartInv /\ [HeartbeatNext]_heartbeatVars => HeartInv'
<1> SUFFICES ASSUME HeartInv, HeartbeatNext
             PROVE  HeartInv'
  BY Zenon, HeartStutter
<1>1. CASE start \/ Schedule \/ stop \/ Cancel
  BY Zenon, <1>1, HeartStartStep, ScheduleStep, HeartStopStep, CancelStep
<1>2. CASE Erase \/ DetachChannel \/ ChannelDrained \/ Foreign
  BY Zenon, <1>2, EraseStep, DetachStep, DrainedStep, ForeignStep
<1>3. ASSUME NEW g \in Lives,
             \/ TakeTick(g) \/ Check(g) \/ Transmit(g)
             \/ Recheck(g) \/ Requeue(g) \/ Deliver(g)
      PROVE  HeartInv'
  BY Zenon, <1>3, TakeStep, CheckStep, TransmitStep, RecheckStep, RequeueStep, DeliverStep
<1> QED
  BY Zenon, <1>1, <1>2, <1>3 DEF HeartbeatNext

(* In every reachable state of Metronome, whatever the number of restarts:  *)
(* no tick that races a stop ends the process, and when stop() or a failed  *)
(* start() has returned the name is free and nothing of the lifecycle is    *)
(* pending (metronome.cpp, publish_tick, start and stop).                   *)
THEOREM HeartbeatCorrect ==
  ASSUME MaxLives \in Nat PROVE HeartbeatSpec => []HeartbeatQuiet
<1>1. HeartInv => HeartbeatQuiet
  BY DEF HeartInv, HeartbeatQuiet, OthersQuiet, Owner, Lives, NoLife
<1> QED
  BY <1>1, HeartInit, HeartStep, PTL DEF HeartbeatSpec

-----------------------------------------------------------------------------
\* Screen

Device == [raw : BOOLEAN, modes : SUBSET Modes, size : Sizes, faults : Nat, lost : BOOLEAN,
           resizes : Nat]

SessionType == [active : BOOLEAN, modes : SUBSET Modes, saved : BOOLEAN, final : BOOLEAN,
                last : Sizes \cup {NoSize}, bound : BOOLEAN]

\* Commands that need an active session.
Drawing == {"PRESENT", "SET_CLIPBOARD", "SET_LONG_CLIPBOARD"}

Commands == {"TAKE", "RELEASE"} \cup Drawing

Stages == {"stopped", "running", "screen_stopped", "terminal_stopped", "dead"}

Deaths == {"OK", "TERMINAL_FAILED", "OUTPUT_LIMIT_EXCEEDED"}

AppRecord == [phase : Stages, death : Deaths, starts : Nat, copies : Nat]

Typed ==
  /\ screen \in [alive : BOOLEAN, requested : BOOLEAN, size : Sizes \cup {NoSize}]
  /\ commands \in Seq(Commands)
  /\ current \in Commands \cup {NoCommand}
  /\ resize \in Sizes \cup {NoSize}
  /\ session \in SessionType
  /\ tty \in Device
  /\ app \in AppRecord

\* What an active session has to undo is all that can be switched.
SessionSound == session.active => session.saved /\ session.modes = Modes

\* Outside start and stop the session has let go of the terminal and of the channel.
Unbound ==
  app.phase \in {"stopped", "terminal_stopped"} =>
    ~session.active /\ ~session.bound /\ current = NoCommand

Closed == app.phase = "stopped" => commands = <<>> /\ resize = NoSize
   
\* The Screen knows a geometry only once its TAKE was executed.
GeometryLate ==
  app.phase = "running" /\ (screen.size # NoSize \/ resize # NoSize) => session.active

\* RELEASE is sent last.
ReleaseLast ==
  /\ app.phase = "running" =>
       current # "RELEASE" /\ \A i \in 1..Len(commands) : commands[i] # "RELEASE"
  /\ app.phase = "screen_stopped" =>
       /\ current = "RELEASE" => commands = <<>>
       /\ \A i \in 1..Len(commands) : commands[i] = "RELEASE" => i = Len(commands)

\* What is pending draws only on a session that is active.
DrawsOnActive ==
  app.phase \in {"running", "screen_stopped"} =>
    /\ current \in Drawing => session.active
    /\ \A i \in 1..Len(commands) : commands[i] \in Drawing => session.active

ScreenInv ==
  /\ Typed /\ SessionSound /\ Unbound /\ Closed /\ GeometryLate /\ ReleaseLast
  /\ DrawsOnActive /\ TerminalRestored /\ DeathJustified

Restored(t) == ~t.lost => ~t.raw /\ t.modes = {}

\* What an operation on the device t may end with.
Acceptable(status, t) ==
  \/ status = "OK" \/ status = "OUTPUT_LIMIT_EXCEEDED"
  \/ status = "TERMINAL_FAILED" /\ t.faults > 0

-----------------------------------------------------------------------------

(* What write_all() may leave behind: a write that fails counts as a fault. *)
LEMMA Written ==
  ASSUME NEW t \in Device, NEW goal \in SUBSET Modes, NEW w \in write_all(t, goal)
  PROVE  /\ w[1] \in BOOLEAN /\ w[2] \in Device
         /\ w[2].raw = t.raw /\ w[2].lost = t.lost /\ w[2].size = t.size
         /\ w[2].faults >= t.faults
         /\ w[1] => w[2].modes = goal
         /\ ~w[1] => w[2].faults > 0 /\ w[2].modes \in {t.modes, goal}
<1>1. CASE w = <<TRUE, mode_sequence(t, goal)>>
  BY <1>1 DEF mode_sequence, Device
<1>2. ASSUME NEW m \in {t.modes, goal}, w = <<FALSE, Failing(mode_sequence(t, m))>>
      PROVE  /\ w[1] = FALSE /\ w[2] \in Device
             /\ w[2].raw = t.raw /\ w[2].lost = t.lost /\ w[2].size = t.size
             /\ w[2].faults = t.faults + 1 /\ w[2].modes = m
  <2>1. m \in SUBSET Modes
    BY Zenon DEF Device
  <2> DEFINE u == mode_sequence(t, m)
  <2>2. /\ u \in Device /\ u.raw = t.raw /\ u.lost = t.lost /\ u.size = t.size
        /\ u.faults = t.faults /\ u.modes = m
    BY Zenon, <2>1 DEF mode_sequence, Device
  <2> HIDE DEF u
  <2>3. /\ Failing(u) \in Device /\ Failing(u).raw = u.raw /\ Failing(u).lost = u.lost
        /\ Failing(u).size = u.size /\ Failing(u).faults = u.faults + 1
        /\ Failing(u).modes = u.modes
    BY <2>2 DEF Failing, Device
  <2> QED
    BY Zenon, <1>2, <2>2, <2>3 DEF u
<1>3. t.faults \in Nat
  BY Zenon DEF Device
<1>4. CASE \E m \in {t.modes, goal} : w = <<FALSE, Failing(mode_sequence(t, m))>>
  <2>1. PICK m \in {t.modes, goal} : w = <<FALSE, Failing(mode_sequence(t, m))>>
    BY Zenon, <1>4
  <2> QED
    BY <1>2, <1>3, <2>1
<1> QED
  BY Zenon, <1>1, <1>4 DEF write_all

(* A call that fails is counted and changes nothing else.                   *)
LEMMA FaultCounted ==
  ASSUME NEW t \in Device, NEW u \in Faulty(t)
  PROVE  /\ u \in Device /\ u.raw = t.raw /\ u.modes = t.modes /\ u.lost = t.lost
         /\ u.size = t.size /\ u.faults > 0 /\ u.faults >= t.faults
<1>1. u = Failing(t)
  BY Zenon DEF Faulty
<1> QED
  BY <1>1 DEF Failing, Device

(* tcsetattr() changes the attributes or fails and changes nothing.         *)
LEMMA Configured ==
  ASSUME NEW t \in Device, NEW raw \in BOOLEAN, NEW w \in tcsetattr(t, raw)
  PROVE  /\ w[1] \in BOOLEAN /\ w[2] \in Device
         /\ w[2].modes = t.modes /\ w[2].lost = t.lost /\ w[2].size = t.size
         /\ w[2].faults >= t.faults
         /\ w[1] => w[2].raw = raw
         /\ ~w[1] => w[2].faults > 0 /\ w[2].raw = t.raw
<1>1. CASE w = <<TRUE, [t EXCEPT !.raw = raw]>>
  BY <1>1 DEF Device
<1>2. CASE \E u \in Faulty(t) : w = <<FALSE, u>>
  <2>1. PICK u \in Faulty(t) : w = <<FALSE, u>>
    BY Zenon, <1>2
  <2>2. /\ u \in Device /\ u.raw = t.raw /\ u.modes = t.modes /\ u.lost = t.lost
        /\ u.size = t.size /\ u.faults > 0 /\ u.faults >= t.faults
    BY Zenon, FaultCounted
  <2> QED
    BY <2>1, <2>2
<1> QED
  BY Zenon, <1>1, <1>2 DEF tcsetattr

(* A restoration that failed is remembered in lost.                         *)
LEMMA Remembered ==
  ASSUME NEW w, w[1] \in BOOLEAN, w[2] \in Device
  PROVE  /\ Lost(w) \in Device
         /\ Lost(w).raw = w[2].raw /\ Lost(w).modes = w[2].modes
         /\ Lost(w).faults = w[2].faults /\ Lost(w).size = w[2].size
         /\ Lost(w).lost <=> w[2].lost \/ ~w[1]
BY Zenon DEF Lost, Device

(* The leave sequence, then the saved attributes: the terminal is as it was *)
(* found, or a failure is remembered.                                       *)
LEMMA Undone ==
  ASSUME NEW t \in Device, NEW left \in write_all(t, build_leave_sequence(Modes, t)),
         NEW attr \in tcsetattr(Lost(left), FALSE)
  PROVE  /\ Lost(attr) \in Device /\ Restored(Lost(attr))
         /\ Lost(attr).faults >= t.faults /\ Lost(attr).size = t.size
         /\ left[1] \in BOOLEAN /\ attr[1] \in BOOLEAN
         /\ ~left[1] \/ ~attr[1] => Lost(attr).faults > 0
<1>1. t.modes \in SUBSET Modes /\ t.faults \in Nat
  BY Zenon DEF Device
<1>2. build_leave_sequence(Modes, t) = {}
  BY Zenon, <1>1 DEF build_leave_sequence
<1>3. /\ left[1] \in BOOLEAN /\ left[2] \in Device
      /\ left[2].lost = t.lost /\ left[2].size = t.size /\ left[2].faults >= t.faults
      /\ left[1] => left[2].modes = {}
      /\ ~left[1] => left[2].faults > 0
  BY <1>2, Written
<1>4. /\ Lost(left) \in Device /\ Lost(left).modes = left[2].modes
      /\ Lost(left).faults = left[2].faults /\ Lost(left).size = left[2].size
      /\ Lost(left).lost <=> left[2].lost \/ ~left[1]
  BY <1>3, Remembered
<1>5. /\ attr[1] \in BOOLEAN /\ attr[2] \in Device
      /\ attr[2].modes = Lost(left).modes /\ attr[2].lost = Lost(left).lost
      /\ attr[2].size = Lost(left).size /\ attr[2].faults >= Lost(left).faults
      /\ attr[1] => attr[2].raw = FALSE
      /\ ~attr[1] => attr[2].faults > 0
  BY Zenon, <1>4, Configured
<1>6. /\ Lost(attr) \in Device
      /\ Lost(attr).raw = attr[2].raw /\ Lost(attr).modes = attr[2].modes
      /\ Lost(attr).faults = attr[2].faults /\ Lost(attr).size = attr[2].size
      /\ Lost(attr).lost <=> attr[2].lost \/ ~attr[1]
  BY <1>5, Remembered
<1>7. Restored(Lost(attr))
  BY Zenon, <1>3, <1>4, <1>5, <1>6 DEF Restored
<1>8. left[2].faults \in Nat /\ attr[2].faults \in Nat
  BY Zenon, <1>3, <1>5 DEF Device
<1> QED
  BY <1>1, <1>3, <1>4, <1>5, <1>6, <1>7, <1>8

(* TerminalSession::take() owns the terminal with all its modes, or fails   *)
(* by a fault and has undone what it did.                                   *)
LEMMA Taken ==
  ASSUME NEW s \in SessionType, NEW t \in Device, NEW r \in session_take(s, t),
         s.active => s.saved /\ s.modes = Modes, ~s.active => Restored(t)
  PROVE  /\ r[2] \in SessionType /\ r[2].bound = s.bound
         /\ r[3] \in Device /\ r[3].faults >= t.faults
         /\ r[1] # "TERMINAL_FAILED" => r[2].active /\ r[2].saved /\ r[2].modes = Modes
         /\ r[1] = "TERMINAL_FAILED" => ~r[2].active /\ Restored(r[3]) /\ r[3].faults > 0
<1>1. CASE s.active
  <2>1. r = <<"ALREADY_ACTIVE", s, t>>
    BY Zenon, <1>1 DEF session_take
  <2> QED
    BY <1>1, <2>1 DEF Device
<1>2. CASE ~s.active
  <2> DEFINE Entered(attr) ==
               UNION {IF entered[1]
                      THEN {<<"OK", [s EXCEPT !.active = TRUE, !.saved = TRUE,
                                              !.modes = build_enter_sequence], entered[2]>>}
                      ELSE TakeUndone(s, entered[2]) :
                        entered \in write_all(attr[2], build_enter_sequence)}
  <2>0. CASE \E u \in Faulty(t) : r = <<"TERMINAL_FAILED", s, u>>
    <3>1. PICK u \in Faulty(t) : r = <<"TERMINAL_FAILED", s, u>>
      BY Zenon, <2>0
    <3>2. /\ u \in Device /\ u.raw = t.raw /\ u.modes = t.modes /\ u.lost = t.lost
          /\ u.faults > 0 /\ u.faults >= t.faults
      BY Zenon, FaultCounted
    <3>3. Restored(u)
      BY Zenon, <1>2, <3>2 DEF Restored
    <3> QED
      BY <1>2, <3>1, <3>2, <3>3
  <2> SUFFICES ASSUME ~\E u \in Faulty(t) : r = <<"TERMINAL_FAILED", s, u>>
               PROVE  /\ r[2] \in SessionType /\ r[2].bound = s.bound
                      /\ r[3] \in Device /\ r[3].faults >= t.faults
                      /\ r[1] # "TERMINAL_FAILED" =>
                           r[2].active /\ r[2].saved /\ r[2].modes = Modes
                      /\ r[1] = "TERMINAL_FAILED" =>
                           ~r[2].active /\ Restored(r[3]) /\ r[3].faults > 0
    BY Zenon, <2>0
  <2>1. PICK attr \in tcsetattr(t, TRUE) :
          r \in IF ~attr[1] THEN {<<"TERMINAL_FAILED", [s EXCEPT !.saved = FALSE], attr[2]>>}
                ELSE Entered(attr)
    BY Zenon, <1>2 DEF session_take
  <2>2. /\ attr[1] \in BOOLEAN /\ attr[2] \in Device /\ t.faults \in Nat /\ attr[2].faults \in Nat
        /\ attr[2].modes = t.modes /\ attr[2].lost = t.lost
        /\ attr[2].faults >= t.faults
        /\ ~attr[1] => attr[2].faults > 0 /\ attr[2].raw = t.raw
    BY Zenon, Configured DEF Device
  <2>3. CASE ~attr[1]
    <3>1. r = <<"TERMINAL_FAILED", [s EXCEPT !.saved = FALSE], attr[2]>>
      BY Zenon, <2>1, <2>3
    <3>2. [s EXCEPT !.saved = FALSE] \in SessionType
          /\ [s EXCEPT !.saved = FALSE].bound = s.bound /\ ~[s EXCEPT !.saved = FALSE].active
      BY Zenon, <1>2 DEF SessionType
    <3>3. Restored(attr[2])
      BY Zenon, <1>2, <2>2, <2>3 DEF Restored
    <3> QED
      BY Zenon, <2>2, <2>3, <3>1, <3>2, <3>3
  <2>4. CASE attr[1]
    <3>1. PICK entered \in write_all(attr[2], Modes) :
            r \in IF entered[1]
                  THEN {<<"OK", [s EXCEPT !.active = TRUE, !.saved = TRUE, !.modes = Modes],
                          entered[2]>>}
                  ELSE TakeUndone(s, entered[2])
      BY Zenon, <2>1, <2>4 DEF build_enter_sequence
    <3>2. /\ entered[1] \in BOOLEAN /\ entered[2] \in Device /\ entered[2].faults \in Nat
          /\ entered[2].faults >= attr[2].faults
          /\ ~entered[1] => entered[2].faults > 0
      BY Zenon, <2>2, Written DEF Device
    <3>3. CASE entered[1]
      <4> DEFINE n == [s EXCEPT !.active = TRUE, !.saved = TRUE, !.modes = Modes]
      <4>1. r = <<"OK", n, entered[2]>>
        BY Zenon, <3>1, <3>3
      <4>2. n \in SessionType /\ n.bound = s.bound /\ n.active /\ n.saved /\ n.modes = Modes
        BY Zenon DEF SessionType
      <4> HIDE DEF n
      <4> QED
        BY <2>2, <3>2, <4>1, <4>2
    <3>4. CASE ~entered[1]
      <4> DEFINE n == [s EXCEPT !.modes = {}, !.saved = FALSE]
      <4>0. PICK left \in write_all(entered[2],
                                        build_leave_sequence(Modes, entered[2])) :
              \E a \in tcsetattr(Lost(left), FALSE) :
                r = <<"TERMINAL_FAILED", n, Lost(a)>>
        BY Zenon, <3>1, <3>4 DEF TakeUndone, build_enter_sequence
      <4>1. PICK a \in tcsetattr(Lost(left), FALSE) :
              r = <<"TERMINAL_FAILED", n, Lost(a)>>
        BY Zenon, <4>0
      <4>2. /\ Lost(a) \in Device /\ Restored(Lost(a))
            /\ Lost(a).faults >= entered[2].faults
        BY Zenon, <3>2, Undone
      <4>3. n \in SessionType /\ n.bound = s.bound /\ ~n.active
        BY Zenon, <1>2 DEF SessionType
      <4>4. Lost(a).faults \in Nat
        BY Zenon, <4>2 DEF Device
      <4> HIDE DEF n
      <4> QED
        BY <2>2, <3>2, <3>4, <4>1, <4>2, <4>3, <4>4
    <3> QED
      BY Zenon, <3>2, <3>3, <3>4
  <2> QED
    BY Zenon, <2>2, <2>3, <2>4
<1> QED
  BY Zenon, <1>1, <1>2

(* TerminalSession::release() ends inactive, whatever failed; a failure is  *)
(* a fault, and one of the restoration is remembered.                       *)
LEMMA LetGo ==
  ASSUME NEW s \in SessionType, NEW t \in Device, NEW r \in session_release(s, t),
         s.active => s.saved /\ s.modes = Modes, ~s.active => Restored(t)
  PROVE  /\ r[2] \in SessionType /\ r[2].bound = s.bound /\ ~r[2].active
         /\ r[3] \in Device /\ r[3].faults >= t.faults /\ Restored(r[3])
         /\ Acceptable(r[1], r[3])
<1>1. CASE ~s.active
  <2>1. r = <<"OK", s, t>>
    BY Zenon, <1>1 DEF session_release
  <2> QED
    BY <1>1, <2>1 DEF Device, Acceptable
<1>2. CASE s.active
  <2> DEFINE Result(final, left, attr) ==
               <<IF final[1] /\ left[1] /\ attr[1] THEN "OK" ELSE "TERMINAL_FAILED",
                 Released(s), Lost(attr)>>
             Ends(final) ==
               UNION {{Result(final, left, attr) :
                         attr \in IF s.saved THEN tcsetattr(Lost(left), FALSE)
                                  ELSE {<<TRUE, Lost(left)>>}} :
                      left \in write_all(final[2], build_leave_sequence(s.modes, final[2]))}
  <2>1. PICK final \in (IF s.final THEN write_all(t, t.modes) ELSE {<<TRUE, t>>}) :
          r \in Ends(final)
    BY Zenon, <1>2 DEF session_release
  <2>2. PICK left \in write_all(final[2], build_leave_sequence(Modes, final[2])) :
          r \in {Result(final, left, attr) : attr \in tcsetattr(Lost(left), FALSE)}
    BY Zenon, <1>2, <2>1
  <2>7. PICK attr \in tcsetattr(Lost(left), FALSE) : r = Result(final, left, attr)
    BY Zenon, <2>2
  <2>3. /\ final[1] \in BOOLEAN /\ final[2] \in Device /\ t.faults \in Nat
        /\ final[2].faults \in Nat /\ final[2].faults >= t.faults
        /\ ~final[1] => final[2].faults > 0
    <3>1. t.modes \in SUBSET Modes /\ t.faults \in Nat
      BY Zenon DEF Device
    <3>2. CASE s.final
      BY Zenon, <2>1, <3>1, <3>2, Written DEF Device
    <3>3. CASE ~s.final
      <4>1. final = <<TRUE, t>>
        BY Zenon, <2>1, <3>3
      <4> QED
        BY <3>1, <4>1
    <3> QED
      BY Zenon, <3>2, <3>3
  <2>4. /\ Lost(attr) \in Device /\ Restored(Lost(attr))
        /\ Lost(attr).faults >= final[2].faults
        /\ left[1] \in BOOLEAN /\ attr[1] \in BOOLEAN
        /\ ~left[1] \/ ~attr[1] => Lost(attr).faults > 0
    BY Zenon, <2>3, Undone
  <2>5. /\ Released(s) \in SessionType /\ Released(s).bound = s.bound
        /\ ~Released(s).active
    BY Zenon DEF Released, SessionType
  <2>6. Lost(attr).faults \in Nat
    BY Zenon, <2>4 DEF Device
  <2> QED
    BY <2>7, <2>3, <2>4, <2>5, <2>6 DEF Acceptable
<1> QED
  BY Zenon, <1>1, <1>2 DEF SessionType

(* A command sent is the last one pending; the others were pending before,  *)
(* the oldest of which may be evicted.                                      *)
LEMMA Sent ==
  ASSUME ScreenAssumption, commands \in Seq(Commands), NEW c \in Commands, send_command(c)
  PROVE  /\ commands' \in Seq(Commands) /\ Len(commands') \in Nat \ {0}
         /\ commands'[Len(commands')] = c
         /\ \A i \in 1..Len(commands') :
              i # Len(commands') => \E j \in 1..Len(commands) : commands'[i] = commands[j]
<1> DEFINE q == IF Len(commands) = kScreenCommandDepth THEN Tail(commands) ELSE commands
<1>1. q \in Seq(Commands) /\ \A i \in 1..Len(q) : \E j \in 1..Len(commands) : q[i] = commands[j]
  <2>1. CASE Len(commands) = kScreenCommandDepth
    <3>1. commands # <<>> /\ q = Tail(commands) /\ Len(commands) \in Nat \ {0}
      BY Zenon, <2>1 DEF ScreenAssumption
    <3>2. q \in Seq(Commands) /\ Len(q) = Len(commands) - 1
          /\ \A i \in 1..Len(q) : q[i] = commands[i + 1]
      BY <3>1
    <3> QED
      BY <3>1, <3>2
  <2>2. CASE Len(commands) # kScreenCommandDepth
    BY Zenon, <2>2
  <2> QED
    BY Zenon, <2>1, <2>2
<1>2. commands' = Append(q, c)
  BY Zenon DEF send_command
<1> HIDE DEF q
<1>3. /\ commands' \in Seq(Commands) /\ Len(q) \in Nat /\ Len(commands') = Len(q) + 1
      /\ commands'[Len(q) + 1] = c /\ \A i \in 1..Len(q) : commands'[i] = q[i]
  BY <1>1, <1>2
<1>4. Len(commands') \in Nat \ {0} /\ commands'[Len(commands')] = c
  BY <1>3
<1>5. ASSUME NEW i \in 1..Len(commands'), i # Len(commands')
      PROVE  \E j \in 1..Len(commands) : commands'[i] = commands[j]
  <2>1. i \in 1..Len(q)
    BY <1>3, <1>5
  <2> QED
    BY Zenon, <1>1, <1>3, <2>1
<1> QED
  BY Zenon, <1>3, <1>4, <1>5

(* A terminal as it was found and an application that was never started.    *)
LEMMA ScreenInvInit == ScreenInit => ScreenInv
<1> SUFFICES ASSUME ScreenInit
             PROVE  ScreenInv
  BY Zenon
<1>1. /\ screen = NoScreen /\ commands = <<>> /\ current = NoCommand /\ resize = NoSize
      /\ session = NewSession
      /\ app = [phase |-> "stopped", death |-> "OK", starts |-> 0, copies |-> 0]
  BY Zenon DEF ScreenInit
<1>2. PICK s \in Sizes : tty = [raw |-> FALSE, modes |-> {}, size |-> s, faults |-> 0,
                                lost |-> FALSE, resizes |-> 0]
  BY Zenon DEF ScreenInit
<1>3. Typed
  BY <1>1, <1>2 DEF Typed, NoScreen, NoCommand, NewSession, Device, SessionType, Stages,
     Deaths, AppRecord
<1> QED
  BY Zenon, <1>1, <1>2, <1>3 DEF ScreenInv, SessionSound, Unbound, Closed, GeometryLate,
     ReleaseLast, DrawsOnActive, TerminalRestored, DeathJustified, NewSession

(* A step that changes nothing keeps the invariant.                         *)
LEMMA ScreenStutter == ScreenInv /\ UNCHANGED screenVars => ScreenInv'
BY ZenonT(30) DEF ScreenInv, Typed, SessionSound, Unbound, Closed, GeometryLate, ReleaseLast,
   DrawsOnActive, TerminalRestored, DeathJustified, screenVars

(* The worker takes the oldest command.                                     *)
LEMMA ReceiveStep == ASSUME ScreenInv, receive_screen_command PROVE ScreenInv'
<1>1. /\ app.phase \notin {"dead", "stopped", "terminal_stopped"}
      /\ commands # <<>> /\ current' = commands[1] /\ commands' = Tail(commands)
      /\ commands \in Seq(Commands)
      /\ screen' = screen /\ resize' = resize /\ session' = session /\ tty' = tty /\ app' = app
  BY DEF ScreenInv, Typed, Unbound, receive_screen_command
<1>2. /\ commands' \in Seq(Commands) /\ Len(commands) \in Nat \ {0}
      /\ Len(commands') = Len(commands) - 1
      /\ \A i \in 1..Len(commands') : i + 1 \in 1..Len(commands) /\ commands'[i] = commands[i + 1]
      /\ commands[1] \in Commands /\ 1 \in 1..Len(commands)
  BY <1>1
<1>3. Typed' /\ SessionSound' /\ GeometryLate' /\ TerminalRestored' /\ DeathJustified'
  BY Zenon, <1>1, <1>2
     DEF ScreenInv, Typed, SessionSound, GeometryLate, TerminalRestored, DeathJustified
<1>4. Unbound' /\ Closed'
  BY Zenon, <1>1 DEF Unbound, Closed
<1>5. ReleaseLast'
  <2>1. app'.phase = "running" =>
          current' # "RELEASE" /\ \A i \in 1..Len(commands') : commands'[i] # "RELEASE"
    BY Zenon, <1>1, <1>2 DEF ScreenInv, ReleaseLast
  <2>2. ASSUME app'.phase = "screen_stopped"
        PROVE  /\ current' = "RELEASE" => commands' = <<>>
               /\ \A i \in 1..Len(commands') : commands'[i] = "RELEASE" => i = Len(commands')
    <3>1. \A i \in 1..Len(commands) : commands[i] = "RELEASE" => i = Len(commands)
      BY Zenon, <1>1, <2>2 DEF ScreenInv, ReleaseLast
    <3>2. commands[1] = "RELEASE" => Len(commands') = 0
      BY <1>2, <3>1
    <3>3. Len(commands') = 0 => commands' = <<>>
      BY <1>2
    <3>4. \A i \in 1..Len(commands') : commands'[i] = "RELEASE" => i = Len(commands')
      BY <1>2, <3>1
    <3> QED
      BY Zenon, <1>1, <3>2, <3>3, <3>4
  <2> QED
    BY Zenon, <2>1, <2>2 DEF ReleaseLast
<1>6. DrawsOnActive'
  BY Zenon, <1>1, <1>2 DEF ScreenInv, DrawsOnActive
<1> QED
  BY Zenon, <1>3, <1>4, <1>5, <1>6 DEF ScreenInv

(* The window is resized.                                                   *)
LEMMA WindowStep == ASSUME ScreenInv, WindowResized PROVE ScreenInv'
<1>1. /\ tty' \in Device /\ tty'.raw = tty.raw /\ tty'.modes = tty.modes
      /\ tty'.lost = tty.lost /\ tty'.faults = tty.faults
  <2>1. PICK s \in Sizes : tty' = [tty EXCEPT !.size = s, !.resizes = @ + 1]
    BY Zenon DEF WindowResized
  <2> DEFINE n == tty.resizes + 1
  <2>2. tty \in Device /\ n \in Nat
    BY DEF ScreenInv, Typed, Device
  <2>3. tty' = [tty EXCEPT !.size = s, !.resizes = n]
    BY Zenon, <2>1
  <2> HIDE DEF n
  <2> QED
    BY Zenon, <2>2, <2>3 DEF Device
<1> QED
  BY ZenonT(30), <1>1 DEF ScreenInv, Typed, SessionSound, Unbound, Closed, GeometryLate,
     ReleaseLast, DrawsOnActive, TerminalRestored, DeathJustified, WindowResized

(* The Screen presents or copies what it shows.                             *)
LEMMA DrawStep ==
  ASSUME ScreenAssumption, ScreenInv, draw \/ copy_selection
  PROVE  ScreenInv'
<1>1. PICK c \in Drawing : send_command(c)
  BY Zenon DEF draw, copy_selection, Drawing
<1>2. /\ app.phase = "running" /\ screen.size # NoSize
      /\ screen' = screen /\ current' = current /\ resize' = resize
      /\ session' = session /\ tty' = tty
  BY Zenon DEF draw, copy_selection, get_dimensions
<1>3. app' \in AppRecord /\ app'.phase = "running"
  BY <1>2 DEF draw, copy_selection, ScreenInv, Typed, AppRecord
<1>4. session.active
  BY Zenon, <1>2 DEF ScreenInv, GeometryLate
<1>5. /\ commands' \in Seq(Commands) /\ commands'[Len(commands')] = c
      /\ Len(commands') \in Nat \ {0}
      /\ \A i \in 1..Len(commands') :
           i # Len(commands') => \E j \in 1..Len(commands) : commands'[i] = commands[j]
  BY Zenon, <1>1, Sent DEF ScreenInv, Typed, Commands
<1>6. Typed'
  BY Zenon, <1>2, <1>3, <1>5 DEF ScreenInv, Typed
<1>7. ReleaseLast'
  <2>1. c # "RELEASE" /\ app'.phase # "screen_stopped"
    BY Zenon, <1>3 DEF Drawing
  <2> QED
    BY Zenon, <1>2, <1>3, <1>5, <2>1 DEF ScreenInv, ReleaseLast
<1>8. Unbound' /\ Closed' /\ DeathJustified'
  BY Zenon, <1>3 DEF Unbound, Closed, DeathJustified
<1>9. SessionSound' /\ GeometryLate' /\ DrawsOnActive' /\ TerminalRestored'
  BY Zenon, <1>2, <1>4 DEF ScreenInv, SessionSound, GeometryLate, DrawsOnActive, TerminalRestored
<1> QED
  BY Zenon, <1>6, <1>7, <1>8, <1>9 DEF ScreenInv

(* The Screen learns the geometry that was published.                       *)
LEMMA ResizeStep == ASSUME ScreenInv, receive_resize_event PROVE ScreenInv'
<1>1. /\ resize # NoSize /\ resize' = NoSize
      /\ commands' = commands /\ current' = current /\ session' = session /\ tty' = tty
      /\ app' = app
  BY Zenon DEF receive_resize_event
<1>2. /\ screen' \in [alive : BOOLEAN, requested : BOOLEAN, size : Sizes \cup {NoSize}]
      /\ NoSize \in Sizes \cup {NoSize}
  BY Zenon DEF ScreenInv, Typed, receive_resize_event
<1>3. Typed'
  BY Zenon, <1>1, <1>2 DEF ScreenInv, Typed
<1>4. GeometryLate'
  BY Zenon, <1>1 DEF ScreenInv, GeometryLate
<1> QED
  BY Zenon, <1>1, <1>3, <1>4 DEF ScreenInv, SessionSound, Unbound, Closed, ReleaseLast,
     DrawsOnActive, TerminalRestored, DeathJustified

(* A start binds the session and sends TAKE over empty channels.            *)
LEMMA ScreenStartStep == ASSUME ScreenAssumption, ScreenInv, start_screen PROVE ScreenInv'
<1>1. /\ app.phase = "stopped" /\ ~session.active /\ current = NoCommand /\ commands = <<>>
      /\ resize = NoSize /\ send_command("TAKE")
      /\ screen' = [alive |-> TRUE, requested |-> TRUE, size |-> NoSize]
      /\ current' = current /\ resize' = resize /\ tty' = tty
  BY Zenon DEF start_screen, take, ScreenInv, Unbound, Closed
<1>2. /\ app' \in AppRecord /\ app'.phase = "running"
      /\ session' \in SessionType /\ session'.active = session.active
      /\ session'.modes = session.modes /\ session'.saved = session.saved
  <2> DEFINE n == app.starts + 1
  <2>1. app \in AppRecord /\ n \in Nat
    BY DEF ScreenInv, Typed, AppRecord
  <2>2. app' = [app EXCEPT !.phase = "running", !.starts = n]
    BY Zenon DEF start_screen
  <2> HIDE DEF n
  <2>3. app' \in AppRecord /\ app'.phase = "running"
    BY Zenon, <2>1, <2>2 DEF Stages, Deaths, AppRecord
  <2>4. session \in SessionType /\ session' = [session EXCEPT !.bound = TRUE]
    BY Zenon DEF start_screen, ScreenInv, Typed
  <2> QED
    BY Zenon, <2>3, <2>4 DEF SessionType
<1>3. commands' = <<"TAKE">>
  BY <1>1 DEF send_command, ScreenAssumption
<1>4. Typed'
  BY <1>1, <1>2, <1>3 DEF ScreenInv, Typed, Commands
<1>5. ReleaseLast' /\ DrawsOnActive'
  BY <1>1, <1>2, <1>3 DEF ReleaseLast, DrawsOnActive, Drawing, NoCommand
<1>6. Unbound' /\ Closed' /\ GeometryLate' /\ DeathJustified'
  BY Zenon, <1>1, <1>2 DEF Unbound, Closed, GeometryLate, DeathJustified
<1>7. SessionSound' /\ TerminalRestored'
  BY Zenon, <1>1, <1>2 DEF ScreenInv, SessionSound, TerminalRestored
<1> QED
  BY Zenon, <1>4, <1>5, <1>6, <1>7 DEF ScreenInv

(* ScreenSubsystem::stop sends RELEASE after everything else.               *)
LEMMA ScreenStopStep == ASSUME ScreenAssumption, ScreenInv, screen_stop PROVE ScreenInv'
<1>1. /\ app.phase = "running" /\ screen' = NoScreen
      /\ current' = current /\ resize' = resize /\ session' = session /\ tty' = tty
  BY Zenon DEF screen_stop
<1>2. /\ app' \in AppRecord
      /\ app'.phase = "screen_stopped"
  BY Zenon DEF screen_stop, ScreenInv, Typed, Stages, Deaths, AppRecord
<1>3. CASE commands' = commands
  <2>1. Typed'
    BY Zenon, <1>1, <1>2, <1>3 DEF ScreenInv, Typed, NoScreen
  <2>2. Unbound' /\ Closed' /\ GeometryLate' /\ DeathJustified'
    BY Zenon, <1>2 DEF Unbound, Closed, GeometryLate, DeathJustified
  <2> QED
    BY Zenon, <1>1, <1>2, <1>3, <2>1, <2>2
       DEF ScreenInv, SessionSound, ReleaseLast, DrawsOnActive, TerminalRestored
<1>4. CASE send_command("RELEASE")
  <2>1. /\ commands' \in Seq(Commands) /\ commands'[Len(commands')] = "RELEASE"
        /\ Len(commands') \in Nat \ {0}
        /\ \A i \in 1..Len(commands') :
             i # Len(commands') => \E j \in 1..Len(commands) : commands'[i] = commands[j]
    BY Zenon, <1>4, Sent DEF ScreenInv, Typed, Commands
  <2>2. Typed'
    BY Zenon, <1>1, <1>2, <2>1 DEF ScreenInv, Typed, NoScreen
  <2>3. Unbound' /\ Closed' /\ GeometryLate' /\ DeathJustified'
    BY Zenon, <1>2 DEF Unbound, Closed, GeometryLate, DeathJustified
  <2>4. ReleaseLast'
    BY Zenon, <1>1, <1>2, <2>1 DEF ScreenInv, ReleaseLast
  <2>5. DrawsOnActive'
    BY Zenon, <1>1, <1>2, <2>1 DEF ScreenInv, DrawsOnActive, Drawing
  <2> QED
    BY Zenon, <1>1, <2>2, <2>3, <2>4, <2>5 DEF ScreenInv, SessionSound, TerminalRestored
<1> QED
  BY Zenon, <1>3, <1>4 DEF screen_stop

(* TerminalSubsystem::stop releases the session itself.                     *)
LEMMA TerminalStopStep == ASSUME ScreenInv, terminal_stop PROVE ScreenInv'
<1> DEFINE s == [session EXCEPT !.bound = FALSE]
<1>1. PICK r \in session_release(s, tty) : session' = r[2] /\ tty' = r[3]
  BY Zenon DEF terminal_stop
<1>2. /\ s \in SessionType /\ ~s.bound /\ s.active = session.active
      /\ s.saved = session.saved /\ s.modes = session.modes
  BY Zenon DEF ScreenInv, Typed, SessionType
<1> HIDE DEF s
<1>3. /\ session' \in SessionType /\ ~session'.bound /\ ~session'.active
      /\ tty' \in Device /\ Restored(tty')
  <2>1. /\ s.active => s.saved /\ s.modes = Modes
        /\ ~s.active => Restored(tty) /\ tty \in Device
    BY Zenon, <1>2 DEF ScreenInv, Typed, SessionSound, TerminalRestored, Restored
  <2>2. tty \in Device
    BY Zenon DEF ScreenInv, Typed
  <2>3. /\ r[2] \in SessionType /\ r[2].bound = s.bound /\ ~r[2].active
        /\ r[3] \in Device /\ Restored(r[3])
    BY Zenon, <1>2, <2>1, <2>2, LetGo
  <2> QED
    BY Zenon, <1>1, <1>2, <2>3
<1>4. /\ app' \in AppRecord
      /\ app'.phase = "terminal_stopped"
      /\ current = NoCommand /\ screen' = screen /\ commands' = commands /\ current' = current
      /\ resize' = resize
  BY Zenon DEF terminal_stop, ScreenInv, Typed, Stages, Deaths, AppRecord
<1>5. Typed'
  BY Zenon, <1>3, <1>4 DEF ScreenInv, Typed
<1>6. /\ Closed' /\ GeometryLate' /\ ReleaseLast' /\ DrawsOnActive' /\ DeathJustified'
  BY Zenon, <1>4 DEF Closed, GeometryLate, ReleaseLast, DrawsOnActive, DeathJustified
<1>7. SessionSound' /\ Unbound' /\ TerminalRestored'
  BY Zenon, <1>3, <1>4 DEF SessionSound, Unbound, TerminalRestored, Restored
<1> QED
  BY Zenon, <1>5, <1>6, <1>7 DEF ScreenInv

(* The channels are closed with what they hold.                             *)
LEMMA CloseStep == ASSUME ScreenInv, close_channels PROVE ScreenInv'
<1>1. /\ app.phase = "terminal_stopped" /\ commands' = <<>> /\ resize' = NoSize
      /\ screen' = screen /\ current' = current /\ session' = session /\ tty' = tty
  BY Zenon DEF close_channels
<1>2. /\ app' \in AppRecord /\ app'.phase = "stopped"
  BY Zenon DEF close_channels, ScreenInv, Typed, Stages, Deaths, AppRecord
<1>3. Typed'
  BY <1>1, <1>2 DEF ScreenInv, Typed
<1>4. GeometryLate' /\ ReleaseLast' /\ DrawsOnActive' /\ DeathJustified'
  BY Zenon, <1>2 DEF GeometryLate, ReleaseLast, DrawsOnActive, DeathJustified
<1>5. SessionSound' /\ Unbound' /\ Closed' /\ TerminalRestored'
  BY Zenon, <1>1, <1>2 DEF ScreenInv, SessionSound, Unbound, Closed, TerminalRestored
<1> QED
  BY Zenon, <1>3, <1>4, <1>5 DEF ScreenInv

\* What publishing the geometry of session s may end in.
Announced(s, p) ==
  /\ p[1] = "OK"
  /\ p[2] \in SessionType /\ p[2].active = s.active
  /\ p[2].saved = s.saved /\ p[2].modes = s.modes
  /\ p[3] \in Device
  /\ p[4] \in Sizes \cup {NoSize}

(* publish_size_if_changed() finds the resize channel open and keeps the     *)
(* session.                                                                 *)
LEMMA Published ==
  ASSUME NEW s \in SessionType, NEW t \in Device, NEW pending \in Sizes \cup {NoSize},
         app.phase # "stopped", NEW p \in publish_size_if_changed(s, t, pending)
  PROVE  Announced(s, p)
<1> USE DEF Announced
<1>1. CASE p = <<"OK", s, t, pending>>
  BY <1>1
<1>2. CASE \E u \in Faulty(t) : p = <<"OK", s, u, pending>>
  <2>1. PICK u \in Faulty(t) : p = <<"OK", s, u, pending>>
    BY Zenon, <1>2
  <2>2. u \in Device
    BY Zenon, FaultCounted
  <2> QED
    BY <2>1, <2>2
<1>3. CASE s.active /\ p = transmit(s, t, pending)
  <2> DEFINE n == [s EXCEPT !.last = t.size]
  <2>1. p = <<"OK", n, t, t.size>>
    BY Zenon, <1>3 DEF transmit
  <2>2. t.size \in Sizes
    BY Zenon DEF Device
  <2>3. /\ n \in SessionType /\ n.active = s.active
        /\ n.saved = s.saved /\ n.modes = s.modes
    BY Zenon, <2>2 DEF SessionType
  <2> HIDE DEF n
  <2> QED
    <3>1. p[1] = "OK" /\ p[2] = n /\ p[3] = t /\ p[4] = t.size
      BY Zenon, <2>1
    <3> QED
      BY Zenon, <1>3, <2>2, <2>3, <3>1
<1> QED
  BY Zenon, <1>1, <1>2, <1>3 DEF publish_size_if_changed

(* What a command leaves behind keeps the invariant: either the application *)
(* goes on, or it dies of a fault or of a text that is too long.            *)
LEMMA Executed ==
  ASSUME ScreenInv, app.phase \in {"running", "screen_stopped"},
         current' = NoCommand, screen' = screen, commands' = commands,
         session' \in SessionType, tty' \in Device, resize' \in Sizes \cup {NoSize},
         SessionSound', TerminalRestored',
         NEW status, FatalUnlessOK(status), Acceptable(status, tty'),
         status = "OK" =>
           /\ \A i \in 1..Len(commands) : commands[i] \in Drawing => session'.active
           /\ app.phase = "running" /\ (screen.size # NoSize \/ resize' # NoSize)
                => session'.active
  PROVE  ScreenInv'
<1>1. CASE status = "OK"
  <2>1. /\ app' = app /\ app'.phase \in {"running", "screen_stopped"}
        /\ NoCommand \notin Drawing /\ NoCommand # "RELEASE"
    BY Zenon, <1>1 DEF Drawing, NoCommand, FatalUnlessOK
  <2>2. Typed'
    BY Zenon, <2>1 DEF ScreenInv, Typed
  <2>3. Unbound' /\ Closed' /\ DeathJustified'
    BY Zenon, <2>1 DEF Unbound, Closed, DeathJustified
  <2>4. GeometryLate' /\ ReleaseLast' /\ DrawsOnActive'
    BY Zenon, <1>1, <2>1 DEF ScreenInv, GeometryLate, ReleaseLast, DrawsOnActive
  <2> QED
    BY Zenon, <2>2, <2>3, <2>4 DEF ScreenInv
<1>2. CASE status # "OK"
  <2>0. app' = [app EXCEPT !.phase = "dead", !.death = status] /\ status \in Deaths
    BY Zenon, <1>2 DEF FatalUnlessOK, fatal_async_failure, Acceptable, Deaths
  <2>1. app' \in AppRecord /\ app'.phase = "dead" /\ app'.death = status
    BY Zenon, <2>0 DEF ScreenInv, Typed, Stages, Deaths, AppRecord
  <2>2. Typed'
    BY Zenon, <2>1 DEF ScreenInv, Typed
  <2>3. Unbound' /\ Closed' /\ GeometryLate' /\ ReleaseLast' /\ DrawsOnActive'
    BY Zenon, <2>1 DEF Unbound, Closed, GeometryLate, ReleaseLast, DrawsOnActive
  <2>4. DeathJustified'
    BY Zenon, <1>2, <2>1 DEF DeathJustified, Acceptable
  <2> QED
    BY Zenon, <2>2, <2>3, <2>4 DEF ScreenInv
<1> QED
  BY Zenon, <1>1, <1>2

(* TAKE leaves an active session, or the process dies of a terminal fault.  *)
LEMMA TakeExecuted ==
  ASSUME ScreenInv, app.phase \in {"running", "screen_stopped"},
         current' = NoCommand, screen' = screen, commands' = commands, ExecuteTake
  PROVE  ScreenInv'
<1>1. /\ session \in SessionType /\ tty \in Device /\ resize \in Sizes \cup {NoSize}
      /\ session.active => session.saved /\ session.modes = Modes
      /\ ~session.active => Restored(tty)
  BY Zenon DEF ScreenInv, Typed, SessionSound, TerminalRestored, Restored
<1>2. PICK r \in session_take(session, tty) :
        IF r[1] = "TERMINAL_FAILED"
        THEN fatal_async_failure(r[1]) /\ session' = r[2] /\ tty' = r[3] /\ UNCHANGED resize
        ELSE \E w \in write_all(r[3], r[3].modes) :
               LET s == [r[2] EXCEPT !.final = TRUE] IN
               IF w[1]
               THEN \E p \in publish_size_if_changed(s, w[2], resize) :
                      /\ session' = p[2] /\ tty' = p[3] /\ resize' = p[4]
                      /\ FatalUnlessOK(p[1])
               ELSE /\ session' = s /\ tty' = w[2] /\ UNCHANGED resize
                    /\ fatal_async_failure("TERMINAL_FAILED")
  BY Zenon DEF ExecuteTake
<1>3. /\ r[2] \in SessionType /\ r[3] \in Device
      /\ r[1] # "TERMINAL_FAILED" => r[2].active /\ r[2].saved /\ r[2].modes = Modes
      /\ r[1] = "TERMINAL_FAILED" => ~r[2].active /\ Restored(r[3]) /\ r[3].faults > 0
  BY Zenon, <1>1, Taken
<1>4. CASE r[1] = "TERMINAL_FAILED"
  <2>1. /\ FatalUnlessOK("TERMINAL_FAILED") /\ session' = r[2] /\ tty' = r[3]
        /\ resize' = resize
    BY Zenon, <1>2, <1>4 DEF FatalUnlessOK
  <2>2. SessionSound' /\ TerminalRestored' /\ Acceptable("TERMINAL_FAILED", tty')
    BY Zenon, <1>3, <1>4, <2>1 DEF SessionSound, TerminalRestored, Restored, Acceptable
  <2> QED
    BY Zenon, <1>1, <1>3, <2>1, <2>2, Executed
<1>5. CASE r[1] # "TERMINAL_FAILED"
  <2> DEFINE s == [r[2] EXCEPT !.final = TRUE]
  <2>1. PICK w \in write_all(r[3], r[3].modes) :
          IF w[1]
          THEN \E p \in publish_size_if_changed(s, w[2], resize) :
                 /\ session' = p[2] /\ tty' = p[3] /\ resize' = p[4]
                 /\ FatalUnlessOK(p[1])
          ELSE /\ session' = s /\ tty' = w[2] /\ UNCHANGED resize
               /\ fatal_async_failure("TERMINAL_FAILED")
    BY Zenon, <1>2, <1>5
  <2>2. s \in SessionType /\ s.active /\ s.saved /\ s.modes = Modes
    BY Zenon, <1>3, <1>5 DEF SessionType
  <2> HIDE DEF s
  <2>3. r[3].modes \in SUBSET Modes
    BY Zenon, <1>3 DEF Device
  <2>4. w[1] \in BOOLEAN /\ w[2] \in Device /\ (~w[1] => w[2].faults > 0)
    BY Zenon, <1>3, <2>3, Written
  <2>5. CASE w[1]
    <3>1. PICK p \in publish_size_if_changed(s, w[2], resize) :
            session' = p[2] /\ tty' = p[3] /\ resize' = p[4] /\ FatalUnlessOK(p[1])
      BY Zenon, <2>1, <2>5
    <3>2. /\ p[1] = "OK" /\ p[2] \in SessionType /\ p[2].active = s.active
          /\ p[2].saved = s.saved /\ p[2].modes = s.modes /\ p[3] \in Device
          /\ p[4] \in Sizes \cup {NoSize}
      <4>1. Announced(s, p)
        BY Zenon, <1>1, <2>2, <2>4, Published
      <4> QED
        BY Zenon, <4>1 DEF Announced
    <3>3. SessionSound' /\ TerminalRestored' /\ Acceptable("OK", tty') /\ FatalUnlessOK("OK")
          /\ session'.active
      BY Zenon, <2>2, <3>1, <3>2 DEF SessionSound, TerminalRestored, Acceptable
    <3> QED
      BY Zenon, <3>1, <3>2, <3>3, Executed
  <2>6. CASE ~w[1]
    <3>1. session' = s /\ tty' = w[2] /\ resize' = resize /\ FatalUnlessOK("TERMINAL_FAILED")
      BY Zenon, <2>1, <2>6 DEF FatalUnlessOK
    <3>2. SessionSound' /\ TerminalRestored' /\ Acceptable("TERMINAL_FAILED", tty')
      BY Zenon, <2>2, <2>4, <2>6, <3>1 DEF SessionSound, TerminalRestored, Acceptable
    <3> QED
      BY Zenon, <1>1, <2>2, <2>4, <3>1, <3>2, Executed
  <2> QED
    BY Zenon, <2>5, <2>6
<1> QED
  BY Zenon, <1>4, <1>5

(* RELEASE ends the session when nothing is pending behind it.              *)
LEMMA ReleaseExecuted ==
  ASSUME ScreenInv, app.phase \in {"running", "screen_stopped"}, current = "RELEASE",
         current' = NoCommand, screen' = screen, commands' = commands, ExecuteRelease
  PROVE  ScreenInv'
<1>1. /\ session \in SessionType /\ tty \in Device /\ resize \in Sizes \cup {NoSize}
      /\ session.active => session.saved /\ session.modes = Modes
      /\ ~session.active => Restored(tty)
  BY Zenon DEF ScreenInv, Typed, SessionSound, TerminalRestored, Restored
<1>2. PICK r \in session_release(session, tty) :
        /\ session' = [r[2] EXCEPT !.last = NoSize]
        /\ tty' = r[3]
        /\ FatalUnlessOK(r[1])
        /\ UNCHANGED resize
  BY Zenon DEF ExecuteRelease
<1>3. /\ r[2] \in SessionType /\ ~r[2].active /\ r[3] \in Device /\ Restored(r[3])
      /\ Acceptable(r[1], r[3])
  BY Zenon, <1>1, LetGo
<1>4. session' \in SessionType /\ ~session'.active
  BY Zenon, <1>2, <1>3 DEF SessionType
<1>5. app.phase # "running" /\ \A i \in 1..Len(commands) : commands[i] \notin Drawing
  BY DEF ScreenInv, ReleaseLast
<1>6. SessionSound' /\ TerminalRestored'
  BY Zenon, <1>2, <1>3, <1>4 DEF SessionSound, TerminalRestored, Restored
<1> QED
  BY ZenonT(30), <1>1, <1>2, <1>3, <1>4, <1>5, <1>6, Executed

(* A command that draws meets an active session, which it leaves active.    *)
LEMMA DrawExecuted ==
  ASSUME ScreenInv, app.phase \in {"running", "screen_stopped"}, current \in Drawing,
         current' = NoCommand, screen' = screen, commands' = commands,
         ExecuteSetClipboard \/ ExecutePresent
  PROVE  ScreenInv'
<1>1. /\ session \in SessionType /\ tty \in Device /\ resize \in Sizes \cup {NoSize}
      /\ session.active /\ session.saved /\ session.modes = Modes
  BY Zenon DEF ScreenInv, Typed, SessionSound, DrawsOnActive
<1>2. ASSUME NEW t \in Device, NEW w \in write_all(t, t.modes)
      PROVE  w[2] \in Device /\ Acceptable(IF w[1] THEN "OK" ELSE "TERMINAL_FAILED", w[2])
  <2>1. t.modes \in SUBSET Modes
    BY Zenon DEF Device
  <2>2. w[1] \in BOOLEAN /\ w[2] \in Device /\ (~w[1] => w[2].faults > 0)
    BY Zenon, <2>1, Written
  <2> QED
    BY Zenon, <2>2 DEF Acceptable
<1>3. \E status :
        /\ FatalUnlessOK(status) /\ Acceptable(status, tty')
        /\ session' \in SessionType /\ session'.active /\ session'.saved
        /\ session'.modes = Modes /\ tty' \in Device /\ resize' \in Sizes \cup {NoSize}
  <2>1. CASE ExecuteSetClipboard
    <3>1. PICK c \in set_clipboard(current, tty) : tty' = c[2] /\ FatalUnlessOK(c[1])
      BY Zenon, <1>1, <2>1 DEF ExecuteSetClipboard
    <3>2. c[2] \in Device /\ Acceptable(c[1], c[2])
      <4>1. CASE c = <<"OUTPUT_LIMIT_EXCEEDED", tty>>
        BY <1>1, <4>1 DEF Acceptable
      <4>2. CASE \E w \in write_all(tty, tty.modes) :
                   c = <<IF w[1] THEN "OK" ELSE "TERMINAL_FAILED", w[2]>>
        <5>1. PICK w \in write_all(tty, tty.modes) :
                c = <<IF w[1] THEN "OK" ELSE "TERMINAL_FAILED", w[2]>>
          BY Zenon, <4>2
        <5>2. c[1] = (IF w[1] THEN "OK" ELSE "TERMINAL_FAILED") /\ c[2] = w[2]
          BY <5>1
        <5> QED
          BY Zenon, <1>1, <1>2, <5>2
      <4> QED
        BY Zenon, <4>1, <4>2 DEF set_clipboard
    <3>3. session' = session /\ resize' = resize
      BY Zenon, <2>1 DEF ExecuteSetClipboard
    <3> QED
      BY Zenon, <1>1, <3>1, <3>2, <3>3
  <2>2. CASE ExecutePresent
    <3>0. ASSUME NEW p \in publish_size_if_changed(session, tty, resize)
          PROVE  Announced(session, p)
      <4>1. app.phase # "stopped"
        OBVIOUS
      <4>2. /\ session \in SessionType /\ tty \in Device
            /\ resize \in Sizes \cup {NoSize}
        BY Zenon, <1>1
      <4> QED
        BY Zenon, <3>0, <4>1, <4>2, Published
    <3>1. PICK p \in publish_size_if_changed(session, tty, resize) :
            /\ session' = p[2] /\ resize' = p[4]
            /\ IF p[1] = "OK"
                 THEN \E w \in write_all(p[3], p[3].modes) :
                        /\ tty' = w[2]
                        /\ FatalUnlessOK(IF w[1] THEN "OK" ELSE "TERMINAL_FAILED")
                 ELSE fatal_async_failure(p[1]) /\ tty' = p[3]
      BY Zenon, <1>1, <2>2 DEF ExecutePresent
    <3>2. /\ p[1] = "OK" /\ p[2] \in SessionType /\ p[2].active = session.active
          /\ p[2].saved = session.saved /\ p[2].modes = session.modes /\ p[3] \in Device
          /\ p[4] \in Sizes \cup {NoSize}
      BY Zenon, <3>0 DEF Announced
    <3>3. PICK w \in write_all(p[3], p[3].modes) :
            tty' = w[2] /\ FatalUnlessOK(IF w[1] THEN "OK" ELSE "TERMINAL_FAILED")
      BY Zenon, <3>1, <3>2
    <3>4. tty' \in Device /\ Acceptable(IF w[1] THEN "OK" ELSE "TERMINAL_FAILED", tty')
      BY Zenon, <1>2, <3>2, <3>3
    <3> QED
      BY Zenon, <1>1, <3>1, <3>2, <3>3, <3>4
  <2> QED
    BY Zenon, <2>1, <2>2
<1>4. SessionSound' /\ TerminalRestored'
  BY Zenon, <1>3 DEF SessionSound, TerminalRestored
<1> QED
  BY Zenon, <1>3, <1>4, Executed

(* The worker executes a command.                                           *)
LEMMA ExecuteStep == ASSUME ScreenInv, execute_screen_command PROVE ScreenInv'
<1>1. /\ app.phase \in {"running", "screen_stopped"} /\ current' = NoCommand
      /\ screen' = screen /\ commands' = commands
  BY Zenon DEF execute_screen_command, ScreenInv, Typed, Stages, Deaths, AppRecord, Unbound
<1>2. CASE current = "TAKE" /\ ExecuteTake
  BY Zenon, <1>1, <1>2, TakeExecuted
<1>3. CASE current = "RELEASE" /\ ExecuteRelease
  BY Zenon, <1>1, <1>3, ReleaseExecuted
<1>4. CASE current \in Drawing /\ (ExecuteSetClipboard \/ ExecutePresent)
  BY Zenon, <1>1, <1>4, DrawExecuted
<1> QED
  BY Zenon, <1>2, <1>3, <1>4 DEF execute_screen_command, Drawing

(* Every step of the terminal's owners keeps the invariant.                 *)
LEMMA ScreenStep ==
  ASSUME ScreenAssumption
  PROVE  ScreenInv /\ [ScreenNext]_screenVars => ScreenInv'
BY Zenon, ScreenStutter, ReceiveStep, WindowStep, DrawStep, ResizeStep, ScreenStartStep,
   ScreenStopStep, TerminalStopStep, CloseStep, ExecuteStep DEF ScreenNext

(* A session that is not active has left the terminal as it was found,      *)
(* whatever failed in taking or releasing it, except for a restoration that *)
(* failed itself (TerminalSession::take and release).                       *)
THEOREM TerminalCorrect == ASSUME ScreenAssumption PROVE ScreenSpec => []TerminalRestored
<1>1. ScreenInv => TerminalRestored
  BY Zenon DEF ScreenInv
<1> QED
  BY <1>1, ScreenInvInit, ScreenStep, PTL DEF ScreenSpec

(* However commands are evicted from the bounded channel and however stops  *)
(* race them, none draws on an inactive session and no resize event meets a *)
(* closed channel: the process dies only of a terminal call that failed or  *)
(* of a text too long for the clipboard (execute_screen_command).           *)
THEOREM DeathExplained == ASSUME ScreenAssumption PROVE ScreenSpec => []DeathJustified
<1>1. ScreenInv => DeathJustified
  BY Zenon DEF ScreenInv
<1> QED
  BY <1>1, ScreenInvInit, ScreenStep, PTL DEF ScreenSpec

=============================================================================
