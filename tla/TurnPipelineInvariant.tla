------------------------ MODULE TurnPipelineInvariant ------------------------
(***************************************************************************)
(* The inductive invariant of TurnPipeline, and the TLAPS proofs that it    *)
(* holds initially and that the owner's steps, and the steps of a           *)
(* submission, from submit to the handler's return, preserve it: for any    *)
(* number of overlapping runs, of workers and of handlers, any              *)
(* prerequisites, and a pool that may stop under an attached pipeline.  The *)
(* completion of a node and of a run, and the theorems, are in              *)
(* TurnPipelineProofs.                                                      *)
(***************************************************************************)
EXTENDS TurnPipeline, FiniteSetTheorems, SequenceTheorems, TLAPS

(***************************************************************************)
(* The inductive invariant.  A node of a run that was reserved and has not  *)
(* completed has a ticket, in the pool's queue or in the hands of a thread. *)
(* DetachDrains needs that active_runs counts exactly the runs that have    *)
(* not released the pipeline, that a run whose completion was taken has no  *)
(* ticket, because running_jobs_ is never below the number of tickets, and  *)
(* that one thread takes the completion.  HandlersInOrder needs that        *)
(* remaining_dependencies_ is bounded from both sides: from below by the    *)
(* prerequisites still to complete, so that a node is released once, and,   *)
(* while the context is sound, by those whose handler has not succeeded, so *)
(* that it is released after them.                                          *)
(***************************************************************************)

Typed ==
  /\ registered \subseteq Nodes
  /\ accepting \in BOOLEAN /\ attached \in BOOLEAN
  /\ destroying \in BOOLEAN /\ quiet \in BOOLEAN
  /\ activeRuns \in Nat
  /\ owner \in {"idle", "asleep", "awake", "gone"}
  /\ plan \in [Runs -> SUBSET Nodes]
  /\ remDeps \in [Runs -> [Nodes -> Nat]]
  /\ DOMAIN remNodes = Runs
  /\ running \in [Runs -> Nat]
  /\ status \in [Runs -> {"OK", "WORKER_SUBMISSION_FAILED"}]
  /\ finished \in [Runs -> BOOLEAN]
  /\ context \in [Runs -> {"OK", "FAILED"}]
  /\ succeeded \in [Runs -> SUBSET Nodes]
  /\ answer \in [Runs -> {"none", "OK", "INVALID_ARGUMENT"}]
  /\ completions \in [Runs -> Nat]
  /\ queue \in Seq(Jobs) /\ poolActive \in BOOLEAN
  /\ pc \in [Threads -> {"idle", "plan", "reserve", "submit", "reject", "begin",
               "handler", "complete", "callback", "release", "notify"}]
  /\ job \in [Threads -> Jobs \cup (Runs \X {NoNode}) \cup {NoJob}]
  /\ todo \in [Threads -> SUBSET Nodes]

\* ExecutionPlan::submit made a run of it.
Created(r) ==
  /\ pc[r] # "plan" /\ answer[r] # "INVALID_ARGUMENT"
  /\ pc[r] = "idle" => answer[r] # "none"

Holding == {"submit", "reject", "begin", "handler", "complete"}

\* Which thread may be where, and for which run.
Places ==
  /\ \A t \in Threads : pc[t] # "idle" => job[t] \in Runs \X (Nodes \cup {NoNode})
  /\ \A t \in Threads : pc[t] \in Holding => job[t] \in Jobs /\ job[t][2] \in plan[RunOf(t)]
  /\ \A t \in Threads : pc[t] \notin {"idle", "plan"} =>
       Created(RunOf(t)) \/ (t \in Runs /\ RunOf(t) = t /\ pc[t] \in {"release", "notify"})
  /\ \A r \in Runs : pc[r] # "idle" =>
       /\ RunOf(r) = r /\ answer[r] # "OK"
       /\ answer[r] = "INVALID_ARGUMENT" => pc[r] \in {"release", "notify"}
  /\ \A w \in Workers : pc[w] # "plan"
  /\ \A i \in 1..Len(queue) : Created(queue[i][1]) /\ queue[i][2] \in plan[queue[i][1]]

Untouched ==
  \A r \in Runs : ~Created(r) =>
    /\ running[r] = 0 /\ status[r] = "OK" /\ ~finished[r] /\ context[r] = "OK"
    /\ succeeded[r] = {} /\ completions[r] = 0 /\ todo[r] = {}

Holds(t, r, n) == pc[t] \in Holding /\ job[t] = <<r, n>>

Queued(r, n) == \E i \in 1..Len(queue) : queue[i] = <<r, n>>

Ticketed(r) == {n \in Nodes : Queued(r, n) \/ \E t \in Threads : Holds(t, r, n)}

TicketsDistinct ==
  /\ \A s, t \in Threads :
       pc[s] \in Holding /\ pc[t] \in Holding /\ job[s] = job[t] => s = t
  /\ \A i, j \in 1..Len(queue) : queue[i] = queue[j] => i = j
  /\ \A t \in Threads, i \in 1..Len(queue) : pc[t] \in Holding => job[t] # queue[i]

\* A thread in schedule() whose reservations still count.
Scheduling(t, r) ==
  /\ pc[t] \in {"reserve", "submit", "reject"} /\ RunOf(t) = r
  /\ ~finished[r] /\ status[r] = "OK"

Announced(r) == {n \in Nodes : \E t \in Threads : Scheduling(t, r) /\ n \in todo[t]}

\* What is about to be reserved is new, and only one thread will reserve it.
TodoFresh ==
  \A r \in Runs, t \in Threads : Scheduling(t, r) =>
    /\ todo[t] \subseteq plan[r] /\ todo[t] \cap Ticketed(r) = {}
    /\ \A s \in Threads : Scheduling(s, r) /\ s # t => todo[s] \cap todo[t] = {}

\* Only nodes that wait for nothing are scheduled.
ReadyOnly ==
  \A r \in Runs : Created(r) =>
    \A n \in Ticketed(r) \cup Announced(r) : remDeps[r][n] = 0

Waiting(r) == {n \in plan[r] : remDeps[r][n] > 0}

Uncompleted(r) == Waiting(r) \cup Announced(r) \cup Ticketed(r)

Released ==
  \A r \in Runs : Created(r) =>
    \A m \in plan[r] : Cardinality(Deps[m] \cap Uncompleted(r)) <= remDeps[r][m]

JobsCounted ==
  \A r \in Runs :
    /\ Cardinality(Ticketed(r)) <= running[r]
    /\ finished[r] => running[r] = 0

\* Nodes that succeeded and that complete() has counted.
Done(r) == {n \in succeeded[r] : \A t \in Threads : pc[t] = "complete" => job[t] # <<r, n>>}

Ordered ==
  \A r \in Runs :
    /\ Done(r) \cap Uncompleted(r) = {}
    /\ context[r] = "OK" =>
         /\ \A t \in Threads : pc[t] = "complete" /\ RunOf(t) = r => job[t][2] \in succeeded[r]
         /\ Created(r) =>
              \A m \in plan[r] : Cardinality(Deps[m] \ Done(r)) <= remDeps[r][m]

\* One thread completes a run, and only after it was finished.
CompletedOnce ==
  /\ \A s, t \in Threads :
       pc[s] \in {"callback", "release"} /\ pc[t] \in {"callback", "release"}
         /\ RunOf(s) = RunOf(t) => s = t
  /\ \A t \in Threads : pc[t] \in {"callback", "release", "notify"} /\ Created(RunOf(t)) =>
       finished[RunOf(t)]
  /\ \A t \in Threads : pc[t] = "callback" => completions[RunOf(t)] = 0 /\ Created(RunOf(t))
  /\ \A r \in Runs : completions[r] <= 1 /\ (completions[r] = 1 => finished[r])

\* Runs that hold the pipeline.
Active(r) ==
  \/ pc[r] = "plan"
  \/ Created(r) /\ ~finished[r]
  \/ \E t \in Threads : pc[t] \in {"callback", "release"} /\ RunOf(t) = r

ActiveRuns == {r \in Runs : Active(r)}

RunsCounted ==
  /\ activeRuns = Cardinality(ActiveRuns)
  /\ quiet => ~accepting /\ activeRuns = 0
  /\ owner \in {"asleep", "awake"} => ~accepting

PipelineInv ==
  /\ Typed /\ Places /\ Untouched /\ TicketsDistinct /\ TodoFresh /\ ReadyOnly /\ Released
  /\ JobsCounted /\ Ordered /\ HandlersInOrder /\ CompletedOnce /\ RunsCounted

-----------------------------------------------------------------------------

(* Cardinalities of subsets of a finite set.                                *)
LEMMA Counting ==
  ASSUME NEW U, IsFiniteSet(U), NEW S \in SUBSET U
  PROVE  /\ IsFiniteSet(S) /\ Cardinality(S) \in Nat
         /\ \A T \in SUBSET S : Cardinality(T) \in Nat /\ Cardinality(T) <= Cardinality(S)
         /\ \A x \in S : Cardinality(S \ {x}) = Cardinality(S) - 1
         /\ \A x : x \notin S => Cardinality(S \cup {x}) = Cardinality(S) + 1
         /\ Cardinality(S) = 0 <=> S = {}
<1>1. IsFiniteSet(S) /\ Cardinality(S) \in Nat
  BY Zenon, FS_Subset, FS_CardinalityType
<1>2. \A T \in SUBSET S : IsFiniteSet(T) /\ Cardinality(T) <= Cardinality(S)
  BY Zenon, <1>1, FS_Subset
<1>3. \A T \in SUBSET S : Cardinality(T) \in Nat
  BY Zenon, <1>2, FS_CardinalityType
<1> QED
  BY Zenon, <1>1, <1>2, <1>3, FS_RemoveElement, FS_AddElement, FS_EmptySet

(* The sets of nodes the invariant counts.                                  *)
LEMMA NodeSets ==
  ASSUME PipelineAssumption, Typed, NEW r \in Runs
  PROVE  /\ Ticketed(r) \subseteq Nodes /\ Announced(r) \subseteq Nodes
         /\ Waiting(r) \subseteq Nodes /\ Uncompleted(r) \subseteq Nodes /\ Done(r) \subseteq Nodes
         /\ \A m \in Nodes : Deps[m] \subseteq Nodes
         /\ \A m \in plan[r] : m \in Nodes
  BY Zenon DEF PipelineAssumption, Typed, Ticketed, Announced, Waiting, Uncompleted, Done

(* What is known of a thread that holds a ticket.                           *)
LEMMA Holder ==
  ASSUME PipelineAssumption, PipelineInv, NEW t \in Threads, pc[t] \in Holding,
         NEW r, r = RunOf(t), NEW n, n = job[t][2]
  PROVE  /\ r \in Runs /\ n \in Nodes /\ n \in plan[r] /\ job[t] = <<r, n>>
         /\ Created(r) /\ ~finished[r] /\ n \in Ticketed(r) /\ running[r] >= 1
         /\ remDeps[r][n] = 0 /\ n \in Uncompleted(r) /\ n \notin Done(r)
         /\ t \in Runs => t = r
<1>1. job[t] \in Jobs /\ n \in plan[r]
  BY Zenon DEF PipelineInv, Places
<1>2. r \in Runs /\ n \in Nodes /\ job[t] = <<r, n>>
  BY <1>1 DEF Jobs, RunOf
<1>3. Created(r) /\ (t \in Runs => t = r)
  BY Zenon DEF PipelineInv, Places, Holding
<1>4. n \in Ticketed(r)
  BY Zenon, <1>2 DEF Ticketed, Holds
<1>5. Cardinality(Ticketed(r)) \in Nat /\ Cardinality(Ticketed(r)) # 0
  BY Zenon, <1>2, <1>4, NodeSets, Counting DEF PipelineInv, PipelineAssumption
<1>6. running[r] \in Nat /\ running[r] >= 1 /\ ~finished[r]
  BY <1>2, <1>5 DEF PipelineInv, Typed, JobsCounted
<1>7. remDeps[r][n] = 0
  BY Zenon, <1>2, <1>3, <1>4 DEF PipelineInv, ReadyOnly
<1>8. n \in Uncompleted(r) /\ n \notin Done(r)
  BY Zenon, <1>2, <1>4 DEF PipelineInv, Ordered, Uncompleted
<1> QED
  BY Zenon, <1>1, <1>2, <1>3, <1>4, <1>6, <1>7, <1>8

(* A thread that schedules works for a created run.                         *)
LEMMA Scheduler ==
  ASSUME PipelineInv, NEW t \in Threads, NEW r \in Runs, Scheduling(t, r)
  PROVE  Created(r)
  BY Zenon DEF PipelineInv, Places, Scheduling

(* Steps that neither create, move nor finish a ticket keep what the        *)
(* invariant says of tickets.                                               *)
LEMMA Frame ==
  ASSUME PipelineAssumption, PipelineInv, Typed', Places', Untouched',
         UNCHANGED <<remDeps, running, succeeded, queue>>,
         \A r \in Runs :
           /\ Created(r)' => Created(r) /\ plan'[r] = plan[r]
           /\ finished[r] => finished'[r]
           /\ finished'[r] => running[r] = 0
           /\ status'[r] = "OK" => status[r] = "OK"
           /\ context'[r] = "OK" => context[r] = "OK",
         \A t \in Threads :
           /\ pc'[t] \in Holding <=> pc[t] \in Holding
           /\ pc'[t] = "complete" <=> pc[t] = "complete"
           /\ pc[t] \in Holding => job'[t] = job[t]
           /\ \A r \in Runs : Scheduling(t, r)' => Scheduling(t, r) /\ todo'[t] \subseteq todo[t]
  PROVE  /\ TicketsDistinct' /\ TodoFresh' /\ ReadyOnly' /\ Released' /\ JobsCounted'
         /\ Ordered'
<1>1. \A r \in Runs : Ticketed(r)' = Ticketed(r)
  BY ZenonT(30) DEF Ticketed, Queued, Holds
<1>2. \A r \in Runs : Done(r)' = Done(r)
  BY DEF Done, Holding
<1>3. \A r \in Runs : Announced(r)' \subseteq Announced(r)
  BY Zenon DEF Announced
<1>4. \A r \in Runs : Created(r)' => Uncompleted(r)' \subseteq Uncompleted(r)
  BY Zenon, <1>1, <1>3 DEF Uncompleted, Waiting
<1>5. TicketsDistinct'
  BY DEF PipelineInv, TicketsDistinct
<1>6. TodoFresh'
  <2>1. \A t \in Threads, r \in Runs : Scheduling(t, r)' => Created(r)'
    BY Zenon DEF Places, Scheduling
  <2> QED
    BY <1>1, <2>1 DEF PipelineInv, TodoFresh
<1>7. ReadyOnly'
  BY Zenon, <1>1, <1>3 DEF PipelineInv, ReadyOnly
<1>8. Released'
  <2> SUFFICES ASSUME NEW r \in Runs, Created(r)', NEW m \in plan[r]
               PROVE  Cardinality(Deps[m] \cap Uncompleted(r)') <= remDeps[r][m]
    BY Zenon DEF Released
  <2>1. Cardinality(Deps[m] \cap Uncompleted(r)) <= remDeps[r][m]
    BY Zenon DEF PipelineInv, Released
  <2>2. Deps[m] \cap Uncompleted(r)' \subseteq Deps[m] \cap Uncompleted(r)
        /\ Deps[m] \cap Uncompleted(r) \subseteq Nodes
    BY Zenon, <1>4, NodeSets DEF PipelineInv
  <2>3. Cardinality(Deps[m] \cap Uncompleted(r)') <= Cardinality(Deps[m] \cap Uncompleted(r))
        /\ Cardinality(Deps[m] \cap Uncompleted(r)') \in Nat
        /\ Cardinality(Deps[m] \cap Uncompleted(r)) \in Nat
    BY ZenonT(30), <2>2, Counting DEF PipelineAssumption
  <2>4. remDeps[r][m] \in Nat
    BY DEF PipelineInv, Typed
  <2> QED
    BY <2>1, <2>3, <2>4
<1>9. JobsCounted'
  BY Zenon, <1>1 DEF PipelineInv, JobsCounted
<1>10. Ordered'
  <2>1. ASSUME NEW r \in Runs
        PROVE  Done(r)' \cap Uncompleted(r)' = {}
    <3>1. CASE Created(r)'
      BY Zenon, <1>2, <1>4, <3>1 DEF PipelineInv, Ordered
    <3>2. CASE ~Created(r)'
      BY Zenon, <3>2 DEF Untouched, Done
    <3> QED
      BY Zenon, <3>1, <3>2
  <2>2. ASSUME NEW r \in Runs, context'[r] = "OK", NEW t \in Threads, pc'[t] = "complete",
               RunOf(t)' = r
        PROVE  job'[t][2] \in succeeded'[r]
    BY Zenon, <2>2 DEF PipelineInv, Ordered, RunOf, Holding
  <2>3. ASSUME NEW r \in Runs, context'[r] = "OK", Created(r)', NEW m \in plan'[r]
        PROVE  Cardinality(Deps[m] \ Done(r)') <= remDeps'[r][m]
    BY Zenon, <1>2, <2>3 DEF PipelineInv, Ordered
  <2> QED
    BY Zenon, <2>1, <2>2, <2>3 DEF Ordered
<1> QED
  BY Zenon, <1>5, <1>6, <1>7, <1>8, <1>9, <1>10

(* Before any Turn is submitted.                                            *)
LEMMA PipelineInit == ASSUME PipelineAssumption PROVE Init => PipelineInv
<1> SUFFICES ASSUME Init
             PROVE  PipelineInv
  BY Zenon
<1>1. Typed
  <2>1. queue \in Seq(Jobs)
    BY Zenon, EmptySeq DEF Init
  <2>2. accepting \in BOOLEAN /\ attached \in BOOLEAN /\ destroying \in BOOLEAN
        /\ quiet \in BOOLEAN /\ poolActive \in BOOLEAN /\ finished \in [Runs -> BOOLEAN]
    BY Zenon DEF Init
  <2> QED
    BY Zenon, <2>1, <2>2 DEF Init, Typed
<1>2. Len(queue) = 0 /\ \A t \in Threads : pc[t] = "idle"
  BY Zenon DEF Init
<1>3. \A r \in Runs : /\ ~Created(r) /\ Ticketed(r) = {} /\ Done(r) = {} /\ ~Active(r)
                      /\ \A t \in Threads : ~Scheduling(t, r)
  BY <1>2 DEF Init, Created, Ticketed, Queued, Holds, Holding, Done, Active, Scheduling, Threads
<1>4. Places /\ Untouched /\ TicketsDistinct /\ HandlersInOrder /\ CompletedOnce
  <2>1. Places
    BY <1>2 DEF Places, Threads, Holding
  <2>2. \A r \in Runs : /\ running[r] = 0 /\ status[r] = "OK" /\ context[r] = "OK"
                        /\ succeeded[r] = {} /\ completions[r] = 0 /\ todo[r] = {}
    BY Zenon DEF Init, Threads
  <2>3. \A r \in Runs : ~finished[r]
    BY Zenon DEF Init
  <2>4. Untouched
    BY Zenon, <2>2, <2>3 DEF Untouched
  <2>5. TicketsDistinct /\ HandlersInOrder
    BY <1>2 DEF TicketsDistinct, HandlersInOrder, Threads, Holding
  <2>6. CompletedOnce
    BY <1>2, <2>2 DEF CompletedOnce
  <2> QED
    BY Zenon, <2>1, <2>4, <2>5, <2>6
<1>5. TodoFresh /\ ReadyOnly /\ Released /\ Ordered
  BY Zenon, <1>2, <1>3 DEF TodoFresh, ReadyOnly, Released, Ordered
<1>6. JobsCounted
  <2>1. \A r \in Runs : running[r] = 0
    BY Zenon DEF Init
  <2> QED
    BY <1>3, <2>1, FS_EmptySet DEF JobsCounted
<1>7. RunsCounted
  <2>1. ActiveRuns = {}
    BY Zenon, <1>3 DEF ActiveRuns
  <2> QED
    BY Zenon, <2>1, FS_EmptySet DEF Init, RunsCounted
<1> QED
  BY Zenon, <1>1, <1>4, <1>5, <1>6, <1>7 DEF PipelineInv

(* Steps of the thread that owns the pipeline, and registrations: nothing   *)
(* of a run changes.                                                        *)
LEMMA OwnerFrame ==
  ASSUME PipelineInv, Typed',
         UNCHANGED <<activeRuns, runVars, turnVars, queue, threadVars>>,
         quiet' => ~accepting' /\ activeRuns = 0,
         owner' \in {"asleep", "awake"} => ~accepting'
  PROVE  PipelineInv'
<1> USE DEF runVars, turnVars, threadVars
<1>1. \A r : /\ Created(r)' <=> Created(r)
             /\ Ticketed(r)' = Ticketed(r) /\ Done(r)' = Done(r)
             /\ Waiting(r)' = Waiting(r)
             /\ Active(r)' <=> Active(r)
             /\ \A t : Scheduling(t, r)' <=> Scheduling(t, r)
  BY ZenonT(30) DEF Created, Ticketed, Queued, Holds, Done, Waiting, Active, RunOf, Scheduling
<1>2. \A r : Announced(r)' = Announced(r)
  BY Zenon, <1>1 DEF Announced
<1>3. \A r : Uncompleted(r)' = Uncompleted(r)
  BY Zenon, <1>1, <1>2 DEF Uncompleted
<1>4. Places' /\ Untouched' /\ TicketsDistinct'
  BY <1>1 DEF PipelineInv, Places, Untouched, TicketsDistinct, RunOf
<1>5. TodoFresh' /\ ReadyOnly' /\ Released'
  BY Zenon, <1>1, <1>2, <1>3 DEF PipelineInv, TodoFresh, ReadyOnly, Released
<1>6. JobsCounted' /\ Ordered'
  BY Zenon, <1>1, <1>3 DEF PipelineInv, JobsCounted, Ordered, RunOf
<1>7. HandlersInOrder' /\ CompletedOnce'
  BY Zenon, <1>1 DEF PipelineInv, HandlersInOrder, CompletedOnce, RunOf
<1>8. ActiveRuns' = ActiveRuns
  BY Zenon, <1>1 DEF ActiveRuns
<1>9. RunsCounted'
  BY Zenon, <1>8 DEF PipelineInv, RunsCounted
<1> QED
  BY Zenon, <1>4, <1>5, <1>6, <1>7, <1>9 DEF PipelineInv

(* A step that changes nothing keeps the invariant.                         *)
LEMMA PipelineStutter == PipelineInv /\ UNCHANGED vars => PipelineInv'
<1> SUFFICES ASSUME PipelineInv, UNCHANGED vars
             PROVE  PipelineInv'
  BY Zenon
<1>1. UNCHANGED <<pipelineVars, runVars, turnVars, poolVars, threadVars>>
  BY Zenon DEF vars
<1>2. Typed'
  BY Zenon, <1>1 DEF PipelineInv, Typed, pipelineVars, runVars, turnVars, poolVars, threadVars
<1> QED
  BY Zenon, <1>1, <1>2, OwnerFrame DEF PipelineInv, RunsCounted, pipelineVars, poolVars

(* Registration publishes a plan for runs to come.                          *)
LEMMA RegisterStep ==
  ASSUME PipelineInv, NEW n \in Nodes, RegisterNode(n) \/ UnregisterNode(n)
  PROVE  PipelineInv'
<1>1. /\ registered' \subseteq Nodes
      /\ UNCHANGED <<accepting, attached, activeRuns, owner, destroying, quiet, runVars, turnVars,
                     poolVars, threadVars>>
  BY Zenon DEF RegisterNode, UnregisterNode, PipelineInv, Typed
<1>2. Typed'
  BY Zenon, <1>1 DEF PipelineInv, Typed, runVars, turnVars, poolVars, threadVars
<1> QED
  BY Zenon, <1>1, <1>2, OwnerFrame DEF PipelineInv, RunsCounted, poolVars

(* attach() opens the pipeline again.                                       *)
LEMMA AttachStep ==
  ASSUME PipelineInv, Attach
  PROVE  PipelineInv'
<1>1. /\ owner = "idle" /\ attached' = TRUE /\ accepting' = TRUE /\ quiet' = FALSE
      /\ UNCHANGED <<registered, activeRuns, owner, destroying, runVars, turnVars, poolVars,
                     threadVars>>
  BY Zenon DEF Attach
<1>2. attached' \in BOOLEAN /\ accepting' \in BOOLEAN /\ quiet' \in BOOLEAN
  BY Zenon, <1>1, Zenon
<1>3. Typed'
  BY Zenon, <1>1, <1>2 DEF PipelineInv, Typed, runVars, turnVars, poolVars, threadVars
<1> QED
  BY Zenon, <1>1, <1>3, OwnerFrame DEF poolVars

(* detach() and the destructor find no active run, or sleep: they closed    *)
(* the pipeline first.                                                      *)
LEMMA DrainStep ==
  ASSUME PipelineInv, Detach \/ Destroy \/ Drain
  PROVE  PipelineInv'
<1>1. ~accepting' /\ accepting' \in BOOLEAN
  <2>1. CASE Detach \/ Destroy
    BY Zenon, <2>1, Zenon DEF Detach, Destroy
  <2>2. CASE Drain
    BY Zenon, <2>2 DEF Drain, PipelineInv, RunsCounted, Typed
  <2> QED
    BY Zenon, <2>1, <2>2
<1>2. destroying' \in BOOLEAN
  <2>1. CASE Detach \/ Drain
    BY Zenon, <2>1 DEF Detach, Drain, PipelineInv, Typed
  <2>2. CASE Destroy
    BY Zenon, <2>2, Zenon DEF Destroy
  <2> QED
    BY Zenon, <2>1, <2>2
<1>3. DrainOrSleep
  BY Zenon DEF Detach, Destroy, Drain
<1>4. UNCHANGED <<registered, activeRuns, runVars, turnVars, poolVars, threadVars>>
  BY Zenon, <1>3 DEF DrainOrSleep
<1>5. CASE Drained
  <2>1. attached' = FALSE /\ quiet' = TRUE /\ owner' \in {"gone", "idle"}
    BY Zenon, <1>3, <1>5 DEF DrainOrSleep
  <2>2. attached' \in BOOLEAN /\ quiet' \in BOOLEAN
    BY Zenon, <2>1, Zenon
  <2>3. Typed'
    BY Zenon, <1>1, <1>2, <1>4, <2>1, <2>2
       DEF PipelineInv, Typed, runVars, turnVars, poolVars, threadVars
  <2> QED
    BY Zenon, <1>1, <1>4, <1>5, <2>1, <2>3, OwnerFrame DEF Drained, poolVars
<1>6. CASE ~Drained
  <2>1. UNCHANGED <<attached, quiet>> /\ owner' = "asleep"
    BY Zenon, <1>3, <1>6 DEF DrainOrSleep
  <2>2. Typed'
    BY Zenon, <1>1, <1>2, <1>4, <2>1 DEF PipelineInv, Typed, runVars, turnVars, poolVars,
       threadVars
  <2> QED
    BY Zenon, <1>1, <1>4, <2>1, <2>2, OwnerFrame DEF PipelineInv, RunsCounted, poolVars
<1> QED
  BY Zenon, <1>5, <1>6

(* The run is entered among the active ones and takes its plan.             *)
LEMMA AcceptStep ==
  ASSUME PipelineAssumption, PipelineInv, NEW r \in Runs, Accept(r)
  PROVE  PipelineInv'
<1>1. /\ pc[r] = "idle" /\ answer[r] = "none" /\ accepting
      /\ plan' = [plan EXCEPT ![r] = registered] /\ activeRuns' = activeRuns + 1
      /\ job' = [job EXCEPT ![r] = <<r, NoNode>>] /\ pc' = [pc EXCEPT ![r] = "plan"]
      /\ UNCHANGED <<registered, accepting, attached, owner, destroying, quiet, remDeps, remNodes,
                     running, status, finished, context, succeeded, answer, completions, queue,
                     poolActive, todo>>
      /\ r \in Threads
  BY Zenon DEF Accept, Goto, turnVars, poolVars, Threads
<1>2. ~Created(r) /\ ~Created(r)'
  BY Zenon, <1>1 DEF Created, PipelineInv, Typed
<1>3. /\ pc'[r] = "plan" /\ job'[r] = <<r, NoNode>> /\ RunOf(r)' = r
      /\ \A t \in Threads : t # r => pc'[t] = pc[t] /\ job'[t] = job[t]
      /\ \A s \in Runs : s # r => plan'[s] = plan[s]
  BY Zenon, <1>1 DEF PipelineInv, Typed, RunOf
<1>4. \A s \in Runs : Created(s)' <=> Created(s)
  BY Zenon, <1>1, <1>2, <1>3 DEF Created, Threads
<1>5. Typed'
  BY <1>1 DEF PipelineInv, Typed
<1>6. \A t \in Threads : pc'[t] \notin {"idle", "plan"} => t # r /\ pc'[t] = pc[t] /\ RunOf(t)' = RunOf(t)
  BY Zenon, <1>3 DEF RunOf
<1>7. Places'
  <2>1. \A t \in Threads : pc'[t] # "idle" => job'[t] \in Runs \X (Nodes \cup {NoNode})
    <3>1. <<r, NoNode>> \in Runs \X (Nodes \cup {NoNode})
      BY Zenon
    <3> QED
      BY Zenon, <1>3, <3>1 DEF PipelineInv, Places
  <2>2. \A t \in Threads : pc'[t] \in Holding => job'[t] \in Jobs /\ job'[t][2] \in plan'[RunOf(t)']
    <3> SUFFICES ASSUME NEW t \in Threads, pc'[t] \in Holding
                 PROVE  job'[t] \in Jobs /\ job'[t][2] \in plan'[RunOf(t)']
      BY Zenon
    <3>1. t # r /\ pc[t] \in Holding /\ job'[t] = job[t] /\ RunOf(t)' = RunOf(t)
      BY Zenon, <1>3, <1>6 DEF Holding
    <3>2. Created(RunOf(t)) /\ RunOf(t) \in Runs /\ job[t][2] \in plan[RunOf(t)]
      BY Zenon, <3>1, Holder
    <3> QED
      BY <1>2, <1>3, <3>1, <3>2 DEF PipelineInv, Places
  <2>3. \A t \in Threads : pc'[t] \notin {"idle", "plan"} =>
          Created(RunOf(t))' \/ (t \in Runs /\ RunOf(t)' = t /\ pc'[t] \in {"release", "notify"})
    <3> SUFFICES ASSUME NEW t \in Threads, pc'[t] \notin {"idle", "plan"}
                 PROVE  Created(RunOf(t))' \/ (t \in Runs /\ RunOf(t)' = t /\ pc'[t] \in {"release", "notify"})
      BY Zenon
    <3>1. t # r /\ pc'[t] = pc[t] /\ RunOf(t)' = RunOf(t)
      BY Zenon, <1>6
    <3>2. RunOf(t) \in Runs
      BY Zenon, <3>1 DEF PipelineInv, Places, RunOf
    <3>3. Created(RunOf(t)) => Created(RunOf(t))'
      BY Zenon, <1>4, <3>1, <3>2 DEF Created
    <3> QED
      BY Zenon, <3>1, <3>3 DEF PipelineInv, Places
  <2>4. \A s \in Runs : pc'[s] # "idle" =>
          /\ RunOf(s)' = s /\ answer'[s] # "OK"
          /\ answer'[s] = "INVALID_ARGUMENT" => pc'[s] \in {"release", "notify"}
    BY <1>1, <1>3 DEF PipelineInv, Places, RunOf, Threads
  <2>5. \A w \in Workers : pc'[w] # "plan"
    BY Zenon, <1>3 DEF PipelineInv, Places, PipelineAssumption, Threads
  <2>6. \A i \in 1..Len(queue') : Created(queue[i][1])' /\ queue'[i][2] \in plan'[queue'[i][1]]
    <3> SUFFICES ASSUME NEW i \in 1..Len(queue)
                 PROVE  Created(queue[i][1])' /\ queue[i][2] \in plan'[queue[i][1]]
      BY Zenon, <1>1
    <3>1. queue[i] \in Jobs
      BY Zenon, ElementOfSeq DEF PipelineInv, Typed
    <3>2. queue[i][1] \in Runs /\ Created(queue[i][1]) /\ queue[i][2] \in plan[queue[i][1]]
      BY Zenon, <3>1 DEF PipelineInv, Places, Jobs
    <3>3. Created(queue[i][1])'
      BY Zenon, <1>1, <1>4, <3>2 DEF Created
    <3> QED
      BY Zenon, <1>2, <1>3, <3>2, <3>3
  <2> QED
    BY Zenon, <1>1, <2>1, <2>2, <2>3, <2>4, <2>5, <2>6 DEF Places
<1>8. Untouched'
  BY Zenon, <1>1, <1>4 DEF PipelineInv, Untouched
<1>9. \A t \in Threads :
        /\ pc'[t] \in Holding <=> pc[t] \in Holding
        /\ pc'[t] = "complete" <=> pc[t] = "complete"
        /\ pc[t] \in Holding => job'[t] = job[t]
        /\ \A s \in Runs : Scheduling(t, s)' => Scheduling(t, s)
  BY Zenon, <1>1, <1>3 DEF Holding, Scheduling, RunOf
<1>10. /\ TicketsDistinct' /\ TodoFresh' /\ ReadyOnly' /\ Released' /\ JobsCounted' /\ Ordered'
  <2>1. \A s \in Runs : Created(s)' => plan'[s] = plan[s]
    BY Zenon, <1>2, <1>3
  <2> QED
    BY Zenon, <1>1, <1>4, <1>5, <1>7, <1>8, <1>9, <2>1, Frame DEF PipelineInv, JobsCounted
<1>11. HandlersInOrder'
  BY ZenonT(30), <1>1, <1>3 DEF PipelineInv, HandlersInOrder, RunOf, Threads
<1>12. \A t \in Threads : pc'[t] \in {"callback", "release"} <=> pc[t] \in {"callback", "release"}
  BY Zenon, <1>1, <1>3
<1>13. CompletedOnce'
  BY <1>1, <1>3, <1>4, <1>6, <1>12 DEF PipelineInv, Places, CompletedOnce, RunOf
<1>14. RunsCounted'
  <2>1. ~Active(r)
    <3>1. \A t \in Threads : pc[t] \in {"callback", "release"} => RunOf(t) # r
      BY Zenon, <1>1, <1>2 DEF PipelineInv, Places
    <3> QED
      BY Zenon, <1>1, <1>2, <3>1 DEF Active
  <2>2. Active(r)'
    BY Zenon, <1>3 DEF Active
  <2>3. \A s \in Runs : s # r => (Active(s)' <=> Active(s))
    BY <1>1, <1>3, <1>4, <1>6, <1>12 DEF Active, RunOf, Threads
  <2>4. ActiveRuns' = ActiveRuns \cup {r} /\ r \notin ActiveRuns /\ ActiveRuns \subseteq Runs
    BY Zenon, <2>1, <2>2, <2>3 DEF ActiveRuns
  <2>5. Cardinality(ActiveRuns') = activeRuns + 1
    BY Zenon, <2>4, Counting DEF PipelineAssumption, PipelineInv, RunsCounted
  <2> QED
    BY Zenon, <1>1, <2>5 DEF PipelineInv, RunsCounted
<1> QED
  BY Zenon, <1>5, <1>7, <1>8, <1>10, <1>11, <1>13, <1>14 DEF PipelineInv

(* A thread at work stays in its run.                                       *)
LEMMA PlacesFrame ==
  ASSUME PipelineAssumption, PipelineInv, NEW t \in Threads,
         UNCHANGED <<plan, answer>>,
         \A s \in Threads : s # t => pc'[s] = pc[s] /\ job'[s] = job[s],
         pc[t] \notin {"idle", "plan"}, pc'[t] \notin {"idle", "plan"},
         job'[t] \in Runs \X (Nodes \cup {NoNode}), job'[t][1] = job[t][1],
         pc'[t] \in Holding => job'[t] \in Jobs /\ job'[t][2] \in plan[RunOf(t)],
         Created(RunOf(t)) \/ pc'[t] \in {"release", "notify"},
         \A i \in 1..Len(queue') :
           queue'[i] \in Jobs /\ Created(queue'[i][1]) /\ queue'[i][2] \in plan[queue'[i][1]]
  PROVE  /\ Places'
         /\ \A r \in Runs : Created(r)' <=> Created(r)
         /\ \A s \in Threads : RunOf(s)' = RunOf(s)
<1>1. \A s \in Threads : RunOf(s)' = RunOf(s)
  BY Zenon DEF RunOf
<1>2. \A r \in Runs : Created(r)' <=> Created(r)
  BY Zenon DEF Created, Threads
<1>3. Created(RunOf(t)) /\ t \in Runs => RunOf(t) = t /\ answer[t] = "none"
  BY DEF PipelineInv, Places, Typed, Created
<1>4. \A s \in Threads : pc'[s] # "idle" => job'[s] \in Runs \X (Nodes \cup {NoNode})
  BY Zenon DEF PipelineInv, Places
<1>5. \A s \in Threads : pc'[s] \in Holding => job'[s] \in Jobs /\ job'[s][2] \in plan'[RunOf(s)']
  BY <1>1 DEF PipelineInv, Places
<1>6. \A s \in Threads : pc'[s] # "idle" => RunOf(s) \in Runs
  BY Zenon, <1>1, <1>4 DEF RunOf
<1>7. \A s \in Threads : pc'[s] \notin {"idle", "plan"} =>
        Created(RunOf(s))' \/ (s \in Runs /\ RunOf(s)' = s /\ pc'[s] \in {"release", "notify"})
  <2> SUFFICES ASSUME NEW s \in Threads, pc'[s] \notin {"idle", "plan"}
               PROVE  Created(RunOf(s))' \/ (s \in Runs /\ RunOf(s)' = s /\ pc'[s] \in {"release", "notify"})
    BY Zenon
  <2>1. Created(RunOf(s)) => Created(RunOf(s))'
    BY Zenon, <1>1, <1>2, <1>6 DEF Created
  <2>2. Created(RunOf(s)) \/ (s \in Runs /\ RunOf(s) = s /\ pc'[s] \in {"release", "notify"})
    BY Zenon DEF PipelineInv, Places
  <2> QED
    BY Zenon, <1>1, <2>1, <2>2
<1>8. \A r \in Runs : pc'[r] # "idle" =>
        /\ RunOf(r)' = r /\ answer'[r] # "OK"
        /\ answer'[r] = "INVALID_ARGUMENT" => pc'[r] \in {"release", "notify"}
  <2> SUFFICES ASSUME NEW r \in Runs, pc'[r] # "idle"
               PROVE  /\ RunOf(r)' = r /\ answer'[r] # "OK"
                      /\ answer'[r] = "INVALID_ARGUMENT" => pc'[r] \in {"release", "notify"}
    BY Zenon
  <2>1. r \in Threads /\ pc[r] # "idle"
    BY Zenon DEF Threads
  <2> QED
    BY Zenon, <1>1, <1>3, <2>1 DEF PipelineInv, Places
<1>9. \A w \in Workers : pc'[w] # "plan"
  BY Zenon DEF PipelineInv, Places, Threads
<1>10. \A i \in 1..Len(queue') : Created(queue[i][1])' /\ queue'[i][2] \in plan'[queue'[i][1]]
  <2> SUFFICES ASSUME NEW i \in 1..Len(queue')
               PROVE  Created(queue[i][1])'
    BY Zenon
  <2>1. queue'[i][1] \in Runs
    BY Zenon DEF Jobs
  <2> QED
    BY Zenon, <2>1 DEF Created, Threads
<1> QED
  BY Zenon, <1>1, <1>2, <1>4, <1>5, <1>7, <1>8, <1>9, <1>10 DEF Places

(* The wrappers in the queue belong to created runs.                        *)
LEMMA QueueSound ==
  ASSUME PipelineInv
  PROVE  \A i \in 1..Len(queue) :
           queue[i] \in Jobs /\ Created(queue[i][1]) /\ queue[i][2] \in plan[queue[i][1]]
  BY Zenon, ElementOfSeq DEF PipelineInv, Typed, Places

(* Steps that take no completion and release no run.                        *)
LEMMA CompletionFrame ==
  ASSUME PipelineInv,
         UNCHANGED <<activeRuns, finished, completions, accepting, quiet>>,
         owner' \in {"asleep", "awake"} => owner \in {"asleep", "awake"},
         \A r \in Runs : (Created(r)' <=> Created(r)) /\ (pc'[r] = "plan" <=> pc[r] = "plan"),
         \A t \in Threads :
           /\ pc'[t] = "callback" <=> pc[t] = "callback"
           /\ pc'[t] = "release" <=> pc[t] = "release"
           /\ pc[t] \in {"callback", "release"} => job'[t] = job[t]
           /\ pc'[t] = "notify" => pc[t] = "notify" /\ job'[t] = job[t]
  PROVE  CompletedOnce' /\ RunsCounted'
<1>1. \A t \in Threads : pc[t] \in {"callback", "release"} \/ pc'[t] = "notify" =>
        RunOf(t)' = RunOf(t) /\ RunOf(t) \in Runs
  BY Zenon DEF PipelineInv, Places, RunOf
<1>2. \A t \in Threads : pc[t] \in {"callback", "release"} \/ pc'[t] = "notify" =>
        (Created(RunOf(t))' <=> Created(RunOf(t)))
  BY Zenon, <1>1 DEF Created
<1>3. CompletedOnce'
  BY <1>1, <1>2 DEF PipelineInv, CompletedOnce
<1>4. \A r \in Runs : Active(r)' <=> Active(r)
  BY <1>1 DEF Active
<1>5. ActiveRuns' = ActiveRuns
  BY Zenon, <1>4 DEF ActiveRuns
<1> QED
  BY Zenon, <1>3, <1>5 DEF PipelineInv, RunsCounted

(* Nothing but its submitter works for a run that was not created.          *)
LEMMA NotCreated ==
  ASSUME PipelineAssumption, PipelineInv, NEW r \in Runs, ~Created(r)
  PROVE  /\ \A t \in Threads : pc[t] # "idle" /\ RunOf(t) = r => t = r
         /\ Ticketed(r) = {} /\ Done(r) = {} /\ running[r] = 0 /\ ~finished[r]
         /\ status[r] = "OK" /\ context[r] = "OK" /\ completions[r] = 0 /\ succeeded[r] = {}
<1>1. /\ running[r] = 0 /\ status[r] = "OK" /\ ~finished[r] /\ context[r] = "OK"
      /\ succeeded[r] = {} /\ completions[r] = 0
  BY Zenon DEF PipelineInv, Untouched
<1>2. ASSUME NEW t \in Threads, pc[t] # "idle", RunOf(t) = r
      PROVE  t = r
  <2>1. CASE pc[t] = "plan"
    BY Zenon, <1>2, <2>1 DEF PipelineInv, Places, Threads
  <2>2. CASE pc[t] # "plan"
    BY Zenon, <1>2, <2>2 DEF PipelineInv, Places
  <2> QED
    BY Zenon, <2>1, <2>2
<1>3. Ticketed(r) \subseteq Nodes /\ Cardinality(Ticketed(r)) <= 0
  BY Zenon, <1>1, NodeSets DEF PipelineInv, JobsCounted
<1>4. Ticketed(r) = {}
  BY <1>3, Counting DEF PipelineAssumption
<1> QED
  BY Zenon, <1>1, <1>2, <1>4 DEF Done

(* ExecutionPlan::submit refuses: the run never exists.                     *)
LEMMA RefusedStep ==
  ASSUME PipelineAssumption, PipelineInv, NEW r \in Runs, SubmitPlan(r), ~poolActive
  PROVE  PipelineInv'
<1>1. /\ pc[r] = "plan" /\ answer' = [answer EXCEPT ![r] = "INVALID_ARGUMENT"]
      /\ pc' = [pc EXCEPT ![r] = "release"]
      /\ UNCHANGED <<pipelineVars, runVars, context, succeeded, completions, poolVars, job, todo>>
      /\ r \in Threads /\ ~Created(r)
  BY Zenon DEF SubmitPlan, Goto, runVars, Threads, Created
<1>2. /\ pc'[r] = "release" /\ \A t \in Threads : t # r => pc'[t] = pc[t]
      /\ answer'[r] = "INVALID_ARGUMENT" /\ \A s \in Runs : s # r => answer'[s] = answer[s]
      /\ \A t \in Threads : RunOf(t)' = RunOf(t)
  BY Zenon, <1>1 DEF PipelineInv, Typed, RunOf
<1>3. \A s \in Runs : Created(s)' <=> Created(s)
  BY Zenon, <1>1, <1>2 DEF Created, Threads
<1>4. Typed'
  BY Zenon, <1>1 DEF PipelineInv, Typed, pipelineVars, runVars, poolVars
<1>5. RunOf(r) = r /\ \A t \in Threads : pc[t] # "idle" => RunOf(t) \in Runs
  BY Zenon, <1>1 DEF PipelineInv, Places, RunOf
<1>6. Places'
  <2>1. \A t \in Threads : pc'[t] \notin {"idle", "plan"} =>
          Created(RunOf(t))' \/ (t \in Runs /\ RunOf(t)' = t /\ pc'[t] \in {"release", "notify"})
    <3> SUFFICES ASSUME NEW t \in Threads, t # r, pc[t] \notin {"idle", "plan"}
                 PROVE  Created(RunOf(t))' \/ (t \in Runs /\ RunOf(t)' = t /\ pc'[t] \in {"release", "notify"})
      BY Zenon, <1>2, <1>5
    <3>1. Created(RunOf(t)) => Created(RunOf(t))'
      BY Zenon, <1>2, <1>3, <1>5 DEF Created
    <3> QED
      BY Zenon, <1>2, <3>1 DEF PipelineInv, Places
  <2>2. \A s \in Runs : pc'[s] # "idle" =>
          /\ RunOf(s)' = s /\ answer'[s] # "OK"
          /\ answer'[s] = "INVALID_ARGUMENT" => pc'[s] \in {"release", "notify"}
    BY <1>2, <1>5 DEF PipelineInv, Places, Threads
  <2>3. \A w \in Workers : pc'[w] # "plan"
    BY Zenon, <1>2 DEF PipelineInv, Places, PipelineAssumption, Threads
  <2>4. \A i \in 1..Len(queue') : Created(queue[i][1])' /\ queue'[i][2] \in plan'[queue'[i][1]]
    <3> SUFFICES ASSUME NEW i \in 1..Len(queue)
                 PROVE  Created(queue[i][1])' /\ queue[i][2] \in plan[queue[i][1]]
      BY Zenon, <1>1 DEF poolVars, runVars
    <3>1. queue[i][1] \in Runs /\ Created(queue[i][1]) /\ queue[i][2] \in plan[queue[i][1]]
      BY Zenon, QueueSound DEF Jobs
    <3> QED
      BY Zenon, <1>1, <1>3, <3>1 DEF Created, poolVars
  <2>5. \A t \in Threads : /\ pc'[t] # "idle" => job'[t] \in Runs \X (Nodes \cup {NoNode})
                           /\ pc'[t] \in Holding => job'[t] \in Jobs /\ job'[t][2] \in plan'[RunOf(t)']
    BY Zenon, <1>1, <1>2 DEF PipelineInv, Places, Holding, runVars
  <2> QED
    BY Zenon, <2>1, <2>2, <2>3, <2>4, <2>5 DEF Places
<1>7. Untouched'
  BY Zenon, <1>1, <1>3 DEF PipelineInv, Untouched, runVars
<1>8. \A t \in Threads :
        /\ pc'[t] \in Holding <=> pc[t] \in Holding
        /\ pc'[t] = "complete" <=> pc[t] = "complete"
        /\ \A s \in Runs : Scheduling(t, s)' => Scheduling(t, s)
  BY Zenon, <1>1, <1>2 DEF Holding, Scheduling, runVars
<1>9. /\ TicketsDistinct' /\ TodoFresh' /\ ReadyOnly' /\ Released' /\ JobsCounted' /\ Ordered'
  BY Zenon, <1>1, <1>3, <1>4, <1>6, <1>7, <1>8, Frame DEF PipelineInv, JobsCounted, runVars,
     poolVars
<1>10. HandlersInOrder'
  BY Zenon, <1>1, <1>2 DEF PipelineInv, HandlersInOrder, Threads
<1>11. \A t \in Threads : pc[t] # "idle" /\ RunOf(t) = r => t = r
  BY Zenon, <1>1, NotCreated
<1>12. \A t \in Threads : pc[t] \in {"callback", "release", "notify"} =>
         t # r /\ RunOf(t) # r /\ (Created(RunOf(t))' <=> Created(RunOf(t)))
  BY <1>1, <1>2, <1>3, <1>5, <1>11 DEF Created
<1>13. CompletedOnce'
  <2>1. \A s, t \in Threads :
          pc'[s] \in {"callback", "release"} /\ pc'[t] \in {"callback", "release"}
            /\ RunOf(s)' = RunOf(t)' => s = t
    BY <1>2, <1>5, <1>12 DEF PipelineInv, CompletedOnce
  <2>2. ~Created(RunOf(r))'
    BY Zenon, <1>1, <1>2, <1>3, <1>5 DEF Created
  <2>3. \A t \in Threads : pc'[t] \in {"callback", "release", "notify"} /\ Created(RunOf(t))' =>
          finished'[RunOf(t)']
    BY Zenon, <1>1, <1>2, <1>12, <2>2 DEF PipelineInv, CompletedOnce, runVars
  <2>4. \A t \in Threads : pc'[t] = "callback" => completions'[RunOf(t)'] = 0 /\ Created(RunOf(t))'
    BY Zenon, <1>1, <1>2, <1>12 DEF PipelineInv, CompletedOnce
  <2> QED
    BY Zenon, <1>1, <2>1, <2>3, <2>4 DEF PipelineInv, CompletedOnce, runVars
<1>14. RunsCounted'
  <2>1. Active(r) /\ Active(r)'
    BY Zenon, <1>1, <1>2, <1>5 DEF Active
  <2>2. \A s \in Runs : s # r => (Active(s)' <=> Active(s))
    BY ZenonT(30), <1>1, <1>2, <1>3, <1>5, <1>12 DEF Active, Threads, runVars
  <2>3. ActiveRuns' = ActiveRuns
    BY Zenon, <2>1, <2>2 DEF ActiveRuns
  <2> QED
    BY Zenon, <1>1, <2>3 DEF PipelineInv, RunsCounted, pipelineVars
<1> QED
  BY Zenon, <1>4, <1>6, <1>7, <1>9, <1>10, <1>13, <1>14 DEF PipelineInv

(* ExecutionPlan::submit creates the run with the static counts; its roots  *)
(* wait for nothing.                                                        *)
LEMMA CreatedStep ==
  ASSUME PipelineAssumption, PipelineInv, NEW r \in Runs, SubmitPlan(r), poolActive
  PROVE  PipelineInv'
<1> DEFINE roots == {n \in plan[r] : Deps[n] = {}}
<1>1. /\ pc[r] = "plan"
      /\ remDeps' = [remDeps EXCEPT ![r] = [n \in Nodes |-> Cardinality(Deps[n])]]
      /\ remNodes' = [remNodes EXCEPT ![r] = Cardinality(plan[r])]
      /\ todo' = [todo EXCEPT ![r] = roots] /\ pc' = [pc EXCEPT ![r] = "reserve"]
      /\ UNCHANGED <<pipelineVars, plan, running, status, finished, context, succeeded,
                     completions, poolVars, job, answer>>
      /\ r \in Threads /\ ~Created(r)
  BY Zenon DEF SubmitPlan, Goto, Threads, Created
<1>2. /\ pc'[r] = "reserve" /\ \A t \in Threads : t # r => pc'[t] = pc[t] /\ todo'[t] = todo[t]
      /\ todo'[r] = roots
      /\ \A t \in Threads : RunOf(t)' = RunOf(t)
      /\ \A n \in Nodes : remDeps'[r][n] = Cardinality(Deps[n])
      /\ \A s \in Runs : s # r => remDeps'[s] = remDeps[s]
  BY Zenon, <1>1 DEF PipelineInv, Typed, RunOf
<1>3. RunOf(r) = r /\ answer[r] = "none" /\ \A t \in Threads : pc[t] # "idle" => RunOf(t) \in Runs
  BY ZenonT(30), <1>1 DEF PipelineInv, Places, RunOf, Typed
<1>4. Created(r)' /\ \A s \in Runs : s # r => (Created(s)' <=> Created(s))
  BY Zenon, <1>1, <1>2, <1>3 DEF Created, Threads
<1>5. \A m \in Nodes : \A S \in SUBSET Nodes : Cardinality(Deps[m] \cap S) <= Cardinality(Deps[m])
                         /\ Cardinality(Deps[m] \ S) <= Cardinality(Deps[m])
                         /\ Cardinality(Deps[m]) \in Nat
  <2>1. \A m \in Nodes : Deps[m] \subseteq Nodes
    BY Zenon DEF PipelineAssumption
  <2> QED
    BY Zenon, <2>1, Counting DEF PipelineAssumption
<1>6. Typed'
  <2>1. [n \in Nodes |-> Cardinality(Deps[n])] \in [Nodes -> Nat]
    BY Zenon, <1>5
  <2> QED
    BY Zenon, <1>1, <2>1 DEF PipelineInv, Typed, pipelineVars, poolVars
<1>7. \A t \in Threads : pc[t] # "idle" /\ RunOf(t) = r => t = r
  BY Zenon, <1>1, NotCreated
<1>8. Places'
  <2>1. \A t \in Threads : pc'[t] \notin {"idle", "plan"} =>
          Created(RunOf(t))' \/ (t \in Runs /\ RunOf(t)' = t /\ pc'[t] \in {"release", "notify"})
    <3> SUFFICES ASSUME NEW t \in Threads, pc'[t] \notin {"idle", "plan"}
                 PROVE  Created(RunOf(t))' \/ (t \in Runs /\ RunOf(t)' = t /\ pc'[t] \in {"release", "notify"})
      BY Zenon
    <3>1. CASE t = r
      BY Zenon, <1>2, <1>3, <1>4, <3>1 DEF Created
    <3>2. CASE t # r
      <4>1. Created(RunOf(t)) => Created(RunOf(t))'
        BY ZenonT(30), <1>2, <1>3, <1>4, <3>2 DEF Created
      <4> QED
        BY <1>2, <3>2, <4>1 DEF PipelineInv, Places
    <3> QED
      BY Zenon, <3>1, <3>2
  <2>2. \A s \in Runs : pc'[s] # "idle" =>
          /\ RunOf(s)' = s /\ answer'[s] # "OK"
          /\ answer'[s] = "INVALID_ARGUMENT" => pc'[s] \in {"release", "notify"}
    BY <1>1, <1>2, <1>3 DEF PipelineInv, Places, Threads
  <2>3. \A w \in Workers : pc'[w] # "plan"
    BY Zenon, <1>2 DEF PipelineInv, Places, PipelineAssumption, Threads
  <2>4. \A i \in 1..Len(queue') : Created(queue[i][1])' /\ queue'[i][2] \in plan'[queue'[i][1]]
    <3> SUFFICES ASSUME NEW i \in 1..Len(queue)
                 PROVE  Created(queue[i][1])' /\ queue[i][2] \in plan[queue[i][1]]
      BY Zenon, <1>1 DEF poolVars
    <3>1. queue[i][1] \in Runs /\ Created(queue[i][1]) /\ queue[i][2] \in plan[queue[i][1]]
      BY Zenon, QueueSound DEF Jobs
    <3> QED
      BY Zenon, <1>1, <1>4, <3>1 DEF Created, poolVars
  <2>5. \A t \in Threads : /\ pc'[t] # "idle" => job'[t] \in Runs \X (Nodes \cup {NoNode})
                           /\ pc'[t] \in Holding => job'[t] \in Jobs /\ job'[t][2] \in plan'[RunOf(t)']
    BY ZenonT(30), <1>1, <1>2 DEF PipelineInv, Places, Holding
  <2> QED
    BY Zenon, <2>1, <2>2, <2>3, <2>4, <2>5 DEF Places
<1>9. Untouched'
  BY <1>1, <1>4 DEF PipelineInv, Untouched
<1>10. \A t \in Threads : /\ pc'[t] \in Holding <=> pc[t] \in Holding
                          /\ pc'[t] = "complete" <=> pc[t] = "complete"
  BY Zenon, <1>1, <1>2 DEF Holding
<1>11. \A s \in Runs : Ticketed(s)' = Ticketed(s) /\ Done(s)' = Done(s)
  BY Zenon, <1>1, <1>10 DEF Ticketed, Queued, Holds, Done, poolVars
<1>12. \A t \in Threads : /\ Scheduling(t, r)' => t = r
                          /\ \A s \in Runs : s # r => (Scheduling(t, s)' <=> Scheduling(t, s))
                          /\ \A s \in Runs : s # r /\ Scheduling(t, s)' => t # r
  BY Zenon, <1>1, <1>2, <1>3, <1>7 DEF Scheduling
<1>13. \A s \in Runs : s # r => Announced(s)' = Announced(s)
  BY Zenon, <1>2, <1>12 DEF Announced
<1>14. \A s \in Runs : s # r => Uncompleted(s)' = Uncompleted(s)
  BY Zenon, <1>1, <1>2, <1>11, <1>13 DEF Uncompleted, Waiting
<1>15. Ticketed(r) = {} /\ Done(r) = {}
  BY Zenon, <1>1, NotCreated
<1>16. Announced(r)' \subseteq roots
  BY Zenon, <1>2, <1>12 DEF Announced
<1>17. Uncompleted(r)' \subseteq Nodes /\ \A m \in plan[r] : m \in Nodes
  BY ZenonT(30), <1>6, NodeSets DEF PipelineInv, Typed, Uncompleted, Waiting, Announced, Ticketed
<1>18. TicketsDistinct'
  BY <1>1, <1>10 DEF PipelineInv, TicketsDistinct, poolVars
<1>19. TodoFresh'
  <2>1. ASSUME NEW t \in Threads, Scheduling(t, r)'
        PROVE  /\ todo'[t] \subseteq plan'[r] /\ todo'[t] \cap Ticketed(r)' = {}
               /\ \A s \in Threads : Scheduling(s, r)' /\ s # t => todo'[s] \cap todo'[t] = {}
    BY SMTT(20), <1>1, <1>2, <1>11, <1>12, <1>15, <2>1
  <2>2. ASSUME NEW q \in Runs, q # r, NEW t \in Threads, Scheduling(t, q)'
        PROVE  /\ todo'[t] \subseteq plan'[q] /\ todo'[t] \cap Ticketed(q)' = {}
               /\ \A s \in Threads : Scheduling(s, q)' /\ s # t => todo'[s] \cap todo'[t] = {}
    BY SMTT(20), <1>1, <1>2, <1>11, <1>12, <2>2 DEF PipelineInv, TodoFresh
  <2> QED
    BY Zenon, <2>1, <2>2 DEF TodoFresh
<1>20. ReadyOnly'
  <2>1. \A n \in roots : remDeps'[r][n] = 0
    BY Zenon, <1>2, <1>17, FS_EmptySet
  <2> QED
    BY <1>2, <1>4, <1>11, <1>13, <1>15, <1>16, <2>1 DEF PipelineInv, ReadyOnly
<1>21. Released'
  <2>1. \A m \in plan[r] : Cardinality(Deps[m] \cap Uncompleted(r)') <= remDeps'[r][m]
    <3> SUFFICES ASSUME NEW m \in plan[r]
                 PROVE  Cardinality(Deps[m] \cap Uncompleted(r)') <= remDeps'[r][m]
      BY Zenon
    <3>1. m \in Nodes /\ remDeps'[r][m] = Cardinality(Deps[m])
      BY Zenon, <1>2, <1>17
    <3>2. Cardinality(Deps[m] \cap Uncompleted(r)') <= Cardinality(Deps[m])
      BY Zenon, <1>5, <1>17, <3>1
    <3> QED
      BY Zenon, <3>1, <3>2
  <2>2. ASSUME NEW s \in Runs, s # r, Created(s)', NEW m \in plan[s]
        PROVE  Cardinality(Deps[m] \cap Uncompleted(s)') <= remDeps'[s][m]
    BY Zenon, <1>2, <1>4, <1>14, <2>2 DEF PipelineInv, Released
  <2> QED
    BY Zenon, <1>1, <2>1, <2>2 DEF Released
<1>22. JobsCounted'
  BY Zenon, <1>1, <1>11 DEF PipelineInv, JobsCounted
<1>23. Ordered'
  <2>1. \A s \in Runs : Done(s)' \cap Uncompleted(s)' = {}
    BY Zenon, <1>11, <1>14, <1>15 DEF PipelineInv, Ordered
  <2>2. \A s \in Runs : context'[s] = "OK" =>
          \A t \in Threads : pc'[t] = "complete" /\ RunOf(t)' = s => job'[t][2] \in succeeded'[s]
    BY ZenonT(30), <1>1, <1>2, <1>10 DEF PipelineInv, Ordered
  <2>3. \A m \in plan[r] : Cardinality(Deps[m] \ Done(r)') <= remDeps'[r][m]
    <3> SUFFICES ASSUME NEW m \in plan[r]
                 PROVE  Cardinality(Deps[m] \ Done(r)') <= remDeps'[r][m]
      BY Zenon
    <3>1. m \in Nodes /\ remDeps'[r][m] = Cardinality(Deps[m])
      BY Zenon, <1>2, <1>17
    <3>2. Done(r)' \in SUBSET Nodes
      BY Zenon, <1>11, <1>15
    <3>3. Cardinality(Deps[m] \ Done(r)') <= Cardinality(Deps[m])
      BY ZenonT(30), <1>5, <3>1, <3>2
    <3> QED
      BY Zenon, <3>1, <3>3
  <2> QED
    BY Zenon, <1>1, <1>2, <1>4, <1>11, <2>1, <2>2, <2>3 DEF PipelineInv, Ordered
<1>24. HandlersInOrder'
  BY <1>1, <1>2 DEF PipelineInv, HandlersInOrder, Threads
<1>25. \A t \in Threads : pc[t] \in {"callback", "release", "notify"} =>
         t # r /\ RunOf(t) # r /\ (Created(RunOf(t))' <=> Created(RunOf(t)))
  <2> SUFFICES ASSUME NEW t \in Threads, pc[t] \in {"callback", "release", "notify"}
               PROVE  t # r /\ RunOf(t) # r /\ (Created(RunOf(t))' <=> Created(RunOf(t)))
    BY Zenon
  <2>1. t # r /\ RunOf(t) # r /\ RunOf(t) \in Runs
    BY Zenon, <1>1, <1>3, <1>7
  <2> QED
    BY ZenonT(30), <1>2, <1>4, <2>1 DEF Created
<1>26. CompletedOnce'
  <2>1. \A t \in Threads : pc'[t] \in {"callback", "release", "notify"} => t # r /\ pc'[t] = pc[t]
    BY Zenon, <1>2
  <2> QED
    BY <1>1, <1>2, <1>25, <2>1 DEF PipelineInv, CompletedOnce
<1>27. RunsCounted'
  <2>1. Active(r) /\ Active(r)'
    <3>1. ~finished[r]
      BY ZenonT(30), <1>1, NotCreated
    <3> QED
      BY Zenon, <1>1, <1>4, <3>1 DEF Active
  <2>2. \A s \in Runs : s # r => (Active(s)' <=> Active(s))
    BY <1>1, <1>2, <1>3, <1>4, <1>25 DEF Active, Threads
  <2>3. ActiveRuns' = ActiveRuns
    BY Zenon, <2>1, <2>2 DEF ActiveRuns
  <2> QED
    BY Zenon, <1>1, <2>3 DEF PipelineInv, RunsCounted, pipelineVars
<1> QED
  BY ZenonT(30), <1>6, <1>8, <1>9, <1>18, <1>19, <1>20, <1>21, <1>22, <1>23, <1>24, <1>26, <1>27
     DEF PipelineInv

(* Steps that complete no node keep the order of the handlers.              *)
LEMMA OrderFrame ==
  ASSUME PipelineAssumption, PipelineInv, UNCHANGED remDeps,
         \A r \in Runs :
           /\ Created(r)' <=> Created(r)
           /\ plan'[r] = plan[r] /\ Uncompleted(r)' \subseteq Uncompleted(r)
           /\ Done(r)' = Done(r)
           /\ context'[r] = "OK" => context[r] = "OK",
         \A r \in Runs, t \in Threads :
           context'[r] = "OK" /\ pc'[t] = "complete" /\ RunOf(t)' = r => job'[t][2] \in succeeded'[r]
  PROVE  Released' /\ Ordered'
<1>1. Released'
  <2> SUFFICES ASSUME NEW r \in Runs, Created(r), NEW m \in plan[r]
               PROVE  Cardinality(Deps[m] \cap Uncompleted(r)') <= remDeps[r][m]
    BY Zenon DEF Released
  <2>1. Cardinality(Deps[m] \cap Uncompleted(r)) <= remDeps[r][m]
    BY Zenon DEF PipelineInv, Released
  <2>2. Deps[m] \cap Uncompleted(r)' \subseteq Deps[m] \cap Uncompleted(r)
        /\ Deps[m] \cap Uncompleted(r) \subseteq Nodes
    BY Zenon, NodeSets DEF PipelineInv
  <2>3. Cardinality(Deps[m] \cap Uncompleted(r)') <= Cardinality(Deps[m] \cap Uncompleted(r))
        /\ Cardinality(Deps[m] \cap Uncompleted(r)') \in Nat
        /\ Cardinality(Deps[m] \cap Uncompleted(r)) \in Nat
    BY <2>2, Counting DEF PipelineAssumption
  <2>4. remDeps[r][m] \in Nat
    BY DEF PipelineInv, Typed
  <2> QED
    BY <2>1, <2>3, <2>4
<1>2. Ordered'
  BY Zenon DEF PipelineInv, Ordered
<1> QED
  BY Zenon, <1>1, <1>2

(* A thread that has done its work leaves its run.                          *)
LEMMA IdleFrame ==
  ASSUME PipelineAssumption, PipelineInv, NEW t \in Threads,
         UNCHANGED <<plan, queue>>,
         pc[t] \notin {"idle", "plan"}, pc' = [pc EXCEPT ![t] = "idle"],
         job' = [job EXCEPT ![t] = NoJob],
         \A r \in Runs : IF r = t THEN answer'[r] \in {answer[r], "OK"} /\ answer'[r] # "none"
                                       /\ (answer[r] # "none" => answer'[r] = answer[r])
                         ELSE answer'[r] = answer[r]
  PROVE  /\ Places'
         /\ \A r \in Runs : (Created(r)' <=> Created(r)) /\ (pc'[r] = "plan" <=> pc[r] = "plan")
         /\ pc'[t] = "idle" /\ \A s \in Threads : s # t => pc'[s] = pc[s] /\ RunOf(s)' = RunOf(s)
                                                          /\ job'[s] = job[s]
<1>1. /\ pc'[t] = "idle"
      /\ \A s \in Threads : s # t => pc'[s] = pc[s] /\ RunOf(s)' = RunOf(s) /\ job'[s] = job[s]
  BY Zenon DEF RunOf, PipelineInv, Typed
<1>2. t \in Runs => RunOf(t) = t /\ answer[t] # "OK" /\ answer[t] \in {"none", "OK", "INVALID_ARGUMENT"}
  BY Zenon DEF PipelineInv, Places, Typed
<1>3. \A r \in Runs : (Created(r)' <=> Created(r)) /\ (pc'[r] = "plan" <=> pc[r] = "plan")
  <2> SUFFICES ASSUME NEW r \in Runs
               PROVE  (Created(r)' <=> Created(r)) /\ (pc'[r] = "plan" <=> pc[r] = "plan")
    BY Zenon
  <2>1. r \in Threads
    BY Zenon DEF Threads
  <2> QED
    BY Zenon, <1>1, <1>2, <2>1 DEF Created
<1>4. \A s \in Threads : pc'[s] # "idle" => s # t /\ RunOf(s) \in Runs
  BY Zenon, <1>1 DEF PipelineInv, Places, RunOf
<1>5. \A s \in Threads : pc'[s] \notin {"idle", "plan"} =>
        Created(RunOf(s))' \/ (s \in Runs /\ RunOf(s)' = s /\ pc'[s] \in {"release", "notify"})
  <2> SUFFICES ASSUME NEW s \in Threads, pc'[s] \notin {"idle", "plan"}
               PROVE  Created(RunOf(s))' \/ (s \in Runs /\ RunOf(s)' = s /\ pc'[s] \in {"release", "notify"})
    BY Zenon
  <2>1. Created(RunOf(s)) => Created(RunOf(s))'
    BY ZenonT(30), <1>1, <1>3, <1>4 DEF Created
  <2> QED
    BY Zenon, <1>1, <1>4, <2>1 DEF PipelineInv, Places
<1>6. \A r \in Runs : pc'[r] # "idle" =>
        /\ RunOf(r)' = r /\ answer'[r] # "OK"
        /\ answer'[r] = "INVALID_ARGUMENT" => pc'[r] \in {"release", "notify"}
  <2> SUFFICES ASSUME NEW r \in Runs, pc'[r] # "idle"
               PROVE  /\ RunOf(r)' = r /\ answer'[r] # "OK"
                      /\ answer'[r] = "INVALID_ARGUMENT" => pc'[r] \in {"release", "notify"}
    BY Zenon
  <2>1. r \in Threads /\ r # t
    BY Zenon, <1>1 DEF Threads
  <2> QED
    BY ZenonT(30), <1>1, <2>1 DEF PipelineInv, Places
<1>7. \A w \in Workers : pc'[w] # "plan"
  BY <1>1 DEF PipelineInv, Places, Threads
<1>8. \A i \in 1..Len(queue') : Created(queue[i][1])' /\ queue'[i][2] \in plan'[queue'[i][1]]
  <2> SUFFICES ASSUME NEW i \in 1..Len(queue)
               PROVE  Created(queue[i][1])' /\ queue[i][2] \in plan[queue[i][1]]
    BY Zenon
  <2>1. queue[i][1] \in Runs /\ Created(queue[i][1]) /\ queue[i][2] \in plan[queue[i][1]]
    BY Zenon, QueueSound DEF Jobs
  <2> QED
    BY Zenon, <1>3, <2>1 DEF Created
<1>9. \A s \in Threads : /\ pc'[s] # "idle" => job'[s] \in Runs \X (Nodes \cup {NoNode})
                         /\ pc'[s] \in Holding => job'[s] \in Jobs /\ job'[s][2] \in plan'[RunOf(s)']
  BY Zenon, <1>1 DEF PipelineInv, Places, Holding
<1> QED
  BY Zenon, <1>1, <1>3, <1>5, <1>6, <1>7, <1>8, <1>9 DEF Places

(* submit() returns to its caller.                                          *)
LEMMA SubmitReturnsStep ==
  ASSUME PipelineAssumption, PipelineInv, NEW r \in Runs, SubmitReturns(r)
  PROVE  PipelineInv'
<1>1. /\ pc[r] = "reserve" /\ answer' = [answer EXCEPT ![r] = "OK"]
      /\ job' = [job EXCEPT ![r] = NoJob] /\ pc' = [pc EXCEPT ![r] = "idle"]
      /\ UNCHANGED <<pipelineVars, runVars, context, succeeded, completions, poolVars, todo>>
      /\ r \in Threads
  BY Zenon DEF SubmitReturns, Goto, Threads
<1>2. answer[r] = "none" /\ answer'[r] = "OK" /\ \A s \in Runs : s # r => answer'[s] = answer[s]
  BY Zenon, <1>1 DEF PipelineInv, Places, Typed
<1>3. Typed'
  BY Zenon, <1>1 DEF PipelineInv, Typed, pipelineVars, runVars, poolVars
<1>4. /\ Places'
      /\ \A s \in Runs : (Created(s)' <=> Created(s)) /\ (pc'[s] = "plan" <=> pc[s] = "plan")
      /\ pc'[r] = "idle" /\ \A s \in Threads : s # r => pc'[s] = pc[s] /\ RunOf(s)' = RunOf(s)
                                                       /\ job'[s] = job[s]
  BY ZenonT(30), <1>1, <1>2, IdleFrame DEF runVars, poolVars
<1>5. Untouched'
  BY Zenon, <1>1, <1>4 DEF PipelineInv, Untouched, runVars
<1>6. \A t \in Threads :
        /\ pc'[t] \in Holding <=> pc[t] \in Holding
        /\ pc'[t] = "complete" <=> pc[t] = "complete"
        /\ pc[t] \in Holding => job'[t] = job[t]
        /\ \A s \in Runs : Scheduling(t, s)' => Scheduling(t, s)
  BY Zenon, <1>1, <1>4 DEF Holding, Scheduling, runVars
<1>7. /\ TicketsDistinct' /\ TodoFresh' /\ ReadyOnly' /\ Released' /\ JobsCounted' /\ Ordered'
  BY Zenon, <1>1, <1>3, <1>4, <1>5, <1>6, Frame DEF PipelineInv, JobsCounted, runVars, poolVars
<1>8. HandlersInOrder'
  BY Zenon, <1>1, <1>4 DEF PipelineInv, HandlersInOrder, Threads
<1>9. CompletedOnce' /\ RunsCounted'
  BY Zenon, <1>1, <1>4, CompletionFrame DEF runVars, pipelineVars
<1> QED
  BY Zenon, <1>3, <1>4, <1>5, <1>7, <1>8, <1>9 DEF PipelineInv

(* schedule() of a run that is finished or failed drops a node.             *)
LEMMA DropStep ==
  ASSUME PipelineAssumption, PipelineInv, NEW t \in Threads, Reserve(t),
         finished[RunOf(t)] \/ status[RunOf(t)] # "OK"
  PROVE  PipelineInv'
<1>1. /\ pc[t] = "reserve"
      /\ UNCHANGED <<pipelineVars, runVars, turnVars, poolVars, pc, job>>
  BY Zenon DEF Reserve, runVars
<1>2. PICK n \in todo[t] : todo' = [todo EXCEPT ![t] = @ \ {n}]
  BY Zenon DEF Reserve
<1>3. todo' \in [Threads -> SUBSET Nodes] /\ \A s \in Threads : todo'[s] \subseteq todo[s]
  BY Zenon, <1>2 DEF PipelineInv, Typed
<1>4. Typed'
  BY Zenon, <1>1, <1>3 DEF PipelineInv, Typed, pipelineVars, runVars, turnVars, poolVars
<1>5. \A r : Created(r)' <=> Created(r)
  BY Zenon, <1>1 DEF Created, turnVars
<1>6. Places' /\ Untouched'
  <2>1. Places'
    BY Zenon, <1>1, <1>5 DEF PipelineInv, Places, RunOf, runVars, turnVars, poolVars
  <2>2. \A r \in Runs : todo[r] = {} => todo'[r] = {}
    BY Zenon, <1>3 DEF Threads
  <2> QED
    BY Zenon, <1>1, <1>5, <2>1, <2>2 DEF PipelineInv, Untouched, runVars, turnVars
<1>7. \A s \in Threads : \A r \in Runs : Scheduling(s, r)' => Scheduling(s, r)
  BY Zenon, <1>1 DEF Scheduling, RunOf, runVars
<1>8. /\ TicketsDistinct' /\ TodoFresh' /\ ReadyOnly' /\ Released' /\ JobsCounted' /\ Ordered'
  BY Zenon, <1>1, <1>3, <1>4, <1>5, <1>6, <1>7, Frame
     DEF PipelineInv, JobsCounted, runVars, turnVars, poolVars
<1>9. HandlersInOrder'
  BY Zenon, <1>1 DEF PipelineInv, HandlersInOrder, RunOf, turnVars
<1>10. CompletedOnce' /\ RunsCounted'
  BY Zenon, <1>1, <1>5, CompletionFrame DEF runVars, turnVars, pipelineVars
<1> QED
  BY Zenon, <1>4, <1>6, <1>8, <1>9, <1>10 DEF PipelineInv

(* schedule() reserves a node: a new ticket, counted by running_jobs_.      *)
LEMMA ReserveStep ==
  ASSUME PipelineAssumption, PipelineInv, NEW t \in Threads, Reserve(t),
         ~(finished[RunOf(t)] \/ status[RunOf(t)] # "OK")
  PROVE  PipelineInv'
<1>0. PICK r \in Runs : r = RunOf(t) /\ r = job[t][1]
  BY Zenon DEF Reserve, PipelineInv, Places, RunOf
<1>1. /\ pc[t] = "reserve"
      /\ UNCHANGED <<pipelineVars, plan, remDeps, remNodes, status, finished, turnVars, poolVars>>
      /\ r \in Runs /\ Created(r) /\ Scheduling(t, r)
  BY Zenon, <1>0 DEF Reserve, PipelineInv, Places, RunOf, Scheduling
<1>2. PICK n \in todo[t] : /\ running' = [running EXCEPT ![r] = running[r] + 1]
                           /\ job' = [job EXCEPT ![t] = <<r, n>>]
                           /\ todo' = [todo EXCEPT ![t] = @ \ {n}]
                           /\ pc' = [pc EXCEPT ![t] = "submit"]
  BY Zenon, <1>0 DEF Reserve, ReserveOne, Goto
<1>3. n \in Nodes /\ n \in plan[r] /\ n \notin Ticketed(r) /\ n \in Announced(r)
  <2>1. n \in Nodes
    BY Zenon DEF PipelineInv, Typed
  <2> QED
    BY Zenon, <1>1, <2>1 DEF PipelineInv, TodoFresh, Announced
<1>4. /\ pc'[t] = "submit" /\ job'[t] = <<r, n>> /\ todo'[t] = todo[t] \ {n}
      /\ running'[r] = running[r] + 1
      /\ \A s \in Threads : s # t => pc'[s] = pc[s] /\ job'[s] = job[s] /\ todo'[s] = todo[s]
      /\ \A s \in Runs : s # r => running'[s] = running[s]
  BY Zenon, <1>1, <1>2 DEF PipelineInv, Typed
<1>5. Typed'
  <2>1. running' \in [Runs -> Nat]
    BY <1>1, <1>2 DEF PipelineInv, Typed
  <2>2. <<r, n>> \in Jobs
    BY Zenon, <1>1, <1>3 DEF Jobs
  <2>3. job' \in [Threads -> Jobs \cup (Runs \X {NoNode}) \cup {NoJob}]
    BY Zenon, <1>2, <2>2 DEF PipelineInv, Typed
  <2> QED
    BY Zenon, <1>1, <1>2, <2>1, <2>3 DEF PipelineInv, Typed, pipelineVars, turnVars, poolVars
<1>6. /\ Places'
      /\ \A s \in Runs : Created(s)' <=> Created(s)
      /\ \A s \in Threads : RunOf(s)' = RunOf(s)
  <2>1. <<r, n>> \in Jobs /\ <<r, n>> \in Runs \X (Nodes \cup {NoNode})
        /\ <<r, n>>[1] = r /\ <<r, n>>[2] = n
    BY Zenon, <1>1, <1>3 DEF Jobs
  <2> QED
    <3>1. UNCHANGED <<plan, answer, queue>>
      BY Zenon, <1>1 DEF turnVars, poolVars
    <3>2. /\ pc[t] \notin {"idle", "plan"} /\ pc'[t] \notin {"idle", "plan"}
          /\ job'[t] \in Runs \X (Nodes \cup {NoNode}) /\ job'[t][1] = job[t][1]
          /\ job'[t] \in Jobs /\ job'[t][2] \in plan[RunOf(t)] /\ Created(RunOf(t))
      BY Zenon, <1>0, <1>1, <1>3, <1>4, <2>1
    <3>3. \A s \in Threads : s # t => pc'[s] = pc[s] /\ job'[s] = job[s]
      BY Zenon, <1>4
    <3>4. \A i \in 1..Len(queue') :
            queue'[i] \in Jobs /\ Created(queue'[i][1]) /\ queue'[i][2] \in plan[queue'[i][1]]
      BY Zenon, <3>1, QueueSound
    <3> QED
      BY Zenon, <3>1, <3>2, <3>3, <3>4, PlacesFrame
<1>7. Untouched'
  <2>1. \A s \in Runs : ~Created(s) => s # r /\ s # t
    BY Zenon, <1>1 DEF PipelineInv, Places, Created, Threads
  <2> QED
    BY Zenon, <1>1, <1>4, <1>6, <2>1 DEF PipelineInv, Untouched, turnVars, Threads
<1>8. \A s \in Runs : s # r => Ticketed(s)' = Ticketed(s)
  <2>1. \A s \in Runs, m \in Nodes : s # r => ((\E u \in Threads : Holds(u, s, m)') <=> \E u \in Threads : Holds(u, s, m))
    BY <1>0, <1>1, <1>4 DEF Holds, Holding
  <2> QED
    BY Zenon, <1>1, <2>1 DEF Ticketed, Queued, poolVars
<1>9. Ticketed(r)' = Ticketed(r) \cup {n}
  <2>1. \A m \in Nodes : (\E u \in Threads : Holds(u, r, m)') <=> m = n \/ \E u \in Threads : Holds(u, r, m)
    BY <1>0, <1>1, <1>4 DEF Holds, Holding
  <2> QED
    BY ZenonT(30), <1>1, <1>3, <2>1 DEF Ticketed, Queued, poolVars
<1>10. \A s \in Threads, q \in Runs : Scheduling(s, q)' <=> Scheduling(s, q)
  BY Zenon, <1>1, <1>4, <1>6 DEF Scheduling
<1>11. \A q \in Runs : Announced(q)' \subseteq Announced(q)
  BY Zenon, <1>4, <1>10 DEF Announced
<1>12. \A q \in Runs : Uncompleted(q)' \subseteq Uncompleted(q)
  BY ZenonT(30), <1>1, <1>3, <1>8, <1>9, <1>11 DEF Uncompleted, Waiting
<1>13. \A q \in Runs : Done(q)' = Done(q)
  BY <1>1, <1>4 DEF Done, turnVars
<1>14. TicketsDistinct'
  <2>1. \A s \in Threads : pc[s] \in Holding => job[s] # <<r, n>>
    BY Zenon, <1>3 DEF Ticketed, Holds
  <2>2. \A i \in 1..Len(queue) : queue[i] # <<r, n>>
    BY ZenonT(30), <1>3 DEF Ticketed, Queued
  <2> QED
    BY <1>1, <1>4, <2>1, <2>2 DEF PipelineInv, TicketsDistinct, poolVars
<1>15. TodoFresh'
  BY <1>1, <1>4, <1>8, <1>9, <1>10 DEF PipelineInv, TodoFresh
<1>16. ReadyOnly'
  BY Zenon, <1>1, <1>3, <1>6, <1>8, <1>9, <1>11 DEF PipelineInv, ReadyOnly
<1>17. Released' /\ Ordered'
  <2>1. \A q \in Runs, s \in Threads :
          context'[q] = "OK" /\ pc'[s] = "complete" /\ RunOf(s)' = q => job'[s][2] \in succeeded'[q]
    BY Zenon, <1>1, <1>4, <1>6 DEF PipelineInv, Ordered, turnVars
  <2> QED
    BY Zenon, <1>1, <1>6, <1>12, <1>13, <2>1, OrderFrame DEF turnVars
<1>18. JobsCounted'
  <2>1. Cardinality(Ticketed(r)') = Cardinality(Ticketed(r)) + 1 /\ Cardinality(Ticketed(r)) \in Nat
    BY <1>1, <1>3, <1>9, NodeSets, Counting DEF PipelineInv, PipelineAssumption
  <2>2. running[r] \in Nat /\ Cardinality(Ticketed(r)) <= running[r]
    BY Zenon, <1>1 DEF PipelineInv, Typed, JobsCounted
  <2>3. Cardinality(Ticketed(r)') <= running'[r]
    BY <1>4, <2>1, <2>2
  <2>4. \A q \in Runs : q # r =>
          Cardinality(Ticketed(q)') <= running'[q] /\ (finished'[q] => running'[q] = 0)
    BY Zenon, <1>1, <1>4, <1>8 DEF PipelineInv, JobsCounted
  <2>5. ~finished'[r]
    BY Zenon, <1>0, <1>1
  <2> QED
    BY ZenonT(30), <2>3, <2>4, <2>5 DEF JobsCounted
<1>19. HandlersInOrder'
  BY Zenon, <1>1, <1>4, <1>6 DEF PipelineInv, HandlersInOrder, turnVars, Threads
<1>20. CompletedOnce' /\ RunsCounted'
  <2>1. \A q \in Runs : pc'[q] = "plan" <=> pc[q] = "plan"
    BY Zenon, <1>1, <1>4 DEF Threads
  <2> QED
    BY Zenon, <1>1, <1>4, <1>6, <2>1, CompletionFrame DEF turnVars, pipelineVars
<1> QED
  BY ZenonT(30), <1>5, <1>6, <1>7, <1>14, <1>15, <1>16, <1>17, <1>18, <1>19, <1>20 DEF PipelineInv

(* Steps that only move a ticket, from a thread to the queue, from the      *)
(* queue to a worker or from one place of the worker to the next, or that   *)
(* lose one with the queue.                                                 *)
LEMMA Moved ==
  ASSUME PipelineAssumption, PipelineInv, Typed', Places', TicketsDistinct',
         UNCHANGED <<plan, remDeps, running, status, finished, context, succeeded, completions, todo>>,
         UNCHANGED pipelineVars,
         \A r \in Runs : /\ Created(r)' <=> Created(r)
                         /\ pc'[r] = "plan" <=> pc[r] = "plan"
                         /\ Ticketed(r)' \subseteq Ticketed(r),
         \A t \in Threads :
           /\ pc'[t] = "complete" <=> pc[t] = "complete"
           /\ pc'[t] = "handler" <=> pc[t] = "handler"
           /\ pc'[t] = "callback" <=> pc[t] = "callback"
           /\ pc'[t] = "release" <=> pc[t] = "release"
           /\ pc'[t] = "notify" => pc[t] = "notify"
           /\ pc[t] \in {"complete", "handler", "callback", "release", "notify"} => job'[t] = job[t]
           /\ \A r \in Runs : Scheduling(t, r)' => Scheduling(t, r)
  PROVE  PipelineInv'
<1>1. \A r \in Runs : Announced(r)' \subseteq Announced(r)
  BY Zenon DEF Announced
<1>2. \A r \in Runs : Uncompleted(r)' \subseteq Uncompleted(r)
  BY Zenon, <1>1 DEF Uncompleted, Waiting
<1>3. \A r \in Runs : Done(r)' = Done(r)
  BY DEF Done
<1>4. Untouched'
  BY Zenon DEF PipelineInv, Untouched
<1>5. TodoFresh'
  <2> SUFFICES ASSUME NEW r \in Runs, NEW t \in Threads, Scheduling(t, r)'
               PROVE  /\ todo[t] \subseteq plan[r] /\ todo[t] \cap Ticketed(r)' = {}
                      /\ \A s \in Threads : Scheduling(s, r)' /\ s # t => todo[s] \cap todo[t] = {}
    BY Zenon DEF TodoFresh
  <2> QED
    BY Zenon DEF PipelineInv, TodoFresh
<1>6. ReadyOnly'
  BY Zenon, <1>1 DEF PipelineInv, ReadyOnly
<1>7. Released' /\ Ordered'
  <2>1. \A r \in Runs, t \in Threads :
          context'[r] = "OK" /\ pc'[t] = "complete" /\ RunOf(t)' = r => job'[t][2] \in succeeded'[r]
    BY Zenon DEF PipelineInv, Ordered, RunOf
  <2> QED
    BY Zenon, <1>2, <1>3, <2>1, OrderFrame
<1>8. JobsCounted'
  <2> SUFFICES ASSUME NEW r \in Runs
               PROVE  Cardinality(Ticketed(r)') <= running[r] /\ (finished[r] => running[r] = 0)
    BY Zenon DEF JobsCounted
  <2>1. Cardinality(Ticketed(r)') <= Cardinality(Ticketed(r)) /\ Cardinality(Ticketed(r)) \in Nat
        /\ Cardinality(Ticketed(r)') \in Nat
    BY Zenon, NodeSets, Counting DEF PipelineInv, PipelineAssumption
  <2>2. running[r] \in Nat
    BY Zenon DEF PipelineInv, Typed
  <2> QED
    BY <2>1, <2>2 DEF PipelineInv, JobsCounted
<1>9. HandlersInOrder'
  BY Zenon DEF PipelineInv, HandlersInOrder, RunOf, Threads
<1>10. CompletedOnce' /\ RunsCounted'
  BY Zenon, CompletionFrame DEF pipelineVars
<1> QED
  BY ZenonT(30), <1>4, <1>5, <1>6, <1>7, <1>8, <1>9, <1>10 DEF PipelineInv

(* JobQueue::submit takes the wrapper.                                      *)
LEMMA QueueStep ==
  ASSUME PipelineAssumption, PipelineInv, NEW t \in Threads, Submit(t), poolActive
  PROVE  PipelineInv'
<1>1. /\ pc[t] = "submit" /\ pc' = [pc EXCEPT ![t] = "reserve"]
      /\ queue' = Append(queue, job[t])
      /\ UNCHANGED <<pipelineVars, runVars, turnVars, poolActive, job, todo>>
  BY Zenon DEF Submit, Goto
<1>2. pc'[t] = "reserve" /\ \A s \in Threads : s # t => pc'[s] = pc[s]
  BY Zenon, <1>1 DEF PipelineInv, Typed
<1>3. PICK r, n : r = RunOf(t) /\ n = job[t][2]
  BY Zenon
<1>4. /\ r \in Runs /\ n \in Nodes /\ n \in plan[r] /\ job[t] = <<r, n>> /\ job[t] \in Jobs
      /\ Created(r)
  <2>1. pc[t] \in Holding
    BY Zenon, <1>1 DEF Holding
  <2>2. r \in Runs /\ n \in Nodes /\ n \in plan[r] /\ job[t] = <<r, n>> /\ Created(r)
    BY SMTT(20), <1>3, <2>1, Holder
  <2> QED
    BY <2>2 DEF Jobs
<1>5. /\ Len(queue) \in Nat /\ Len(queue') = Len(queue) + 1 /\ queue' \in Seq(Jobs)
      /\ \A i \in 1..Len(queue) : queue'[i] = queue[i]
      /\ queue'[Len(queue) + 1] = job[t]
  BY <1>1, <1>4 DEF PipelineInv, Typed
<1>6. Typed'
  BY Zenon, <1>1, <1>5 DEF PipelineInv, Typed, pipelineVars, runVars, turnVars
<1>7. /\ Places'
      /\ \A s \in Runs : Created(s)' <=> Created(s)
      /\ \A s \in Threads : RunOf(s)' = RunOf(s)
  <2>1. \A i \in 1..Len(queue') :
          queue'[i] \in Jobs /\ Created(queue'[i][1]) /\ queue'[i][2] \in plan[queue'[i][1]]
    <3> SUFFICES ASSUME NEW i \in 1..Len(queue')
                 PROVE  queue'[i] \in Jobs /\ Created(queue'[i][1]) /\ queue'[i][2] \in plan[queue'[i][1]]
      BY Zenon
    <3>1. CASE i \in 1..Len(queue)
      BY Zenon, <1>5, <3>1, QueueSound
    <3>2. CASE i = Len(queue) + 1
      BY <1>3, <1>4, <1>5, <3>2
    <3> QED
      BY <1>5, <3>1, <3>2
  <2>2. UNCHANGED <<plan, answer>> /\ job'[t] = job[t]
    BY Zenon, <1>1 DEF runVars, turnVars
  <2>3. job[t] \in Runs \X (Nodes \cup {NoNode})
    BY Zenon, <1>4 DEF Jobs
  <2> QED
    BY ZenonT(30), <1>1, <1>2, <1>3, <1>4, <2>1, <2>2, <2>3, PlacesFrame DEF Holding
<1>8. TicketsDistinct'
  <2>1. \A i \in 1..Len(queue') : i \in 1..Len(queue) \/ i = Len(queue) + 1
    BY <1>5
  <2>2. \A i \in 1..Len(queue) : queue[i] # job[t]
    BY Zenon, <1>1 DEF PipelineInv, TicketsDistinct, Holding
  <2>3. \A i, j \in 1..Len(queue') : queue'[i] = queue'[j] => i = j
    BY Zenon, <1>5, <2>1, <2>2 DEF PipelineInv, TicketsDistinct
  <2>4. \A s \in Threads : pc'[s] \in Holding => s # t /\ pc[s] \in Holding /\ job'[s] = job[s] /\ job[s] # job[t]
    BY Zenon, <1>1, <1>2 DEF PipelineInv, TicketsDistinct, Holding
  <2>5. \A s \in Threads, i \in 1..Len(queue') : pc'[s] \in Holding => job'[s] # queue'[i]
    BY <1>5, <2>1, <2>4 DEF PipelineInv, TicketsDistinct
  <2> QED
    BY Zenon, <2>3, <2>4, <2>5 DEF PipelineInv, TicketsDistinct
<1>9. \A s \in Runs : Ticketed(s)' \subseteq Ticketed(s)
  <2> SUFFICES ASSUME NEW s \in Runs, NEW m \in Ticketed(s)'
               PROVE  m \in Ticketed(s)
    BY Zenon
  <2>1. m \in Nodes /\ (Queued(s, m)' \/ \E u \in Threads : Holds(u, s, m)')
    BY Zenon DEF Ticketed
  <2>2. CASE Queued(s, m)'
    <3>1. PICK i \in 1..Len(queue') : queue'[i] = <<s, m>>
      BY Zenon, <2>2 DEF Queued
    <3>2. CASE i \in 1..Len(queue)
      BY Zenon, <1>5, <2>1, <3>1, <3>2 DEF Queued, Ticketed
    <3>3. CASE i = Len(queue) + 1
      <4>1. Holds(t, s, m)
        BY Zenon, <1>1, <1>5, <3>1, <3>3 DEF Holds, Holding
      <4> QED
        BY Zenon, <2>1, <4>1 DEF Ticketed
    <3> QED
      BY <1>5, <3>2, <3>3
  <2>3. CASE \E u \in Threads : Holds(u, s, m)'
    <3>1. PICK u \in Threads : Holds(u, s, m)'
      BY Zenon, <2>3
    <3>2. Holds(u, s, m)
      BY Zenon, <1>1, <1>2, <3>1 DEF Holds, Holding
    <3> QED
      BY Zenon, <2>1, <3>2 DEF Ticketed
  <2> QED
    BY Zenon, <2>1, <2>2, <2>3
<1>10. \A s \in Runs : pc'[s] = "plan" <=> pc[s] = "plan"
  BY Zenon, <1>1, <1>2 DEF Threads
<1>11. \A s \in Threads :
         /\ pc'[s] = "complete" <=> pc[s] = "complete"
         /\ pc'[s] = "handler" <=> pc[s] = "handler"
         /\ pc'[s] = "callback" <=> pc[s] = "callback"
         /\ pc'[s] = "release" <=> pc[s] = "release"
         /\ pc'[s] = "notify" => pc[s] = "notify"
         /\ job'[s] = job[s]
         /\ \A q \in Runs : Scheduling(s, q)' => Scheduling(s, q)
  BY Zenon, <1>1, <1>2, <1>7 DEF Scheduling, runVars
<1> QED
  BY ZenonT(30), <1>1, <1>6, <1>7, <1>8, <1>9, <1>10, <1>11, Moved DEF runVars, turnVars

(* JobQueue::submit refuses the wrapper: the pool has stopped.              *)
LEMMA RejectedStep ==
  ASSUME PipelineAssumption, PipelineInv, NEW t \in Threads, Submit(t), ~poolActive
  PROVE  PipelineInv'
<1>1. /\ pc[t] = "submit" /\ pc' = [pc EXCEPT ![t] = "reject"]
      /\ UNCHANGED <<pipelineVars, runVars, turnVars, poolVars, job, todo>>
  BY Zenon DEF Submit, Goto, poolVars
<1>2. pc'[t] = "reject" /\ \A s \in Threads : s # t => pc'[s] = pc[s]
  BY Zenon, <1>1 DEF PipelineInv, Typed
<1>3. Typed'
  BY Zenon, <1>1 DEF PipelineInv, Typed, pipelineVars, runVars, turnVars, poolVars
<1>4. /\ Places'
      /\ \A s \in Runs : Created(s)' <=> Created(s)
      /\ \A s \in Threads : RunOf(s)' = RunOf(s)
  <2>1. UNCHANGED <<plan, answer, queue, job>>
    BY Zenon, <1>1 DEF runVars, turnVars, poolVars
  <2>2. /\ job[t] \in Runs \X (Nodes \cup {NoNode}) /\ job[t] \in Jobs
        /\ job[t][2] \in plan[RunOf(t)] /\ Created(RunOf(t))
    BY Zenon, <1>1 DEF PipelineInv, Places, Holding
  <2>3. \A i \in 1..Len(queue') :
          queue'[i] \in Jobs /\ Created(queue'[i][1]) /\ queue'[i][2] \in plan[queue'[i][1]]
    BY ZenonT(30), <2>1, QueueSound
  <2> QED
    BY Zenon, <1>1, <1>2, <2>1, <2>2, <2>3, PlacesFrame
<1>5. TicketsDistinct' /\ \A s \in Runs : Ticketed(s)' = Ticketed(s)
  <2>1. \A s \in Threads : pc'[s] \in Holding <=> pc[s] \in Holding
    BY Zenon, <1>1, <1>2 DEF Holding
  <2> QED
    BY <1>1, <2>1 DEF PipelineInv, TicketsDistinct, Ticketed, Queued, Holds, poolVars
<1>6. \A s \in Runs : pc'[s] = "plan" <=> pc[s] = "plan"
  BY Zenon, <1>1, <1>2 DEF Threads
<1>7. \A s \in Threads :
        /\ pc'[s] = "complete" <=> pc[s] = "complete"
        /\ pc'[s] = "handler" <=> pc[s] = "handler"
        /\ pc'[s] = "callback" <=> pc[s] = "callback"
        /\ pc'[s] = "release" <=> pc[s] = "release"
        /\ pc'[s] = "notify" => pc[s] = "notify"
        /\ job'[s] = job[s]
        /\ \A q \in Runs : Scheduling(s, q)' => Scheduling(s, q)
  BY Zenon, <1>1, <1>2, <1>4 DEF Scheduling, runVars
<1> QED
  BY ZenonT(30), <1>1, <1>3, <1>4, <1>5, <1>6, <1>7, Moved DEF runVars, turnVars

(* A worker takes the wrapper at the head of the pool's queue.              *)
LEMMA TakeStep ==
  ASSUME PipelineAssumption, PipelineInv, NEW w \in Workers, Take(w)
  PROVE  PipelineInv'
<1>1. /\ pc[w] = "idle" /\ pc' = [pc EXCEPT ![w] = "begin"]
      /\ queue # <<>> /\ queue' = Tail(queue)
      /\ job' = [job EXCEPT ![w] = Head(queue)]
      /\ UNCHANGED <<pipelineVars, runVars, turnVars, poolActive, todo>>
      /\ w \in Threads /\ w \notin Runs
  BY Zenon DEF Take, Goto, Threads, PipelineAssumption
<1>2. /\ pc'[w] = "begin" /\ job'[w] = queue[1]
      /\ \A s \in Threads : s # w => pc'[s] = pc[s] /\ job'[s] = job[s]
  BY <1>1 DEF PipelineInv, Typed
<1>3. /\ Len(queue) \in Nat /\ Len(queue) > 0 /\ Len(queue') = Len(queue) - 1
      /\ queue' \in Seq(Jobs)
      /\ \A i \in 1..Len(queue') : queue'[i] = queue[i + 1] /\ i + 1 \in 1..Len(queue) /\ i + 1 # 1
      /\ 1 \in 1..Len(queue)
  BY <1>1 DEF PipelineInv, Typed
<1>4. queue[1] \in Jobs /\ Created(queue[1][1]) /\ queue[1][2] \in plan[queue[1][1]]
  BY Zenon, <1>3, QueueSound
<1>5. Typed'
  <2>1. job' \in [Threads -> Jobs \cup (Runs \X {NoNode}) \cup {NoJob}]
    BY <1>1, <1>4 DEF PipelineInv, Typed
  <2> QED
    BY ZenonT(30), <1>1, <1>3, <2>1 DEF PipelineInv, Typed, pipelineVars, runVars, turnVars
<1>6. /\ \A s \in Runs : pc'[s] = pc[s] /\ job'[s] = job[s]
      /\ \A s \in Threads : s # w => RunOf(s)' = RunOf(s)
      /\ RunOf(w)' = queue[1][1]
  BY Zenon, <1>1, <1>2 DEF Threads, RunOf
<1>7. \A s \in Runs : Created(s)' <=> Created(s)
  BY Zenon, <1>1, <1>6 DEF Created, turnVars
<1>8. Places'
  <2>1. \A s \in Threads : pc'[s] \notin {"idle", "plan"} =>
          Created(RunOf(s))' \/ (s \in Runs /\ RunOf(s)' = s /\ pc'[s] \in {"release", "notify"})
    <3> SUFFICES ASSUME NEW s \in Threads, pc'[s] \notin {"idle", "plan"}
                 PROVE  Created(RunOf(s))' \/ (s \in Runs /\ RunOf(s)' = s /\ pc'[s] \in {"release", "notify"})
      BY Zenon
    <3>1. CASE s = w
      <4>1. queue[1][1] \in Runs
        BY Zenon, <1>4 DEF Jobs
      <4> QED
        BY Zenon, <1>4, <1>6, <1>7, <3>1, <4>1 DEF Created
    <3>2. CASE s # w
      <4>1. RunOf(s) \in Runs
        BY Zenon, <1>2, <3>2 DEF PipelineInv, Places, RunOf
      <4>2. Created(RunOf(s)) => Created(RunOf(s))'
        BY ZenonT(30), <1>6, <1>7, <3>2, <4>1 DEF Created
      <4> QED
        BY <1>2, <1>6, <3>2, <4>2 DEF PipelineInv, Places
    <3> QED
      BY Zenon, <3>1, <3>2
  <2>2. \A s \in Runs : pc'[s] # "idle" =>
          /\ RunOf(s)' = s /\ answer'[s] # "OK"
          /\ answer'[s] = "INVALID_ARGUMENT" => pc'[s] \in {"release", "notify"}
    BY <1>1, <1>6 DEF PipelineInv, Places, turnVars, Threads
  <2>3. \A s \in Workers : pc'[s] # "plan"
    BY Zenon, <1>2 DEF PipelineInv, Places, Threads
  <2>4. \A i \in 1..Len(queue') : Created(queue[i][1])' /\ queue'[i][2] \in plan'[queue'[i][1]]
    <3> SUFFICES ASSUME NEW i \in 1..Len(queue')
                 PROVE  Created(queue[i][1])' /\ queue'[i][2] \in plan[queue'[i][1]]
      BY Zenon, <1>1 DEF runVars
    <3>1. PICK k \in 1..Len(queue) : queue'[i] = queue[k]
      BY Zenon, <1>3
    <3>2. queue[k][1] \in Runs /\ Created(queue[k][1]) /\ queue[k][2] \in plan[queue[k][1]]
      BY Zenon, QueueSound DEF Jobs
    <3> QED
      BY Zenon, <1>7, <3>1, <3>2 DEF Created
  <2>5. \A s \in Threads : /\ pc'[s] # "idle" => job'[s] \in Runs \X (Nodes \cup {NoNode})
                           /\ pc'[s] \in Holding => job'[s] \in Jobs /\ job'[s][2] \in plan'[RunOf(s)']
    <3>1. queue[1] \in Runs \X (Nodes \cup {NoNode})
      BY Zenon, <1>4 DEF Jobs
    <3> QED
      BY Zenon, <1>1, <1>2, <1>4, <1>6, <3>1 DEF PipelineInv, Places, runVars
  <2> QED
    BY Zenon, <2>1, <2>2, <2>3, <2>4, <2>5 DEF Places
<1>9. TicketsDistinct'
  <2>1. \A s \in Threads : pc'[s] \in Holding /\ s # w => pc[s] \in Holding /\ job'[s] = job[s] /\ job[s] # queue[1]
    BY <1>2, <1>3 DEF PipelineInv, TicketsDistinct
  <2>2. \A i \in 1..Len(queue') : queue'[i] # queue[1]
    BY Zenon, <1>3 DEF PipelineInv, TicketsDistinct
  <2>3. \A i, j \in 1..Len(queue') : queue'[i] = queue'[j] => i = j
    <3> SUFFICES ASSUME NEW i \in 1..Len(queue'), NEW j \in 1..Len(queue'), queue'[i] = queue'[j]
                 PROVE  i = j
      BY ZenonT(30)
    <3>1. i + 1 = j + 1
      BY <1>3 DEF PipelineInv, TicketsDistinct
    <3> QED
      BY <3>1
  <2>4. \A s \in Threads, i \in 1..Len(queue') : pc'[s] \in Holding => job'[s] # queue'[i]
    <3> SUFFICES ASSUME NEW s \in Threads, NEW i \in 1..Len(queue'), pc'[s] \in Holding
                 PROVE  job'[s] # queue'[i]
      BY Zenon
    <3>1. CASE s = w
      BY Zenon, <1>2, <2>2, <3>1
    <3>2. CASE s # w
      BY <1>3, <2>1, <3>2 DEF PipelineInv, TicketsDistinct
    <3> QED
      BY Zenon, <3>1, <3>2
  <2>5. \A s, u \in Threads : pc'[s] \in Holding /\ pc'[u] \in Holding /\ job'[s] = job'[u] => s = u
    BY <1>2, <2>1 DEF PipelineInv, TicketsDistinct
  <2> QED
    BY ZenonT(30), <2>3, <2>4, <2>5 DEF TicketsDistinct
<1>10. \A s \in Runs : Ticketed(s)' \subseteq Ticketed(s)
  <2> SUFFICES ASSUME NEW s \in Runs, NEW m \in Ticketed(s)'
               PROVE  m \in Ticketed(s)
    BY Zenon
  <2>1. m \in Nodes /\ (Queued(s, m)' \/ \E u \in Threads : Holds(u, s, m)')
    BY Zenon DEF Ticketed
  <2>2. Queued(s, m)' => Queued(s, m)
    BY Zenon, <1>3 DEF Queued
  <2>3. ASSUME NEW u \in Threads, Holds(u, s, m)'
        PROVE  Queued(s, m) \/ Holds(u, s, m)
    BY Zenon, <1>2, <1>3, <2>3 DEF Holds, Queued
  <2> QED
    BY Zenon, <2>1, <2>2, <2>3 DEF Ticketed
<1>11. \A s \in Threads :
         /\ pc'[s] = "complete" <=> pc[s] = "complete"
         /\ pc'[s] = "handler" <=> pc[s] = "handler"
         /\ pc'[s] = "callback" <=> pc[s] = "callback"
         /\ pc'[s] = "release" <=> pc[s] = "release"
         /\ pc'[s] = "notify" => pc[s] = "notify"
         /\ pc[s] # "idle" => job'[s] = job[s]
         /\ \A q \in Runs : Scheduling(s, q)' => Scheduling(s, q)
  BY Zenon, <1>1, <1>2, <1>6 DEF Scheduling, runVars
<1> QED
  BY ZenonT(30), <1>1, <1>5, <1>6, <1>7, <1>8, <1>9, <1>10, <1>11, Moved DEF runVars, turnVars

(* JobQueue::shutdown discards the queue, and its tickets with it.          *)
LEMMA StopPoolStep ==
  ASSUME PipelineAssumption, PipelineInv, StopPool
  PROVE  PipelineInv'
<1>1. /\ queue' = <<>> /\ poolActive' = FALSE
      /\ UNCHANGED <<pipelineVars, runVars, turnVars, threadVars>>
  BY Zenon DEF StopPool
<1>2. queue' \in Seq(Jobs) /\ Len(queue') = 0
  BY Zenon, <1>1, EmptySeq
<1>3. poolActive' \in BOOLEAN
  BY Zenon, <1>1, Zenon
<1>4. Typed'
  BY Zenon, <1>1, <1>2, <1>3 DEF PipelineInv, Typed, pipelineVars, runVars, turnVars, threadVars
<1>5. \A r : Created(r)' <=> Created(r)
  BY ZenonT(30), <1>1 DEF Created, turnVars, threadVars
<1>6. Places' /\ TicketsDistinct'
  BY SMTT(20), <1>1, <1>2, <1>5 DEF PipelineInv, Places, TicketsDistinct, RunOf, runVars,
     turnVars, threadVars
<1>7. \A r \in Runs : Ticketed(r)' \subseteq Ticketed(r)
  BY <1>1, <1>2 DEF Ticketed, Queued, Holds, threadVars
<1>8. \A t \in Threads, r \in Runs : Scheduling(t, r)' => Scheduling(t, r)
  BY Zenon, <1>1 DEF Scheduling, RunOf, runVars, threadVars
<1> QED
  BY ZenonT(30), <1>1, <1>4, <1>5, <1>6, <1>7, <1>8, Moved DEF runVars, turnVars, threadVars

(* The steps of HandlerJob::execute on a wrapper the worker keeps.          *)
LEMMA Worked ==
  ASSUME PipelineAssumption, PipelineInv, NEW w \in Workers,
         pc[w] \in {"begin", "handler"}, NEW s \in {"handler", "complete"},
         pc' = [pc EXCEPT ![w] = s],
         UNCHANGED <<pipelineVars, runVars, answer, completions, poolVars, job, todo>>,
         context' \in [Runs -> {"OK", "FAILED"}], succeeded' \in [Runs -> SUBSET Nodes],
         \A r \in Runs : /\ Done(r)' = Done(r) /\ (context'[r] = "OK" => context[r] = "OK")
                         /\ r # RunOf(w) => context'[r] = context[r] /\ succeeded'[r] = succeeded[r],
         \A r \in Runs, t \in Threads :
           context'[r] = "OK" /\ pc'[t] = "complete" /\ RunOf(t)' = r => job'[t][2] \in succeeded'[r],
         HandlersInOrder'
  PROVE  PipelineInv'
<1>1. w \in Threads /\ w \notin Runs /\ pc[w] \in Holding /\ pc'[w] = s /\ s \in Holding
      /\ \A t \in Threads : t # w => pc'[t] = pc[t]
  BY Zenon DEF Threads, PipelineAssumption, PipelineInv, Typed, Holding
<1>2. Typed'
  BY ZenonT(30) DEF PipelineInv, Typed, pipelineVars, runVars, poolVars
<1>3. /\ Places'
      /\ \A r \in Runs : Created(r)' <=> Created(r)
      /\ \A t \in Threads : RunOf(t)' = RunOf(t)
  <2>1. UNCHANGED <<plan, answer, queue, job>>
    BY Zenon DEF runVars, poolVars
  <2>2. /\ job[w] \in Runs \X (Nodes \cup {NoNode}) /\ job[w] \in Jobs
        /\ job[w][2] \in plan[RunOf(w)] /\ Created(RunOf(w))
    BY Zenon, <1>1 DEF PipelineInv, Places, Holding
  <2>3. \A i \in 1..Len(queue') :
          queue'[i] \in Jobs /\ Created(queue'[i][1]) /\ queue'[i][2] \in plan[queue'[i][1]]
    BY Zenon, <2>1, QueueSound
  <2> QED
    BY Zenon, <1>1, <2>1, <2>2, <2>3, PlacesFrame DEF Holding
<1>4. Untouched'
  <2>1. Created(RunOf(w))
    BY ZenonT(30), <1>1 DEF PipelineInv, Places
  <2> QED
    BY Zenon, <1>3, <2>1 DEF PipelineInv, Untouched, runVars
<1>5. TicketsDistinct' /\ \A r \in Runs : Ticketed(r)' = Ticketed(r)
  <2>1. \A t \in Threads : pc'[t] \in Holding <=> pc[t] \in Holding
    BY Zenon, <1>1
  <2> QED
    BY <2>1 DEF PipelineInv, TicketsDistinct, Ticketed, Queued, Holds, poolVars
<1>6. \A t \in Threads, r \in Runs : Scheduling(t, r)' <=> Scheduling(t, r)
  BY Zenon, <1>1, <1>3 DEF Scheduling, runVars
<1>7. \A r \in Runs : Announced(r)' = Announced(r) /\ Uncompleted(r)' = Uncompleted(r)
  BY ZenonT(30), <1>5, <1>6 DEF Announced, Uncompleted, Waiting, runVars
<1>8. TodoFresh' /\ ReadyOnly' /\ JobsCounted'
  BY ZenonT(30), <1>3, <1>5, <1>6, <1>7 DEF PipelineInv, TodoFresh, ReadyOnly, JobsCounted,
     runVars
<1>9. Released' /\ Ordered'
  BY Zenon, <1>3, <1>7, OrderFrame DEF runVars
<1>10. CompletedOnce' /\ RunsCounted'
  <2>1. \A r \in Runs : pc'[r] = "plan" <=> pc[r] = "plan"
    BY Zenon, <1>1 DEF Threads
  <2> QED
    BY Zenon, <1>1, <1>3, <2>1, CompletionFrame DEF runVars, pipelineVars, Holding
<1> QED
  BY ZenonT(30), <1>2, <1>3, <1>4, <1>5, <1>8, <1>9, <1>10 DEF PipelineInv

(* HandlerJob::execute runs the handler when the context is sound: the      *)
(* node waits for nothing, so every prerequisite has succeeded.             *)
LEMMA BeginStep ==
  ASSUME PipelineAssumption, PipelineInv, NEW w \in Workers, Begin(w)
  PROVE  PipelineInv'
<1>1. /\ pc[w] = "begin" /\ pc' = [pc EXCEPT ![w] = IF context[RunOf(w)] = "OK" THEN "handler" ELSE "complete"]
      /\ UNCHANGED <<pipelineVars, runVars, turnVars, poolVars, job, todo>>
      /\ w \in Threads
  BY Zenon DEF Begin, Goto, MayBegin, Threads
<1>2. PICK r, n : r = RunOf(w) /\ n = job[w][2]
  BY Zenon
<1>3. pc[w] \in Holding
  BY ZenonT(30), <1>1 DEF Holding
<1>4. /\ r \in Runs /\ n \in Nodes /\ n \in plan[r] /\ job[w] = <<r, n>> /\ Created(r)
      /\ remDeps[r][n] = 0 /\ n \notin Done(r)
  BY <1>1, <1>2, <1>3, Holder
<1>5. n \notin succeeded[r]
  <2>1. \A t \in Threads : pc[t] = "complete" => job[t] # <<r, n>>
    BY Zenon, <1>1, <1>3, <1>4 DEF PipelineInv, TicketsDistinct, Holding
  <2> QED
    BY Zenon, <1>4, <2>1 DEF Done
<1>6. /\ \A t \in Threads : t # w => pc'[t] = pc[t]
      /\ \A t \in Threads : RunOf(t)' = RunOf(t) /\ job'[t] = job[t]
      /\ context' = context /\ succeeded' = succeeded
  BY Zenon, <1>1 DEF PipelineInv, Typed, RunOf, turnVars
<1>7. \A q \in Runs : Done(q)' = Done(q)
  <2> SUFFICES ASSUME NEW q \in Runs, NEW m \in succeeded[q]
               PROVE  (\A t \in Threads : pc'[t] = "complete" => job[t] # <<q, m>>)
                        <=> \A t \in Threads : pc[t] = "complete" => job[t] # <<q, m>>
    BY SMTT(20), <1>6 DEF Done
  <2>1. job[w] # <<q, m>>
    BY <1>4, <1>5
  <2> QED
    BY ZenonT(30), <1>6, <2>1
<1>8. context' \in [Runs -> {"OK", "FAILED"}] /\ succeeded' \in [Runs -> SUBSET Nodes]
  BY Zenon, <1>6 DEF PipelineInv, Typed
<1>9. CASE context[r] = "OK"
  <2>1. pc' = [pc EXCEPT ![w] = "handler"] /\ pc'[w] = "handler"
    BY Zenon, <1>1, <1>2, <1>9 DEF PipelineInv, Typed
  <2>2. Deps[n] \subseteq succeeded[r]
    <3>1. Cardinality(Deps[n] \ Done(r)) <= 0
      BY Zenon, <1>4, <1>9 DEF PipelineInv, Ordered
    <3>2. Deps[n] \ Done(r) \subseteq Nodes
      BY Zenon, <1>4, NodeSets DEF PipelineInv
    <3>3. /\ Cardinality(Deps[n] \ Done(r)) \in Nat
          /\ Cardinality(Deps[n] \ Done(r)) = 0 <=> Deps[n] \ Done(r) = {}
      <4>1. IsFiniteSet(Nodes)
        BY Zenon DEF PipelineAssumption
      <4> QED
        BY Zenon, <3>2, <4>1, Counting
    <3> QED
      BY <3>1, <3>3 DEF Done
  <2>3. HandlersInOrder'
    BY ZenonT(30), <1>2, <1>6, <2>2 DEF PipelineInv, HandlersInOrder, Threads
  <2>4. \A q \in Runs, t \in Threads :
          context'[q] = "OK" /\ pc'[t] = "complete" /\ RunOf(t)' = q => job'[t][2] \in succeeded'[q]
    BY Zenon, <1>6, <2>1 DEF PipelineInv, Ordered
  <2> QED
    BY ZenonT(30), <1>1, <1>6, <1>7, <1>8, <2>1, <2>3, <2>4, Worked DEF turnVars
<1>10. CASE context[r] # "OK"
  <2>1. pc' = [pc EXCEPT ![w] = "complete"] /\ pc'[w] = "complete"
    BY Zenon, <1>1, <1>2, <1>10 DEF PipelineInv, Typed
  <2>2. HandlersInOrder'
    BY Zenon, <1>6, <2>1 DEF PipelineInv, HandlersInOrder, Threads
  <2>3. \A q \in Runs, t \in Threads :
          context'[q] = "OK" /\ pc'[t] = "complete" /\ RunOf(t)' = q => job'[t][2] \in succeeded'[q]
    BY Zenon, <1>2, <1>6, <1>10 DEF PipelineInv, Ordered
  <2> QED
    BY ZenonT(30), <1>1, <1>6, <1>7, <1>8, <2>1, <2>2, <2>3, Worked DEF turnVars
<1> QED
  BY Zenon, <1>9, <1>10

(* The handler returns: it succeeded, or it failed the context.             *)
LEMMA HandleStep ==
  ASSUME PipelineAssumption, PipelineInv, NEW w \in Workers, Handle(w)
  PROVE  PipelineInv'
<1>1. /\ pc[w] = "handler" /\ pc' = [pc EXCEPT ![w] = "complete"]
      /\ UNCHANGED <<pipelineVars, runVars, answer, completions, poolVars, job, todo>>
      /\ w \in Threads
  BY Zenon DEF Handle, Goto, Threads
<1>2. PICK r, n : r = RunOf(w) /\ n = job[w][2]
  BY Zenon
<1>3. pc[w] \in Holding
  BY ZenonT(30), <1>1 DEF Holding
<1>4. r \in Runs /\ n \in Nodes /\ job[w] = <<r, n>> /\ n \notin Done(r)
  BY <1>1, <1>2, <1>3, Holder
<1>5. n \notin succeeded[r]
  <2>1. \A t \in Threads : pc[t] = "complete" => job[t] # <<r, n>>
    BY Zenon, <1>1, <1>3, <1>4 DEF PipelineInv, TicketsDistinct, Holding
  <2> QED
    BY Zenon, <1>4, <2>1 DEF Done
<1>6. /\ pc'[w] = "complete" /\ \A t \in Threads : t # w => pc'[t] = pc[t]
      /\ \A t \in Threads : RunOf(t)' = RunOf(t) /\ job'[t] = job[t]
  BY Zenon, <1>1 DEF PipelineInv, Typed, RunOf
<1>7. /\ context' \in [Runs -> {"OK", "FAILED"}] /\ succeeded' \in [Runs -> SUBSET Nodes]
      /\ \A q \in Runs : /\ q # r => context'[q] = context[q] /\ succeeded'[q] = succeeded[q]
                         /\ succeeded[q] \subseteq succeeded'[q]
                         /\ succeeded'[q] \subseteq succeeded[q] \cup {n}
                         /\ context'[q] = "OK" => context[q] = "OK"
      /\ context'[r] = "OK" => n \in succeeded'[r]
  <2>1. CASE succeeded' = [succeeded EXCEPT ![r] = @ \cup {n}] /\ UNCHANGED context
    BY <1>4, <2>1 DEF PipelineInv, Typed
  <2>2. CASE context' = [context EXCEPT ![r] = "FAILED"] /\ UNCHANGED succeeded
    BY Zenon, <1>4, <2>2 DEF PipelineInv, Typed
  <2> QED
    BY ZenonT(30), <1>2, <2>1, <2>2 DEF Handle
<1>8. \A q \in Runs : Done(q)' = Done(q)
  <2> SUFFICES ASSUME NEW q \in Runs, NEW m
               PROVE  m \in Done(q)' <=> m \in Done(q)
    BY Zenon
  <2>1. m \in Done(q)' <=> /\ m \in succeeded'[q]
                           /\ \A t \in Threads : pc'[t] = "complete" => job'[t] # <<q, m>>
    BY Zenon DEF Done
  <2>2. m \in Done(q) <=> /\ m \in succeeded[q]
                          /\ \A t \in Threads : pc[t] = "complete" => job[t] # <<q, m>>
    BY Zenon DEF Done
  <2>3. CASE q = r /\ m = n
    BY ZenonT(30), <1>1, <1>4, <1>5, <1>6, <2>1, <2>2, <2>3
  <2>4. CASE ~(q = r /\ m = n)
    <3>1. job[w] # <<q, m>>
      BY <1>4, <2>4
    <3>2. m \in succeeded'[q] <=> m \in succeeded[q]
      BY Zenon, <1>7, <2>4
    <3>3. (\A t \in Threads : pc'[t] = "complete" => job'[t] # <<q, m>>)
            <=> \A t \in Threads : pc[t] = "complete" => job[t] # <<q, m>>
      BY Zenon, <1>6, <3>1
    <3> QED
      BY Zenon, <2>1, <2>2, <3>2, <3>3
  <2> QED
    BY Zenon, <2>3, <2>4
<1>9. \A q \in Runs, t \in Threads :
        context'[q] = "OK" /\ pc'[t] = "complete" /\ RunOf(t)' = q => job'[t][2] \in succeeded'[q]
  <2> SUFFICES ASSUME NEW q \in Runs, NEW t \in Threads,
                      context'[q] = "OK", pc'[t] = "complete", RunOf(t)' = q
               PROVE  job[t][2] \in succeeded'[q]
    BY Zenon, <1>6
  <2>1. CASE t = w
    BY Zenon, <1>2, <1>6, <1>7, <2>1
  <2>2. CASE t # w
    BY Zenon, <1>6, <1>7, <2>2 DEF PipelineInv, Ordered
  <2> QED
    BY Zenon, <2>1, <2>2
<1>10. HandlersInOrder'
  <2> SUFFICES ASSUME NEW v \in Workers, pc'[v] = "handler"
               PROVE  Deps[job[v][2]] \subseteq succeeded'[RunOf(v)]
    BY Zenon, <1>1, <1>6 DEF HandlersInOrder, Threads
  <2>1. v \in Threads /\ v # w
    BY Zenon, <1>6 DEF Threads
  <2>2. pc[v] = "handler" /\ RunOf(v) \in Runs
    BY Zenon, <1>6, <2>1 DEF PipelineInv, Places, RunOf
  <2> QED
    BY Zenon, <1>7, <2>2 DEF PipelineInv, HandlersInOrder
<1> QED
  BY ZenonT(30), <1>1, <1>2, <1>7, <1>8, <1>9, <1>10, Worked

==============================================================================
