---------------------------- MODULE ExecutionGraph ----------------------------
(***************************************************************************)
(* The reusable execution graph of utils/execution_graph: start() submits   *)
(* the roots of a dependency graph to a borrowed worker pool, every         *)
(* completed node submits the dependents it unblocks, wait() collects the   *)
(* result and makes the graph idle again for the next generation.           *)
(*                                                                         *)
(* A critical section of the graph's mutex is one step; submitting a        *)
(* wrapper, executing a node's job and notifying waiters happen between     *)
(* critical sections and are steps of their own.  Cyclic topologies, which  *)
(* start() refuses, are the subject of DependencyGraph.                     *)
(***************************************************************************)
EXTENDS Naturals, Sequences, FiniteSets

CONSTANTS
  Callers,   \* threads that build, start and wait, none of them a graph job
  Workers,   \* threads of the borrowed JobQueue
  Nodes,     \* nodes that may be added
  Edges,     \* <<prerequisite, dependent>> pairs that may be added
  MaxRuns,   \* bound on the number of runs
  EarlyStop, \* may the pool stop during a run, against the documented contract?
  None

ASSUME GraphAssumption ==
  /\ Callers \cap Workers = {}
  /\ IsFiniteSet(Nodes)
  /\ Edges \subseteq Nodes \X Nodes
  /\ \A S \in SUBSET Nodes : S # {} =>       \* no cycle: a set has a first node
       \E n \in S : \A m \in S : <<m, n>> \notin Edges
  /\ MaxRuns \in Nat
  /\ EarlyStop \in BOOLEAN
  /\ None \notin Nodes

VARIABLES
  nodes,          \* registered nodes
  edges,          \* registered edges
  state,          \* RunState
  runStatus,      \* run_status: OK or the first scheduling failure
  remainingNodes, \* remaining_nodes
  runningJobs,    \* running_jobs
  remainingDeps,  \* Node::remaining_dependencies
  generation,
  queue,          \* wrappers in the pool's urgent queue
  poolActive,     \* the pool accepts work
  pc,             \* where each thread is
  todo,           \* nodes a thread still has to schedule
  wrapper,        \* node and generation a thread is working for
  done            \* nodes whose job returned in this generation

graphVars == <<nodes, edges>>
runVars == <<state, runStatus, remainingNodes, runningJobs, remainingDeps,
             generation>>
threadVars == <<pc, todo, wrapper>>
vars == <<graphVars, runVars, queue, poolActive, threadVars, done>>

Threads == Callers \cup Workers
Wrappers == [node : Nodes \cup {None}, generation : 0..MaxRuns]
NoWrapper == [node |-> None, generation |-> 0]

TypeOK ==
  /\ nodes \subseteq Nodes /\ edges \subseteq Edges
  /\ state \in {"IDLE", "RUNNING", "COMPLETE"}
  /\ runStatus \in {"OK", "WORKER_SUBMISSION_FAILED"}
  /\ remainingNodes \in Nat /\ runningJobs \in Nat
  /\ remainingDeps \in [Nodes -> Nat]
  /\ generation \in 0..MaxRuns
  /\ queue \in Seq(Wrappers)
  /\ poolActive \in BOOLEAN
  /\ pc \in [Threads -> {"idle", "asleep", "awake", "check", "execute",
                         "complete", "reserve", "submit", "reject", "notify"}]
  /\ todo \in [Threads -> SUBSET Nodes]
  /\ wrapper \in [Threads -> Wrappers]
  /\ done \subseteq nodes

Init ==
  /\ nodes = {} /\ edges = {}
  /\ state = "IDLE" /\ runStatus = "OK"
  /\ remainingNodes = 0 /\ runningJobs = 0
  /\ remainingDeps = [n \in Nodes |-> 0]
  /\ generation = 0
  /\ queue = <<>> /\ poolActive = TRUE
  /\ pc = [t \in Threads |-> "idle"]
  /\ todo = [t \in Threads |-> {}]
  /\ wrapper = [t \in Threads |-> NoWrapper]
  /\ done = {}

-----------------------------------------------------------------------------
\* Construction, possible only while no run exists

AddNode(n) ==
  /\ state = "IDLE"
  /\ n \notin nodes
  /\ nodes' = nodes \cup {n}
  /\ UNCHANGED <<edges, runVars, queue, poolActive, threadVars, done>>

AddDependency(e) ==
  /\ state = "IDLE"
  /\ e \notin edges
  /\ e \in nodes \X nodes
  /\ edges' = edges \cup {e}
  /\ UNCHANGED <<nodes, runVars, queue, poolActive, threadVars, done>>

-----------------------------------------------------------------------------
\* The run

WokenNobody(p) == p

\* finished.notify_all()
Woken(p) == [t \in Threads |-> IF p[t] = "asleep" THEN "awake" ELSE p[t]]

Prerequisites(n) == {e \in edges : e[2] = n}

Dependents(n) == {m \in nodes : <<n, m>> \in edges}

\* Every run starts from the static dependency counts.
Readiness == [n \in Nodes |-> Cardinality(Prerequisites(n))]

\* start() up to the end of its critical section; the roots are scheduled next.
Start(t) ==
  /\ pc[t] = "idle"
  /\ state = "IDLE"
  /\ poolActive
  /\ generation < MaxRuns
  /\ generation' = generation + 1
  /\ runStatus' = "OK"
  /\ remainingNodes' = Cardinality(nodes)
  /\ runningJobs' = 0
  /\ remainingDeps' = Readiness
  /\ todo' = [todo EXCEPT ![t] = {n \in nodes : Prerequisites(n) = {}}]
  /\ wrapper' = [wrapper EXCEPT ![t] = [node |-> None, generation |-> generation + 1]]
  /\ IF nodes = {}
       THEN state' = "COMPLETE" /\ pc' = [Woken(pc) EXCEPT ![t] = "reserve"]
       ELSE state' = "RUNNING" /\ pc' = [pc EXCEPT ![t] = "reserve"]
  /\ done' = {}
  /\ UNCHANGED <<graphVars, queue, poolActive>>

\* schedule() belongs to the run the thread works for.
ThisRun(t) == state = "RUNNING" /\ generation = wrapper[t].generation

ReserveOne == runningJobs + 1

\* The critical section schedule() begins with.
Reserve(t) ==
  /\ pc[t] = "reserve"
  /\ \E n \in todo[t] :
       /\ todo' = [todo EXCEPT ![t] = @ \ {n}]
       /\ IF ThisRun(t) /\ runStatus = "OK"
            THEN /\ runningJobs' = ReserveOne
                 /\ wrapper' = [wrapper EXCEPT ![t].node = n]
                 /\ pc' = [pc EXCEPT ![t] = "submit"]
            ELSE UNCHANGED <<runningJobs, wrapper, pc>>
  /\ UNCHANGED <<graphVars, state, runStatus, remainingNodes, remainingDeps,
                 generation, queue, poolActive, done>>

\* workers.add_urgent of the wrapper.
Submit(t) ==
  /\ pc[t] = "submit"
  /\ IF poolActive
       THEN /\ queue' = Append(queue, wrapper[t])
            /\ pc' = [pc EXCEPT ![t] = "reserve"]
       ELSE /\ queue' = queue
            /\ pc' = [pc EXCEPT ![t] = "reject"]
  /\ UNCHANGED <<graphVars, runVars, poolActive, todo, wrapper, done>>

\* The wrapper that leaves is the last one of the run.
LastWrapper == runningJobs = 1

\* The pool refused the wrapper: fail_run_locked.
Reject(t) ==
  /\ pc[t] = "reject"
  /\ runningJobs' = runningJobs - 1
  /\ runStatus' = "WORKER_SUBMISSION_FAILED"
  /\ IF LastWrapper
       THEN state' = "COMPLETE" /\ pc' = [Woken(pc) EXCEPT ![t] = "reserve"]
       ELSE state' = state /\ pc' = [pc EXCEPT ![t] = "reserve"]
  /\ UNCHANGED <<graphVars, remainingNodes, remainingDeps, generation, queue,
                 poolActive, todo, wrapper, done>>

\* Every node to schedule has been dealt with: start() or complete() returns.
Scheduled(t) ==
  /\ pc[t] = "reserve"
  /\ todo[t] = {}
  /\ wrapper' = [wrapper EXCEPT ![t] = NoWrapper]
  /\ pc' = [pc EXCEPT ![t] = "idle"]
  /\ UNCHANGED <<graphVars, runVars, queue, poolActive, todo, done>>

-----------------------------------------------------------------------------
\* Workers

Take(w) ==
  /\ pc[w] = "idle"
  /\ poolActive
  /\ queue # <<>>
  /\ wrapper' = [wrapper EXCEPT ![w] = Head(queue)]
  /\ queue' = Tail(queue)
  /\ pc' = [pc EXCEPT ![w] = "check"]
  /\ UNCHANGED <<graphVars, runVars, poolActive, todo, done>>

Leave(w) ==
  /\ pc' = [pc EXCEPT ![w] = "idle"]
  /\ wrapper' = [wrapper EXCEPT ![w] = NoWrapper]

\* execute_node checks that its run is still on, then executes the job with no
\* lock held.
Check(w) ==
  /\ pc[w] = "check"
  /\ IF ThisRun(w) THEN pc' = [pc EXCEPT ![w] = "execute"] /\ UNCHANGED wrapper
                   ELSE Leave(w)
  /\ UNCHANGED <<graphVars, runVars, queue, poolActive, todo, done>>

Execute(w) ==
  /\ pc[w] = "execute"
  /\ done' = done \cup {wrapper[w].node}
  /\ pc' = [pc EXCEPT ![w] = "complete"]
  /\ UNCHANGED <<graphVars, runVars, queue, poolActive, todo, wrapper>>

ReadyOnFirst(n, deps) == {m \in Dependents(n) : deps[m] < Cardinality(Prerequisites(m))}

\* Dependents whose last prerequisite just completed.
Ready(n, deps) == {m \in Dependents(n) : deps[m] = 0}

LastNode == remainingNodes = 1

\* The node counts as completed and releases its dependents.
CompleteNode(w, n) ==
  LET deps == [m \in Nodes |-> IF m \in Dependents(n) THEN remainingDeps[m] - 1
                               ELSE remainingDeps[m]]
  IN  /\ remainingNodes' = remainingNodes - 1
      /\ remainingDeps' = deps
      /\ todo' = [todo EXCEPT ![w] = Ready(n, deps)]
      /\ IF LastNode
           THEN state' = "COMPLETE" /\ pc' = [pc EXCEPT ![w] = "notify"]
           ELSE state' = state /\ pc' = [pc EXCEPT ![w] = "reserve"]

\* After a failure nothing is released and the last wrapper ends the run.
CompleteFailed(w) ==
  /\ IF LastWrapper
       THEN state' = "COMPLETE" /\ pc' = [pc EXCEPT ![w] = "notify"]
       ELSE state' = state /\ pc' = [pc EXCEPT ![w] = "reserve"]
  /\ UNCHANGED <<remainingNodes, remainingDeps, todo>>

\* The critical section of complete().
Complete(w) ==
  /\ pc[w] = "complete"
  /\ IF ThisRun(w)
       THEN /\ runningJobs' = runningJobs - 1
            /\ IF runStatus = "OK" THEN CompleteNode(w, wrapper[w].node)
                                   ELSE CompleteFailed(w)
            /\ UNCHANGED wrapper
       ELSE /\ Leave(w)
            /\ UNCHANGED <<state, remainingNodes, runningJobs, remainingDeps, todo>>
  /\ UNCHANGED <<graphVars, runStatus, generation, queue, poolActive, done>>

\* Nothing is left to schedule when the run is complete.
Notify(w) ==
  /\ pc[w] = "notify"
  /\ pc' = [Woken(pc) EXCEPT ![w] = "idle"]
  /\ wrapper' = [wrapper EXCEPT ![w] = NoWrapper]
  /\ UNCHANGED <<graphVars, runVars, queue, poolActive, todo, done>>

-----------------------------------------------------------------------------
\* wait()

\* wait() consumes the result of a complete run and sleeps during a run; on an
\* idle graph it returns at once and changes nothing.
ConsumeOrSleep(t) ==
  /\ IF state = "COMPLETE"
       THEN state' = "IDLE" /\ pc' = [pc EXCEPT ![t] = "idle"]
       ELSE state' = state /\ pc' = [pc EXCEPT ![t] = "asleep"]
  /\ UNCHANGED <<graphVars, runStatus, remainingNodes, runningJobs,
                 remainingDeps, generation, queue, poolActive, todo, wrapper, done>>

Wait(t) ==
  /\ pc[t] = "idle"
  /\ state # "IDLE"
  /\ ConsumeOrSleep(t)

\* A notified waiter tests the predicate of finished.wait again.
Collect(t) ==
  /\ pc[t] = "awake"
  /\ ConsumeOrSleep(t)

-----------------------------------------------------------------------------

\* JobQueue::shutdown discards what has not started.
StopPool ==
  /\ EarlyStop
  /\ poolActive
  /\ poolActive' = FALSE
  /\ queue' = <<>>
  /\ UNCHANGED <<graphVars, runVars, threadVars, done>>

ThreadStep(t) == Reserve(t) \/ Submit(t) \/ Reject(t) \/ Scheduled(t)

WorkerStep(w) ==
  Take(w) \/ Check(w) \/ Execute(w) \/ Complete(w) \/ Notify(w) \/ ThreadStep(w)

CallerStep(t) == Collect(t) \/ ThreadStep(t)

Next ==
  \/ \E n \in Nodes : AddNode(n)
  \/ \E e \in Edges : AddDependency(e)
  \/ \E t \in Callers : Start(t) \/ Wait(t) \/ CallerStep(t)
  \/ \E w \in Workers : WorkerStep(w)
  \/ StopPool

Spec == Init /\ [][Next]_vars

\* Threads keep running and jobs return; nobody has to start or collect a run.
Fairness ==
  /\ \A t \in Callers : WF_vars(CallerStep(t))
  /\ \A w \in Workers : WF_vars(WorkerStep(w))

FairSpec == Spec /\ Fairness

-----------------------------------------------------------------------------
\* Properties

Executing == {w \in Workers : pc[w] = "execute"}

(* "No job starts before all prerequisites finish", and no node runs twice  *)
(* in a run: the job being executed was not executed before in this         *)
(* generation, no other worker executes it, and everything it depends on    *)
(* has returned. A run reported as successful executed every node.          *)
PrerequisitesFirst ==
  /\ \A w \in Executing :
       LET n == wrapper[w].node IN
         /\ n \notin done
         /\ \A v \in Executing : wrapper[v].node = n => v = w
         /\ \A e \in Prerequisites(n) : e[1] \in done
  /\ state = "COMPLETE" /\ runStatus = "OK" => done = nodes

(* Jobs run only inside their run: while the graph is idle or its result    *)
(* awaits collection no job executes, so a caller back from wait() may      *)
(* change the topology and the data of the jobs, and a wrapper left over    *)
(* from an earlier generation never executes in a later one.                *)
QuietOutsideRun ==
  \A w \in Executing : state = "RUNNING" /\ wrapper[w].generation = generation

InWait(t) == pc[t] \in {"awake", "asleep"}

(* When a thread waits and the pool keeps running, the run completes and    *)
(* one of its waiters wakes and collects the result, whatever the topology, *)
(* the order in which nodes finish and the submissions that were rejected.  *)
ResultCollected ==
  \A t \in Callers : InWait(t) ~> (state = "IDLE" \/ ~poolActive)

(* A call to wait() returns: "lifecycle methods are thread-safe, although   *)
(* only one run may exist at once".                                         *)
WaitReturns == \A t \in Callers : InWait(t) ~> pc[t] = "idle"

(* What a run promises in every state: prerequisites first, OK only when    *)
(* every node ran, and a graph that is quiet while it may be edited.        *)
RunSound == PrerequisitesFirst /\ QuietOutsideRun

=============================================================================
