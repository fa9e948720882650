------------------------- MODULE ExecutionGraphProofs -------------------------
(***************************************************************************)
(* TLAPS proofs about ExecutionGraph, for any acyclic topology, any number  *)
(* of callers and workers, and a pool that may refuse work at any time.     *)
(***************************************************************************)
EXTENDS ExecutionGraph, FiniteSetTheorems, SequenceTheorems, TLAPS

(***************************************************************************)
(* The inductive invariant.  A node that was reserved and has not completed *)
(* has a ticket: a wrapper in the pool's queue or in the hands of a thread. *)
(* RunSound follows from where the tickets are.  That a run is over only    *)
(* when no ticket is left needs the counters: running_jobs is never below   *)
(* the number of tickets (it stays above when the pool discards some), and  *)
(* while no submission has failed remaining_nodes and the                   *)
(* remaining_dependencies count what has not completed.                     *)
(***************************************************************************)

Holding == {"submit", "reject", "check", "execute", "complete"}

Holds(t, n) == pc[t] \in Holding /\ wrapper[t].node = n

Queued(n) == \E i \in 1..Len(queue) : queue[i].node = n

Ticketed == {n \in nodes : Queued(n) \/ \E t \in Threads : Holds(t, n)}

\* Nodes that complete() has counted.
Finished == {n \in done : \A t \in Threads : pc[t] = "complete" => wrapper[t].node # n}

\* A thread in schedule() whose reservations still count.
Scheduling(t) ==
  /\ pc[t] \in {"reserve", "submit", "reject"}
  /\ wrapper[t].generation = generation
  /\ state = "RUNNING" /\ runStatus = "OK"

Announced(n) == \E t \in Threads : Scheduling(t) /\ n \in todo[t]

\* Prerequisites of a node that have not completed.
Pending(m) == {e \in Prerequisites(m) : e[1] \notin Finished}

Shape ==
  /\ edges \subseteq nodes \X nodes
  /\ \A t \in Threads : wrapper[t].generation <= generation

\* Tickets belong to the run that is on: none outlives it.
TicketsCurrent ==
  /\ \A t \in Threads : pc[t] \in Holding =>
       wrapper[t].generation = generation /\ wrapper[t].node \in nodes /\ state = "RUNNING"
  /\ \A i \in 1..Len(queue) :
       queue[i].generation = generation /\ queue[i].node \in nodes /\ state = "RUNNING"

\* A node has at most one ticket, and only until its job has returned.
TicketsDistinct ==
  /\ \A s, t \in Threads :
       pc[s] \in Holding /\ pc[t] \in Holding /\ wrapper[s].node = wrapper[t].node => s = t
  /\ \A i, j \in 1..Len(queue) : queue[i].node = queue[j].node => i = j
  /\ \A t \in Threads, i \in 1..Len(queue) :
       pc[t] \in Holding => wrapper[t].node # queue[i].node

TicketsOpen ==
  /\ \A t \in Threads : pc[t] \in Holding => (wrapper[t].node \in done <=> pc[t] = "complete")
  /\ \A i \in 1..Len(queue) : queue[i].node \notin done

\* What is about to be reserved is new, and only one thread will reserve it.
TodoFresh ==
  \A t \in Threads : Scheduling(t) =>
    /\ todo[t] \subseteq nodes
    /\ \A n \in todo[t] : n \notin done /\ n \notin Ticketed
    /\ \A s \in Threads : Scheduling(s) /\ s # t => todo[s] \cap todo[t] = {}

Ordered ==
  state = "RUNNING" =>
    \A n \in nodes : n \in done \/ n \in Ticketed \/ Announced(n) => Pending(n) = {}

Counted ==
  state = "RUNNING" /\ runStatus = "OK" =>
    /\ \A m \in nodes : remainingDeps[m] = Cardinality(Pending(m))
    /\ remainingNodes = Cardinality(nodes \ Finished)

JobsCounted == state = "RUNNING" => Cardinality(Ticketed) <= runningJobs

Successful == state = "COMPLETE" /\ runStatus = "OK" => done = nodes

RunInv ==
  /\ TypeOK /\ Shape /\ TicketsCurrent /\ TicketsDistinct /\ TicketsOpen /\ TodoFresh
  /\ Ordered /\ Counted /\ JobsCounted /\ Successful

-----------------------------------------------------------------------------

(* The nodes and everything counted by the run are finite.                  *)
LEMMA Finiteness ==
  ASSUME TypeOK
  PROVE  /\ IsFiniteSet(nodes) /\ IsFiniteSet(Ticketed) /\ IsFiniteSet(nodes \ Finished)
         /\ \A m : IsFiniteSet(Prerequisites(m)) /\ IsFiniteSet(Pending(m))
<1>1. IsFiniteSet(nodes)
  BY Zenon, FS_Subset, GraphAssumption DEF TypeOK, GraphAssumption
<1>2. IsFiniteSet(Ticketed) /\ IsFiniteSet(nodes \ Finished)
  <2>1. Ticketed \subseteq nodes /\ nodes \ Finished \subseteq nodes
    BY Zenon DEF Ticketed
  <2> QED
    BY Zenon, <1>1, <2>1, FS_Subset
<1>3. IsFiniteSet(Nodes \X Nodes)
  BY Zenon, FS_Product, GraphAssumption DEF GraphAssumption
<1>4. ASSUME NEW m
      PROVE  IsFiniteSet(Prerequisites(m)) /\ IsFiniteSet(Pending(m))
  <2>1. Prerequisites(m) \subseteq Nodes \X Nodes /\ Pending(m) \subseteq Nodes \X Nodes
    BY Zenon, GraphAssumption DEF Prerequisites, Pending, TypeOK, GraphAssumption
  <2> QED
    BY Zenon, <1>3, <2>1, FS_Subset
<1> QED
  BY Zenon, <1>1, <1>2, <1>4

(* A ticket stands for a node that has not completed.                       *)
LEMMA TicketsUnfinished ==
  ASSUME RunInv, NEW n \in Ticketed
  PROVE  n \notin Finished
  BY Zenon DEF RunInv, Ticketed, Queued, Holds, TicketsOpen, Finished

(* When running_jobs is one, the thread that holds a ticket holds the last. *)
LEMMA OnlyTicket ==
  ASSUME RunInv, NEW t \in Threads, pc[t] \in Holding, runningJobs = 1
  PROVE  /\ \A s \in Threads : pc[s] \in Holding => s = t
         /\ Len(queue) = 0
<1> DEFINE n == wrapper[t].node
<1>1. n \in Ticketed /\ state = "RUNNING"
  BY Zenon DEF RunInv, TicketsCurrent, Ticketed, Holds
<1>2. IsFiniteSet(Ticketed) /\ Cardinality(Ticketed) <= 1
  BY Zenon, <1>1, Finiteness DEF RunInv, JobsCounted
<1>3. Cardinality(Ticketed \ {n}) = Cardinality(Ticketed) - 1 /\ IsFiniteSet(Ticketed \ {n})
  BY Zenon, <1>1, <1>2, FS_RemoveElement
<1>4. Cardinality(Ticketed) \in Nat /\ Cardinality(Ticketed \ {n}) \in Nat
  BY Zenon, <1>2, <1>3, FS_CardinalityType
<1>5. Ticketed \ {n} = {}
  BY <1>2, <1>3, <1>4, FS_EmptySet
<1>6. ASSUME NEW s \in Threads, pc[s] \in Holding
      PROVE  s = t
  <2>1. wrapper[s].node \in Ticketed
    BY Zenon, <1>6 DEF RunInv, TicketsCurrent, Ticketed, Holds
  <2> QED
    BY Zenon, <1>5, <1>6, <2>1 DEF RunInv, TicketsDistinct
<1>7. Len(queue) = 0
  <2> SUFFICES ASSUME Len(queue) # 0
               PROVE  FALSE
    BY Zenon
  <2>1. Len(queue) \in Nat /\ 1 \in 1..Len(queue)
    BY LenProperties DEF RunInv, TypeOK
  <2>2. queue[1].node \in Ticketed
    BY Zenon, <2>1 DEF RunInv, TicketsCurrent, Ticketed, Queued
  <2> QED
    BY <1>5, <2>1, <2>2 DEF RunInv, TicketsDistinct
<1> QED
  BY Zenon, <1>6, <1>7

(* Steps that neither create, move nor finish a ticket.                     *)
LEMMA Frame ==
  ASSUME RunInv, TypeOK',
         UNCHANGED <<nodes, edges, generation, runStatus, remainingNodes, runningJobs,
                     remainingDeps, done, queue>>,
         state' = state \/ (state # "RUNNING" /\ state' = "IDLE"),
         \A t \in Threads :
           /\ wrapper'[t].generation <= generation
           /\ pc'[t] \in Holding <=> pc[t] \in Holding
           /\ pc'[t] = "complete" <=> pc[t] = "complete"
           /\ pc[t] \in Holding => wrapper'[t] = wrapper[t]
           /\ Scheduling(t)' => Scheduling(t) /\ todo'[t] \subseteq todo[t]
  PROVE  RunInv'
<1>1. Ticketed' = Ticketed
  BY Zenon DEF Ticketed, Queued, Holds
<1>2. Finished' = Finished
  BY Zenon DEF Finished, Holding
<1>3. \A m : Pending(m)' = Pending(m)
  BY Zenon, <1>2 DEF Pending, Prerequisites
<1>4. Shape'
  BY Zenon DEF RunInv, Shape
<1>5. TicketsCurrent'
  BY Zenon DEF RunInv, TicketsCurrent
<1>6. TicketsDistinct'
  BY DEF RunInv, TicketsDistinct
<1>7. TicketsOpen'
  BY Zenon DEF RunInv, TicketsOpen
<1>8. TodoFresh'
  BY Zenon, <1>1 DEF RunInv, TodoFresh
<1>9. Ordered'
  BY Zenon, <1>1, <1>3 DEF RunInv, Ordered, Announced
<1>10. Counted'
  BY Zenon, <1>2, <1>3 DEF RunInv, Counted
<1>11. JobsCounted' /\ Successful'
  BY Zenon, <1>1 DEF RunInv, JobsCounted, Successful
<1> QED
  BY Zenon, <1>4, <1>5, <1>6, <1>7, <1>8, <1>9, <1>10, <1>11 DEF RunInv

(* An empty graph with an idle pool.                                        *)
LEMMA RunInit == Init => RunInv
<1> SUFFICES ASSUME Init
             PROVE  RunInv
  BY Zenon
<1>1. TypeOK
  BY GraphAssumption DEF Init, TypeOK, Wrappers, NoWrapper, GraphAssumption
<1>2. Len(queue) = 0 /\ \A t \in Threads : pc[t] = "idle" /\ wrapper[t] = NoWrapper
  BY Zenon DEF Init
<1> QED
  BY <1>1, <1>2 DEF Init, RunInv, Shape, TicketsCurrent, TicketsDistinct, TicketsOpen,
     TodoFresh, Scheduling, Ordered, Counted, JobsCounted, Successful, Holding, NoWrapper

(* A step that changes nothing keeps the invariant.                         *)
LEMMA RunStutter == RunInv /\ UNCHANGED vars => RunInv'
<1> SUFFICES ASSUME RunInv, UNCHANGED vars
             PROVE  RunInv'
  BY Zenon
<1> USE DEF vars, graphVars, runVars, threadVars
<1>1. TypeOK'
  BY Zenon DEF RunInv, TypeOK
<1> QED
  BY Zenon, <1>1, Frame DEF RunInv, Shape, Scheduling

(* Construction happens while no run exists and so no ticket.               *)
LEMMA AddNodeStep ==
  ASSUME RunInv, NEW n \in Nodes, AddNode(n)
  PROVE  RunInv'
  BY ZenonT(30) DEF AddNode, runVars, threadVars, RunInv, TypeOK, Shape, TicketsCurrent,
     TicketsDistinct, TicketsOpen, TodoFresh, Scheduling, Ordered, Counted, JobsCounted, Successful

(* add_dependency, likewise.                                                *)
LEMMA AddDependencyStep ==
  ASSUME RunInv, NEW e \in Edges, AddDependency(e)
  PROVE  RunInv'
  BY Zenon DEF AddDependency, runVars, threadVars, RunInv, TypeOK, Shape, TicketsCurrent,
     TicketsDistinct, TicketsOpen, TodoFresh, Scheduling, Ordered, Counted, JobsCounted, Successful

(* start(): no ticket exists, the counters are the static ones, and only    *)
(* the starting thread schedules, because the generation is new.            *)
LEMMA StartStep ==
  ASSUME RunInv, NEW t \in Callers, Start(t)
  PROVE  RunInv'
<1>1. /\ state = "IDLE" /\ generation' = generation + 1 /\ generation < MaxRuns
      /\ runStatus' = "OK" /\ remainingNodes' = Cardinality(nodes) /\ runningJobs' = 0
      /\ remainingDeps' = Readiness
      /\ todo' = [todo EXCEPT ![t] = {n \in nodes : Prerequisites(n) = {}}]
      /\ wrapper' = [wrapper EXCEPT ![t] = [node |-> None, generation |-> generation + 1]]
      /\ done' = {}
      /\ UNCHANGED <<nodes, edges, queue, poolActive>>
      /\ IF nodes = {} THEN state' = "COMPLETE" ELSE state' = "RUNNING"
      /\ t \in Threads
  BY Zenon DEF Start, graphVars, Threads
<1>2. pc' = [Woken(pc) EXCEPT ![t] = "reserve"] \/ pc' = [pc EXCEPT ![t] = "reserve"]
  BY Zenon DEF Start
<1>3. /\ pc' \in [Threads -> {"idle", "asleep", "awake", "check", "execute",
                             "complete", "reserve", "submit", "reject", "notify"}]
      /\ \A s \in Threads : pc'[s] \in Holding => pc[s] \in Holding
  BY Zenon, <1>1, <1>2 DEF RunInv, TypeOK, Woken, Holding
<1>4. \A s \in Threads : pc'[s] \notin Holding
  BY Zenon, <1>1, <1>3 DEF RunInv, TicketsCurrent
<1>5. Len(queue) \in Nat /\ Len(queue') = Len(queue)
  BY Zenon, <1>1, LenProperties DEF RunInv, TypeOK
<1>6. ~ \E i \in 1..Len(queue') : TRUE
  BY Zenon, <1>1 DEF RunInv, TicketsCurrent
<1>7. TypeOK'
  <2>1. Cardinality(nodes) \in Nat
    BY Zenon, Finiteness, FS_CardinalityType DEF RunInv
  <2>2. \A n : Cardinality(Prerequisites(n)) \in Nat
    BY Zenon, Finiteness, FS_CardinalityType DEF RunInv
  <2>3. remainingDeps' \in [Nodes -> Nat]
    BY Zenon, <1>1, <2>2 DEF Readiness
  <2>4. generation' \in 0..MaxRuns
    BY <1>1, GraphAssumption DEF RunInv, TypeOK, GraphAssumption
  <2>5. wrapper' \in [Threads -> Wrappers] /\ todo' \in [Threads -> SUBSET Nodes]
    BY Zenon, <1>1, <2>4 DEF RunInv, TypeOK, Wrappers
  <2> QED
    BY Zenon, <1>1, <1>3, <2>1, <2>3, <2>4, <2>5 DEF RunInv, TypeOK
<1>8. Finished' = {} /\ Ticketed' = {}
  BY Zenon, <1>1, <1>4, <1>6 DEF Finished, Ticketed, Queued, Holds
<1>9. \A m : Pending(m)' = Prerequisites(m)
  BY Zenon, <1>1, <1>8 DEF Pending, Prerequisites
<1>10. \A s \in Threads : Scheduling(s)' => s = t
  <2> SUFFICES ASSUME NEW s \in Threads, s # t, wrapper'[s].generation = generation'
               PROVE  FALSE
    BY Zenon DEF Scheduling
  <2>1. wrapper'[s] = wrapper[s] /\ wrapper[s].generation <= generation
    BY Zenon, <1>1 DEF RunInv, TypeOK, Shape
  <2>2. wrapper[s].generation \in Nat /\ generation \in Nat
    BY DEF RunInv, TypeOK, Wrappers
  <2> QED
    BY <1>1, <2>1, <2>2
<1>11. Shape'
  <2>1. \A s \in Threads : wrapper'[s].generation <= generation'
    <3> SUFFICES ASSUME NEW s \in Threads
                 PROVE  wrapper'[s].generation <= generation'
      BY Zenon
    <3>1. wrapper[s].generation \in Nat /\ generation \in Nat /\ wrapper[s].generation <= generation
      BY DEF RunInv, TypeOK, Wrappers, Shape
    <3>2. s # t => wrapper'[s] = wrapper[s]
      BY Zenon, <1>1 DEF RunInv, TypeOK
    <3>3. s = t => wrapper'[s].generation = generation + 1
      BY Zenon, <1>1 DEF RunInv, TypeOK
    <3> QED
      BY <1>1, <3>1, <3>2, <3>3
  <2> QED
    BY Zenon, <1>1, <2>1 DEF RunInv, Shape
<1>12. TicketsCurrent' /\ TicketsDistinct' /\ TicketsOpen'
  BY Zenon, <1>4, <1>6 DEF TicketsCurrent, TicketsDistinct, TicketsOpen
<1>13. todo'[t] = {n \in nodes : Prerequisites(n) = {}}
  BY Zenon, <1>1 DEF RunInv, TypeOK
<1>14. TodoFresh'
  BY Zenon, <1>1, <1>8, <1>10, <1>13 DEF TodoFresh
<1>15. Ordered'
  BY Zenon, <1>1, <1>8, <1>9, <1>10, <1>13 DEF Ordered, Announced
<1>16. Counted'
  <2>1. nodes \ {} = nodes /\ nodes \subseteq Nodes
    BY Zenon DEF RunInv, TypeOK
  <2> QED
    BY Zenon, <1>1, <1>8, <1>9, <2>1 DEF Counted, Readiness
<1>17. JobsCounted' /\ Successful'
  BY <1>1, <1>8, FS_EmptySet DEF JobsCounted, Successful
<1> QED
  BY Zenon, <1>7, <1>11, <1>12, <1>14, <1>15, <1>16, <1>17 DEF RunInv

(* wait() on a run that is on or complete changes no ticket.                *)
LEMMA WaitStep ==
  ASSUME RunInv, NEW t \in Callers, pc[t] \in {"idle", "awake"}, ConsumeOrSleep(t)
  PROVE  RunInv'
<1>1. /\ UNCHANGED <<nodes, edges, generation, runStatus, remainingNodes, runningJobs,
                     remainingDeps, done, queue, poolActive, todo, wrapper>>
      /\ state' = state \/ (state = "COMPLETE" /\ state' = "IDLE")
      /\ pc' = [pc EXCEPT ![t] = "idle"] \/ pc' = [pc EXCEPT ![t] = "asleep"]
      /\ t \in Threads
  BY Zenon DEF ConsumeOrSleep, graphVars, Threads
<1>2. TypeOK'
  BY Zenon, <1>1 DEF RunInv, TypeOK
<1>3. \A s \in Threads : /\ pc'[s] \in Holding <=> pc[s] \in Holding
                         /\ pc'[s] = "complete" <=> pc[s] = "complete"
                         /\ Scheduling(s)' => Scheduling(s)
  BY Zenon, <1>1 DEF RunInv, TypeOK, Holding, Scheduling
<1> QED
  BY Zenon, <1>1, <1>2, <1>3, Frame DEF RunInv, Shape

(* schedule() and complete() return, or the waiters are notified.           *)
LEMMA ReturnStep ==
  ASSUME RunInv, NEW t \in Threads, Scheduled(t) \/ Notify(t)
  PROVE  RunInv'
<1>1. /\ UNCHANGED <<nodes, edges, generation, state, runStatus, remainingNodes, runningJobs,
                     remainingDeps, done, queue, poolActive, todo>>
      /\ pc[t] \in {"reserve", "notify"}
      /\ pc' = [pc EXCEPT ![t] = "idle"] \/ pc' = [Woken(pc) EXCEPT ![t] = "idle"]
      /\ wrapper' = [wrapper EXCEPT ![t] = NoWrapper]
  BY Zenon DEF Scheduled, Notify, graphVars, runVars
<1>2. NoWrapper \in Wrappers
  BY GraphAssumption DEF NoWrapper, Wrappers, GraphAssumption
<1>3. TypeOK'
  BY Zenon, <1>1, <1>2 DEF RunInv, TypeOK, Woken
<1>4. \A s \in Threads : /\ pc'[s] \in Holding <=> pc[s] \in Holding
                         /\ pc'[s] = "complete" <=> pc[s] = "complete"
                         /\ Scheduling(s)' => Scheduling(s)
                         /\ pc[s] \in Holding => wrapper'[s] = wrapper[s]
  BY Zenon, <1>1 DEF RunInv, TypeOK, Holding, Scheduling, Woken
<1>5. \A s \in Threads : wrapper'[s].generation <= generation
  <2>1. generation \in Nat
    BY DEF RunInv, TypeOK
  <2> QED
    BY <1>1, <2>1 DEF RunInv, TypeOK, Shape, NoWrapper
<1> QED
  BY Zenon, <1>1, <1>3, <1>4, <1>5, Frame

(* schedule() reserves a node: a new ticket, counted by running_jobs.       *)
LEMMA ReserveStep ==
  ASSUME RunInv, NEW t \in Threads, Reserve(t)
  PROVE  RunInv'
<1>1. /\ pc[t] = "reserve"
      /\ UNCHANGED <<nodes, edges, state, runStatus, remainingNodes, remainingDeps, generation,
                     queue, poolActive, done>>
  BY Zenon DEF Reserve, graphVars
<1>2. PICK n \in todo[t] :
        /\ todo' = [todo EXCEPT ![t] = @ \ {n}]
        /\ IF ThisRun(t) /\ runStatus = "OK"
             THEN /\ runningJobs' = runningJobs + 1
                  /\ wrapper' = [wrapper EXCEPT ![t].node = n]
                  /\ pc' = [pc EXCEPT ![t] = "submit"]
             ELSE UNCHANGED <<runningJobs, wrapper, pc>>
  BY Zenon DEF Reserve, ReserveOne
<1>3. /\ todo' \in [Threads -> SUBSET Nodes]
      /\ todo'[t] = todo[t] \ {n}
      /\ \A s \in Threads : s # t => todo'[s] = todo[s]
      /\ n \in Nodes
  BY Zenon, <1>2 DEF RunInv, TypeOK
<1>4. CASE ~(ThisRun(t) /\ runStatus = "OK")
  <2>1. TypeOK'
    BY Zenon, <1>1, <1>2, <1>3, <1>4 DEF RunInv, TypeOK
  <2>2. \A s \in Threads : Scheduling(s)' => Scheduling(s) /\ todo'[s] \subseteq todo[s]
    BY Zenon, <1>1, <1>2, <1>3, <1>4 DEF Scheduling
  <2> QED
    BY Zenon, <1>1, <1>2, <1>4, <2>1, <2>2, Frame DEF RunInv, Shape
<1>5. CASE ThisRun(t) /\ runStatus = "OK"
  <2>1. /\ runningJobs' = runningJobs + 1
        /\ wrapper' = [wrapper EXCEPT ![t].node = n]
        /\ pc' = [pc EXCEPT ![t] = "submit"]
        /\ Scheduling(t) /\ state = "RUNNING"
    BY Zenon, <1>1, <1>2, <1>5 DEF ThisRun, Scheduling
  <2>2. n \in nodes /\ n \notin done /\ n \notin Ticketed
    BY Zenon, <2>1 DEF RunInv, TodoFresh
  <2>3. /\ wrapper' \in [Threads -> Wrappers]
        /\ wrapper'[t].node = n /\ wrapper'[t].generation = wrapper[t].generation
        /\ \A s \in Threads : s # t => wrapper'[s] = wrapper[s]
    BY Zenon, <1>3, <2>1 DEF RunInv, TypeOK, Wrappers
  <2>4. /\ pc'[t] = "submit" /\ \A s \in Threads : s # t => pc'[s] = pc[s]
    BY Zenon, <2>1 DEF RunInv, TypeOK
  <2>5. TypeOK'
    BY <1>1, <1>3, <2>1, <2>3 DEF RunInv, TypeOK
  <2>6. Ticketed' = Ticketed \cup {n}
    <3>1. \A m : Queued(m)' <=> Queued(m)
      BY Zenon, <1>1 DEF Queued
    <3>2. \A m : (\E s \in Threads : Holds(s, m)') <=> m = n \/ (\E s \in Threads : Holds(s, m))
      BY Zenon, <1>1, <2>3, <2>4 DEF Holds, Holding
    <3> QED
      BY Zenon, <1>1, <2>2, <3>1, <3>2 DEF Ticketed
  <2>7. Finished' = Finished
    BY Zenon, <1>1, <2>3, <2>4 DEF Finished
  <2>8. \A m : Pending(m)' = Pending(m)
    BY Zenon, <1>1, <2>7 DEF Pending, Prerequisites
  <2>9. \A s \in Threads : Scheduling(s)' <=> Scheduling(s)
    BY Zenon, <1>1, <2>3, <2>4 DEF Scheduling
  <2>10. Shape'
    BY Zenon, <1>1, <2>3 DEF RunInv, Shape
  <2>11. TicketsCurrent'
    BY Zenon, <1>1, <1>5, <2>2, <2>3, <2>4 DEF RunInv, TicketsCurrent, ThisRun
  <2>12. TicketsDistinct'
    <3>1. \A s \in Threads : s # t /\ pc[s] \in Holding => wrapper[s].node # n
      BY Zenon, <2>2 DEF Ticketed, Holds
    <3>2. \A i \in 1..Len(queue) : queue[i].node # n
      BY Zenon, <2>2 DEF Ticketed, Queued
    <3> QED
      BY <1>1, <2>3, <2>4, <3>1, <3>2 DEF RunInv, TicketsDistinct
  <2>13. TicketsOpen'
    BY Zenon, <1>1, <2>2, <2>3, <2>4 DEF RunInv, TicketsOpen
  <2>14. TodoFresh'
    BY Zenon, <1>1, <1>3, <2>1, <2>6, <2>9 DEF RunInv, TodoFresh
  <2>15. Ordered'
    <3>1. Announced(n)
      BY Zenon, <2>1 DEF Announced
    <3>2. \A m : Announced(m)' => Announced(m)
      BY Zenon, <1>3, <2>9 DEF Announced
    <3> QED
      BY Zenon, <1>1, <2>1, <2>6, <2>8, <3>1, <3>2 DEF RunInv, Ordered
  <2>16. Counted'
    BY Zenon, <1>1, <2>7, <2>8 DEF RunInv, Counted
  <2>17. JobsCounted'
    <3>1. Cardinality(Ticketed') = Cardinality(Ticketed) + 1 /\ Cardinality(Ticketed) \in Nat
      BY Zenon, <2>2, <2>6, Finiteness, FS_AddElement, FS_CardinalityType DEF RunInv
    <3> QED
      BY <1>1, <2>1, <3>1 DEF RunInv, TypeOK, JobsCounted
  <2>18. Successful'
    BY Zenon, <1>1 DEF RunInv, Successful
  <2> QED
    BY Zenon, <2>5, <2>10, <2>11, <2>12, <2>13, <2>14, <2>15, <2>16, <2>17, <2>18 DEF RunInv
<1> QED
  BY Zenon, <1>4, <1>5

(* Steps that only move a ticket between the queue and a thread, before its *)
(* job has run.                                                             *)
LEMMA TicketMoved ==
  ASSUME RunInv, TypeOK', NEW t \in Threads,
         UNCHANGED <<nodes, edges, generation, state, runStatus, remainingNodes, runningJobs,
                     remainingDeps, done, todo>>,
         Ticketed' = Ticketed, Shape', TicketsCurrent', TicketsDistinct', TicketsOpen',
         pc[t] # "complete", pc'[t] # "complete",
         \A s \in Threads : s # t => pc'[s] = pc[s] /\ wrapper'[s] = wrapper[s],
         Scheduling(t)' => Scheduling(t)
  PROVE  RunInv'
<1>1. Finished' = Finished
  BY Zenon DEF Finished
<1>2. \A m : Pending(m)' = Pending(m)
  BY Zenon, <1>1 DEF Pending, Prerequisites
<1>3. \A s \in Threads : Scheduling(s)' => Scheduling(s)
  BY Zenon DEF Scheduling
<1>4. TodoFresh'
  BY Zenon, <1>3 DEF RunInv, TodoFresh
<1>5. Ordered'
  BY Zenon, <1>2, <1>3 DEF RunInv, Ordered, Announced
<1>6. Counted' /\ JobsCounted' /\ Successful'
  BY Zenon, <1>1, <1>2 DEF RunInv, Counted, JobsCounted, Successful
<1> QED
  BY Zenon, <1>4, <1>5, <1>6 DEF RunInv

(* workers.add_urgent: the ticket enters the queue, or is refused.          *)
LEMMA SubmitStep ==
  ASSUME RunInv, NEW t \in Threads, Submit(t)
  PROVE  RunInv'
<1>1. /\ pc[t] = "submit"
      /\ UNCHANGED <<nodes, edges, generation, state, runStatus, remainingNodes, runningJobs,
                     remainingDeps, done, poolActive, todo, wrapper>>
  BY Zenon DEF Submit, graphVars, runVars
<1>2. CASE poolActive
  <2>1. queue' = Append(queue, wrapper[t]) /\ pc' = [pc EXCEPT ![t] = "reserve"]
    BY Zenon, <1>2 DEF Submit
  <2>2. queue \in Seq(Wrappers) /\ wrapper[t] \in Wrappers
    BY Zenon DEF RunInv, TypeOK
  <2>3. /\ queue' \in Seq(Wrappers) /\ Len(queue) \in Nat /\ Len(queue') = Len(queue) + 1
        /\ \A i \in 1..Len(queue) : queue'[i] = queue[i]
        /\ queue'[Len(queue) + 1] = wrapper[t]
    BY <2>1, <2>2, AppendProperties, LenProperties
  <2>4. \A i \in 1..Len(queue') : i \in 1..Len(queue) \/ i = Len(queue) + 1
    BY <2>3
  <2>5. pc'[t] = "reserve" /\ \A s \in Threads : s # t => pc'[s] = pc[s]
    BY Zenon, <2>1 DEF RunInv, TypeOK
  <2>6. TypeOK'
    BY Zenon, <1>1, <2>1, <2>3 DEF RunInv, TypeOK
  <2>7. Ticketed' = Ticketed
    <3>1. \A m : Queued(m)' <=> Queued(m) \/ m = wrapper[t].node
      <4>1. \A i \in 1..Len(queue) : i \in 1..Len(queue')
        BY <2>3
      <4>2. Len(queue) + 1 \in 1..Len(queue')
        BY <2>3
      <4> QED
        BY Zenon, <2>3, <2>4, <4>1, <4>2 DEF Queued
    <3>2. \A m : /\ (\E s \in Threads : Holds(s, m)') => (\E s \in Threads : Holds(s, m))
                 /\ (\E s \in Threads : Holds(s, m)) =>
                      (\E s \in Threads : Holds(s, m)') \/ m = wrapper[t].node
                 /\ m = wrapper[t].node => \E s \in Threads : Holds(s, m)
      BY Zenon, <1>1, <2>5 DEF Holds, Holding
    <3> QED
      BY Zenon, <1>1, <3>1, <3>2 DEF Ticketed
  <2>8. Shape'
    BY Zenon, <1>1 DEF RunInv, Shape
  <2>9. TicketsCurrent'
    BY Zenon, <1>1, <2>3, <2>4, <2>5 DEF RunInv, TicketsCurrent, Holding
  <2>10. TicketsDistinct'
    BY <1>1, <2>3, <2>4, <2>5 DEF RunInv, TicketsDistinct, Holding
  <2>11. TicketsOpen'
    BY Zenon, <1>1, <2>3, <2>4, <2>5 DEF RunInv, TicketsOpen, Holding
  <2>12. Scheduling(t)' => Scheduling(t)
    BY Zenon, <1>1 DEF Scheduling
  <2> QED
    BY Zenon, <1>1, <2>5, <2>6, <2>7, <2>8, <2>9, <2>10, <2>11, <2>12, TicketMoved
<1>3. CASE ~poolActive
  <2>1. queue' = queue /\ pc' = [pc EXCEPT ![t] = "reject"]
    BY Zenon, <1>3 DEF Submit
  <2>2. TypeOK'
    BY Zenon, <1>1, <2>1 DEF RunInv, TypeOK
  <2>3. \A s \in Threads : /\ pc'[s] \in Holding <=> pc[s] \in Holding
                           /\ pc'[s] = "complete" <=> pc[s] = "complete"
                           /\ Scheduling(s)' => Scheduling(s)
    BY Zenon, <1>1, <2>1 DEF RunInv, TypeOK, Holding, Scheduling
  <2> QED
    BY Zenon, <1>1, <2>1, <2>2, <2>3, Frame DEF RunInv, Shape
<1> QED
  BY Zenon, <1>2, <1>3

(* A worker takes the oldest wrapper: the ticket moves to its hands.        *)
LEMMA TakeStep ==
  ASSUME RunInv, NEW w \in Threads, Take(w)
  PROVE  RunInv'
<1>1. /\ pc[w] = "idle" /\ queue # <<>>
      /\ wrapper' = [wrapper EXCEPT ![w] = Head(queue)]
      /\ queue' = Tail(queue) /\ pc' = [pc EXCEPT ![w] = "check"]
      /\ UNCHANGED <<nodes, edges, generation, state, runStatus, remainingNodes, runningJobs,
                     remainingDeps, done, poolActive, todo>>
  BY Zenon DEF Take, graphVars, runVars
<1>2. queue \in Seq(Wrappers)
  BY Zenon DEF RunInv, TypeOK
<1>3. /\ Head(queue) \in Wrappers /\ queue' \in Seq(Wrappers)
      /\ Len(queue) \in Nat /\ Len(queue') = Len(queue) - 1 /\ Len(queue) >= 1
      /\ \A i \in 1..Len(queue') : queue'[i] = queue[i + 1]
  BY <1>1, <1>2, HeadTailProperties, LenProperties
<1>4. Head(queue) = queue[1]
  OBVIOUS
<1>5. /\ 1 \in 1..Len(queue) /\ Len(queue') \in Nat
      /\ \A i \in 1..Len(queue') : i + 1 \in 1..Len(queue) /\ i + 1 # 1
      /\ \A j \in 1..Len(queue) : j # 1 => j - 1 \in 1..Len(queue') /\ (j - 1) + 1 = j
  BY <1>3
<1>6. /\ pc'[w] = "check" /\ wrapper'[w] = queue[1]
      /\ \A s \in Threads : s # w => pc'[s] = pc[s] /\ wrapper'[s] = wrapper[s]
  BY Zenon, <1>1, <1>4 DEF RunInv, TypeOK
<1>7. TypeOK'
  BY Zenon, <1>1, <1>3 DEF RunInv, TypeOK
<1>8. Ticketed' = Ticketed
  <2>1. \A m : Queued(m) <=> Queued(m)' \/ m = queue[1].node
    <3>1. \A m : Queued(m)' \/ m = queue[1].node => Queued(m)
      BY ZenonT(30), <1>3, <1>5 DEF Queued
    <3>2. ASSUME NEW m, Queued(m), m # queue[1].node
          PROVE  Queued(m)'
      <4>1. PICK j \in 1..Len(queue) : queue[j].node = m
        BY Zenon, <3>2 DEF Queued
      <4>2. j - 1 \in 1..Len(queue') /\ queue'[j - 1] = queue[j]
        BY Zenon, <1>3, <1>5, <3>2, <4>1
      <4> QED
        BY Zenon, <4>1, <4>2 DEF Queued
    <3> QED
      BY Zenon, <3>1, <3>2
  <2>2. \A m : (\E s \in Threads : Holds(s, m)') <=>
                 (\E s \in Threads : Holds(s, m)) \/ m = queue[1].node
    BY Zenon, <1>1, <1>6 DEF Holds, Holding
  <2> QED
    BY Zenon, <1>1, <2>1, <2>2 DEF Ticketed
<1>9. queue[1].generation = generation /\ queue[1].node \in nodes /\ state = "RUNNING"
  BY Zenon, <1>5 DEF RunInv, TicketsCurrent
<1>10. Shape'
  <2>1. generation <= generation
    BY DEF RunInv, TypeOK
  <2> QED
    BY Zenon, <1>1, <1>6, <1>9, <2>1 DEF RunInv, Shape
<1>11. TicketsCurrent'
  BY <1>1, <1>3, <1>5, <1>6, <1>9 DEF RunInv, TicketsCurrent
<1>12. TicketsDistinct'
  <2>1. \A s, u \in Threads :
          pc'[s] \in Holding /\ pc'[u] \in Holding /\ wrapper'[s].node = wrapper'[u].node => s = u
    BY <1>5, <1>6 DEF RunInv, TicketsDistinct
  <2>2. \A i, j \in 1..Len(queue') : queue'[i].node = queue'[j].node => i = j
    <3> SUFFICES ASSUME NEW i \in 1..Len(queue'), NEW j \in 1..Len(queue'),
                        queue'[i].node = queue'[j].node
                 PROVE  i = j
      BY Zenon
    <3>1. i + 1 = j + 1
      BY ZenonT(30), <1>3, <1>5 DEF RunInv, TicketsDistinct
    <3> QED
      BY <3>1
  <2>3. \A s \in Threads, i \in 1..Len(queue') :
          pc'[s] \in Holding => wrapper'[s].node # queue'[i].node
    BY SMTT(20), <1>3, <1>5, <1>6 DEF RunInv, TicketsDistinct
  <2> QED
    BY Zenon, <2>1, <2>2, <2>3 DEF TicketsDistinct
<1>13. TicketsOpen'
  BY <1>1, <1>3, <1>5, <1>6 DEF RunInv, TicketsOpen
<1>14. ~Scheduling(w)'
  BY Zenon, <1>6 DEF Scheduling
<1> QED
  BY Zenon, <1>1, <1>6, <1>7, <1>8, <1>10, <1>11, <1>12, <1>13, <1>14, TicketMoved

(* execute_node finds its run on: tickets never outlive it.                 *)
LEMMA CheckStep ==
  ASSUME RunInv, NEW w \in Threads, Check(w)
  PROVE  RunInv'
<1>1. /\ pc[w] = "check"
      /\ UNCHANGED <<nodes, edges, generation, state, runStatus, remainingNodes, runningJobs,
                     remainingDeps, done, queue, poolActive, todo>>
  BY Zenon DEF Check, graphVars, runVars
<1>2. ThisRun(w)
  BY Zenon, <1>1 DEF RunInv, TicketsCurrent, ThisRun, Holding
<1>3. pc' = [pc EXCEPT ![w] = "execute"] /\ wrapper' = wrapper
  BY Zenon, <1>2 DEF Check
<1>4. TypeOK'
  BY Zenon, <1>1, <1>3 DEF RunInv, TypeOK
<1>5. \A s \in Threads : /\ pc'[s] \in Holding <=> pc[s] \in Holding
                         /\ pc'[s] = "complete" <=> pc[s] = "complete"
                         /\ Scheduling(s)' => Scheduling(s)
  BY Zenon, <1>1, <1>3 DEF RunInv, TypeOK, Holding, Scheduling
<1> QED
  BY Zenon, <1>1, <1>3, <1>4, <1>5, Frame DEF RunInv, Shape

(* The job returns: its node is done, and completes with the next step.     *)
LEMMA ExecuteStep ==
  ASSUME RunInv, NEW w \in Threads, Execute(w)
  PROVE  RunInv'
<1> DEFINE n == wrapper[w].node
<1>1. /\ pc[w] = "execute" /\ done' = done \cup {n} /\ pc' = [pc EXCEPT ![w] = "complete"]
      /\ UNCHANGED <<nodes, edges, generation, state, runStatus, remainingNodes, runningJobs,
                     remainingDeps, queue, poolActive, todo, wrapper>>
  BY Zenon DEF Execute, graphVars, runVars
<1>2. pc[w] \in Holding /\ pc'[w] = "complete" /\ \A s \in Threads : s # w => pc'[s] = pc[s]
  BY Zenon, <1>1 DEF RunInv, TypeOK, Holding
<1>3. n \in nodes /\ state = "RUNNING" /\ n \in Ticketed
  BY Zenon, <1>2 DEF RunInv, TicketsCurrent, Ticketed, Holds
<1>4. TypeOK'
  BY Zenon, <1>1, <1>3 DEF RunInv, TypeOK
<1>5. Ticketed' = Ticketed
  BY Zenon, <1>1, <1>2 DEF Ticketed, Queued, Holds, Holding
<1>6. Finished' = Finished
  <2>1. n \notin Finished
    BY Zenon, <1>3, TicketsUnfinished
  <2>2. n \notin Finished'
    BY Zenon, <1>1, <1>2 DEF Finished
  <2>3. \A m : m # n => (m \in Finished' <=> m \in Finished)
    BY Zenon, <1>1, <1>2 DEF Finished
  <2> QED
    BY Zenon, <2>1, <2>2, <2>3 DEF Finished
<1>7. \A m : Pending(m)' = Pending(m)
  BY Zenon, <1>1, <1>6 DEF Pending, Prerequisites
<1>8. \A s \in Threads : Scheduling(s)' => Scheduling(s)
  BY Zenon, <1>1, <1>2 DEF Scheduling
<1>9. Shape' /\ TicketsCurrent'
  BY Zenon, <1>1, <1>2 DEF RunInv, Shape, TicketsCurrent
<1>10. TicketsDistinct'
  BY ZenonT(30), <1>1, <1>2 DEF RunInv, TicketsDistinct, Holding
<1>11. TicketsOpen'
  BY Zenon, <1>1, <1>2 DEF RunInv, TicketsOpen, TicketsDistinct
<1>12. TodoFresh'
  BY Zenon, <1>1, <1>3, <1>5, <1>8 DEF RunInv, TodoFresh
<1>13. Ordered'
  BY Zenon, <1>1, <1>3, <1>5, <1>7, <1>8 DEF RunInv, Ordered, Announced
<1>14. Counted' /\ JobsCounted' /\ Successful'
  BY Zenon, <1>1, <1>3, <1>5, <1>6, <1>7 DEF RunInv, Counted, JobsCounted, Successful
<1> QED
  BY Zenon, <1>4, <1>9, <1>10, <1>11, <1>12, <1>13, <1>14 DEF RunInv

(* A thread gives up its ticket: the others keep theirs, and running_jobs   *)
(* loses what the set of tickets loses.                                     *)
LEMMA TicketReturned ==
  ASSUME RunInv, NEW t \in Threads, pc[t] \in Holding,
         UNCHANGED <<nodes, edges, generation, queue, done, wrapper>>,
         runningJobs' = runningJobs - 1, pc'[t] \notin Holding,
         \A s \in Threads : s # t => (pc'[s] = pc[s] \/ (pc'[s] \notin Holding /\ pc[s] \notin Holding))
  PROVE  /\ Ticketed' = Ticketed \ {wrapper[t].node}
         /\ runningJobs' \in Nat /\ Cardinality(Ticketed') <= runningJobs'
         /\ TicketsDistinct' /\ TicketsOpen'
         /\ state' = "RUNNING" => TicketsCurrent'
         /\ runningJobs = 1 => TicketsCurrent'
         /\ wrapper[t].node \in nodes /\ state = "RUNNING"
         /\ wrapper[t].node \in Ticketed
<1> DEFINE n == wrapper[t].node
<1>1. n \in nodes /\ state = "RUNNING" /\ n \in Ticketed
  BY Zenon DEF RunInv, TicketsCurrent, Ticketed, Holds
<1>2. \A s \in Threads : pc'[s] \in Holding => s # t /\ pc'[s] = pc[s]
  BY Zenon
<1>3. \A s \in Threads : pc[s] \in Holding /\ s # t => pc'[s] = pc[s]
  BY Zenon
<1>4. Ticketed' = Ticketed \ {n}
  <2>1. \A m : m # n /\ (\E s \in Threads : Holds(s, m)) => \E s \in Threads : Holds(s, m)'
    BY Zenon, <1>3 DEF Holds
  <2>2. \A m : (\E s \in Threads : Holds(s, m)') => m # n /\ \E s \in Threads : Holds(s, m)
    BY Zenon, <1>2 DEF Holds, RunInv, TicketsDistinct
  <2>3. \A m : Queued(m)' <=> Queued(m) /\ m # n
    BY Zenon DEF Queued, RunInv, TicketsDistinct
  <2> QED
    BY Zenon, <2>1, <2>2, <2>3 DEF Ticketed
<1>5. /\ Cardinality(Ticketed') = Cardinality(Ticketed) - 1
      /\ Cardinality(Ticketed) \in Nat /\ Cardinality(Ticketed') \in Nat
  BY Zenon, <1>1, <1>4, Finiteness, FS_RemoveElement, FS_CardinalityType DEF RunInv
<1>6. runningJobs \in Nat /\ Cardinality(Ticketed) <= runningJobs
  BY Zenon, <1>1 DEF RunInv, TypeOK, JobsCounted
<1>7. runningJobs' \in Nat /\ Cardinality(Ticketed') <= runningJobs'
  BY <1>5, <1>6
<1>8. TicketsDistinct'
  BY Zenon, <1>2 DEF RunInv, TicketsDistinct
<1>9. TicketsOpen'
  BY Zenon, <1>2 DEF RunInv, TicketsOpen
<1>10. state' = "RUNNING" => TicketsCurrent'
  BY Zenon, <1>2 DEF RunInv, TicketsCurrent
<1>11. ASSUME runningJobs = 1
       PROVE  TicketsCurrent'
  <2>1. Len(queue) = 0 /\ \A s \in Threads : pc'[s] \notin Holding
    BY Zenon, <1>2, <1>11, OnlyTicket
  <2> QED
    BY <2>1 DEF TicketsCurrent
<1> QED
  BY Zenon, <1>1, <1>4, <1>7, <1>8, <1>9, <1>10, <1>11

(* fail_run_locked: the run has failed, and ends with its last ticket.      *)
LEMMA RejectStep ==
  ASSUME RunInv, NEW t \in Threads, Reject(t)
  PROVE  RunInv'
<1>1. /\ pc[t] = "reject" /\ runningJobs' = runningJobs - 1
      /\ runStatus' = "WORKER_SUBMISSION_FAILED"
      /\ UNCHANGED <<nodes, edges, remainingNodes, remainingDeps, generation, queue, poolActive,
                     todo, wrapper, done>>
      /\ pc' = [Woken(pc) EXCEPT ![t] = "reserve"] \/ pc' = [pc EXCEPT ![t] = "reserve"]
      /\ (runningJobs = 1 /\ state' = "COMPLETE") \/ (runningJobs # 1 /\ state' = state)
  BY Zenon DEF Reject, graphVars, LastWrapper
<1>2. /\ pc[t] \in Holding /\ pc'[t] \notin Holding
      /\ \A s \in Threads : s # t =>
           (pc'[s] = pc[s] \/ (pc'[s] \notin Holding /\ pc[s] \notin Holding))
      /\ \A s \in Threads : pc'[s] = "complete" <=> pc[s] = "complete"
  BY Zenon, <1>1 DEF RunInv, TypeOK, Holding, Woken
<1>3. /\ Ticketed' = Ticketed \ {wrapper[t].node}
      /\ runningJobs' \in Nat /\ Cardinality(Ticketed') <= runningJobs'
      /\ TicketsDistinct' /\ TicketsOpen'
      /\ state' = "RUNNING" => TicketsCurrent'
      /\ runningJobs = 1 => TicketsCurrent'
      /\ state = "RUNNING"
  BY Zenon, <1>1, <1>2, TicketReturned
<1>4. TypeOK'
  BY Zenon, <1>1, <1>3 DEF RunInv, TypeOK, Woken
<1>5. Finished' = Finished
  BY Zenon, <1>1, <1>2 DEF Finished
<1>6. \A m : Pending(m)' = Pending(m)
  BY Zenon, <1>1, <1>5 DEF Pending, Prerequisites
<1>7. Shape' /\ TicketsCurrent' /\ JobsCounted' /\ Successful' /\ Counted'
  BY Zenon, <1>1, <1>3 DEF RunInv, Shape, JobsCounted, Successful, Counted
<1>8. \A s \in Threads : ~Scheduling(s)'
  BY Zenon, <1>1 DEF Scheduling
<1>9. TodoFresh'
  BY Zenon, <1>8 DEF TodoFresh
<1>10. Ordered'
  BY Zenon, <1>1, <1>3, <1>6, <1>8 DEF RunInv, Ordered, Announced
<1> QED
  BY Zenon, <1>3, <1>4, <1>7, <1>9, <1>10 DEF RunInv

(* The node a worker completes was not counted before, and is from now on.  *)
LEMMA FinishedGrows ==
  ASSUME RunInv, NEW w \in Threads, pc[w] = "complete", pc'[w] # "complete",
         UNCHANGED <<done, wrapper>>,
         \A s \in Threads : s # w => pc'[s] = pc[s]
  PROVE  /\ wrapper[w].node \in done \ Finished
         /\ Finished' = Finished \cup {wrapper[w].node}
<1> DEFINE n == wrapper[w].node
<1>1. n \in done \ Finished
  BY Zenon DEF RunInv, TicketsOpen, Finished, Holding
<1>2. n \in Finished'
  BY <1>1 DEF RunInv, TicketsDistinct, Finished, Holding
<1>3. \A m : m # n => (m \in Finished' <=> m \in Finished)
  BY Zenon DEF Finished
<1> QED
  BY Zenon, <1>1, <1>2, <1>3

(* complete() of a run that has failed: nothing is released.                *)
LEMMA CompleteFailedStep ==
  ASSUME RunInv, NEW w \in Threads, Complete(w), runStatus # "OK"
  PROVE  RunInv'
<1>1. pc[w] = "complete" /\ ThisRun(w)
  BY Zenon DEF Complete, RunInv, TicketsCurrent, ThisRun, Holding
<1>2. /\ runningJobs' = runningJobs - 1
      /\ UNCHANGED <<nodes, edges, runStatus, remainingNodes, remainingDeps, generation, queue,
                     poolActive, todo, wrapper, done>>
      /\ \/ runningJobs = 1 /\ state' = "COMPLETE" /\ pc' = [pc EXCEPT ![w] = "notify"]
         \/ runningJobs # 1 /\ state' = state /\ pc' = [pc EXCEPT ![w] = "reserve"]
  BY Zenon, <1>1 DEF Complete, CompleteFailed, LastWrapper, graphVars
<1>3. /\ pc[w] \in Holding /\ pc'[w] \in {"notify", "reserve"} /\ pc'[w] \notin Holding
      /\ pc'[w] # "complete"
      /\ \A s \in Threads : s # w => pc'[s] = pc[s]
  BY Zenon, <1>1, <1>2 DEF RunInv, TypeOK, Holding
<1>4. /\ Ticketed' = Ticketed \ {wrapper[w].node}
      /\ runningJobs' \in Nat /\ Cardinality(Ticketed') <= runningJobs'
      /\ TicketsDistinct' /\ TicketsOpen'
      /\ state' = "RUNNING" => TicketsCurrent'
      /\ runningJobs = 1 => TicketsCurrent'
      /\ state = "RUNNING"
  BY Zenon, <1>2, <1>3, TicketReturned
<1>5. TypeOK'
  BY Zenon, <1>2, <1>4 DEF RunInv, TypeOK
<1>6. Finished \subseteq Finished'
  BY Zenon, <1>1, <1>2, <1>3, FinishedGrows
<1>7. \A m : Pending(m)' \subseteq Pending(m)
  BY Zenon, <1>2, <1>6 DEF Pending, Prerequisites
<1>8. Shape' /\ TicketsCurrent' /\ JobsCounted' /\ Successful' /\ Counted'
  BY Zenon, <1>2, <1>4 DEF RunInv, Shape, JobsCounted, Successful, Counted
<1>9. \A s \in Threads : ~Scheduling(s)'
  BY Zenon, <1>2 DEF Scheduling
<1>10. TodoFresh'
  BY Zenon, <1>9 DEF TodoFresh
<1>11. Ordered'
  <2> SUFFICES ASSUME NEW n \in nodes, n \in done \/ n \in Ticketed
               PROVE  Pending(n)' = {}
    BY Zenon, <1>2, <1>4, <1>9 DEF Ordered, Announced
  <2>1. Pending(n) = {}
    BY Zenon, <1>4 DEF RunInv, Ordered
  <2> QED
    BY Zenon, <1>7, <2>1
<1> QED
  BY Zenon, <1>4, <1>5, <1>8, <1>10, <1>11 DEF RunInv

(* What completing n does to the prerequisites a node still waits for: a    *)
(* dependent of n loses exactly one, every other node none.                 *)
LEMMA PendingShrinks ==
  ASSUME RunInv, NEW n \in nodes, n \notin Finished, NEW m \in nodes,
         edges' = edges, Finished' = Finished \cup {n}
  PROVE  /\ m \in Dependents(n) => Cardinality(Pending(m)') = Cardinality(Pending(m)) - 1
         /\ m \in Dependents(n) => Pending(m) # {} /\ Cardinality(Pending(m)) \in Nat \ {0}
         /\ m \notin Dependents(n) => Pending(m)' = Pending(m)
<1>1. \A e \in Prerequisites(m) : e = <<e[1], m>>
  BY DEF RunInv, Shape, Prerequisites
<1>2. CASE m \in Dependents(n)
  <2>1. <<n, m>> \in Pending(m)
    BY Zenon, <1>2 DEF Dependents, Pending, Prerequisites
  <2>2. Pending(m)' = Pending(m) \ {<<n, m>>}
    BY Zenon, <1>1 DEF Pending, Prerequisites
  <2>3. IsFiniteSet(Pending(m))
    BY Zenon, Finiteness DEF RunInv
  <2>4. /\ Cardinality(Pending(m)') = Cardinality(Pending(m)) - 1
        /\ Cardinality(Pending(m)) \in Nat
    BY Zenon, <2>1, <2>2, <2>3, FS_RemoveElement, FS_CardinalityType
  <2>5. Cardinality(Pending(m)) # 0
    BY Zenon, <2>1, <2>3, FS_EmptySet
  <2> QED
    BY Zenon, <1>2, <2>1, <2>4, <2>5
<1>3. CASE m \notin Dependents(n)
  <2>1. \A e \in Prerequisites(m) : e[1] # n
    BY Zenon, <1>1, <1>3 DEF Dependents, Prerequisites
  <2> QED
    BY Zenon, <1>3, <2>1 DEF Pending, Prerequisites
<1> QED
  BY Zenon, <1>2, <1>3

(* complete() of a run without failure: the counters follow the tickets,    *)
(* the dependents that became ready are new, and the last node leaves no    *)
(* ticket behind.                                                           *)
LEMMA CompleteNodeStep ==
  ASSUME RunInv, NEW w \in Threads, Complete(w), runStatus = "OK"
  PROVE  RunInv'
<1> DEFINE n == wrapper[w].node
           deps == [m \in Nodes |-> IF m \in Dependents(n) THEN remainingDeps[m] - 1
                                    ELSE remainingDeps[m]]
<1>1. pc[w] = "complete" /\ ThisRun(w)
  BY Zenon DEF Complete, RunInv, TicketsCurrent, ThisRun, Holding
<1>2. /\ runningJobs' = runningJobs - 1 /\ remainingNodes' = remainingNodes - 1
      /\ remainingDeps' = deps /\ todo' = [todo EXCEPT ![w] = Ready(n, deps)]
      /\ UNCHANGED <<nodes, edges, runStatus, generation, queue, poolActive, wrapper, done>>
      /\ \/ remainingNodes = 1 /\ state' = "COMPLETE" /\ pc' = [pc EXCEPT ![w] = "notify"]
         \/ remainingNodes # 1 /\ state' = state /\ pc' = [pc EXCEPT ![w] = "reserve"]
  BY Zenon, <1>1 DEF Complete, CompleteNode, LastNode, graphVars
<1>3. /\ pc[w] \in Holding /\ pc'[w] \in {"notify", "reserve"} /\ pc'[w] \notin Holding
      /\ pc'[w] # "complete"
      /\ \A s \in Threads : s # w => pc'[s] = pc[s]
  BY Zenon, <1>1, <1>2 DEF RunInv, TypeOK, Holding
<1>4. /\ Ticketed' = Ticketed \ {n}
      /\ runningJobs' \in Nat /\ Cardinality(Ticketed') <= runningJobs'
      /\ TicketsDistinct' /\ TicketsOpen'
      /\ state' = "RUNNING" => TicketsCurrent'
      /\ n \in nodes /\ state = "RUNNING"
  BY Zenon, <1>2, <1>3, TicketReturned
<1>5. n \in done /\ n \notin Finished /\ Finished' = Finished \cup {n}
  BY Zenon, <1>1, <1>2, <1>3, FinishedGrows
<1>6. \A m \in nodes :
        /\ m \in Dependents(n) => Cardinality(Pending(m)') = Cardinality(Pending(m)) - 1
        /\ m \in Dependents(n) => Pending(m) # {} /\ Cardinality(Pending(m)) \in Nat \ {0}
        /\ m \notin Dependents(n) => Pending(m)' = Pending(m)
  BY Zenon, <1>2, <1>4, <1>5, PendingShrinks
<1>7. /\ \A m \in nodes : remainingDeps[m] = Cardinality(Pending(m))
      /\ remainingNodes = Cardinality(nodes \ Finished)
  BY Zenon, <1>4 DEF RunInv, Counted
<1>8. \A m \in nodes : deps[m] = Cardinality(Pending(m)')
  BY Zenon, <1>6, <1>7 DEF RunInv, TypeOK
<1>9. /\ nodes \ Finished' = (nodes \ Finished) \ {n}
      /\ Cardinality(nodes \ Finished') = remainingNodes - 1
      /\ remainingNodes - 1 \in Nat /\ IsFiniteSet(nodes \ Finished')
  <2>1. nodes \ Finished' = (nodes \ Finished) \ {n} /\ n \in nodes \ Finished
    BY Zenon, <1>4, <1>5
  <2>2. IsFiniteSet(nodes \ Finished)
    BY Zenon, Finiteness DEF RunInv
  <2>3. Cardinality((nodes \ Finished) \ {n}) = remainingNodes - 1
        /\ IsFiniteSet((nodes \ Finished) \ {n})
    BY Zenon, <1>7, <2>1, <2>2, FS_RemoveElement
  <2> QED
    BY Zenon, <2>1, <2>3, FS_CardinalityType
<1>10. TypeOK'
  <2>1. deps \in [Nodes -> Nat]
    <3> SUFFICES ASSUME NEW m \in Nodes, m \in Dependents(n)
                 PROVE  remainingDeps[m] - 1 \in Nat
      BY Zenon DEF RunInv, TypeOK
    <3>1. m \in nodes
      BY Zenon DEF Dependents
    <3> QED
      BY <1>6, <1>7, <3>1
  <2>2. Ready(n, deps) \subseteq Nodes
    BY Zenon DEF Ready, Dependents, RunInv, TypeOK
  <2>3. todo' \in [Threads -> SUBSET Nodes]
    BY Zenon, <1>2, <2>2 DEF RunInv, TypeOK
  <2>4. pc' \in [Threads -> {"idle", "asleep", "awake", "check", "execute",
                             "complete", "reserve", "submit", "reject", "notify"}]
    BY Zenon, <1>2 DEF RunInv, TypeOK
  <2> QED
    BY ZenonT(30), <1>2, <1>4, <1>9, <2>1, <2>3, <2>4 DEF RunInv, TypeOK
<1>11. Shape'
  BY Zenon, <1>2 DEF RunInv, Shape
<1>12. Counted'
  BY Zenon, <1>2, <1>8, <1>9 DEF Counted
<1>13. ASSUME remainingNodes = 1
       PROVE  done = nodes /\ Ticketed' = {}
  <2>1. nodes \ Finished' = {}
    BY <1>9, <1>13, FS_EmptySet
  <2>2. nodes \subseteq Finished \cup {n}
    BY Zenon, <1>5, <2>1
  <2>3. done = nodes
    BY ZenonT(30), <1>5, <2>2 DEF Finished, RunInv, TypeOK
  <2>4. \A m \in Ticketed : m \notin Finished
    BY Zenon, TicketsUnfinished
  <2>5. Ticketed \subseteq nodes
    BY Zenon DEF Ticketed
  <2> QED
    BY Zenon, <1>4, <2>2, <2>3, <2>4, <2>5
<1>14. TicketsCurrent'
  <2>1. CASE state' = "RUNNING"
    BY Zenon, <1>4, <2>1
  <2>2. CASE remainingNodes = 1
    <3>1. \A s \in Threads : pc'[s] \in Holding => wrapper'[s].node \in Ticketed'
      BY Zenon, <1>2, <1>3 DEF RunInv, TicketsCurrent, Ticketed, Holds
    <3>2. \A i \in 1..Len(queue') : queue'[i].node \in Ticketed'
      BY Zenon, <1>2 DEF RunInv, TicketsCurrent, Ticketed, Queued
    <3> QED
      BY Zenon, <1>13, <2>2, <3>1, <3>2 DEF TicketsCurrent
  <2> QED
    BY Zenon, <1>2, <1>4, <2>1, <2>2
<1>15. JobsCounted' /\ Successful'
  BY Zenon, <1>2, <1>4, <1>13 DEF JobsCounted, Successful
<1>16. \A m \in Ready(n, deps) :
         m \in nodes /\ m \notin done /\ m \notin Ticketed /\ ~Announced(m)
  BY Zenon, <1>4, <1>6 DEF Ready, Dependents, RunInv, Ordered
<1>17. /\ todo'[w] = Ready(n, deps)
       /\ \A s \in Threads : s # w => todo'[s] = todo[s] /\ (Scheduling(s)' => Scheduling(s))
  BY ZenonT(30), <1>2, <1>3, <1>4 DEF RunInv, TypeOK, Scheduling
<1>18. TodoFresh'
  <2>1. \A s \in Threads : s # w /\ Scheduling(s)' => todo'[s] \cap todo'[w] = {}
    BY Zenon, <1>16, <1>17 DEF Announced
  <2>2. \A s \in Threads : s # w /\ Scheduling(s)' =>
          /\ todo'[s] \subseteq nodes
          /\ \A m \in todo'[s] : m \notin done /\ m \notin Ticketed
    BY Zenon, <1>17 DEF RunInv, TodoFresh
  <2>3. \A s, u \in Threads :
          s # w /\ u # w /\ s # u /\ Scheduling(s)' /\ Scheduling(u)' => todo'[s] \cap todo'[u] = {}
    BY Zenon, <1>17 DEF RunInv, TodoFresh
  <2> QED
    BY <1>2, <1>4, <1>16, <1>17, <2>1, <2>2, <2>3 DEF TodoFresh
<1>19. Ordered'
  <2> SUFFICES ASSUME state' = "RUNNING", NEW m \in nodes,
                      m \in done \/ m \in Ticketed' \/ Announced(m)'
               PROVE  Pending(m)' = {}
    BY Zenon, <1>2 DEF Ordered
  <2>1. CASE m \in done \/ m \in Ticketed \/ Announced(m)
    <3>1. Pending(m) = {}
      BY Zenon, <1>4, <2>1 DEF RunInv, Ordered
    <3> QED
      BY Zenon, <1>6, <3>1
  <2>2. CASE m \in Ready(n, deps)
    <3>1. Cardinality(Pending(m)') = 0
      BY Zenon, <1>8, <2>2 DEF Ready
    <3>2. IsFiniteSet(Pending(m)')
      <4>1. Pending(m)' \subseteq Pending(m)
        BY Zenon, <1>2, <1>5 DEF Pending, Prerequisites
      <4> QED
        BY Zenon, <4>1, Finiteness, FS_Subset DEF RunInv
    <3> QED
      BY Zenon, <3>1, <3>2, FS_EmptySet
  <2>3. Announced(m)' => Announced(m) \/ m \in Ready(n, deps)
    BY Zenon, <1>17 DEF Announced
  <2> QED
    BY Zenon, <1>4, <2>1, <2>2, <2>3
<1> QED
  BY Zenon, <1>4, <1>10, <1>11, <1>12, <1>14, <1>15, <1>18, <1>19 DEF RunInv

(* JobQueue::shutdown discards queued wrappers: running_jobs keeps counting *)
(* them, and the run does not complete on their account.                    *)
LEMMA StopPoolStep ==
  ASSUME RunInv, StopPool
  PROVE  RunInv'
<1>1. /\ poolActive' = FALSE /\ queue' = <<>>
      /\ UNCHANGED <<nodes, edges, state, runStatus, remainingNodes, runningJobs, remainingDeps,
                     generation, pc, todo, wrapper, done>>
  BY Zenon DEF StopPool, graphVars, runVars, threadVars
<1>2. TypeOK' /\ Len(queue') = 0
  <2>1. queue' \in Seq(Wrappers) /\ Len(queue') = 0
    BY Zenon, <1>1, EmptySeq
  <2>2. poolActive' \in BOOLEAN
    BY Zenon, <1>1, Zenon
  <2> QED
    BY Zenon, <1>1, <2>1, <2>2 DEF RunInv, TypeOK
<1>3. Ticketed' \subseteq Ticketed
  BY <1>1, <1>2 DEF Ticketed, Queued, Holds
<1>4. Finished' = Finished /\ \A m : Pending(m)' = Pending(m)
  BY Zenon, <1>1 DEF Finished, Pending, Prerequisites
<1>5. \A s \in Threads : Scheduling(s)' <=> Scheduling(s)
  BY ZenonT(30), <1>1 DEF Scheduling
<1>6. Shape' /\ TicketsCurrent' /\ TicketsDistinct' /\ TicketsOpen'
  BY <1>1, <1>2 DEF RunInv, Shape, TicketsCurrent, TicketsDistinct, TicketsOpen
<1>7. TodoFresh'
  BY Zenon, <1>1, <1>3, <1>5 DEF RunInv, TodoFresh
<1>8. Ordered'
  BY Zenon, <1>1, <1>3, <1>4, <1>5 DEF RunInv, Ordered, Announced
<1>9. Counted' /\ Successful'
  BY Zenon, <1>1, <1>4 DEF RunInv, Counted, Successful
<1>10. JobsCounted'
  <2>1. Cardinality(Ticketed') <= Cardinality(Ticketed)
        /\ Cardinality(Ticketed) \in Nat /\ Cardinality(Ticketed') \in Nat
    BY Zenon, <1>3, Finiteness, FS_Subset, FS_CardinalityType DEF RunInv
  <2> QED
    BY <1>1, <2>1 DEF RunInv, TypeOK, JobsCounted
<1> QED
  BY Zenon, <1>2, <1>6, <1>7, <1>8, <1>9, <1>10 DEF RunInv

(* Every step of the graph keeps the invariant.                             *)
LEMMA RunInvStep == RunInv /\ [Next]_vars => RunInv'
<1> SUFFICES ASSUME RunInv, [Next]_vars
             PROVE  RunInv'
  BY Zenon
<1>1. CASE UNCHANGED vars
  BY Zenon, <1>1, RunStutter
<1>2. CASE \E n \in Nodes : AddNode(n)
  BY Zenon, <1>2, AddNodeStep
<1>3. CASE \E e \in Edges : AddDependency(e)
  BY Zenon, <1>3, AddDependencyStep
<1>4. ASSUME NEW t \in Threads, ThreadStep(t)
      PROVE  RunInv'
  <2>1. CASE Reserve(t)
    BY Zenon, <2>1, ReserveStep
  <2>2. CASE Submit(t)
    BY Zenon, <2>2, SubmitStep
  <2>3. CASE Reject(t)
    BY Zenon, <2>3, RejectStep
  <2>4. CASE Scheduled(t)
    BY Zenon, <2>4, ReturnStep
  <2> QED
    BY Zenon, <1>4, <2>1, <2>2, <2>3, <2>4 DEF ThreadStep
<1>5. ASSUME NEW t \in Callers, Start(t) \/ Wait(t) \/ CallerStep(t)
      PROVE  RunInv'
  <2>1. CASE Start(t)
    BY Zenon, <2>1, StartStep
  <2>2. CASE Wait(t)
    BY Zenon, <2>2, WaitStep DEF Wait
  <2>3. CASE Collect(t)
    BY Zenon, <2>3, WaitStep DEF Collect
  <2>4. CASE ThreadStep(t)
    BY Zenon, <1>4, <2>4 DEF Threads
  <2> QED
    BY Zenon, <1>5, <2>1, <2>2, <2>3, <2>4 DEF CallerStep
<1>6. ASSUME NEW w \in Workers, WorkerStep(w)
      PROVE  RunInv'
  <2>1. w \in Threads
    BY Zenon DEF Threads
  <2>2. CASE Take(w)
    BY Zenon, <2>1, <2>2, TakeStep
  <2>3. CASE Check(w)
    BY Zenon, <2>1, <2>3, CheckStep
  <2>4. CASE Execute(w)
    BY Zenon, <2>1, <2>4, ExecuteStep
  <2>5. CASE Complete(w)
    BY Zenon, <2>1, <2>5, CompleteNodeStep, CompleteFailedStep
  <2>6. CASE Notify(w)
    BY Zenon, <2>1, <2>6, ReturnStep
  <2>7. CASE ThreadStep(w)
    BY Zenon, <1>4, <2>1, <2>7
  <2> QED
    BY Zenon, <1>6, <2>2, <2>3, <2>4, <2>5, <2>6, <2>7 DEF WorkerStep
<1>7. CASE StopPool
  BY Zenon, <1>7, StopPoolStep
<1> QED
  BY Zenon, <1>1, <1>2, <1>3, <1>5, <1>6, <1>7 DEF Next

(* In every reachable state of ExecutionGraph, for any topology without     *)
(* cycle, any callers and workers, and a pool that may stop in the middle   *)
(* of a run: a job executes only inside its own run, at most once in it and *)
(* after everything it depends on, and a run that reports OK executed every *)
(* node (execution_graph.hpp, execute_node, schedule and complete).         *)
THEOREM RunCorrect == Spec => []RunSound
<1>1. RunInv => RunSound
  <2> SUFFICES ASSUME RunInv
               PROVE  RunSound
    BY Zenon
  <2>1. ASSUME NEW w \in Executing
        PROVE  /\ w \in Threads /\ pc[w] = "execute" /\ pc[w] \in Holding
               /\ wrapper[w].node \in nodes /\ wrapper[w].node \in Ticketed
               /\ state = "RUNNING" /\ wrapper[w].generation = generation
               /\ wrapper[w].node \notin done
    <3>1. w \in Threads /\ pc[w] = "execute" /\ pc[w] \in Holding
      BY Zenon DEF Executing, Threads, Holding
    <3>2. wrapper[w].node \in nodes /\ state = "RUNNING" /\ wrapper[w].generation = generation
      BY Zenon, <3>1 DEF RunInv, TicketsCurrent
    <3>3. wrapper[w].node \notin done
      BY Zenon, <3>1 DEF RunInv, TicketsOpen
    <3>4. wrapper[w].node \in Ticketed
      BY Zenon, <3>1, <3>2 DEF Ticketed, Holds
    <3> QED
      BY Zenon, <3>1, <3>2, <3>3, <3>4
  <2>2. ASSUME NEW w \in Executing, NEW e \in Prerequisites(wrapper[w].node)
        PROVE  e[1] \in done
    <3>1. Pending(wrapper[w].node) = {}
      BY Zenon, <2>1 DEF RunInv, Ordered
    <3> QED
      BY Zenon, <3>1 DEF Pending, Finished
  <2>3. \A v, w \in Executing : wrapper[v].node = wrapper[w].node => v = w
    BY Zenon, <2>1 DEF RunInv, TicketsDistinct
  <2>4. PrerequisitesFirst
    BY Zenon, <2>1, <2>2, <2>3 DEF PrerequisitesFirst, RunInv, Successful
  <2>5. QuietOutsideRun
    BY Zenon, <2>1 DEF QuietOutsideRun
  <2> QED
    BY Zenon, <2>4, <2>5 DEF RunSound
<1> QED
  BY <1>1, RunInit, RunInvStep, PTL DEF Spec

=============================================================================
