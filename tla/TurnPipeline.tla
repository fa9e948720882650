----------------------------- MODULE TurnPipeline -----------------------------
(***************************************************************************)
(* The Turn pipeline of canvas/session and the ExecutionPlan runs it        *)
(* submits.  Subsystems register named handlers; each accepted Turn runs    *)
(* the plan compiled at that moment on the borrowed worker pool, runs       *)
(* overlap, and detach() drains them.                                       *)
(*                                                                         *)
(* A critical section of the pipeline's mutex or of a run's mutex is one    *)
(* step; submitting a wrapper to the pool, running a handler, running the   *)
(* completion callback and notifying detach() are steps between them.       *)
(***************************************************************************)
EXTENDS Naturals, Sequences, FiniteSets

CONSTANTS
  Runs,      \* Turns submitted, each by a thread of its own
  Workers,   \* threads of the borrowed JobQueue
  Nodes,     \* handler names that may be registered
  Deps,      \* prerequisites each of them is registered with
  EarlyStop  \* may the pool stop under an attached pipeline, against the
             \* contract of its owner?

PipelineAssumption ==
  /\ Runs \cap Workers = {}
  /\ IsFiniteSet(Runs) /\ IsFiniteSet(Nodes)
  /\ Deps \in [Nodes -> SUBSET Nodes]
  /\ EarlyStop \in BOOLEAN

VARIABLES
  registered,  \* registrations and the plan compiled from them
  accepting,
  attached,    \* workers # nullptr
  activeRuns,  \* active_runs
  owner,       \* the thread that attaches, detaches and destroys
  destroying,  \* that thread is in ~TurnPipeline
  quiet,       \* detach() returned and nobody attached since
  plan,        \* CompiledPlan each run retains
  remDeps,     \* Run::remaining_dependencies_
  remNodes,    \* Run::remaining_nodes_
  running,     \* Run::running_jobs_
  status,      \* Run::status_
  finished,    \* Run::finished_
  context,     \* TurnContext::status_
  succeeded,   \* nodes whose handler returned without failing the context
  answer,      \* what the submitter was told
  completions, \* completion callbacks received by the submitter
  queue,       \* wrappers in the pool's urgent queue
  poolActive,
  pc,          \* where each submitter and worker is
  job,         \* run a thread works for and, on a worker, its node
  todo         \* nodes a thread still has to schedule

pipelineVars == <<registered, accepting, attached, activeRuns, owner, destroying, quiet>>
runVars == <<plan, remDeps, remNodes, running, status, finished>>
turnVars == <<context, succeeded, answer, completions>>
poolVars == <<queue, poolActive>>
threadVars == <<pc, job, todo>>
vars == <<pipelineVars, runVars, turnVars, poolVars, threadVars>>

Threads == Runs \cup Workers
Jobs == Runs \X Nodes
NoJob == <<>>
NoNode == "none"   \* a submitter, before it schedules its first node

Init ==
  /\ registered = {} /\ accepting = FALSE /\ attached = FALSE
  /\ activeRuns = 0 /\ owner = "idle" /\ destroying = FALSE /\ quiet = FALSE
  /\ plan = [r \in Runs |-> {}]
  /\ remDeps = [r \in Runs |-> [n \in Nodes |-> 0]]
  /\ remNodes = [r \in Runs |-> 0]
  /\ running = [r \in Runs |-> 0]
  /\ status = [r \in Runs |-> "OK"]
  /\ finished = [r \in Runs |-> FALSE]
  /\ context = [r \in Runs |-> "OK"]
  /\ succeeded = [r \in Runs |-> {}]
  /\ answer = [r \in Runs |-> "none"]
  /\ completions = [r \in Runs |-> 0]
  /\ queue = <<>> /\ poolActive = TRUE
  /\ pc = [t \in Threads |-> "idle"]
  /\ job = [t \in Threads |-> NoJob]
  /\ todo = [t \in Threads |-> {}]

TypeOK ==
  /\ registered \subseteq Nodes /\ \A n \in registered : Deps[n] \subseteq registered
  /\ accepting \in BOOLEAN /\ attached \in BOOLEAN
  /\ destroying \in BOOLEAN /\ quiet \in BOOLEAN
  /\ activeRuns \in 0..Cardinality(Runs)
  /\ owner \in {"idle", "asleep", "awake", "gone"}
  /\ plan \in [Runs -> SUBSET Nodes]
  /\ remDeps \in [Runs -> [Nodes -> 0..Cardinality(Nodes)]]
  /\ remNodes \in [Runs -> 0..Cardinality(Nodes)]
  /\ running \in [Runs -> 0..Cardinality(Nodes)]
  /\ status \in [Runs -> {"OK", "WORKER_SUBMISSION_FAILED"}]
  /\ finished \in [Runs -> BOOLEAN]
  /\ context \in [Runs -> {"OK", "FAILED"}]
  /\ succeeded \in [Runs -> SUBSET Nodes]
  /\ answer \in [Runs -> {"none", "OK", "INVALID_ARGUMENT"}]
  /\ completions \in [Runs -> Nat]
  /\ queue \in Seq(Jobs) /\ poolActive \in BOOLEAN
  /\ pc \in [Threads -> {"idle", "plan", "reserve", "submit", "reject", "begin",
               "handler", "complete", "settle", "callback", "release", "notify"}]
  /\ job \in [Threads -> Jobs \cup (Runs \X {NoNode}) \cup {NoJob}]
  /\ todo \in [Threads -> SUBSET Nodes]

Goto(t, s) == pc' = [pc EXCEPT ![t] = s]

-----------------------------------------------------------------------------
\* Registration: every change compiles and publishes a new plan

RegisterNode(n) ==
  /\ ~destroying
  /\ n \notin registered
  /\ Deps[n] \subseteq registered
  /\ registered' = registered \cup {n}
  /\ UNCHANGED <<accepting, attached, activeRuns, owner, destroying, quiet,
                 runVars, turnVars, poolVars, threadVars>>

IsLeaf(n) == \A m \in registered : n \notin Deps[m]

UnregisterNode(n) ==
  /\ ~destroying
  /\ n \in registered
  /\ IsLeaf(n)
  /\ registered' = registered \ {n}
  /\ UNCHANGED <<accepting, attached, activeRuns, owner, destroying, quiet,
                 runVars, turnVars, poolVars, threadVars>>

-----------------------------------------------------------------------------
\* attach, detach and the destructor

Attach ==
  /\ owner = "idle"
  /\ attached' = TRUE /\ accepting' = TRUE /\ quiet' = FALSE
  /\ UNCHANGED <<registered, activeRuns, owner, destroying, runVars, turnVars,
                 poolVars, threadVars>>

DrainedAlways == TRUE

Drained == activeRuns = 0

\* drained.wait with its predicate: detach() returns or sleeps, and the
\* destructor then frees the pipeline's state.
DrainOrSleep ==
  /\ IF Drained
       THEN /\ attached' = FALSE /\ quiet' = TRUE
            /\ owner' = IF destroying' THEN "gone" ELSE "idle"
       ELSE UNCHANGED <<attached, quiet>> /\ owner' = "asleep"
  /\ UNCHANGED <<registered, activeRuns, runVars, turnVars, poolVars, threadVars>>

Detach ==
  /\ owner = "idle"
  /\ attached
  /\ accepting' = FALSE
  /\ UNCHANGED destroying
  /\ DrainOrSleep

\* ~TurnPipeline is detach().
Destroy ==
  /\ owner = "idle"
  /\ accepting' = FALSE
  /\ destroying' = TRUE
  /\ DrainOrSleep

\* A notified detach() tests the predicate again.
Drain ==
  /\ owner = "awake"
  /\ UNCHANGED <<accepting, destroying>>
  /\ DrainOrSleep

-----------------------------------------------------------------------------
\* submit()

\* Its critical section: the run retains the current plan.
Accept(r) ==
  /\ pc[r] = "idle" /\ answer[r] = "none"
  /\ ~destroying
  /\ accepting /\ attached
  /\ registered # {}
  /\ plan' = [plan EXCEPT ![r] = registered]
  /\ activeRuns' = activeRuns + 1
  /\ job' = [job EXCEPT ![r] = <<r, NoNode>>]
  /\ Goto(r, "plan")
  /\ UNCHANGED <<registered, accepting, attached, owner, destroying, quiet, remDeps,
                 remNodes, running, status, finished, turnVars, poolVars, todo>>

\* ExecutionPlan::submit refuses a stopped pool; otherwise it creates the run.
SubmitPlan(r) ==
  /\ pc[r] = "plan"
  /\ IF poolActive
       THEN /\ remDeps' = [remDeps EXCEPT ![r] = [n \in Nodes |-> Cardinality(Deps[n])]]
            /\ remNodes' = [remNodes EXCEPT ![r] = Cardinality(plan[r])]
            /\ todo' = [todo EXCEPT ![r] = {n \in plan[r] : Deps[n] = {}}]
            /\ Goto(r, "reserve")
            /\ UNCHANGED answer
       ELSE /\ answer' = [answer EXCEPT ![r] = "INVALID_ARGUMENT"]
            /\ Goto(r, "release")
            /\ UNCHANGED <<remDeps, remNodes, todo>>
  /\ UNCHANGED <<pipelineVars, plan, running, status, finished, context,
                 succeeded, completions, poolVars, job>>

\* start() has scheduled the roots and submit() returns.
SubmitReturns(r) ==
  /\ r \in Runs
  /\ pc[r] = "reserve"
  /\ todo[r] = {}
  /\ answer' = [answer EXCEPT ![r] = "OK"]
  /\ job' = [job EXCEPT ![r] = NoJob]
  /\ Goto(r, "idle")
  /\ UNCHANGED <<pipelineVars, runVars, context, succeeded, completions,
                 poolVars, todo>>

-----------------------------------------------------------------------------
\* ExecutionPlan::Run

RunOf(t) == job[t][1]

ReserveOne(r) == running[r] + 1

\* The critical section schedule() begins with; a finished or failed run
\* schedules nothing more.
Reserve(t) ==
  /\ pc[t] = "reserve"
  /\ \E n \in todo[t] :
       IF finished[RunOf(t)] \/ status[RunOf(t)] # "OK"
         THEN todo' = [todo EXCEPT ![t] = @ \ {n}] /\ UNCHANGED <<running, job, pc>>
         ELSE /\ running' = [running EXCEPT ![RunOf(t)] = ReserveOne(RunOf(t))]
              /\ job' = [job EXCEPT ![t] = <<RunOf(t), n>>]
              /\ todo' = [todo EXCEPT ![t] = @ \ {n}]
              /\ Goto(t, "submit")
  /\ UNCHANGED <<pipelineVars, plan, remDeps, remNodes, status, finished,
                 turnVars, poolVars>>

Submit(t) ==
  /\ pc[t] = "submit"
  /\ IF poolActive THEN queue' = Append(queue, job[t]) /\ Goto(t, "reserve")
                   ELSE queue' = queue /\ Goto(t, "reject")
  /\ UNCHANGED <<pipelineVars, runVars, turnVars, poolActive, job, todo>>

\* take_completion_locked: success or failure has fully quiesced and nobody
\* took the completion before.
TakeCompletion(r, jobs, st, left) ==
  ~(finished[r] \/ jobs # 0 \/ (st = "OK" /\ left # 0))

\* The pool refused the wrapper.
Reject(t) ==
  LET r == RunOf(t)
      take == TakeCompletion(r, running[r] - 1, "WORKER_SUBMISSION_FAILED", remNodes[r])
  IN  /\ pc[t] = "reject"
      /\ running' = [running EXCEPT ![r] = @ - 1]
      /\ status' = [status EXCEPT ![r] = "WORKER_SUBMISSION_FAILED"]
      /\ finished' = [finished EXCEPT ![r] = @ \/ take]
      /\ Goto(t, IF take THEN "callback" ELSE "reserve")
      /\ UNCHANGED <<pipelineVars, plan, remDeps, remNodes, turnVars, poolVars,
                     job, todo>>

Take(w) ==
  /\ pc[w] = "idle"
  /\ poolActive
  /\ queue # <<>>
  /\ job' = [job EXCEPT ![w] = Head(queue)]
  /\ queue' = Tail(queue)
  /\ Goto(w, "begin")
  /\ UNCHANGED <<pipelineVars, runVars, turnVars, poolActive, todo>>

\* HandlerJob::execute skips the handler once the context has failed.
MayBegin(r) == context[r] = "OK"

Begin(w) ==
  /\ pc[w] = "begin"
  /\ Goto(w, IF MayBegin(RunOf(w)) THEN "handler" ELSE "complete")
  /\ UNCHANGED <<pipelineVars, runVars, turnVars, poolVars, job, todo>>

\* The handler returns, having failed the context or not; an exception fails
\* it too.
Handle(w) ==
  /\ pc[w] = "handler"
  /\ \/ /\ succeeded' = [succeeded EXCEPT ![RunOf(w)] = @ \cup {job[w][2]}]
        /\ UNCHANGED context
     \/ /\ context' = [context EXCEPT ![RunOf(w)] = "FAILED"]
        /\ UNCHANGED succeeded
  /\ Goto(w, "complete")
  /\ UNCHANGED <<pipelineVars, runVars, answer, completions, poolVars, job, todo>>

ReadyOnFirst(r, n) == {m \in plan[r] : n \in Deps[m]}

ReadyAfterLast(r, n) == {m \in plan[r] : n \in Deps[m] /\ remDeps[r][m] = 0}

\* Dependents that only waited for node n.
Ready(r, n) == {m \in plan[r] : n \in Deps[m] /\ remDeps[r][m] = 1}

\* The first critical section of complete().
Complete(w) ==
  LET r == job[w][1]
      n == job[w][2]
  IN  /\ pc[w] = "complete"
      /\ running' = [running EXCEPT ![r] = @ - 1]
      /\ IF status[r] = "OK"
           THEN /\ remNodes' = [remNodes EXCEPT ![r] = @ - 1]
                /\ remDeps' = [remDeps EXCEPT ![r] =
                     [m \in Nodes |-> IF m \in plan[r] /\ n \in Deps[m] THEN @[m] - 1 ELSE @[m]]]
                /\ todo' = [todo EXCEPT ![w] = Ready(r, n)]
           ELSE UNCHANGED <<remNodes, remDeps, todo>>
      /\ Goto(w, "reserve")
      /\ UNCHANGED <<pipelineVars, plan, status, finished, turnVars, poolVars, job>>

\* The second critical section of complete(), once the dependents are
\* scheduled.
Settle(w) ==
  LET r == RunOf(w)
      take == TakeCompletion(r, running[r], status[r], remNodes[r])
  IN  /\ w \in Workers
      /\ pc[w] = "reserve"
      /\ todo[w] = {}
      /\ finished' = [finished EXCEPT ![r] = @ \/ take]
      /\ IF take THEN Goto(w, "callback") /\ UNCHANGED job
                 ELSE Goto(w, "idle") /\ job' = [job EXCEPT ![w] = NoJob]
      /\ UNCHANGED <<pipelineVars, plan, remDeps, remNodes, running, status,
                     turnVars, poolVars, todo>>

-----------------------------------------------------------------------------
\* Completion

ContextAfter(r) == IF status[r] = "OK" THEN context[r] ELSE "FAILED"

\* The lambda of submit(): a scheduling failure fails the context, then the
\* submitter's callback runs.
Callback(t) ==
  LET r == RunOf(t) IN
  /\ pc[t] = "callback"
  /\ context' = [context EXCEPT ![r] = ContextAfter(r)]
  /\ completions' = [completions EXCEPT ![r] = @ + 1]
  /\ Goto(t, "release")
  /\ UNCHANGED <<pipelineVars, runVars, succeeded, answer, poolVars, job, todo>>

\* complete_run: the count is decremented under the mutex...
Release(t) ==
  /\ pc[t] = "release"
  /\ activeRuns' = activeRuns - 1
  /\ Goto(t, "notify")
  /\ UNCHANGED <<registered, accepting, attached, owner, destroying, quiet, runVars,
                 turnVars, poolVars, job, todo>>

NotifyDrained == IF owner = "asleep" THEN "awake" ELSE owner

\* ...and drained.notify_all() follows after the unlock.
Notify(t) ==
  /\ pc[t] = "notify"
  /\ owner' = NotifyDrained
  /\ IF todo[t] = {}
       THEN /\ Goto(t, "idle")
            /\ job' = [job EXCEPT ![t] = NoJob]
            /\ answer' = [r \in Runs |-> IF r = t /\ answer[r] = "none" THEN "OK"
                                         ELSE answer[r]]
       ELSE Goto(t, "reserve") /\ UNCHANGED <<job, answer>>
  /\ UNCHANGED <<registered, accepting, attached, activeRuns, destroying, quiet,
                 runVars, context, succeeded, completions, poolVars, todo>>

\* JobQueue::shutdown discards what has not started.
StopPool ==
  /\ poolActive
  /\ EarlyStop \/ quiet
  /\ poolActive' = FALSE
  /\ queue' = <<>>
  /\ UNCHANGED <<pipelineVars, runVars, turnVars, threadVars>>

-----------------------------------------------------------------------------

ThreadStep(t) ==
  Reserve(t) \/ Submit(t) \/ Reject(t) \/ Callback(t) \/ Release(t) \/ Notify(t)

SubmitterStep(r) == SubmitPlan(r) \/ SubmitReturns(r) \/ ThreadStep(r)

WorkerStep(w) ==
  Take(w) \/ Begin(w) \/ Handle(w) \/ Complete(w) \/ Settle(w) \/ ThreadStep(w)

Next ==
  \/ \E n \in Nodes : RegisterNode(n) \/ UnregisterNode(n)
  \/ Attach \/ Detach \/ Drain \/ Destroy
  \/ \E r \in Runs : Accept(r) \/ SubmitterStep(r)
  \/ \E w \in Workers : WorkerStep(w)
  \/ StopPool

Spec == Init /\ [][Next]_vars

\* Threads keep running and handlers return; nobody has to submit or detach.
Fairness ==
  /\ \A r \in Runs : WF_vars(SubmitterStep(r))
  /\ \A w \in Workers : WF_vars(WorkerStep(w))
  /\ WF_vars(Drain)

FairSpec == Spec /\ Fairness

-----------------------------------------------------------------------------
\* Properties

(* A handler runs only after every prerequisite's handler succeeded for the *)
(* same Turn: the persisted Turn precedes the trie update, which precedes   *)
(* the Presentation commit, and a failed stage stops those after it.        *)
HandlersInOrder ==
  \A w \in Workers :
    pc[w] = "handler" => Deps[job[w][2]] \subseteq succeeded[RunOf(w)]

Idle(t) == pc[t] \in {"idle", "notify"} \/ (pc[t] = "reserve" /\ finished[RunOf(t)])

(* After detach() nothing of the pipeline is in flight: no handler or       *)
(* completion callback runs, and no thread still submits to the borrowed    *)
(* pool, whose owner may stop and destroy it. At any time a submission has  *)
(* had at most one completion callback, and a rejected one none: whichever  *)
(* of the submitter and the workers sees the run quiesce, one of them takes *)
(* the completion.                                                          *)
DetachDrains ==
  /\ quiet => activeRuns = 0 /\ queue = <<>> /\ \A t \in Threads : Idle(t)
  /\ \A r \in Runs :
       /\ completions[r] <= 1
       /\ answer[r] = "INVALID_ARGUMENT" => completions[r] = 0

(* ~TurnPipeline() "waits for every accepted Turn run": once the pipeline   *)
(* is gone no thread is still inside complete_run().                        *)
DestructorWaits == owner = "gone" => \A t \in Threads : pc[t] \notin {"release", "notify"}

(* On a pool that outlives the pipeline every accepted Turn completes.      *)
EveryRunCompletes ==
  \A r \in Runs : answer[r] = "OK" ~> (completions[r] = 1 \/ ~poolActive)

=============================================================================
