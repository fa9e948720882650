------------------------------- MODULE JobQueue -------------------------------
(***************************************************************************)
(* The worker pool of utils/multithreading: a fixed set of workers, an      *)
(* urgent FIFO, a deadline-ordered heap, cancellable periodic jobs, and     *)
(* the shutdown()/wait() teardown.                                          *)
(*                                                                         *)
(* Everything between taking and releasing jobs_mutex_ is one step.  What   *)
(* happens outside the mutex is a step of its own: every notify issued      *)
(* after an unlock, every load of a periodic job's atomic flag, the job     *)
(* body.  The condition variable signal_ is the set of workers whose pc is  *)
(* "wait"; a notified worker goes back to "idle", where it reacquires the   *)
(* mutex.                                                                   *)
(***************************************************************************)
EXTENDS Naturals, Sequences

CONSTANTS
  Workers,   \* worker threads
  Urgent,    \* submissions made with add_urgent()
  Delayed,   \* submissions made with add_delayed()
  Periodic,  \* submissions made with add_periodic()
  Delay,     \* delay or period of each timed submission, in clock ticks
  Stoppers,  \* threads that call shutdown()
  Owners,    \* threads that call wait(), none of them a worker
  MaxTime,   \* bound on the clock
  None,      \* "no entry held"
  Forever    \* deadline of an untimed wait

Timed == Delayed \cup Periodic
Jobs == Urgent \cup Timed

ASSUME ConstantsAssumption ==
  /\ Urgent \cap Timed = {} /\ Delayed \cap Periodic = {}
  /\ Stoppers \cap Owners = {}
  /\ Delay \in [Timed -> Nat]
  /\ \A p \in Periodic : Delay[p] > 0      \* INVALID_PERIOD otherwise
  /\ MaxTime \in Nat
  /\ None \notin Jobs
  /\ Forever \notin Nat

VARIABLES
  active,          \* active_
  urgent,          \* urgent_jobs_
  timed,           \* the submissions in jobs_
  nextRun,         \* JobEntry::next_run of each entry in jobs_, else 0
  sequence,        \* JobEntry::sequence of each entry in jobs_, else 0
  nextSequence,    \* next_sequence_
  periodicActive,  \* PeriodicJobState::active
  caller,          \* progress of the thread that makes each submission
  pc,              \* program counter of each worker
  entry,           \* JobEntry each worker took from the queue
  deadline,        \* deadline each waiting worker sleeps until
  owner,           \* progress of each thread calling shutdown() or wait()
  now              \* steady clock

queueVars == <<urgent, timed, nextRun, sequence, nextSequence>>
vars == <<active, queueVars, periodicActive, caller, pc, entry, deadline,
          owner, now>>

WorkerStates ==
  {"idle", "wait", "taken", "run", "ran", "resched", "signal", "exited"}

\* Where a worker holds no entry.
Unloaded == {"idle", "wait", "signal", "exited"}

TypeOK ==
  /\ active \in BOOLEAN
  /\ urgent \in Seq(Urgent)
  /\ timed \in SUBSET Timed
  /\ nextRun \in [Timed -> Nat]
  /\ sequence \in [Timed -> Nat]
  /\ nextSequence \in Nat
  /\ periodicActive \in [Periodic -> BOOLEAN]
  /\ caller \in [Jobs -> {"new", "pushed", "done", "rejected"}]
  /\ pc \in [Workers -> WorkerStates]
  /\ entry \in [Workers -> Jobs \cup {None}]
  /\ deadline \in [Workers -> Nat \cup {Forever}]
  /\ owner \in [Stoppers \cup Owners -> {"out", "signal", "join", "done"}]
  /\ now \in Nat
  /\ \A w \in Workers : entry[w] = None <=> pc[w] \in Unloaded

Init ==
  /\ active = TRUE
  /\ urgent = <<>>
  /\ timed = {}
  /\ nextRun = [j \in Timed |-> 0]
  /\ sequence = [j \in Timed |-> 0]
  /\ nextSequence = 0
  /\ periodicActive = [p \in Periodic |-> FALSE]
  /\ caller = [j \in Jobs |-> "new"]
  /\ pc = [w \in Workers |-> "idle"]
  /\ entry = [w \in Workers |-> None]
  /\ deadline = [w \in Workers |-> Forever]
  /\ owner = [o \in Stoppers \cup Owners |-> "out"]
  /\ now = 0

-----------------------------------------------------------------------------
\* The condition variable

Sleeping(p) == {w \in Workers : p[w] = "wait"}

\* signal_.notify_one(): some waiting worker, if there is one, wakes up.
NotifyOne(p) ==
  IF Sleeping(p) = {} THEN {p}
  ELSE {[p EXCEPT ![w] = "idle"] : w \in Sleeping(p)}

\* signal_.notify_all()
NotifyAll(p) == [w \in Workers |-> IF p[w] = "wait" THEN "idle" ELSE p[w]]

\* A worker that takes an entry wakes another one before it unlocks, so that
\* somebody looks at what is left in the queues.
NotifyAfterTake(p) == NotifyOne(p)

\* A deadline belongs to a wait: it is gone when the worker is awake.
ClearWoken == deadline' = [w \in Workers |-> IF pc'[w] = "wait" THEN deadline[w]
                                            ELSE Forever]

-----------------------------------------------------------------------------
\* Submissions: add_urgent_job, add_delayed_job, add_periodic_job

\* The critical section of a submission on a stopped queue.
Reject(j) ==
  /\ caller[j] = "new"
  /\ ~active
  /\ caller' = [caller EXCEPT ![j] = "rejected"]
  /\ UNCHANGED <<active, queueVars, periodicActive, pc, entry, deadline,
                 owner, now>>

AddUrgent(j) ==
  /\ caller[j] = "new"
  /\ active
  /\ urgent' = Append(urgent, j)
  /\ nextSequence' = nextSequence + 1
  /\ caller' = [caller EXCEPT ![j] = "pushed"]
  /\ UNCHANGED <<active, timed, nextRun, sequence, periodicActive, pc, entry,
                 deadline, owner, now>>

\* jobs_.push of a timed entry, with the next sequence number.
Push(j) ==
  /\ timed' = timed \cup {j}
  /\ nextRun' = [nextRun EXCEPT ![j] = now + Delay[j]]
  /\ sequence' = [sequence EXCEPT ![j] = nextSequence]
  /\ nextSequence' = nextSequence + 1
  /\ UNCHANGED urgent

AddTimed(j) ==
  /\ caller[j] = "new"
  /\ active
  /\ Push(j)
  /\ caller' = [caller EXCEPT ![j] = "pushed"]
  /\ periodicActive' = [p \in Periodic |-> p = j \/ periodicActive[p]]
  /\ UNCHANGED <<active, pc, entry, deadline, owner, now>>

\* After the unlock: the periodic handle is handed over and one worker woken.
NotifyAdded(j) ==
  /\ caller[j] = "pushed"
  /\ caller' = [caller EXCEPT ![j] = "done"]
  /\ pc' \in NotifyOne(pc)
  /\ ClearWoken
  /\ UNCHANGED <<active, queueVars, periodicActive, entry, owner, now>>

\* PeriodicJobHandle::cancel(), also run by its destructor and assignment.
Cancel(p) ==
  /\ caller[p] = "done"
  /\ periodicActive[p]
  /\ periodicActive' = [periodicActive EXCEPT ![p] = FALSE]
  /\ UNCHANGED <<active, queueVars, caller, pc, entry, deadline, owner, now>>

-----------------------------------------------------------------------------
\* Workers

\* jobs_.top(): earliest deadline, then oldest sequence (JobEntry::operator>).
IsTop(j) ==
  /\ j \in timed
  /\ \A k \in timed :
       \/ nextRun[j] < nextRun[k]
       \/ nextRun[j] = nextRun[k] /\ sequence[j] <= sequence[k]

Take(w, j) ==
  /\ entry' = [entry EXCEPT ![w] = j]
  /\ pc' \in NotifyAfterTake([pc EXCEPT ![w] = "taken"])
  /\ ClearWoken
  /\ UNCHANGED <<active, nextSequence, periodicActive, caller, owner, now>>

TakeUrgent(w) ==
  /\ pc[w] = "idle"
  /\ active
  /\ urgent # <<>>
  /\ urgent' = Tail(urgent)
  /\ Take(w, Head(urgent))
  /\ UNCHANGED <<timed, nextRun, sequence>>

TakeTimed(w) ==
  /\ pc[w] = "idle"
  /\ active
  /\ urgent = <<>>
  /\ \E j \in timed :
       /\ IsTop(j)
       /\ nextRun[j] <= now
       /\ timed' = timed \ {j}
       /\ nextRun' = [nextRun EXCEPT ![j] = 0]
       /\ sequence' = [sequence EXCEPT ![j] = 0]
       /\ Take(w, j)
  /\ UNCHANGED urgent

\* signal_.wait when there is no timed entry, signal_.wait_until otherwise.
Sleep(w) ==
  /\ pc[w] = "idle"
  /\ active
  /\ urgent = <<>>
  /\ \/ timed = {} /\ deadline' = [deadline EXCEPT ![w] = Forever]
     \/ \E j \in timed :
          /\ IsTop(j)
          /\ nextRun[j] > now
          /\ deadline' = [deadline EXCEPT ![w] = nextRun[j]]
  /\ pc' = [pc EXCEPT ![w] = "wait"]
  /\ UNCHANGED <<active, queueVars, periodicActive, caller, entry, owner, now>>

Exit(w) ==
  /\ pc[w] = "idle"
  /\ ~active
  /\ pc' = [pc EXCEPT ![w] = "exited"]
  /\ UNCHANGED <<active, queueVars, periodicActive, caller, entry, deadline,
                 owner, now>>

\* A form of TimeOut that goes on waiting for a notification.
TimeOutAsleep(w) ==
  /\ pc[w] = "wait"
  /\ UNCHANGED vars

\* wait_until reaches its deadline.
TimeOut(w) ==
  /\ pc[w] = "wait"
  /\ deadline[w] # Forever
  /\ deadline[w] <= now
  /\ pc' = [pc EXCEPT ![w] = "idle"]
  /\ ClearWoken
  /\ UNCHANGED <<active, queueVars, periodicActive, caller, entry, owner, now>>

\* A condition variable may also wake for no reason.
SpuriousWake(w) ==
  /\ pc[w] = "wait"
  /\ pc' = [pc EXCEPT ![w] = "idle"]
  /\ ClearWoken
  /\ UNCHANGED <<active, queueVars, periodicActive, caller, entry, owner, now>>

\* May the entry's job run?  One-shot entries have no periodic state.
Runnable(j) == j \in Periodic => periodicActive[j]

\* The load of the cancellation flag that decides whether the job executes.
Begin(w) ==
  /\ pc[w] = "taken"
  /\ pc' = [pc EXCEPT ![w] = IF Runnable(entry[w]) THEN "run" ELSE "ran"]
  /\ UNCHANGED <<active, queueVars, periodicActive, caller, entry, deadline,
                 owner, now>>

\* job->execute() returns.
Finish(w) ==
  /\ pc[w] = "run"
  /\ pc' = [pc EXCEPT ![w] = "ran"]
  /\ UNCHANGED <<active, queueVars, periodicActive, caller, entry, deadline,
                 owner, now>>

\* The second load of the flag: a live periodic job is rescheduled, anything
\* else is dropped and the worker looks for more work.
Settle(w) ==
  /\ pc[w] = "ran"
  /\ IF entry[w] \in Periodic /\ periodicActive[entry[w]]
       THEN pc' = [pc EXCEPT ![w] = "resched"] /\ entry' = entry
       ELSE /\ pc' = [pc EXCEPT ![w] = "idle"]
            /\ entry' = [entry EXCEPT ![w] = None]
  /\ UNCHANGED <<active, queueVars, periodicActive, caller, deadline, owner,
                 now>>

\* On a stopped queue the periodic job is invalidated instead of requeued.
DropStopped(w) ==
  /\ ~active
  /\ periodicActive' = [periodicActive EXCEPT ![entry[w]] = FALSE]
  /\ pc' = [pc EXCEPT ![w] = "idle"]
  /\ UNCHANGED queueVars

Requeue(w) ==
  /\ active
  /\ Push(entry[w])
  /\ pc' = [pc EXCEPT ![w] = "signal"]
  /\ UNCHANGED periodicActive

\* A form of Reschedule that queues the next run before the current one.
RescheduleEarly(w) ==
  /\ pc[w] = "taken"
  /\ entry[w] \in Periodic
  /\ active
  /\ Push(entry[w])
  /\ pc' = [pc EXCEPT ![w] = "run"]
  /\ UNCHANGED <<active, periodicActive, entry, caller, deadline, owner, now>>

\* A form of Reschedule that tries again until the queue takes the entry.
RescheduleRetrying(w) ==
  /\ pc[w] = "resched"
  /\ IF active
       THEN Requeue(w) /\ entry' = [entry EXCEPT ![w] = None]
       ELSE /\ pc' = [pc EXCEPT ![w] = "ran"]
            /\ UNCHANGED <<queueVars, periodicActive, entry>>
  /\ UNCHANGED <<active, caller, deadline, owner, now>>

Reschedule(w) ==
  /\ pc[w] = "resched"
  /\ DropStopped(w) \/ Requeue(w)
  /\ entry' = [entry EXCEPT ![w] = None]
  /\ UNCHANGED <<active, caller, deadline, owner, now>>

NotifyRequeued(w) ==
  /\ pc[w] = "signal"
  /\ pc' \in NotifyOne([pc EXCEPT ![w] = "idle"])
  /\ ClearWoken
  /\ UNCHANGED <<active, queueVars, periodicActive, caller, entry, owner, now>>

-----------------------------------------------------------------------------
\* Teardown

\* wait_mutex_ is held from entering wait() until the workers are joined.
WaitMutexFree == \A o \in Owners : owner[o] \notin {"signal", "join"}

\* shutdown() after its early return: discard the queues under the mutex.
Discard(o) ==
  /\ active
  /\ active' = FALSE
  /\ urgent' = <<>>
  /\ timed' = {}
  /\ periodicActive' =
       [p \in Periodic |-> p \notin timed /\ periodicActive[p]]
  /\ nextRun' = [j \in Timed |-> 0]
  /\ sequence' = [j \in Timed |-> 0]
  /\ owner' = [owner EXCEPT ![o] = "signal"]
  /\ UNCHANGED nextSequence

\* What the caller does once shutdown() is over.
AfterShutdown(o) == IF o \in Owners THEN "join" ELSE "done"

Shutdown(o) ==
  /\ owner[o] = "out"
  /\ o \in Owners => WaitMutexFree
  /\ \/ Discard(o)
     \/ /\ ~active
        /\ owner' = [owner EXCEPT ![o] = AfterShutdown(o)]
        /\ UNCHANGED <<active, queueVars, periodicActive>>
  /\ UNCHANGED <<caller, pc, entry, deadline, now>>

WakeForShutdown(p) == NotifyAll(p)

NotifyStopped(o) ==
  /\ owner[o] = "signal"
  /\ owner' = [owner EXCEPT ![o] = AfterShutdown(o)]
  /\ pc' = WakeForShutdown(pc)
  /\ ClearWoken
  /\ UNCHANGED <<active, queueVars, periodicActive, caller, entry, now>>

\* wait() joins every worker and returns.
Join(o) ==
  /\ owner[o] = "join"
  /\ \A w \in Workers : pc[w] = "exited"
  /\ owner' = [owner EXCEPT ![o] = "done"]
  /\ UNCHANGED <<active, queueVars, periodicActive, caller, pc, entry,
                 deadline, now>>

-----------------------------------------------------------------------------

Tick ==
  /\ now < MaxTime
  /\ now' = now + 1
  /\ UNCHANGED <<active, queueVars, periodicActive, caller, pc, entry,
                 deadline, owner>>

\* The pool is gone: every caller returned and every worker was joined.
Terminated ==
  /\ \A o \in Stoppers \cup Owners : owner[o] = "done"
  /\ \A w \in Workers : pc[w] = "exited"
  /\ UNCHANGED vars

WorkerStep(w) ==
  \/ TakeUrgent(w) \/ TakeTimed(w) \/ Sleep(w) \/ Exit(w) \/ TimeOut(w)
  \/ Begin(w) \/ Finish(w) \/ Settle(w) \/ Reschedule(w) \/ NotifyRequeued(w)

Next ==
  \/ \E j \in Jobs : Reject(j) \/ NotifyAdded(j)
  \/ \E j \in Urgent : AddUrgent(j)
  \/ \E j \in Timed : AddTimed(j)
  \/ \E p \in Periodic : Cancel(p)
  \/ \E w \in Workers : WorkerStep(w) \/ SpuriousWake(w)
  \/ \E o \in Stoppers \cup Owners : Shutdown(o) \/ NotifyStopped(o) \/ Join(o)
  \/ Tick
  \/ Terminated

Spec == Init /\ [][Next]_vars

\* Threads that were scheduled keep running, job bodies return, time passes.
\* Nothing obliges anybody to submit work, to cancel or to stop the queue.
Fairness ==
  /\ \A w \in Workers : WF_vars(WorkerStep(w))
  /\ \A j \in Jobs : WF_vars(NotifyAdded(j))
  /\ \A o \in Stoppers \cup Owners : WF_vars(NotifyStopped(o) \/ Join(o))
  /\ WF_vars(Tick)

FairSpec == Spec /\ Fairness

-----------------------------------------------------------------------------
\* Properties

Running(p) == {w \in Workers : pc[w] = "run" /\ entry[w] = p}

(* "One periodic Job never overlaps itself even when several workers are    *)
(* available", and a one-shot job never runs twice at a time either: an     *)
(* entry being executed is held by one worker and is not queued again until *)
(* that worker is through with it.                                          *)
NeverOverlaps ==
  \A w \in Workers :
    pc[w] = "run" =>
      /\ Running(entry[w]) = {w}
      /\ entry[w] \notin timed

Carried(p) ==
  \/ p \in timed
  \/ \E w \in Workers :
       entry[w] = p /\ pc[w] \in {"taken", "run", "ran", "resched"}

(* PeriodicJobHandle::active() tells the truth: while it says that the job  *)
(* may run again, the job is queued or a worker still has to decide about   *)
(* it.  In particular no handle stays active once shutdown() dropped or a   *)
(* worker abandoned its job.                                                *)
HandleTruthful ==
  \A p \in Periodic : periodicActive[p] => Carried(p)

WakeupComing ==
  \/ \E w \in Workers : pc[w] \in {"idle", "signal"}
  \/ \E j \in Jobs : caller[j] = "pushed"

SleepsUntilDue(w) ==
  /\ pc[w] = "wait"
  /\ deadline[w] # Forever
  /\ \A j \in timed : deadline[w] <= nextRun[j]

(* No wakeup is lost.  While the queue is active and a worker sleeps,       *)
(* urgent work implies that somebody is about to look at the queues or to   *)
(* notify a sleeper, and timed work implies the same or a sleeper whose     *)
(* wait_until expires no later than the earliest deadline.  After           *)
(* shutdown(), a sleeping worker implies a notify_all still to come.        *)
NoLostWakeup ==
  Sleeping(pc) # {} =>
    /\ active /\ urgent # <<>> => WakeupComing
    /\ active /\ timed # {} =>
         WakeupComing \/ \E w \in Workers : SleepsUntilDue(w)
    /\ ~active => \E o \in Stoppers \cup Owners : owner[o] = "signal"

(* When wait() returns the pool is inert: no worker runs, nothing is held   *)
(* or queued, and no periodic handle claims to be active.                   *)
WaitLeavesNothing ==
  (\E o \in Owners : owner[o] = "done") =>
    /\ \A w \in Workers : pc[w] = "exited" /\ entry[w] = None
    /\ urgent = <<>> /\ timed = {}
    /\ \A p \in Periodic : ~periodicActive[p]

Due(j) ==
  \/ \E i \in DOMAIN urgent : urgent[i] = j
  \/ j \in timed /\ nextRun[j] <= now

(* Every job that may run, an urgent one at once and a timed one after its  *)
(* deadline, is eventually taken by a worker or discarded by shutdown().    *)
DueServed == \A j \in Jobs : Due(j) ~> ~Due(j)

(* wait() returns: every worker, asleep, running a job or about to          *)
(* reschedule one, gets to see that the queue stopped.                      *)
WaitReturns ==
  \A o \in Owners : owner[o] \in {"signal", "join"} ~> owner[o] = "done"

(* What the pool promises in every state: a periodic job runs on one worker *)
(* at a time, handles tell the truth, no wakeup is lost, and once wait()    *)
(* has returned nothing of the pool is left (JobQueue::worker_loop).        *)
PoolSound == NeverOverlaps /\ HandleTruthful /\ NoLostWakeup /\ WaitLeavesNothing

=============================================================================
