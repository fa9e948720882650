---------------------------- MODULE JobQueueProofs ----------------------------
(***************************************************************************)
(* TLAPS proofs about JobQueue, for any number of workers, submissions and  *)
(* stopping threads.                                                        *)
(***************************************************************************)
EXTENDS JobQueue, TLAPS

(***************************************************************************)
(* The inductive invariant.  NeverOverlaps and HandleTruthful are not       *)
(* inductive by themselves: that a worker may queue the periodic entry it   *)
(* holds without creating a second copy rests on every entry being in one   *)
(* place only, and that a submission creates the first copy rests on a      *)
(* submission not yet made being nowhere.                                   *)
(***************************************************************************)

\* An entry is queued once, or held by one worker.
InOnePlace ==
  /\ \A v, w \in Workers : entry[v] # None /\ entry[v] = entry[w] => v = w
  /\ \A w \in Workers : entry[w] \notin timed
  /\ \A w \in Workers, i \in 1..Len(urgent) : entry[w] # urgent[i]
  /\ \A i, k \in 1..Len(urgent) : urgent[i] = urgent[k] => i = k

\* A submission that was not accepted is nowhere.
NotSubmitted ==
  \A j \in Jobs : caller[j] = "new" =>
    /\ j \notin timed
    /\ \A w \in Workers : entry[w] # j
    /\ \A i \in 1..Len(urgent) : urgent[i] # j

\* Only periodic entries are rescheduled.
PeriodicRescheduled ==
  \A w \in Workers : pc[w] = "resched" => entry[w] \in Periodic

EntryInv ==
  TypeOK /\ InOnePlace /\ NotSubmitted /\ PeriodicRescheduled /\ HandleTruthful

-----------------------------------------------------------------------------

(* notify_one() wakes exactly one sleeper, if there is one, and touches     *)
(* nobody else.                                                             *)
LEMMA NotifyOneWakes ==
  ASSUME NEW p \in [Workers -> WorkerStates], NEW q \in NotifyOne(p)
  PROVE  /\ q \in [Workers -> WorkerStates]
         /\ \A w \in Workers : q[w] = p[w] \/ (p[w] = "wait" /\ q[w] = "idle")
         /\ Sleeping(p) # {} => \E w \in Workers : q[w] = "idle"
<1>1. CASE Sleeping(p) = {}
  BY Zenon, <1>1 DEF NotifyOne
<1>2. CASE Sleeping(p) # {}
  <2>1. PICK w \in Sleeping(p) : q = [p EXCEPT ![w] = "idle"]
    BY Zenon, <1>2 DEF NotifyOne
  <2>2. w \in Workers /\ p[w] = "wait"
    BY Zenon DEF Sleeping
  <2> QED
    BY Zenon, <2>1, <2>2 DEF WorkerStates
<1> QED
  BY Zenon, <1>1, <1>2

(* notify_all() wakes every sleeper and touches nobody else.                *)
LEMMA NotifyAllWakes ==
  ASSUME NEW p \in [Workers -> WorkerStates]
  PROVE  /\ NotifyAll(p) \in [Workers -> WorkerStates]
         /\ \A w \in Workers : IF p[w] = "wait" THEN NotifyAll(p)[w] = "idle"
                                                ELSE NotifyAll(p)[w] = p[w]
BY Zenon DEF NotifyAll, WorkerStates

(* The effect on pc of a step in which worker w moves to an awake state s   *)
(* and notifies.                                                            *)
LEMMA MoveAndNotify ==
  ASSUME TypeOK, NEW w \in Workers, NEW s \in WorkerStates \ {"wait"},
         pc' \in NotifyOne([pc EXCEPT ![w] = s])
  PROVE  /\ pc' \in [Workers -> WorkerStates]
         /\ pc'[w] = s
         /\ \A v \in Workers \ {w} :
              pc'[v] = pc[v] \/ (pc[v] = "wait" /\ pc'[v] = "idle")
         /\ (\E v \in Workers : pc'[v] = "wait") =>
               \E v \in Workers : pc'[v] = "idle"
<1> DEFINE p == [pc EXCEPT ![w] = s]
<1>1. p \in [Workers -> WorkerStates] /\ p[w] = s
      /\ \A v \in Workers \ {w} : p[v] = pc[v]
  BY Zenon DEF TypeOK
<1>2. pc' \in NotifyOne(p)
  BY Zenon
<1> HIDE DEF p
<1>3. /\ pc' \in [Workers -> WorkerStates]
      /\ \A v \in Workers : pc'[v] = p[v] \/ (p[v] = "wait" /\ pc'[v] = "idle")
      /\ Sleeping(p) # {} => \E v \in Workers : pc'[v] = "idle"
  BY Zenon, <1>1, <1>2, NotifyOneWakes
<1>4. ASSUME NEW v \in Workers, pc'[v] = "wait" PROVE Sleeping(p) # {}
  BY Zenon, <1>3, <1>4 DEF Sleeping
<1> QED
  BY Zenon, <1>1, <1>3, <1>4

(* Whatever a step does to pc, ClearWoken keeps deadline well typed.        *)
LEMMA ClearWokenType ==
  ASSUME TypeOK, ClearWoken
  PROVE  deadline' \in [Workers -> Nat \cup {Forever}]
BY Zenon DEF TypeOK, ClearWoken

-----------------------------------------------------------------------------
\* Type correctness

(* A worker step keeps every variable of its type.                          *)
LEMMA WorkerStepType ==
  ASSUME TypeOK, PeriodicRescheduled, NEW w \in Workers,
         WorkerStep(w) \/ SpuriousWake(w)
  PROVE  TypeOK' /\ PeriodicRescheduled'
<1>1. CASE TakeUrgent(w)
  <2>1. Head(urgent) \in Jobs /\ Head(urgent) # None /\ urgent' \in Seq(Urgent)
    BY <1>1, ConstantsAssumption DEF TakeUrgent, TypeOK, Jobs
  <2>2. /\ pc' \in [Workers -> WorkerStates] /\ pc'[w] = "taken"
        /\ \A v \in Workers \ {w} :
             pc'[v] = pc[v] \/ (pc[v] = "wait" /\ pc'[v] = "idle")
    BY Zenon, <1>1, MoveAndNotify DEF TakeUrgent, Take, NotifyAfterTake, WorkerStates
  <2>3. deadline' \in [Workers -> Nat \cup {Forever}]
    BY Zenon, <1>1, ClearWokenType DEF TakeUrgent, Take
  <2> QED
    BY Zenon, <1>1, <2>1, <2>2, <2>3
       DEF TakeUrgent, Take, TypeOK, PeriodicRescheduled, Unloaded
<1>2. CASE TakeTimed(w)
  <2>1. PICK j \in timed : Take(w, j) /\ timed' = timed \ {j}
                           /\ nextRun' = [nextRun EXCEPT ![j] = 0]
                           /\ sequence' = [sequence EXCEPT ![j] = 0]
    BY Zenon, <1>2 DEF TakeTimed
  <2>2. j \in Jobs /\ j # None
    BY Zenon, ConstantsAssumption DEF Jobs, TypeOK
  <2>3. /\ pc' \in [Workers -> WorkerStates] /\ pc'[w] = "taken"
        /\ \A v \in Workers \ {w} :
             pc'[v] = pc[v] \/ (pc[v] = "wait" /\ pc'[v] = "idle")
    BY Zenon, <2>1, MoveAndNotify DEF Take, NotifyAfterTake, WorkerStates
  <2>4. deadline' \in [Workers -> Nat \cup {Forever}]
    BY Zenon, <2>1, ClearWokenType DEF Take
  <2> QED
    BY ZenonT(30), <1>2, <2>1, <2>2, <2>3, <2>4
       DEF TakeTimed, Take, TypeOK, PeriodicRescheduled, Unloaded
<1>3. CASE Sleep(w)
  BY Zenon, <1>3 DEF Sleep, WorkerStates, TypeOK, PeriodicRescheduled, Unloaded, queueVars
<1>4. CASE Exit(w)
  BY Zenon, <1>4 DEF Exit, WorkerStates, TypeOK, PeriodicRescheduled, Unloaded, queueVars
<1>5. CASE TimeOut(w) \/ SpuriousWake(w)
  BY Zenon, <1>5, ClearWokenType
     DEF TimeOut, SpuriousWake, WorkerStates, TypeOK, PeriodicRescheduled,
         Unloaded, queueVars
<1>6. CASE Begin(w)
  BY Zenon, <1>6 DEF Begin, WorkerStates, TypeOK, PeriodicRescheduled, Unloaded, queueVars
<1>7. CASE Finish(w)
  BY Zenon, <1>7 DEF Finish, WorkerStates, TypeOK, PeriodicRescheduled, Unloaded, queueVars
<1>8. CASE Settle(w)
  <2>1. CASE entry[w] \in Periodic /\ periodicActive[entry[w]]
    BY ZenonT(30), <1>8, <2>1 DEF Settle, WorkerStates, TypeOK, PeriodicRescheduled,
                      Unloaded, queueVars
  <2>2. CASE ~(entry[w] \in Periodic /\ periodicActive[entry[w]])
    <3>1. pc' = [pc EXCEPT ![w] = "idle"] /\ entry' = [entry EXCEPT ![w] = None]
      BY Zenon, <1>8, <2>2 DEF Settle
    <3> QED
      BY Zenon, <1>8, <3>1 DEF Settle, WorkerStates, TypeOK, PeriodicRescheduled,
                        Unloaded, queueVars
  <2> QED
    BY Zenon, <2>1, <2>2
<1>9. CASE Reschedule(w)
  <2>1. entry[w] \in Periodic /\ entry[w] \in Timed
    BY Zenon, <1>9 DEF Reschedule, Timed, PeriodicRescheduled
  <2>2. CASE DropStopped(w)
    BY Zenon, <1>9, <2>1, <2>2 DEF Reschedule, DropStopped, WorkerStates, TypeOK,
                            PeriodicRescheduled, Unloaded, queueVars
  <2>3. CASE Requeue(w)
    <3>1. now + Delay[entry[w]] \in Nat
      BY <2>1, ConstantsAssumption DEF TypeOK
    <3>2. /\ timed' \in SUBSET Timed /\ nextRun' \in [Timed -> Nat]
          /\ sequence' \in [Timed -> Nat] /\ nextSequence' \in Nat
      BY <2>1, <2>3, <3>1 DEF Requeue, Push, TypeOK
    <3> QED
      BY Zenon, <1>9, <2>3, <3>2
         DEF Reschedule, Requeue, Push, WorkerStates, TypeOK,
             PeriodicRescheduled, Unloaded
  <2> QED
    BY Zenon, <1>9, <2>2, <2>3 DEF Reschedule
<1>10. CASE NotifyRequeued(w)
  <2>1. /\ pc' \in [Workers -> WorkerStates] /\ pc'[w] = "idle"
        /\ \A v \in Workers \ {w} :
             pc'[v] = pc[v] \/ (pc[v] = "wait" /\ pc'[v] = "idle")
    BY Zenon, <1>10, MoveAndNotify DEF NotifyRequeued, WorkerStates
  <2>2. deadline' \in [Workers -> Nat \cup {Forever}]
    BY Zenon, <1>10, ClearWokenType DEF NotifyRequeued
  <2> QED
    BY Zenon, <1>10, <2>1, <2>2
       DEF NotifyRequeued, TypeOK, PeriodicRescheduled, Unloaded, queueVars
<1> QED
  BY Zenon, <1>1, <1>2, <1>3, <1>4, <1>5, <1>6, <1>7, <1>8, <1>9, <1>10
     DEF WorkerStep

(* So does a step of a submitting, cancelling or stopping thread.           *)
LEMMA ClientStepType ==
  ASSUME TypeOK, PeriodicRescheduled,
         \/ \E j \in Jobs : Reject(j) \/ NotifyAdded(j)
         \/ \E j \in Urgent : AddUrgent(j)
         \/ \E j \in Timed : AddTimed(j)
         \/ \E p \in Periodic : Cancel(p)
         \/ \E o \in Stoppers \cup Owners :
              Shutdown(o) \/ NotifyStopped(o) \/ Join(o)
         \/ Tick
  PROVE  TypeOK' /\ PeriodicRescheduled'
<1>1. ASSUME NEW j \in Jobs, Reject(j) PROVE TypeOK' /\ PeriodicRescheduled'
  BY Zenon, <1>1 DEF Reject, TypeOK, PeriodicRescheduled, Unloaded, queueVars
<1>2. ASSUME NEW j \in Jobs, NotifyAdded(j)
      PROVE  TypeOK' /\ PeriodicRescheduled'
  <2>1. /\ pc' \in [Workers -> WorkerStates]
        /\ \A w \in Workers : pc'[w] = pc[w] \/ (pc[w] = "wait" /\ pc'[w] = "idle")
    BY <1>2, NotifyOneWakes DEF NotifyAdded, TypeOK
  <2>2. deadline' \in [Workers -> Nat \cup {Forever}]
    BY Zenon, <1>2, ClearWokenType DEF NotifyAdded
  <2> QED
    BY Zenon, <1>2, <2>1, <2>2
       DEF NotifyAdded, TypeOK, PeriodicRescheduled, Unloaded, queueVars
<1>3. ASSUME NEW j \in Urgent, AddUrgent(j)
      PROVE  TypeOK' /\ PeriodicRescheduled'
  BY <1>3 DEF AddUrgent, TypeOK, PeriodicRescheduled, Unloaded, Jobs
<1>4. ASSUME NEW j \in Timed, AddTimed(j)
      PROVE  TypeOK' /\ PeriodicRescheduled'
  <2>1. now + Delay[j] \in Nat
    BY ConstantsAssumption DEF TypeOK
  <2>2. /\ timed' \in SUBSET Timed /\ nextRun' \in [Timed -> Nat]
        /\ sequence' \in [Timed -> Nat] /\ nextSequence' \in Nat
    BY <1>4, <2>1 DEF AddTimed, Push, TypeOK
  <2>3. periodicActive' \in [Periodic -> BOOLEAN]
    BY Zenon, <1>4 DEF AddTimed
  <2> QED
    BY Zenon, <1>4, <2>2, <2>3
       DEF AddTimed, Push, TypeOK, PeriodicRescheduled, Unloaded, Jobs
<1>5. ASSUME NEW p \in Periodic, Cancel(p)
      PROVE  TypeOK' /\ PeriodicRescheduled'
  BY Zenon, <1>5 DEF Cancel, TypeOK, PeriodicRescheduled, Unloaded, queueVars
<1>6. ASSUME NEW o \in Stoppers \cup Owners, Shutdown(o)
      PROVE  TypeOK' /\ PeriodicRescheduled'
  <2>1. AfterShutdown(o) \in {"out", "signal", "join", "done"}
    BY Zenon DEF AfterShutdown
  <2>2. CASE Discard(o)
    <3>1. periodicActive' \in [Periodic -> BOOLEAN]
      BY Zenon, <2>2 DEF Discard
    <3>2. urgent' \in Seq(Urgent)
      BY <2>2 DEF Discard
    <3>3. nextRun' \in [Timed -> Nat] /\ sequence' \in [Timed -> Nat]
      BY Zenon, <2>2 DEF Discard
    <3> QED
      BY Zenon, <1>6, <2>2, <3>1, <3>2, <3>3
         DEF Shutdown, Discard, TypeOK, PeriodicRescheduled, Unloaded
  <2>3. CASE ~Discard(o)
    BY Zenon, <1>6, <2>1, <2>3
       DEF Shutdown, TypeOK, PeriodicRescheduled, Unloaded, queueVars
  <2> QED
    BY Zenon, <2>2, <2>3
<1>7. ASSUME NEW o \in Stoppers \cup Owners, NotifyStopped(o)
      PROVE  TypeOK' /\ PeriodicRescheduled'
  <2>1. AfterShutdown(o) \in {"out", "signal", "join", "done"}
    BY Zenon DEF AfterShutdown
  <2>2. /\ pc' \in [Workers -> WorkerStates]
        /\ \A w \in Workers : pc'[w] = pc[w] \/ (pc[w] = "wait" /\ pc'[w] = "idle")
    BY Zenon, <1>7, NotifyAllWakes DEF NotifyStopped, WakeForShutdown, TypeOK
  <2>3. deadline' \in [Workers -> Nat \cup {Forever}]
    BY Zenon, <1>7, ClearWokenType DEF NotifyStopped
  <2> QED
    BY Zenon, <1>7, <2>1, <2>2, <2>3
       DEF NotifyStopped, TypeOK, PeriodicRescheduled, Unloaded, queueVars
<1>8. ASSUME NEW o \in Stoppers \cup Owners, Join(o)
      PROVE  TypeOK' /\ PeriodicRescheduled'
  BY Zenon, <1>8 DEF Join, TypeOK, PeriodicRescheduled, Unloaded, queueVars
<1>9. ASSUME Tick PROVE TypeOK' /\ PeriodicRescheduled'
  BY <1>9 DEF Tick, TypeOK, PeriodicRescheduled, Unloaded, queueVars
<1> QED
  BY Zenon, <1>1, <1>2, <1>3, <1>4, <1>5, <1>6, <1>7, <1>8, <1>9

(* Every variable of the pool keeps its type, a worker holds an entry       *)
(* exactly while it is between taking and settling it, and only periodic    *)
(* entries are rescheduled.                                                 *)
THEOREM TypeCorrect == Spec => [](TypeOK /\ PeriodicRescheduled)
<1>1. Init => TypeOK /\ PeriodicRescheduled
  BY DEF Init, TypeOK, PeriodicRescheduled, WorkerStates, Unloaded
<1>2. TypeOK /\ PeriodicRescheduled /\ [Next]_vars
        => (TypeOK /\ PeriodicRescheduled)'
  <2>1. ASSUME TypeOK, PeriodicRescheduled, UNCHANGED vars
        PROVE  (TypeOK /\ PeriodicRescheduled)'
    BY Zenon, <2>1 DEF vars, queueVars, TypeOK, PeriodicRescheduled, Unloaded
  <2> QED
    BY Zenon, <2>1, WorkerStepType, ClientStepType DEF Next, Terminated
<1> QED
  BY <1>1, <1>2, PTL DEF Spec

-----------------------------------------------------------------------------
\* Entries: NeverOverlaps and HandleTruthful

(* A step that neither drops an entry nor revives a handle keeps handles    *)
(* truthful.                                                                *)
LEMMA NothingDropped ==
  ASSUME HandleTruthful,
         \A p \in Periodic : periodicActive'[p] => periodicActive[p],
         timed \subseteq timed',
         \A v \in Workers : pc[v] \in {"taken", "run", "ran", "resched"} =>
           /\ entry'[v] = entry[v]
           /\ pc'[v] \in {"taken", "run", "ran", "resched"}
  PROVE  HandleTruthful'
<1> SUFFICES ASSUME NEW p \in Periodic, periodicActive'[p] PROVE Carried(p)'
  BY Zenon DEF HandleTruthful
<1>1. Carried(p)
  BY Zenon DEF HandleTruthful
<1> QED
  BY Zenon, <1>1 DEF Carried

(* A worker step keeps every entry in one place and every live periodic job *)
(* queued or held.                                                          *)
LEMMA WorkerStepEntries ==
  ASSUME EntryInv, TypeOK', NEW w \in Workers,
         WorkerStep(w) \/ SpuriousWake(w)
  PROVE  InOnePlace' /\ NotSubmitted' /\ HandleTruthful'
<1> USE DEF EntryInv
<1>1. CASE TakeUrgent(w)
  <2>1. /\ Len(urgent) \in Nat \ {0}
        /\ Len(Tail(urgent)) = Len(urgent) - 1
        /\ Head(urgent) = urgent[1]
        /\ \A i \in 1..Len(Tail(urgent)) : Tail(urgent)[i] = urgent[i + 1]
    BY <1>1 DEF TakeUrgent, TypeOK
  <2>2. Head(urgent) \in Urgent /\ Head(urgent) \notin Timed
    BY <1>1, ConstantsAssumption DEF TakeUrgent, TypeOK
  <2>3. /\ pc'[w] = "taken"
        /\ \A v \in Workers \ {w} :
             pc'[v] = pc[v] \/ (pc[v] = "wait" /\ pc'[v] = "idle")
    BY Zenon, <1>1, MoveAndNotify DEF TakeUrgent, Take, NotifyAfterTake, WorkerStates
  <2>4. /\ urgent' = Tail(urgent) /\ timed' = timed /\ caller' = caller
        /\ periodicActive' = periodicActive
        /\ entry' = [entry EXCEPT ![w] = urgent[1]]
    BY Zenon, <1>1, <2>1 DEF TakeUrgent, Take
  <2>5. entry[w] = None /\ 1 \in 1..Len(urgent)
    BY <1>1, <2>1 DEF TypeOK, Unloaded, TakeUrgent
  <2>6. InOnePlace'
    BY <2>1, <2>2, <2>4, <2>5 DEF InOnePlace, TypeOK
  <2>7. NotSubmitted'
    BY <2>1, <2>2, <2>4, <2>5 DEF NotSubmitted, TypeOK
  <2>8. HandleTruthful'
    BY Zenon, <2>3, <2>4, <1>1, NothingDropped DEF TakeUrgent, TypeOK
  <2> QED
    BY Zenon, <2>6, <2>7, <2>8
<1>2. CASE TakeTimed(w)
  <2>1. PICK j \in timed : Take(w, j) /\ timed' = timed \ {j}
    BY Zenon, <1>2 DEF TakeTimed
  <2>2. /\ pc'[w] = "taken"
        /\ \A v \in Workers \ {w} :
             pc'[v] = pc[v] \/ (pc[v] = "wait" /\ pc'[v] = "idle")
    BY Zenon, <2>1, MoveAndNotify DEF Take, NotifyAfterTake, WorkerStates
  <2>3. /\ urgent' = urgent /\ caller' = caller
        /\ periodicActive' = periodicActive
        /\ entry' = [entry EXCEPT ![w] = j]
    BY Zenon, <1>2, <2>1 DEF TakeTimed, Take
  <2>4. urgent = <<>> /\ pc[w] = "idle" /\ entry[w] = None
    BY Zenon, <1>2 DEF TakeTimed, TypeOK, Unloaded
  <2>5. InOnePlace'
    BY <2>1, <2>3, <2>4 DEF InOnePlace, TypeOK
  <2>6. NotSubmitted'
    BY <2>1, <2>3, <2>4 DEF NotSubmitted, TypeOK
  <2>7. HandleTruthful'
    <3> SUFFICES ASSUME NEW p \in Periodic, periodicActive[p]
                 PROVE  Carried(p)'
      BY Zenon, <2>3 DEF HandleTruthful
    <3>1. CASE p = j
      BY ZenonT(30), <3>1, <2>2, <2>3 DEF Carried, TypeOK
    <3>2. CASE p # j
      <4>1. CASE p \in timed
        BY Zenon, <4>1, <3>2, <2>1 DEF Carried
      <4>2. CASE p \notin timed
        <5>1. PICK v \in Workers : entry[v] = p
                 /\ pc[v] \in {"taken", "run", "ran", "resched"}
          BY Zenon, <4>2 DEF HandleTruthful, Carried
        <5>2. v # w
          BY Zenon, <5>1, <2>4
        <5>3. entry'[v] = p /\ pc'[v] = pc[v]
          BY <5>1, <5>2, <2>2, <2>3 DEF TypeOK
        <5> QED
          BY Zenon, <5>1, <5>3 DEF Carried
      <4> QED
        BY Zenon, <4>1, <4>2
    <3> QED
      BY Zenon, <3>1, <3>2
  <2> QED
    BY Zenon, <2>5, <2>6, <2>7
<1>3. CASE Sleep(w) \/ Exit(w) \/ TimeOut(w) \/ SpuriousWake(w)
  <2>1. /\ UNCHANGED <<urgent, timed, caller, periodicActive, entry>>
        /\ pc[w] \in Unloaded /\ pc' = [pc EXCEPT ![w] = pc'[w]]
    BY Zenon, <1>3 DEF Sleep, Exit, TimeOut, SpuriousWake, queueVars, Unloaded, TypeOK
  <2>2. HandleTruthful'
    BY Zenon, <2>1, NothingDropped DEF TypeOK, Unloaded
  <2> QED
    BY Zenon, <2>1, <2>2 DEF InOnePlace, NotSubmitted
<1>4. CASE Begin(w) \/ Finish(w)
  <2>1. /\ UNCHANGED <<urgent, timed, caller, periodicActive, entry>>
        /\ pc' = [pc EXCEPT ![w] = pc'[w]] /\ pc'[w] \in {"run", "ran"}
    BY Zenon, <1>4 DEF Begin, Finish, queueVars, TypeOK
  <2>2. HandleTruthful'
    BY Zenon, <2>1, NothingDropped DEF TypeOK
  <2> QED
    BY Zenon, <2>1, <2>2 DEF InOnePlace, NotSubmitted
<1>5. CASE Settle(w)
  <2>1. UNCHANGED <<urgent, timed, caller, periodicActive>>
    BY Zenon, <1>5 DEF Settle, queueVars
  <2>2. CASE entry[w] \in Periodic /\ periodicActive[entry[w]]
    <3>1. entry' = entry /\ pc' = [pc EXCEPT ![w] = "resched"]
      BY Zenon, <1>5, <2>2 DEF Settle
    <3>2. HandleTruthful'
      BY Zenon, <2>1, <3>1, NothingDropped DEF TypeOK
    <3> QED
      BY Zenon, <2>1, <3>1, <3>2 DEF InOnePlace, NotSubmitted
  <2>3. CASE ~(entry[w] \in Periodic /\ periodicActive[entry[w]])
    <3>1. /\ entry' = [entry EXCEPT ![w] = None]
          /\ pc' = [pc EXCEPT ![w] = "idle"]
      BY Zenon, <1>5, <2>3 DEF Settle
    <3>2. /\ \A i \in 1..Len(urgent) : urgent[i] \in Jobs
          /\ None \notin Jobs /\ timed \subseteq Jobs
      BY ConstantsAssumption DEF TypeOK, Jobs
    <3>3. InOnePlace'
      BY <2>1, <3>1, <3>2 DEF InOnePlace, TypeOK
    <3>4. NotSubmitted'
      BY Zenon, <2>1, <3>1, <3>2 DEF NotSubmitted, TypeOK
    <3>5. HandleTruthful'
      BY <2>1, <2>3, <3>1 DEF HandleTruthful, Carried, TypeOK
    <3> QED
      BY Zenon, <3>3, <3>4, <3>5
  <2> QED
    BY Zenon, <2>2, <2>3
<1>6. CASE Reschedule(w)
  <2>1. /\ pc[w] = "resched" /\ entry[w] \in Periodic /\ entry[w] # None
        /\ entry' = [entry EXCEPT ![w] = None] /\ caller' = caller
    BY Zenon, <1>6 DEF Reschedule, PeriodicRescheduled, TypeOK, Unloaded
  <2>2. /\ \A i \in 1..Len(urgent) : urgent[i] \in Jobs /\ urgent[i] \notin Timed
        /\ None \notin Jobs /\ timed \subseteq Jobs /\ entry[w] \in Timed
    BY <2>1, ConstantsAssumption DEF TypeOK, Jobs, Timed
  <2>3. CASE DropStopped(w)
    <3>1. /\ UNCHANGED <<urgent, timed>>
          /\ periodicActive' = [periodicActive EXCEPT ![entry[w]] = FALSE]
          /\ pc' = [pc EXCEPT ![w] = "idle"]
      BY Zenon, <2>3 DEF DropStopped, queueVars
    <3>2. InOnePlace'
      BY <2>1, <2>2, <3>1 DEF InOnePlace, TypeOK
    <3>3. NotSubmitted'
      BY Zenon, <2>1, <2>2, <3>1 DEF NotSubmitted, TypeOK
    <3>4. HandleTruthful'
      BY <2>1, <3>1 DEF HandleTruthful, Carried, TypeOK
    <3> QED
      BY Zenon, <3>2, <3>3, <3>4
  <2>4. CASE Requeue(w)
    <3>1. /\ urgent' = urgent /\ timed' = timed \cup {entry[w]}
          /\ periodicActive' = periodicActive
          /\ pc' = [pc EXCEPT ![w] = "signal"]
      BY Zenon, <2>4 DEF Requeue, Push
    <3>2. InOnePlace'
      BY <2>1, <2>2, <3>1 DEF InOnePlace, TypeOK
    <3>3. NotSubmitted'
      BY ZenonT(30), <2>1, <2>2, <3>1 DEF NotSubmitted, TypeOK
    <3>4. HandleTruthful'
      BY <2>1, <3>1 DEF HandleTruthful, Carried, TypeOK
    <3> QED
      BY Zenon, <3>2, <3>3, <3>4
  <2> QED
    BY Zenon, <1>6, <2>3, <2>4 DEF Reschedule
<1>7. CASE NotifyRequeued(w)
  <2>1. /\ pc'[w] = "idle" /\ pc[w] = "signal"
        /\ \A v \in Workers \ {w} :
             pc'[v] = pc[v] \/ (pc[v] = "wait" /\ pc'[v] = "idle")
    BY Zenon, <1>7, MoveAndNotify DEF NotifyRequeued, WorkerStates
  <2>2. UNCHANGED <<urgent, timed, caller, periodicActive, entry>>
    BY Zenon, <1>7 DEF NotifyRequeued, queueVars
  <2>3. HandleTruthful'
    BY Zenon, <2>1, <2>2, NothingDropped
  <2> QED
    BY Zenon, <2>2, <2>3 DEF InOnePlace, NotSubmitted
<1> QED
  BY Zenon, <1>1, <1>2, <1>3, <1>4, <1>5, <1>6, <1>7 DEF WorkerStep

(* So does every step of another thread: a submission puts its entry in one *)
(* queue, shutdown() empties the queues and deactivates what it drops.      *)
LEMMA ClientStepEntries ==
  ASSUME EntryInv, TypeOK',
         \/ \E j \in Jobs : Reject(j) \/ NotifyAdded(j)
         \/ \E j \in Urgent : AddUrgent(j)
         \/ \E j \in Timed : AddTimed(j)
         \/ \E p \in Periodic : Cancel(p)
         \/ \E o \in Stoppers \cup Owners :
              Shutdown(o) \/ NotifyStopped(o) \/ Join(o)
         \/ Tick
  PROVE  InOnePlace' /\ NotSubmitted' /\ HandleTruthful'
<1> USE DEF EntryInv
<1>1. ASSUME NEW j \in Jobs, Reject(j) \/ NotifyAdded(j)
      PROVE  InOnePlace' /\ NotSubmitted' /\ HandleTruthful'
  <2>1. UNCHANGED <<urgent, timed, periodicActive, entry>>
    BY Zenon, <1>1 DEF Reject, NotifyAdded, queueVars
  <2>2. \A k \in Jobs : caller'[k] = "new" => caller[k] = "new"
    BY Zenon, <1>1 DEF Reject, NotifyAdded, TypeOK
  <2>3. \A v \in Workers : pc'[v] = pc[v] \/ (pc[v] = "wait" /\ pc'[v] = "idle")
    BY ZenonT(30), <1>1, NotifyOneWakes DEF Reject, NotifyAdded, TypeOK
  <2>4. HandleTruthful'
    BY Zenon, <2>1, <2>3, NothingDropped
  <2> QED
    BY Zenon, <2>1, <2>2, <2>4 DEF InOnePlace, NotSubmitted
<1>2. ASSUME NEW j \in Urgent, AddUrgent(j)
      PROVE  InOnePlace' /\ NotSubmitted' /\ HandleTruthful'
  <2>1. /\ urgent' = Append(urgent, j) /\ caller[j] = "new"
        /\ UNCHANGED <<timed, periodicActive, entry, pc>>
        /\ caller' = [caller EXCEPT ![j] = "pushed"] /\ j \in Jobs
    BY Zenon, <1>2 DEF AddUrgent, Jobs
  <2>2. /\ Len(urgent') = Len(urgent) + 1 /\ Len(urgent) \in Nat
        /\ \A i \in 1..Len(urgent) : urgent'[i] = urgent[i]
        /\ urgent'[Len(urgent) + 1] = j
    BY <2>1 DEF TypeOK
  <2>3. InOnePlace'
    BY <2>1, <2>2 DEF InOnePlace, NotSubmitted
  <2>4. NotSubmitted'
    <3>1. SUFFICES ASSUME NEW k \in Jobs, caller'[k] = "new"
                   PROVE  /\ k \notin timed' /\ \A w \in Workers : entry'[w] # k
                          /\ \A i \in 1..Len(urgent') : urgent'[i] # k
      BY Zenon DEF NotSubmitted
    <3>2. k # j /\ caller[k] = "new"
      BY Zenon, <2>1, <3>1 DEF TypeOK
    <3>3. /\ k \notin timed /\ \A w \in Workers : entry[w] # k
          /\ \A i \in 1..Len(urgent) : urgent[i] # k
      BY Zenon, <3>2 DEF NotSubmitted
    <3>4. \A i \in 1..Len(urgent') : i \in 1..Len(urgent) \/ i = Len(urgent) + 1
      BY <2>2
    <3> QED
      BY Zenon, <2>1, <2>2, <3>2, <3>3, <3>4
  <2>5. HandleTruthful'
    BY Zenon, <2>1, NothingDropped
  <2> QED
    BY Zenon, <2>3, <2>4, <2>5
<1>3. ASSUME NEW j \in Timed, AddTimed(j)
      PROVE  InOnePlace' /\ NotSubmitted' /\ HandleTruthful'
  <2>1. /\ timed' = timed \cup {j} /\ caller[j] = "new" /\ j \in Jobs
        /\ UNCHANGED <<urgent, entry, pc>>
        /\ caller' = [caller EXCEPT ![j] = "pushed"]
        /\ \A p \in Periodic : periodicActive'[p] => p = j \/ periodicActive[p]
    BY Zenon, <1>3 DEF AddTimed, Push, Jobs
  <2>2. InOnePlace'
    BY Zenon, <2>1 DEF InOnePlace, NotSubmitted
  <2>3. NotSubmitted'
    BY Zenon, <2>1 DEF NotSubmitted, TypeOK
  <2>4. HandleTruthful'
    BY Zenon, <2>1 DEF HandleTruthful, Carried
  <2> QED
    BY Zenon, <2>2, <2>3, <2>4
<1>4. ASSUME NEW p \in Periodic, Cancel(p)
      PROVE  InOnePlace' /\ NotSubmitted' /\ HandleTruthful'
  <2>1. /\ UNCHANGED <<urgent, timed, entry, pc, caller>>
        /\ \A q \in Periodic : periodicActive'[q] => periodicActive[q]
    BY Zenon, <1>4 DEF Cancel, queueVars, TypeOK
  <2>2. HandleTruthful'
    BY Zenon, <2>1, NothingDropped
  <2> QED
    BY Zenon, <2>1, <2>2 DEF InOnePlace, NotSubmitted
<1>5. ASSUME NEW o \in Stoppers \cup Owners, Shutdown(o)
      PROVE  InOnePlace' /\ NotSubmitted' /\ HandleTruthful'
  <2>1. UNCHANGED <<entry, pc, caller>>
    BY Zenon, <1>5 DEF Shutdown
  <2>2. CASE Discard(o)
    <3>1. /\ urgent' = <<>> /\ timed' = {} /\ Len(urgent') = 0
          /\ \A p \in Periodic :
               periodicActive'[p] => p \notin timed /\ periodicActive[p]
      BY Zenon, <2>2 DEF Discard
    <3> QED
      BY <2>1, <3>1 DEF InOnePlace, NotSubmitted, HandleTruthful, Carried
  <2>3. CASE ~Discard(o)
    <3>1. UNCHANGED <<urgent, timed, periodicActive>>
      BY Zenon, <1>5, <2>3 DEF Shutdown, queueVars
    <3>2. HandleTruthful'
      BY Zenon, <2>1, <3>1, NothingDropped
    <3> QED
      BY Zenon, <2>1, <3>1, <3>2 DEF InOnePlace, NotSubmitted
  <2> QED
    BY Zenon, <2>2, <2>3
<1>6. ASSUME NEW o \in Stoppers \cup Owners, NotifyStopped(o) \/ Join(o)
      PROVE  InOnePlace' /\ NotSubmitted' /\ HandleTruthful'
  <2>1. UNCHANGED <<urgent, timed, periodicActive, entry, caller>>
    BY Zenon, <1>6 DEF NotifyStopped, Join, queueVars
  <2>2. \A v \in Workers : pc'[v] = pc[v] \/ (pc[v] = "wait" /\ pc'[v] = "idle")
    <3>1. CASE NotifyStopped(o)
      BY Zenon, <3>1, NotifyAllWakes DEF NotifyStopped, WakeForShutdown, TypeOK
    <3>2. CASE Join(o)
      BY Zenon, <3>2 DEF Join
    <3> QED
      BY Zenon, <1>6, <3>1, <3>2
  <2>3. HandleTruthful'
    BY Zenon, <2>1, <2>2, NothingDropped
  <2> QED
    BY Zenon, <2>1, <2>3 DEF InOnePlace, NotSubmitted
<1>7. ASSUME Tick PROVE InOnePlace' /\ NotSubmitted' /\ HandleTruthful'
  <2>1. UNCHANGED <<urgent, timed, periodicActive, entry, caller, pc>>
    BY Zenon, <1>7 DEF Tick, queueVars
  <2> QED
    BY Zenon, <2>1 DEF InOnePlace, NotSubmitted, HandleTruthful, Carried
<1> QED
  BY Zenon, <1>1, <1>2, <1>3, <1>4, <1>5, <1>6, <1>7

(* EntryInv is an invariant of the pool.                                    *)
THEOREM EntryInvariant == Spec => []EntryInv
<1>1. Init => EntryInv
  <2>1. Init => TypeOK /\ PeriodicRescheduled
    BY DEF Init, TypeOK, PeriodicRescheduled, WorkerStates, Unloaded
  <2>2. Init => InOnePlace
    BY DEF Init, InOnePlace
  <2>3. Init => NotSubmitted
    BY ConstantsAssumption DEF Init, NotSubmitted
  <2>4. Init => HandleTruthful
    BY Zenon DEF Init, HandleTruthful
  <2> QED
    BY Zenon, <2>1, <2>2, <2>3, <2>4 DEF EntryInv
<1>2. EntryInv /\ TypeOK' /\ PeriodicRescheduled' /\ [Next]_vars => EntryInv'
  <2>1. ASSUME EntryInv, UNCHANGED vars
        PROVE  InOnePlace' /\ NotSubmitted' /\ HandleTruthful'
    BY Zenon, <2>1 DEF vars, queueVars, EntryInv, InOnePlace, NotSubmitted,
                HandleTruthful, Carried
  <2>2. ASSUME EntryInv, TypeOK', Next
        PROVE  InOnePlace' /\ NotSubmitted' /\ HandleTruthful'
    BY Zenon, <2>1, <2>2, WorkerStepEntries, ClientStepEntries DEF Next, Terminated
  <2> QED
    BY Zenon, <2>1, <2>2 DEF EntryInv
<1> QED
  BY <1>1, <1>2, TypeCorrect, PTL DEF Spec

(* Entries being in one place, no job overlaps itself: the documented       *)
(* promise about periodic jobs on several workers.                          *)
THEOREM NoOverlap == Spec => []NeverOverlaps
<1>1. EntryInv => NeverOverlaps
  BY ZenonT(30) DEF EntryInv, InOnePlace, NeverOverlaps, Running, TypeOK, Unloaded
<1> QED
  BY <1>1, EntryInvariant, PTL

(* A periodic handle that reports itself active has a job that is queued or *)
(* in a worker's hands.                                                     *)
THEOREM HandlesTruthful == Spec => []HandleTruthful
<1>1. EntryInv => HandleTruthful
  BY Zenon DEF EntryInv
<1> QED
  BY <1>1, EntryInvariant, PTL

-----------------------------------------------------------------------------
\* Shutdown and wakeups

(* "shutdown() discards work that has not started": once the queue is       *)
(* stopped nothing is queued again, whatever worker was between executing a *)
(* periodic job and rescheduling it.                                        *)
StoppedIsEmpty == ~active => urgent = <<>> /\ timed = {}

(* shutdown() empties both queues under the mutex, and every step that      *)
(* queues an entry checks active_ under the same mutex.                     *)
THEOREM StoppedQueueEmpty == Spec => []StoppedIsEmpty
<1>1. Init => StoppedIsEmpty
  BY Zenon DEF Init, StoppedIsEmpty
<1>2. StoppedIsEmpty /\ [Next]_vars => StoppedIsEmpty'
  <2> SUFFICES ASSUME StoppedIsEmpty, [Next]_vars PROVE StoppedIsEmpty'
    BY Zenon
  <2>1. ASSUME NEW j \in Jobs, Reject(j) \/ NotifyAdded(j) PROVE StoppedIsEmpty'
    BY Zenon, <2>1 DEF Reject, NotifyAdded, StoppedIsEmpty, queueVars
  <2>2. ASSUME NEW j \in Urgent, AddUrgent(j) PROVE StoppedIsEmpty'
    BY Zenon, <2>2 DEF AddUrgent, StoppedIsEmpty
  <2>3. ASSUME NEW j \in Timed, AddTimed(j) PROVE StoppedIsEmpty'
    BY Zenon, <2>3 DEF AddTimed, StoppedIsEmpty
  <2>4. ASSUME NEW p \in Periodic, Cancel(p) PROVE StoppedIsEmpty'
    BY Zenon, <2>4 DEF Cancel, StoppedIsEmpty, queueVars
  <2>5. ASSUME NEW w \in Workers, WorkerStep(w) \/ SpuriousWake(w)
        PROVE  StoppedIsEmpty'
    <3>1. CASE TakeUrgent(w)
      BY Zenon, <3>1 DEF TakeUrgent, Take, StoppedIsEmpty
    <3>2. CASE TakeTimed(w)
      BY Zenon, <3>2 DEF TakeTimed, Take, StoppedIsEmpty
    <3>3. CASE Reschedule(w)
      <4>1. CASE DropStopped(w)
        BY Zenon, <3>3, <4>1 DEF Reschedule, DropStopped, StoppedIsEmpty, queueVars
      <4>2. CASE Requeue(w)
        BY Zenon, <3>3, <4>2 DEF Reschedule, Requeue, StoppedIsEmpty
      <4> QED
        BY Zenon, <3>3, <4>1, <4>2 DEF Reschedule
    <3>4. CASE Sleep(w) \/ Exit(w) \/ TimeOut(w) \/ SpuriousWake(w)
      BY Zenon, <3>4 DEF Sleep, Exit, TimeOut, SpuriousWake, StoppedIsEmpty, queueVars
    <3>5. CASE Begin(w) \/ Finish(w) \/ Settle(w) \/ NotifyRequeued(w)
      BY Zenon, <3>5 DEF Begin, Finish, Settle, NotifyRequeued, StoppedIsEmpty, queueVars
    <3> QED
      BY Zenon, <2>5, <3>1, <3>2, <3>3, <3>4, <3>5 DEF WorkerStep
  <2>6. ASSUME NEW o \in Stoppers \cup Owners,
               Shutdown(o) \/ NotifyStopped(o) \/ Join(o)
        PROVE  StoppedIsEmpty'
    BY Zenon, <2>6 DEF Shutdown, Discard, NotifyStopped, Join, StoppedIsEmpty, queueVars
  <2>7. CASE Tick \/ Terminated \/ UNCHANGED vars
    BY Zenon, <2>7 DEF Tick, Terminated, StoppedIsEmpty, vars, queueVars
  <2> QED
    BY Zenon, <2>1, <2>2, <2>3, <2>4, <2>5, <2>6, <2>7 DEF Next
<1> QED
  BY <1>1, <1>2, PTL DEF Spec

(* While some worker is awake or about to notify, nothing is claimed of the *)
(* sleepers of an active queue.                                             *)
LEMMA AwakeSuffices ==
  ASSUME active', WakeupComing'
  PROVE  NoLostWakeup'
BY Zenon DEF NoLostWakeup

(* A step that leaves the queues, active_ and the stopping threads alone,   *)
(* puts nobody to sleep and takes no wakeup away loses none.                *)
LEMMA WakeupKept ==
  ASSUME NoLostWakeup,
         UNCHANGED <<active, urgent, timed, nextRun, owner>>,
         \A w \in Workers : pc'[w] = "wait" => pc[w] = "wait",
         \A w \in Workers : pc[w] = "wait" =>
           pc'[w] = "idle" \/ (pc'[w] = "wait" /\ deadline'[w] = deadline[w]),
         WakeupComing /\ Sleeping(pc') # {} => WakeupComing'
  PROVE  NoLostWakeup'
<1> SUFFICES ASSUME Sleeping(pc') # {}
             PROVE  /\ active /\ urgent # <<>> => WakeupComing'
                    /\ active /\ timed # {} => WakeupComing'
                          \/ \E w \in Workers : SleepsUntilDue(w)'
                    /\ ~active => \E o \in Stoppers \cup Owners : owner[o] = "signal"
  BY Zenon DEF NoLostWakeup
<1>1. Sleeping(pc) # {}
  BY Zenon DEF Sleeping
<1>2. ASSUME NEW w \in Workers, SleepsUntilDue(w)
      PROVE  SleepsUntilDue(w)' \/ WakeupComing'
  BY Zenon, <1>2 DEF SleepsUntilDue, WakeupComing
<1> QED
  BY Zenon, <1>1, <1>2 DEF NoLostWakeup

(* No step of a worker loses a wakeup.                                      *)
LEMMA WorkerStepWakeups ==
  ASSUME TypeOK, NoLostWakeup, NEW w \in Workers,
         WorkerStep(w) \/ SpuriousWake(w)
  PROVE  NoLostWakeup'
<1>1. CASE TakeUrgent(w) \/ TakeTimed(w)
  <2>1. active' /\ pc' \in NotifyOne([pc EXCEPT ![w] = "taken"])
    BY Zenon, <1>1 DEF TakeUrgent, TakeTimed, Take, NotifyAfterTake
  <2>2. (\E v \in Workers : pc'[v] = "wait") => \E v \in Workers : pc'[v] = "idle"
    BY Zenon, <2>1, MoveAndNotify DEF WorkerStates
  <2>3. CASE Sleeping(pc') = {}
    BY Zenon, <2>3 DEF NoLostWakeup
  <2>4. CASE Sleeping(pc') # {}
    <3>1. WakeupComing'
      BY Zenon, <2>2, <2>4 DEF Sleeping, WakeupComing
    <3> QED
      BY Zenon, <2>1, <3>1, AwakeSuffices
  <2> QED
    BY Zenon, <2>3, <2>4
<1>2. CASE Sleep(w)
  <2>1. active' /\ urgent' = <<>> /\ timed' = timed /\ nextRun' = nextRun
        /\ pc' = [pc EXCEPT ![w] = "wait"]
    BY Zenon, <1>2 DEF Sleep, queueVars
  <2>2. CASE timed = {}
    BY Zenon, <2>1, <2>2 DEF NoLostWakeup
  <2>3. CASE timed # {}
    <3>1. PICK j \in timed : IsTop(j) /\ deadline' = [deadline EXCEPT ![w] = nextRun[j]]
      BY Zenon, <1>2, <2>3 DEF Sleep
    <3>2. nextRun[j] \in Nat /\ \A k \in timed : nextRun[k] \in Nat
      BY Zenon DEF TypeOK
    <3>3. \A k \in timed : nextRun[j] <= nextRun[k]
      BY <3>1, <3>2 DEF IsTop
    <3>4. SleepsUntilDue(w)'
      BY Zenon, <2>1, <3>1, <3>2, <3>3, ConstantsAssumption DEF SleepsUntilDue, TypeOK
    <3> QED
      BY Zenon, <2>1, <3>4 DEF NoLostWakeup
  <2> QED
    BY Zenon, <2>2, <2>3
<1>3. CASE Exit(w)
  <2>1. ~active /\ active' = active /\ owner' = owner
        /\ pc' = [pc EXCEPT ![w] = "exited"]
    BY Zenon, <1>3 DEF Exit
  <2>2. Sleeping(pc') # {} => Sleeping(pc) # {}
    BY Zenon, <2>1 DEF Sleeping, TypeOK
  <2> QED
    BY Zenon, <2>1, <2>2 DEF NoLostWakeup
<1>4. CASE TimeOut(w) \/ SpuriousWake(w)
  <2>1. /\ UNCHANGED <<active, urgent, timed, nextRun, owner, caller>>
        /\ pc' = [pc EXCEPT ![w] = "idle"] /\ ClearWoken
    BY Zenon, <1>4 DEF TimeOut, SpuriousWake, queueVars
  <2>2. WakeupComing'
    BY Zenon, <2>1 DEF WakeupComing, TypeOK
  <2> QED
    BY Zenon, <2>1, <2>2, WakeupKept DEF ClearWoken, TypeOK
<1>5. CASE Begin(w) \/ Finish(w) \/ Settle(w)
  <2>1. /\ UNCHANGED <<active, urgent, timed, nextRun, owner, caller, deadline>>
        /\ pc' = [pc EXCEPT ![w] = pc'[w]] /\ pc'[w] # "wait"
        /\ pc[w] \notin {"idle", "signal", "wait"}
    BY Zenon, <1>5 DEF Begin, Finish, Settle, queueVars, TypeOK
  <2>2. WakeupComing => WakeupComing'
    BY Zenon, <2>1 DEF WakeupComing, TypeOK
  <2>3. \A v \in Workers \ {w} : pc'[v] = pc[v]
    BY Zenon, <2>1 DEF TypeOK
  <2> QED
    BY Zenon, <2>1, <2>2, <2>3, WakeupKept
<1>6. CASE Reschedule(w)
  <2>1. CASE Requeue(w)
    <3>1. active' /\ WakeupComing'
      BY Zenon, <1>6, <2>1 DEF Reschedule, Requeue, WakeupComing, TypeOK
    <3> QED
      BY Zenon, <3>1, AwakeSuffices
  <2>2. CASE DropStopped(w)
    <3>1. ~active /\ active' = active /\ owner' = owner
          /\ pc' = [pc EXCEPT ![w] = "idle"]
      BY Zenon, <1>6, <2>2 DEF Reschedule, DropStopped
    <3>2. Sleeping(pc') # {} => Sleeping(pc) # {}
      BY Zenon, <3>1 DEF Sleeping, TypeOK
    <3> QED
      BY Zenon, <3>1, <3>2 DEF NoLostWakeup
  <2> QED
    BY Zenon, <1>6, <2>1, <2>2 DEF Reschedule
<1>7. CASE NotifyRequeued(w)
  <2>1. /\ UNCHANGED <<active, urgent, timed, nextRun, owner>>
        /\ ClearWoken /\ pc[w] = "signal"
    BY Zenon, <1>7 DEF NotifyRequeued, queueVars
  <2>2. /\ pc'[w] = "idle"
        /\ \A v \in Workers \ {w} :
             pc'[v] = pc[v] \/ (pc[v] = "wait" /\ pc'[v] = "idle")
    BY Zenon, <1>7, MoveAndNotify DEF NotifyRequeued, WorkerStates
  <2>3. WakeupComing'
    BY Zenon, <2>2 DEF WakeupComing
  <2> QED
    BY Zenon, <2>1, <2>2, <2>3, WakeupKept DEF ClearWoken
<1> QED
  BY Zenon, <1>1, <1>2, <1>3, <1>4, <1>5, <1>6, <1>7 DEF WorkerStep

(* No step of another thread loses a wakeup.                                *)
LEMMA ClientStepWakeups ==
  ASSUME TypeOK, NoLostWakeup,
         \/ \E j \in Jobs : Reject(j) \/ NotifyAdded(j)
         \/ \E j \in Urgent : AddUrgent(j)
         \/ \E j \in Timed : AddTimed(j)
         \/ \E p \in Periodic : Cancel(p)
         \/ \E o \in Stoppers \cup Owners :
              Shutdown(o) \/ NotifyStopped(o) \/ Join(o)
         \/ Tick
  PROVE  NoLostWakeup'
<1>1. ASSUME NEW j \in Jobs, Reject(j) PROVE NoLostWakeup'
  <2>1. UNCHANGED <<active, urgent, timed, nextRun, owner, pc, deadline>>
    BY Zenon, <1>1 DEF Reject, queueVars
  <2>2. WakeupComing => WakeupComing'
    BY Zenon, <1>1, <2>1 DEF Reject, WakeupComing, TypeOK
  <2> QED
    BY Zenon, <2>1, <2>2, WakeupKept
<1>2. ASSUME NEW j \in Jobs, NotifyAdded(j) PROVE NoLostWakeup'
  <2>1. /\ UNCHANGED <<active, urgent, timed, nextRun, owner>>
        /\ ClearWoken /\ pc' \in NotifyOne(pc)
    BY Zenon, <1>2 DEF NotifyAdded, queueVars
  <2>2. /\ \A v \in Workers : pc'[v] = pc[v] \/ (pc[v] = "wait" /\ pc'[v] = "idle")
        /\ Sleeping(pc) # {} => \E v \in Workers : pc'[v] = "idle"
    BY ZenonT(30), <2>1, NotifyOneWakes DEF TypeOK
  <2>3. Sleeping(pc') # {} => WakeupComing'
    BY Zenon, <2>2 DEF Sleeping, WakeupComing
  <2> QED
    BY Zenon, <2>1, <2>2, <2>3, WakeupKept DEF ClearWoken
<1>3. ASSUME NEW j \in Urgent, AddUrgent(j) PROVE NoLostWakeup'
  <2>1. active' /\ WakeupComing'
    BY Zenon, <1>3 DEF AddUrgent, WakeupComing, TypeOK, Jobs
  <2> QED
    BY Zenon, <2>1, AwakeSuffices
<1>4. ASSUME NEW j \in Timed, AddTimed(j) PROVE NoLostWakeup'
  <2>1. active' /\ WakeupComing'
    BY Zenon, <1>4 DEF AddTimed, WakeupComing, TypeOK, Jobs
  <2> QED
    BY Zenon, <2>1, AwakeSuffices
<1>5. ASSUME NEW p \in Periodic, Cancel(p) PROVE NoLostWakeup'
  <2>1. UNCHANGED <<active, urgent, timed, nextRun, owner, pc, deadline, caller>>
    BY Zenon, <1>5 DEF Cancel, queueVars
  <2> QED
    BY Zenon, <2>1, WakeupKept DEF WakeupComing
<1>6. ASSUME NEW o \in Stoppers \cup Owners, Shutdown(o) PROVE NoLostWakeup'
  <2>1. owner[o] = "out" /\ pc' = pc
    BY Zenon, <1>6 DEF Shutdown
  <2>2. CASE Discard(o)
    BY Zenon, <2>2 DEF Discard, NoLostWakeup, TypeOK
  <2>3. CASE ~Discard(o)
    BY Zenon, <1>6, <2>1, <2>3 DEF Shutdown, NoLostWakeup, TypeOK
  <2> QED
    BY Zenon, <2>2, <2>3
<1>7. ASSUME NEW o \in Stoppers \cup Owners, NotifyStopped(o) PROVE NoLostWakeup'
  <2>1. pc' = NotifyAll(pc)
    BY Zenon, <1>7 DEF NotifyStopped, WakeForShutdown
  <2>2. pc \in [Workers -> WorkerStates]
    BY Zenon DEF TypeOK
  <2>3. \A v \in Workers : pc'[v] # "wait"
    BY Zenon, <2>1, <2>2, NotifyAllWakes
  <2> QED
    BY Zenon, <2>3 DEF NoLostWakeup, Sleeping
<1>8. ASSUME NEW o \in Stoppers \cup Owners, Join(o) PROVE NoLostWakeup'
  <2>1. \A v \in Workers : pc'[v] # "wait"
    BY Zenon, <1>8 DEF Join
  <2> QED
    BY Zenon, <2>1 DEF NoLostWakeup, Sleeping
<1>9. ASSUME Tick PROVE NoLostWakeup'
  <2>1. UNCHANGED <<active, urgent, timed, nextRun, owner, pc, deadline, caller>>
    BY Zenon, <1>9 DEF Tick, queueVars
  <2> QED
    BY Zenon, <2>1, WakeupKept DEF WakeupComing
<1> QED
  BY Zenon, <1>1, <1>2, <1>3, <1>4, <1>5, <1>6, <1>7, <1>8, <1>9

(* No wakeup is ever lost, whatever the number of workers: the notification *)
(* a worker sends when it takes an entry, the ones that follow a push and   *)
(* the deadlines of wait_until cover all queued work between them, and      *)
(* shutdown() leaves nobody asleep for good.                                *)
THEOREM WakeupsNeverLost == Spec => []NoLostWakeup
<1>1. Init => NoLostWakeup
  BY Zenon DEF Init, NoLostWakeup, Sleeping
<1>2. TypeOK /\ NoLostWakeup /\ [Next]_vars => NoLostWakeup'
  <2>1. ASSUME NoLostWakeup, UNCHANGED vars PROVE NoLostWakeup'
    BY Zenon, <2>1, WakeupKept DEF vars, queueVars, WakeupComing
  <2> QED
    BY Zenon, <2>1, WorkerStepWakeups, ClientStepWakeups DEF Next, Terminated
<1> QED
  BY <1>1, <1>2, TypeCorrect, PTL DEF Spec

(* A thread past shutdown() left the queue stopped, and one that returned   *)
(* from wait() left every worker exited.                                    *)
TeardownInv ==
  /\ (\E o \in Stoppers \cup Owners : owner[o] # "out") => ~active
  /\ (\E o \in Owners : owner[o] = "done") => \A w \in Workers : pc[w] = "exited"

(* No worker revives the queue, and none leaves its exit.                   *)
LEMMA WorkerStepTeardown ==
  ASSUME TypeOK, TeardownInv, NEW w \in Workers,
         WorkerStep(w) \/ SpuriousWake(w)
  PROVE  TeardownInv'
<1>1. active' = active /\ owner' = owner /\ pc[w] # "exited"
  BY Zenon DEF WorkerStep, TakeUrgent, TakeTimed, Take, Sleep, Exit, TimeOut, Begin,
         Finish, Settle, Reschedule, NotifyRequeued, SpuriousWake
<1> QED
  BY Zenon, <1>1 DEF TeardownInv

(* Submissions and cancellations leave a torn down queue as it is, and so   *)
(* do shutdown() and wait().                                                *)
LEMMA ClientStepTeardown ==
  ASSUME TypeOK, TeardownInv,
         \/ \E j \in Jobs : Reject(j) \/ NotifyAdded(j)
         \/ \E j \in Urgent : AddUrgent(j)
         \/ \E j \in Timed : AddTimed(j)
         \/ \E p \in Periodic : Cancel(p)
         \/ \E o \in Stoppers \cup Owners :
              Shutdown(o) \/ NotifyStopped(o) \/ Join(o)
         \/ Tick
  PROVE  TeardownInv'
<1>1. CASE \/ \E j \in Jobs : Reject(j)
           \/ \E j \in Urgent : AddUrgent(j)
           \/ \E j \in Timed : AddTimed(j)
           \/ \E p \in Periodic : Cancel(p)
           \/ Tick
  <2>1. UNCHANGED <<active, owner, pc>>
    BY Zenon, <1>1 DEF Reject, AddUrgent, AddTimed, Cancel, Tick
  <2> QED
    BY Zenon, <2>1 DEF TeardownInv
<1>2. ASSUME NEW j \in Jobs, NotifyAdded(j) PROVE TeardownInv'
  <2>1. active' = active /\ owner' = owner /\ pc' \in NotifyOne(pc)
    BY Zenon, <1>2 DEF NotifyAdded
  <2>2. pc \in [Workers -> WorkerStates]
    BY Zenon DEF TypeOK
  <2>3. \A v \in Workers : pc[v] = "exited" => pc'[v] = "exited"
    BY Zenon, <2>1, <2>2, NotifyOneWakes
  <2> QED
    BY Zenon, <2>1, <2>3 DEF TeardownInv
<1>3. ASSUME NEW o \in Stoppers \cup Owners, Shutdown(o) PROVE TeardownInv'
  <2>1. /\ ~active' /\ pc' = pc
        /\ owner' = [owner EXCEPT ![o] = owner'[o]] /\ owner'[o] \in {"signal", AfterShutdown(o)}
    BY <1>3 DEF Shutdown, Discard, TypeOK
  <2>2. o \in Owners => owner'[o] # "done"
    BY Zenon, <2>1 DEF AfterShutdown
  <2> QED
    BY Zenon, <2>1, <2>2 DEF TeardownInv, TypeOK
<1>4. ASSUME NEW o \in Stoppers \cup Owners, NotifyStopped(o) PROVE TeardownInv'
  <2>1. /\ owner[o] = "signal" /\ active' = active /\ pc' = NotifyAll(pc)
        /\ owner' = [owner EXCEPT ![o] = AfterShutdown(o)]
    BY Zenon, <1>4 DEF NotifyStopped, WakeForShutdown
  <2>2. pc \in [Workers -> WorkerStates]
    BY Zenon DEF TypeOK
  <2>3. \A v \in Workers : pc[v] = "exited" => pc'[v] = "exited"
    BY Zenon, <2>1, <2>2, NotifyAllWakes
  <2>4. \A v \in Owners : owner'[v] = "done" => owner[v] = "done"
    BY Zenon, <2>1 DEF AfterShutdown, TypeOK
  <2> QED
    BY Zenon, <2>1, <2>3, <2>4 DEF TeardownInv
<1>5. ASSUME NEW o \in Stoppers \cup Owners, Join(o) PROVE TeardownInv'
  BY Zenon, <1>5 DEF Join, TeardownInv
<1> QED
  BY Zenon, <1>1, <1>2, <1>3, <1>4, <1>5

(* When wait() returns the pool is inert, whatever the number of workers,   *)
(* jobs and concurrent callers of shutdown() and wait().                    *)
THEOREM WaitReturnsInert == Spec => []WaitLeavesNothing
<1>1. Init => TeardownInv
  BY Zenon DEF Init, TeardownInv
<1>2. TypeOK /\ TeardownInv /\ [Next]_vars => TeardownInv'
  <2>1. ASSUME TeardownInv, UNCHANGED vars PROVE TeardownInv'
    BY Zenon, <2>1 DEF vars, TeardownInv
  <2> QED
    BY Zenon, <2>1, WorkerStepTeardown, ClientStepTeardown DEF Next, Terminated
<1>3. TypeOK /\ TeardownInv /\ HandleTruthful /\ StoppedIsEmpty
        => WaitLeavesNothing
  <2> SUFFICES ASSUME TypeOK, TeardownInv, HandleTruthful, StoppedIsEmpty,
                      NEW o \in Owners, owner[o] = "done"
               PROVE  /\ \A w \in Workers : pc[w] = "exited" /\ entry[w] = None
                      /\ urgent = <<>> /\ timed = {}
                      /\ \A p \in Periodic : ~periodicActive[p]
    BY Zenon DEF WaitLeavesNothing
  <2>1. ~active /\ \A w \in Workers : pc[w] = "exited"
    BY Zenon DEF TeardownInv
  <2>2. \A w \in Workers : entry[w] = None
    BY Zenon, <2>1 DEF TypeOK, Unloaded
  <2>3. urgent = <<>> /\ timed = {}
    BY Zenon, <2>1 DEF StoppedIsEmpty
  <2>4. \A p \in Periodic : ~periodicActive[p]
    BY Zenon, <2>1, <2>3 DEF HandleTruthful, Carried
  <2> QED
    BY Zenon, <2>1, <2>2, <2>3, <2>4
<1> QED
  BY <1>1, <1>2, <1>3, TypeCorrect, HandlesTruthful, StoppedQueueEmpty, PTL
     DEF Spec

(* What the pool promises in every state, for any number of workers, jobs   *)
(* and callers: no overlap, truthful handles, no lost wakeup, and nothing   *)
(* left when wait() has returned.                                           *)
THEOREM PoolCorrect == Spec => []PoolSound
<1>1. NeverOverlaps /\ HandleTruthful /\ NoLostWakeup /\ WaitLeavesNothing => PoolSound
  BY Zenon DEF PoolSound
<1> QED
  BY <1>1, NoOverlap, HandlesTruthful, WakeupsNeverLost, WaitReturnsInert, PTL

=============================================================================
