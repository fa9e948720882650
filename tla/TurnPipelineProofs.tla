-------------------------- MODULE TurnPipelineProofs --------------------------
(***************************************************************************)
(* TLAPS proofs about TurnPipeline: the steps of a thread that completes a  *)
(* node or a run preserve the invariant of TurnPipelineInvariant, and so it *)
(* holds in every reachable state, with what it implies.                    *)
(***************************************************************************)
EXTENDS TurnPipelineInvariant

(* The thread that took the completion runs the submitter's callback.       *)
LEMMA CallbackStep ==
  ASSUME PipelineAssumption, PipelineInv, NEW t \in Threads, Callback(t)
  PROVE  PipelineInv'
<1>1. PICK r : r = RunOf(t)
  BY Zenon
<1>2. /\ pc[t] = "callback" /\ pc' = [pc EXCEPT ![t] = "release"]
      /\ context' = [context EXCEPT ![r] = ContextAfter(r)]
      /\ completions' = [completions EXCEPT ![r] = @ + 1]
      /\ UNCHANGED <<pipelineVars, runVars, succeeded, answer, poolVars, job, todo>>
  BY Zenon, <1>1 DEF Callback, Goto
<1>3. r \in Runs /\ Created(r) /\ finished[r] /\ completions[r] = 0
  BY Zenon, <1>1, <1>2 DEF PipelineInv, Places, CompletedOnce, RunOf
<1>4. /\ pc'[t] = "release" /\ \A s \in Threads : s # t => pc'[s] = pc[s]
      /\ \A s \in Threads : RunOf(s)' = RunOf(s) /\ job'[s] = job[s]
      /\ completions'[r] = 1
      /\ \A q \in Runs : q # r => context'[q] = context[q] /\ completions'[q] = completions[q]
      /\ \A q \in Runs : context'[q] = "OK" => context[q] = "OK"
      /\ context'[r] \in {"OK", "FAILED"}
  BY <1>2, <1>3 DEF PipelineInv, Typed, RunOf, ContextAfter
<1>5. Typed'
  BY <1>2, <1>3, <1>4 DEF PipelineInv, Typed, pipelineVars, runVars, poolVars, ContextAfter
<1>6. /\ Places'
      /\ \A q \in Runs : Created(q)' <=> Created(q)
  <2>1. UNCHANGED <<plan, answer, queue, job>>
    BY Zenon, <1>2 DEF runVars, poolVars
  <2>2. job[t] \in Runs \X (Nodes \cup {NoNode}) /\ Created(RunOf(t))
    BY Zenon, <1>1, <1>2, <1>3 DEF PipelineInv, Places
  <2>3. \A i \in 1..Len(queue') :
          queue'[i] \in Jobs /\ Created(queue'[i][1]) /\ queue'[i][2] \in plan[queue'[i][1]]
    BY ZenonT(30), <2>1, QueueSound
  <2> QED
    BY Zenon, <1>2, <1>4, <2>1, <2>2, <2>3, PlacesFrame DEF Holding
<1>7. Untouched'
  BY <1>2, <1>3, <1>4, <1>6 DEF PipelineInv, Untouched, runVars
<1>8. \A s \in Threads :
        /\ pc'[s] \in Holding <=> pc[s] \in Holding
        /\ pc'[s] = "complete" <=> pc[s] = "complete"
        /\ \A q \in Runs : Scheduling(s, q)' => Scheduling(s, q)
  BY Zenon, <1>2, <1>4 DEF Holding, Scheduling, runVars
<1>9. /\ TicketsDistinct' /\ TodoFresh' /\ ReadyOnly' /\ Released' /\ JobsCounted' /\ Ordered'
  BY ZenonT(30), <1>2, <1>4, <1>5, <1>6, <1>7, <1>8, Frame DEF PipelineInv, JobsCounted,
     runVars, poolVars
<1>10. HandlersInOrder'
  BY <1>2, <1>4 DEF PipelineInv, HandlersInOrder, Threads
<1>11. \A s \in Threads : pc'[s] # "idle" => RunOf(s) \in Runs
  BY <1>2, <1>4 DEF PipelineInv, Places, RunOf
<1>12. CompletedOnce'
  <2>1. \A s, u \in Threads :
          pc'[s] \in {"callback", "release"} /\ pc'[u] \in {"callback", "release"}
            /\ RunOf(s)' = RunOf(u)' => s = u
    BY <1>2, <1>4 DEF PipelineInv, CompletedOnce
  <2>2. \A s \in Threads : pc'[s] \in {"callback", "release", "notify"} /\ Created(RunOf(s))' =>
          finished'[RunOf(s)']
    <3> SUFFICES ASSUME NEW s \in Threads, pc'[s] \in {"callback", "release", "notify"},
                        Created(RunOf(s))'
                 PROVE  finished[RunOf(s)]
      BY Zenon, <1>2, <1>4 DEF runVars
    <3>1. Created(RunOf(s))
      BY <1>4, <1>6, <1>11 DEF Created
    <3> QED
      BY ZenonT(30), <1>1, <1>3, <1>4, <3>1 DEF PipelineInv, CompletedOnce
  <2>3. \A s \in Threads : pc'[s] = "callback" => completions'[RunOf(s)'] = 0 /\ Created(RunOf(s))'
    <3> SUFFICES ASSUME NEW s \in Threads, pc'[s] = "callback"
                 PROVE  completions'[RunOf(s)] = 0 /\ Created(RunOf(s))'
      BY Zenon, <1>4
    <3>1. s # t /\ pc[s] = "callback" /\ RunOf(s) # r
      BY <1>1, <1>2, <1>4 DEF PipelineInv, CompletedOnce
    <3>2. completions[RunOf(s)] = 0 /\ Created(RunOf(s))
      BY Zenon, <3>1 DEF PipelineInv, CompletedOnce
    <3> QED
      BY <1>4, <1>6, <1>11, <3>1, <3>2 DEF Created
  <2>4. \A q \in Runs : completions'[q] <= 1 /\ (completions'[q] = 1 => finished'[q])
    BY <1>2, <1>3, <1>4 DEF PipelineInv, CompletedOnce, runVars
  <2> QED
    BY ZenonT(30), <2>1, <2>2, <2>3, <2>4 DEF CompletedOnce
<1>13. RunsCounted'
  <2>1. \A q \in Runs : (\E s \in Threads : pc'[s] \in {"callback", "release"} /\ RunOf(s)' = q)
                        <=> \E s \in Threads : pc[s] \in {"callback", "release"} /\ RunOf(s) = q
    BY <1>2, <1>4
  <2>2. \A q \in Runs : pc'[q] = "plan" <=> pc[q] = "plan"
    BY Zenon, <1>2, <1>4 DEF Threads
  <2>3. \A q \in Runs : Active(q)' <=> Active(q)
    BY Zenon, <1>2, <1>6, <2>1, <2>2 DEF Active, runVars
  <2>4. ActiveRuns' = ActiveRuns
    BY Zenon, <2>3 DEF ActiveRuns
  <2> QED
    BY Zenon, <1>2, <2>4 DEF PipelineInv, RunsCounted, pipelineVars
<1> QED
  BY ZenonT(30), <1>5, <1>6, <1>7, <1>9, <1>10, <1>12, <1>13 DEF PipelineInv

(* complete_run gives the pipeline back: one run fewer is active.           *)
LEMMA ReleaseStep ==
  ASSUME PipelineAssumption, PipelineInv, NEW t \in Threads, Release(t)
  PROVE  PipelineInv'
<1>1. /\ pc[t] = "release" /\ pc' = [pc EXCEPT ![t] = "notify"]
      /\ activeRuns' = activeRuns - 1
      /\ UNCHANGED <<registered, accepting, attached, owner, destroying, quiet, runVars,
                     turnVars, poolVars, job, todo>>
  BY Zenon DEF Release, Goto
<1>2. PICK r \in Runs : r = RunOf(t)
  BY Zenon, <1>1 DEF PipelineInv, Places, RunOf
<1>3. /\ pc'[t] = "notify" /\ \A s \in Threads : s # t => pc'[s] = pc[s]
      /\ \A s \in Threads : RunOf(s)' = RunOf(s) /\ job'[s] = job[s]
  BY Zenon, <1>1 DEF PipelineInv, Typed, RunOf
<1>4. /\ Places'
      /\ \A q \in Runs : Created(q)' <=> Created(q)
  <2>1. UNCHANGED <<plan, answer, queue, job>>
    BY Zenon, <1>1 DEF runVars, turnVars, poolVars
  <2>2. job[t] \in Runs \X (Nodes \cup {NoNode})
    BY Zenon, <1>1 DEF PipelineInv, Places
  <2>3. \A i \in 1..Len(queue') :
          queue'[i] \in Jobs /\ Created(queue'[i][1]) /\ queue'[i][2] \in plan[queue'[i][1]]
    BY Zenon, <2>1, QueueSound
  <2> QED
    BY ZenonT(30), <1>1, <1>3, <2>1, <2>2, <2>3, PlacesFrame DEF Holding
<1>5. \A s \in Threads : pc[s] \in {"callback", "release"} /\ RunOf(s) = r => s = t
  BY Zenon, <1>1, <1>2 DEF PipelineInv, CompletedOnce
<1>6. Active(r) /\ ~Active(r)'
  <2>1. Active(r)
    BY Zenon, <1>1, <1>2 DEF Active
  <2>2. ~\E s \in Threads : pc'[s] \in {"callback", "release"} /\ RunOf(s)' = r
    BY Zenon, <1>3, <1>5
  <2>3. Created(r) => finished[r]
    BY Zenon, <1>1, <1>2 DEF PipelineInv, CompletedOnce
  <2>4. pc'[r] # "plan"
    <3>1. Created(r) \/ t = r
      BY Zenon, <1>1, <1>2 DEF PipelineInv, Places
    <3> QED
      BY Zenon, <1>1, <1>3, <3>1 DEF Created, Threads
  <2> QED
    BY Zenon, <1>1, <1>4, <2>1, <2>2, <2>3, <2>4 DEF Active, runVars
<1>7. \A q \in Runs : q # r => (Active(q)' <=> Active(q))
  <2>1. \A q \in Runs : q # r =>
          ((\E s \in Threads : pc'[s] \in {"callback", "release"} /\ RunOf(s)' = q)
             <=> \E s \in Threads : pc[s] \in {"callback", "release"} /\ RunOf(s) = q)
    BY Zenon, <1>2, <1>3
  <2>2. \A q \in Runs : pc'[q] = "plan" <=> pc[q] = "plan"
    BY Zenon, <1>1, <1>3 DEF Threads
  <2> QED
    BY Zenon, <1>1, <1>4, <2>1, <2>2 DEF Active, runVars
<1>8. /\ activeRuns = Cardinality(ActiveRuns) /\ activeRuns \in Nat /\ activeRuns > 0
      /\ activeRuns' = Cardinality(ActiveRuns')
  <2>1. ActiveRuns \subseteq Runs /\ r \in ActiveRuns /\ ActiveRuns' = ActiveRuns \ {r}
    BY Zenon, <1>6, <1>7 DEF ActiveRuns
  <2>2. IsFiniteSet(Runs)
    BY Zenon DEF PipelineAssumption
  <2>3. /\ Cardinality(ActiveRuns) \in Nat /\ Cardinality(ActiveRuns) # 0
        /\ Cardinality(ActiveRuns \ {r}) = Cardinality(ActiveRuns) - 1
    BY Zenon, <2>1, <2>2, Counting
  <2>4. activeRuns = Cardinality(ActiveRuns)
    BY Zenon DEF PipelineInv, RunsCounted
  <2> QED
    BY <1>1, <2>1, <2>3, <2>4
<1>9. Typed'
  <2>1. activeRuns' \in Nat
    BY <1>1, <1>8
  <2> QED
    BY Zenon, <1>1, <2>1 DEF PipelineInv, Typed, runVars, turnVars, poolVars
<1>10. Untouched'
  BY Zenon, <1>1, <1>4 DEF PipelineInv, Untouched, runVars, turnVars
<1>11. \A s \in Threads :
         /\ pc'[s] \in Holding <=> pc[s] \in Holding
         /\ pc'[s] = "complete" <=> pc[s] = "complete"
         /\ \A q \in Runs : Scheduling(s, q)' => Scheduling(s, q)
  BY Zenon, <1>1, <1>3 DEF Holding, Scheduling, runVars
<1>12. /\ TicketsDistinct' /\ TodoFresh' /\ ReadyOnly' /\ Released' /\ JobsCounted' /\ Ordered'
  BY ZenonT(30), <1>1, <1>4, <1>9, <1>10, <1>11, Frame DEF PipelineInv, JobsCounted, runVars,
     turnVars, poolVars
<1>13. HandlersInOrder'
  BY ZenonT(30), <1>1, <1>3 DEF PipelineInv, HandlersInOrder, Threads, turnVars
<1>14. CompletedOnce'
  <2>1. \A s \in Threads : pc[s] # "idle" => RunOf(s) \in Runs
    BY Zenon DEF PipelineInv, Places, RunOf
  <2>2. \A s \in Threads : pc[s] # "idle" => (Created(RunOf(s))' <=> Created(RunOf(s)))
    BY ZenonT(30), <1>3, <1>4, <2>1 DEF Created
  <2>3. \A s \in Threads : pc'[s] \in {"callback", "release", "notify"} =>
          pc[s] \in {"callback", "release", "notify"} /\ (pc'[s] = "callback" => pc[s] = "callback")
    BY Zenon, <1>1, <1>3
  <2> QED
    BY <1>1, <1>3, <2>2, <2>3 DEF PipelineInv, CompletedOnce, runVars, turnVars
<1>15. RunsCounted'
  BY <1>1, <1>8 DEF PipelineInv, RunsCounted
<1> QED
  BY ZenonT(30), <1>4, <1>9, <1>10, <1>12, <1>13, <1>14, <1>15 DEF PipelineInv

(* After the notification the thread is done, or goes on in the schedule()  *)
(* of a finished run.                                                       *)
LEMMA NotifyStep ==
  ASSUME PipelineAssumption, PipelineInv, NEW t \in Threads, Notify(t)
  PROVE  PipelineInv'
<1>1. /\ pc[t] = "notify" /\ owner' = NotifyDrained
      /\ UNCHANGED <<registered, accepting, attached, activeRuns, destroying, quiet,
                     runVars, context, succeeded, completions, poolVars, todo>>
  BY Zenon DEF Notify
<1>2. owner' \in {"idle", "asleep", "awake", "gone"}
      /\ (owner' \in {"asleep", "awake"} => owner \in {"asleep", "awake"})
  BY Zenon, <1>1 DEF PipelineInv, Typed, NotifyDrained
<1>3. CASE todo[t] = {}
  <2>1. /\ pc' = [pc EXCEPT ![t] = "idle"] /\ job' = [job EXCEPT ![t] = NoJob]
        /\ answer' = [r \in Runs |-> IF r = t /\ answer[r] = "none" THEN "OK" ELSE answer[r]]
    BY Zenon, <1>3 DEF Notify, Goto
  <2>2. \A r \in Runs : IF r = t THEN answer'[r] \in {answer[r], "OK"} /\ answer'[r] # "none"
                                      /\ (answer[r] # "none" => answer'[r] = answer[r])
                        ELSE answer'[r] = answer[r]
    BY Zenon, <2>1
  <2>3. /\ Places'
        /\ \A r \in Runs : (Created(r)' <=> Created(r)) /\ (pc'[r] = "plan" <=> pc[r] = "plan")
        /\ pc'[t] = "idle" /\ \A s \in Threads : s # t => pc'[s] = pc[s] /\ RunOf(s)' = RunOf(s)
                                                         /\ job'[s] = job[s]
    BY Zenon, <1>1, <2>1, <2>2, IdleFrame DEF runVars, poolVars
  <2>4. Typed'
    <3>1. answer' \in [Runs -> {"none", "OK", "INVALID_ARGUMENT"}]
      BY Zenon, <2>1 DEF PipelineInv, Typed
    <3> QED
      BY Zenon, <1>1, <1>2, <2>1, <3>1 DEF PipelineInv, Typed, runVars, poolVars
  <2>5. Untouched'
    BY Zenon, <1>1, <2>3 DEF PipelineInv, Untouched, runVars
  <2>6. \A s \in Threads :
          /\ pc'[s] \in Holding <=> pc[s] \in Holding
          /\ pc'[s] = "complete" <=> pc[s] = "complete"
          /\ pc[s] \in Holding => job'[s] = job[s]
          /\ \A r \in Runs : Scheduling(s, r)' => Scheduling(s, r)
    BY Zenon, <1>1, <2>3 DEF Holding, Scheduling, runVars
  <2>7. /\ TicketsDistinct' /\ TodoFresh' /\ ReadyOnly' /\ Released' /\ JobsCounted' /\ Ordered'
    BY ZenonT(30), <1>1, <2>3, <2>4, <2>5, <2>6, Frame DEF PipelineInv, JobsCounted, runVars,
       poolVars
  <2>8. HandlersInOrder'
    BY Zenon, <1>1, <2>3 DEF PipelineInv, HandlersInOrder, Threads
  <2>9. CompletedOnce' /\ RunsCounted'
    BY Zenon, <1>1, <1>2, <2>3, CompletionFrame DEF runVars
  <2> QED
    BY ZenonT(30), <2>3, <2>4, <2>5, <2>7, <2>8, <2>9 DEF PipelineInv
<1>4. CASE todo[t] # {}
  <2>1. pc' = [pc EXCEPT ![t] = "reserve"] /\ UNCHANGED <<job, answer>>
    BY Zenon, <1>4 DEF Notify, Goto
  <2>2. /\ pc'[t] = "reserve" /\ \A s \in Threads : s # t => pc'[s] = pc[s]
        /\ \A s \in Threads : RunOf(s)' = RunOf(s) /\ job'[s] = job[s]
    BY Zenon, <2>1 DEF PipelineInv, Typed, RunOf
  <2>3. Created(RunOf(t)) /\ finished[RunOf(t)] /\ RunOf(t) \in Runs
        /\ job[t] \in Runs \X (Nodes \cup {NoNode})
    <3>1. Created(RunOf(t))
      BY Zenon, <1>1, <1>4 DEF PipelineInv, Places, Untouched
    <3> QED
      BY Zenon, <1>1, <3>1 DEF PipelineInv, Places, CompletedOnce, RunOf
  <2>4. /\ Places'
        /\ \A r \in Runs : Created(r)' <=> Created(r)
    <3>1. \A i \in 1..Len(queue') :
            queue'[i] \in Jobs /\ Created(queue'[i][1]) /\ queue'[i][2] \in plan[queue'[i][1]]
      BY Zenon, <1>1, QueueSound DEF poolVars
    <3> QED
      BY ZenonT(30), <1>1, <2>1, <2>2, <2>3, <3>1, PlacesFrame DEF Holding, runVars
  <2>5. Typed'
    BY ZenonT(30), <1>1, <1>2, <2>1 DEF PipelineInv, Typed, runVars, poolVars
  <2>6. Untouched'
    BY Zenon, <1>1, <2>4 DEF PipelineInv, Untouched, runVars
  <2>7. \A s \in Threads :
          /\ pc'[s] \in Holding <=> pc[s] \in Holding
          /\ pc'[s] = "complete" <=> pc[s] = "complete"
          /\ \A r \in Runs : Scheduling(s, r)' => Scheduling(s, r)
    BY Zenon, <1>1, <2>2, <2>3 DEF Holding, Scheduling, runVars
  <2>8. /\ TicketsDistinct' /\ TodoFresh' /\ ReadyOnly' /\ Released' /\ JobsCounted' /\ Ordered'
    BY ZenonT(30), <1>1, <2>1, <2>4, <2>5, <2>6, <2>7, Frame DEF PipelineInv, JobsCounted,
       runVars, poolVars
  <2>9. HandlersInOrder'
    BY Zenon, <1>1, <2>2 DEF PipelineInv, HandlersInOrder, Threads
  <2>10. CompletedOnce' /\ RunsCounted'
    <3>1. \A r \in Runs : pc'[r] = "plan" <=> pc[r] = "plan"
      BY Zenon, <1>1, <2>2 DEF Threads
    <3> QED
      BY ZenonT(30), <1>1, <1>2, <2>2, <2>4, <3>1, CompletionFrame DEF runVars
  <2> QED
    BY ZenonT(30), <2>4, <2>5, <2>6, <2>8, <2>9, <2>10 DEF PipelineInv
<1> QED
  BY Zenon, <1>3, <1>4

(* The thread that sees the run quiesce takes its completion: the run stays *)
(* active, now by that thread, and no other thread has a callback to run.   *)
LEMMA Taken ==
  ASSUME PipelineInv, NEW t \in Threads, NEW r \in Runs, r = RunOf(t),
         pc[t] \in {"reserve", "reject"}, ~finished[r],
         pc' = [pc EXCEPT ![t] = "callback"], finished' = [finished EXCEPT ![r] = TRUE],
         UNCHANGED <<pipelineVars, completions, answer, job>>,
         \A q \in Runs : Created(q)' <=> Created(q)
  PROVE  CompletedOnce' /\ RunsCounted'
<1>1. /\ pc'[t] = "callback" /\ \A s \in Threads : s # t => pc'[s] = pc[s]
      /\ \A s \in Threads : RunOf(s)' = RunOf(s)
      /\ finished'[r] /\ \A q \in Runs : q # r => finished'[q] = finished[q]
  BY Zenon DEF PipelineInv, Typed, RunOf
<1>2. \A s \in Threads : pc[s] # "idle" => RunOf(s) \in Runs
  BY Zenon DEF PipelineInv, Places, RunOf
<1>3. \A s \in Threads : pc[s] # "idle" => (Created(RunOf(s))' <=> Created(RunOf(s)))
  BY <1>1, <1>2 DEF Created
<1>4. Created(r)
  BY Zenon DEF PipelineInv, Places
<1>5. \A s \in Threads : pc[s] \in {"callback", "release", "notify"} => RunOf(s) # r
  BY Zenon, <1>4 DEF PipelineInv, CompletedOnce
<1>6. completions[r] = 0
  <2>1. completions[r] \in Nat /\ completions[r] <= 1 /\ completions[r] # 1
    BY Zenon DEF PipelineInv, Typed, CompletedOnce
  <2> QED
    BY <2>1
<1>7. CompletedOnce'
  <2>1. \A s, u \in Threads :
          pc'[s] \in {"callback", "release"} /\ pc'[u] \in {"callback", "release"}
            /\ RunOf(s)' = RunOf(u)' => s = u
    BY <1>1, <1>5 DEF PipelineInv, CompletedOnce
  <2>2. \A s \in Threads : pc'[s] \in {"callback", "release", "notify"} /\ Created(RunOf(s))' =>
          finished'[RunOf(s)']
    <3> SUFFICES ASSUME NEW s \in Threads, s # t, pc[s] \in {"callback", "release", "notify"},
                        Created(RunOf(s))'
                 PROVE  finished'[RunOf(s)]
      BY ZenonT(30), <1>1
    <3>1. Created(RunOf(s)) /\ RunOf(s) \in Runs
      BY Zenon, <1>2, <1>3
    <3> QED
      BY <1>1, <1>5, <3>1 DEF PipelineInv, CompletedOnce
  <2>3. \A s \in Threads : pc'[s] = "callback" => completions'[RunOf(s)'] = 0 /\ Created(RunOf(s))'
    <3> SUFFICES ASSUME NEW s \in Threads, pc'[s] = "callback"
                 PROVE  completions[RunOf(s)] = 0 /\ Created(RunOf(s))'
      BY Zenon, <1>1
    <3>1. CASE s = t
      BY Zenon, <1>3, <1>4, <1>6, <3>1
    <3>2. CASE s # t
      BY Zenon, <1>1, <1>3, <3>2 DEF PipelineInv, CompletedOnce
    <3> QED
      BY Zenon, <3>1, <3>2
  <2>4. \A q \in Runs : completions'[q] <= 1 /\ (completions'[q] = 1 => finished'[q])
    <3> SUFFICES ASSUME NEW q \in Runs
                 PROVE  completions[q] <= 1 /\ (completions[q] = 1 => finished'[q])
      BY Zenon
    <3>1. completions[q] <= 1 /\ (completions[q] = 1 => finished[q])
      BY Zenon DEF PipelineInv, CompletedOnce
    <3> QED
      BY Zenon, <1>1, <3>1
  <2> QED
    BY ZenonT(30), <2>1, <2>2, <2>3, <2>4 DEF CompletedOnce
<1>8. RunsCounted'
  <2>1. Active(r) /\ Active(r)'
    BY Zenon, <1>1, <1>4 DEF Active
  <2>2. \A q \in Runs : pc'[q] = "plan" <=> pc[q] = "plan"
    BY Zenon, <1>1 DEF Threads
  <2>3. \A q \in Runs : q # r =>
          ((\E s \in Threads : pc'[s] \in {"callback", "release"} /\ RunOf(s)' = q)
             <=> \E s \in Threads : pc[s] \in {"callback", "release"} /\ RunOf(s) = q)
    BY ZenonT(30), <1>1
  <2>4. \A q \in Runs : q # r => (Active(q)' <=> Active(q))
    BY <1>1, <2>2, <2>3 DEF Active
  <2>5. ActiveRuns' = ActiveRuns
    BY Zenon, <2>1, <2>4 DEF ActiveRuns
  <2> QED
    BY Zenon, <2>5 DEF PipelineInv, RunsCounted, pipelineVars
<1> QED
  BY Zenon, <1>7, <1>8

(* The second critical section of complete().                               *)
LEMMA SettleStep ==
  ASSUME PipelineAssumption, PipelineInv, NEW w \in Workers, Settle(w)
  PROVE  PipelineInv'
<1>1. /\ pc[w] = "reserve" /\ w \in Threads
      /\ UNCHANGED <<pipelineVars, plan, remDeps, remNodes, running, status, turnVars, poolVars, todo>>
  BY Zenon DEF Settle, Threads
<1>2. PICK r \in Runs : r = RunOf(w) /\ Created(r)
  BY Zenon, <1>1 DEF PipelineInv, Places, RunOf
<1>3. PICK take \in BOOLEAN : take = TakeCompletion(r, running[r], status[r], remNodes[r])
  BY Zenon DEF TakeCompletion
<1>4. /\ take => ~finished[r] /\ running[r] = 0
      /\ finished' = [finished EXCEPT ![r] = @ \/ take]
      /\ IF take THEN pc' = [pc EXCEPT ![w] = "callback"] /\ UNCHANGED job
                 ELSE pc' = [pc EXCEPT ![w] = "idle"] /\ job' = [job EXCEPT ![w] = NoJob]
  BY Zenon, <1>2, <1>3 DEF Settle, Goto, TakeCompletion
<1>5. CASE take
  <2>1. /\ ~finished[r] /\ running[r] = 0 /\ pc' = [pc EXCEPT ![w] = "callback"] /\ UNCHANGED job
        /\ finished' = [finished EXCEPT ![r] = TRUE]
    BY Zenon, <1>4, <1>5
  <2>2. finished' \in [Runs -> BOOLEAN]
    BY Zenon, <2>1 DEF PipelineInv, Typed
  <2>3. /\ pc'[w] = "callback" /\ \A s \in Threads : s # w => pc'[s] = pc[s]
        /\ \A s \in Threads : RunOf(s)' = RunOf(s) /\ job'[s] = job[s]
        /\ finished'[r] /\ \A q \in Runs : q # r => finished'[q] = finished[q]
    BY Zenon, <1>1, <2>1 DEF PipelineInv, Typed, RunOf
  <2>4. Typed'
    BY ZenonT(30), <1>1, <2>1, <2>2 DEF PipelineInv, Typed, pipelineVars, turnVars, poolVars
  <2>5. /\ Places'
        /\ \A q \in Runs : Created(q)' <=> Created(q)
    <3>1. job[w] \in Runs \X (Nodes \cup {NoNode})
      BY Zenon, <1>1 DEF PipelineInv, Places
    <3>2. \A i \in 1..Len(queue') :
            queue'[i] \in Jobs /\ Created(queue'[i][1]) /\ queue'[i][2] \in plan[queue'[i][1]]
      BY Zenon, <1>1, QueueSound DEF poolVars
    <3> QED
      BY SMTT(20), <1>1, <1>2, <2>1, <2>3, <3>1, <3>2, PlacesFrame DEF Holding, turnVars
  <2>6. Untouched'
    BY ZenonT(30), <1>1, <1>2, <2>3, <2>5 DEF PipelineInv, Untouched, turnVars
  <2>7. \A s \in Threads :
          /\ pc'[s] \in Holding <=> pc[s] \in Holding
          /\ pc'[s] = "complete" <=> pc[s] = "complete"
          /\ \A q \in Runs : Scheduling(s, q)' => Scheduling(s, q)
    BY Zenon, <1>1, <2>3 DEF Holding, Scheduling
  <2>8. \A q \in Runs : (finished[q] => finished'[q]) /\ (finished'[q] => running[q] = 0)
    BY Zenon, <2>1, <2>3 DEF PipelineInv, JobsCounted
  <2>9. /\ TicketsDistinct' /\ TodoFresh' /\ ReadyOnly' /\ Released' /\ JobsCounted' /\ Ordered'
    BY ZenonT(30), <1>1, <2>1, <2>4, <2>5, <2>6, <2>7, <2>8, Frame DEF turnVars, poolVars
  <2>10. HandlersInOrder'
    BY <1>1, <2>3 DEF PipelineInv, HandlersInOrder, Threads, turnVars
  <2>11. CompletedOnce' /\ RunsCounted'
    BY ZenonT(30), <1>1, <1>2, <2>1, <2>5, Taken DEF turnVars
  <2> QED
    BY ZenonT(30), <2>4, <2>5, <2>6, <2>9, <2>10, <2>11 DEF PipelineInv
<1>6. CASE ~take
  <2>1. /\ pc' = [pc EXCEPT ![w] = "idle"] /\ job' = [job EXCEPT ![w] = NoJob]
        /\ finished' = finished
    BY <1>4, <1>6 DEF PipelineInv, Typed
  <2>2. w \notin Runs
    BY Zenon DEF PipelineAssumption
  <2>3. /\ Places'
        /\ \A q \in Runs : (Created(q)' <=> Created(q)) /\ (pc'[q] = "plan" <=> pc[q] = "plan")
        /\ pc'[w] = "idle" /\ \A s \in Threads : s # w => pc'[s] = pc[s] /\ RunOf(s)' = RunOf(s)
                                                         /\ job'[s] = job[s]
    BY ZenonT(30), <1>1, <2>1, <2>2, IdleFrame DEF turnVars, poolVars
  <2>4. Typed'
    BY Zenon, <1>1, <2>1 DEF PipelineInv, Typed, pipelineVars, turnVars, poolVars
  <2>5. Untouched'
    BY Zenon, <1>1, <2>1, <2>3 DEF PipelineInv, Untouched, turnVars
  <2>6. \A s \in Threads :
          /\ pc'[s] \in Holding <=> pc[s] \in Holding
          /\ pc'[s] = "complete" <=> pc[s] = "complete"
          /\ pc[s] \in Holding => job'[s] = job[s]
          /\ \A q \in Runs : Scheduling(s, q)' => Scheduling(s, q)
    BY Zenon, <1>1, <2>1, <2>3 DEF Holding, Scheduling
  <2>7. /\ TicketsDistinct' /\ TodoFresh' /\ ReadyOnly' /\ Released' /\ JobsCounted' /\ Ordered'
    BY ZenonT(30), <1>1, <2>1, <2>3, <2>4, <2>5, <2>6, Frame DEF PipelineInv, JobsCounted,
       turnVars, poolVars
  <2>8. HandlersInOrder'
    BY Zenon, <1>1, <2>3 DEF PipelineInv, HandlersInOrder, Threads, turnVars
  <2>9. CompletedOnce' /\ RunsCounted'
    BY ZenonT(30), <1>1, <2>1, <2>3, CompletionFrame DEF turnVars, pipelineVars
  <2> QED
    BY ZenonT(30), <2>3, <2>4, <2>5, <2>7, <2>8, <2>9 DEF PipelineInv
<1> QED
  BY Zenon, <1>5, <1>6

(* A thread gives up the ticket of a node: nobody else has that ticket.     *)
LEMMA Surrender ==
  ASSUME PipelineInv, NEW t \in Threads, pc[t] \in Holding, pc'[t] \notin Holding,
         \A s \in Threads : s # t => pc'[s] = pc[s],
         UNCHANGED <<job, queue>>,
         NEW r \in Runs, NEW n \in Nodes, job[t] = <<r, n>>
  PROVE  /\ TicketsDistinct'
         /\ Ticketed(r)' = Ticketed(r) \ {n}
         /\ \A q \in Runs : q # r => Ticketed(q)' = Ticketed(q)
<1>1. TicketsDistinct'
  BY ZenonT(30) DEF PipelineInv, TicketsDistinct
<1>2. ASSUME NEW q \in Runs, NEW m \in Nodes
      PROVE  m \in Ticketed(q)' <=> m \in Ticketed(q) /\ ~(q = r /\ m = n)
  <2>1. CASE q = r /\ m = n
    <3>1. ~Queued(q, m)
      BY Zenon, <2>1 DEF PipelineInv, TicketsDistinct, Queued
    <3>2. \A s \in Threads : ~Holds(s, q, m)'
      BY Zenon, <2>1 DEF PipelineInv, TicketsDistinct, Holds
    <3> QED
      BY Zenon, <2>1, <3>1, <3>2 DEF Ticketed, Queued
  <2>2. CASE ~(q = r /\ m = n)
    <3>1. job[t] # <<q, m>>
      BY <2>2
    <3>2. \A s \in Threads : Holds(s, q, m)' <=> Holds(s, q, m)
      BY Zenon, <3>1 DEF Holds
    <3> QED
      BY Zenon, <2>2, <3>2 DEF Ticketed, Queued
  <2> QED
    BY Zenon, <2>1, <2>2
<1>3. \A q \in Runs : Ticketed(q) \subseteq Nodes /\ Ticketed(q)' \subseteq Nodes
  BY Zenon DEF Ticketed
<1>4. Ticketed(r)' = Ticketed(r) \ {n}
  BY Zenon, <1>2, <1>3
<1>5. \A q \in Runs : q # r => Ticketed(q)' = Ticketed(q)
  BY Zenon, <1>2, <1>3
<1> QED
  BY ZenonT(30), <1>1, <1>4, <1>5

(* A refused wrapper fails the run, and completes it when it was the last.  *)
LEMMA RejectStep ==
  ASSUME PipelineAssumption, PipelineInv, NEW t \in Threads, Reject(t)
  PROVE  PipelineInv'
<1>1. PICK r, n : r = RunOf(t) /\ n = job[t][2]
  BY Zenon
<1>2. PICK take \in BOOLEAN :
        take = TakeCompletion(r, running[r] - 1, "WORKER_SUBMISSION_FAILED", remNodes[r])
  BY Zenon DEF TakeCompletion
<1>3. /\ pc[t] = "reject" /\ running' = [running EXCEPT ![r] = @ - 1]
      /\ status' = [status EXCEPT ![r] = "WORKER_SUBMISSION_FAILED"]
      /\ finished' = [finished EXCEPT ![r] = @ \/ take]
      /\ pc' = [pc EXCEPT ![t] = IF take THEN "callback" ELSE "reserve"]
      /\ UNCHANGED <<pipelineVars, plan, remDeps, remNodes, turnVars, poolVars, job, todo>>
      /\ take => ~finished[r] /\ running[r] - 1 = 0
  BY Zenon, <1>1, <1>2 DEF Reject, Goto, TakeCompletion
<1>4. pc[t] \in Holding
  BY Zenon, <1>3 DEF Holding
<1>5. /\ r \in Runs /\ n \in Nodes /\ n \in plan[r] /\ job[t] = <<r, n>>
      /\ Created(r) /\ ~finished[r] /\ n \in Ticketed(r) /\ running[r] >= 1
  BY <1>1, <1>4, Holder
<1>6. running[r] \in Nat /\ finished[r] \in BOOLEAN
  BY Zenon, <1>5 DEF PipelineInv, Typed
<1>7. /\ pc'[t] = IF take THEN "callback" ELSE "reserve"
      /\ pc'[t] \notin Holding
      /\ \A s \in Threads : s # t => pc'[s] = pc[s]
      /\ \A s \in Threads : RunOf(s)' = RunOf(s) /\ job'[s] = job[s]
  BY Zenon, <1>3 DEF PipelineInv, Typed, RunOf, Holding
<1>8. /\ running'[r] = running[r] - 1 /\ \A q \in Runs : q # r => running'[q] = running[q]
      /\ status'[r] = "WORKER_SUBMISSION_FAILED" /\ \A q \in Runs : q # r => status'[q] = status[q]
  BY Zenon, <1>3, <1>5 DEF PipelineInv, Typed
<1>9. /\ finished' \in [Runs -> BOOLEAN]
      /\ finished'[r] <=> take
      /\ \A q \in Runs : q # r => finished'[q] = finished[q]
  BY ZenonT(30), <1>3, <1>5, <1>6 DEF PipelineInv, Typed
<1>10. Typed'
  <2>1. running' \in [Runs -> Nat]
    BY SMTT(20), <1>3, <1>5, <1>6 DEF PipelineInv, Typed
  <2> QED
    BY ZenonT(30), <1>3, <1>9, <2>1 DEF PipelineInv, Typed, pipelineVars, turnVars, poolVars
<1>11. /\ Places'
       /\ \A q \in Runs : Created(q)' <=> Created(q)
  <2>1. UNCHANGED <<plan, answer, queue, job>>
    BY Zenon, <1>3 DEF turnVars, poolVars
  <2>2. job[t] \in Runs \X (Nodes \cup {NoNode}) /\ Created(RunOf(t))
    BY Zenon, <1>1, <1>3, <1>5 DEF PipelineInv, Places
  <2>3. \A i \in 1..Len(queue') :
          queue'[i] \in Jobs /\ Created(queue'[i][1]) /\ queue'[i][2] \in plan[queue'[i][1]]
    BY ZenonT(30), <2>1, QueueSound
  <2> QED
    BY SMTT(20), <1>3, <1>7, <2>1, <2>2, <2>3, PlacesFrame DEF Holding
<1>12. Untouched'
  BY <1>3, <1>5, <1>8, <1>9, <1>11 DEF PipelineInv, Untouched, turnVars
<1>13. /\ TicketsDistinct' /\ Ticketed(r)' = Ticketed(r) \ {n}
       /\ \A q \in Runs : q # r => Ticketed(q)' = Ticketed(q)
  BY ZenonT(30), <1>3, <1>4, <1>5, <1>7, Surrender DEF poolVars
<1>14. \A s \in Threads, q \in Runs : Scheduling(s, q)' => q # r /\ Scheduling(s, q)
  BY <1>1, <1>3, <1>7, <1>8, <1>9 DEF Scheduling
<1>15. \A q \in Runs : Announced(q)' \subseteq Announced(q)
  BY Zenon, <1>3, <1>14 DEF Announced
<1>16. \A q \in Runs : Uncompleted(q)' \subseteq Uncompleted(q)
  BY Zenon, <1>3, <1>13, <1>15 DEF Uncompleted, Waiting
<1>17. \A s \in Threads : pc'[s] = "complete" <=> pc[s] = "complete"
  BY <1>3, <1>7
<1>18. \A q \in Runs : Done(q)' = Done(q)
  BY Zenon, <1>3, <1>17 DEF Done, turnVars
<1>19. TodoFresh'
  BY Zenon, <1>3, <1>13, <1>14 DEF PipelineInv, TodoFresh
<1>20. ReadyOnly'
  BY ZenonT(30), <1>3, <1>11, <1>13, <1>15 DEF PipelineInv, ReadyOnly
<1>21. Released' /\ Ordered'
  <2>1. \A q \in Runs, s \in Threads :
          context'[q] = "OK" /\ pc'[s] = "complete" /\ RunOf(s)' = q => job'[s][2] \in succeeded'[q]
    BY Zenon, <1>3, <1>7, <1>17 DEF PipelineInv, Ordered, turnVars
  <2> QED
    BY ZenonT(30), <1>3, <1>11, <1>16, <1>18, <2>1, OrderFrame DEF turnVars
<1>22. JobsCounted'
  <2>1. Cardinality(Ticketed(r)') = Cardinality(Ticketed(r)) - 1 /\ Cardinality(Ticketed(r)) \in Nat
    BY <1>5, <1>13, NodeSets, Counting DEF PipelineInv, PipelineAssumption
  <2>2. Cardinality(Ticketed(r)) <= running[r]
    BY Zenon, <1>5 DEF PipelineInv, JobsCounted
  <2>3. Cardinality(Ticketed(r)') <= running'[r] /\ (finished'[r] => running'[r] = 0)
    BY SMTT(20), <1>3, <1>6, <1>8, <1>9, <2>1, <2>2
  <2>4. \A q \in Runs : q # r =>
          Cardinality(Ticketed(q)') <= running'[q] /\ (finished'[q] => running'[q] = 0)
    BY ZenonT(30), <1>8, <1>9, <1>13 DEF PipelineInv, JobsCounted
  <2> QED
    BY ZenonT(30), <2>3, <2>4 DEF JobsCounted
<1>23. HandlersInOrder'
  BY <1>3, <1>7 DEF PipelineInv, HandlersInOrder, turnVars, Threads
<1>24. CompletedOnce' /\ RunsCounted'
  <2>1. CASE take
    <3>1. pc' = [pc EXCEPT ![t] = "callback"] /\ finished' = [finished EXCEPT ![r] = TRUE]
      BY Zenon, <1>3, <2>1
    <3> QED
      BY ZenonT(30), <1>1, <1>3, <1>5, <1>11, <3>1, Taken DEF turnVars
  <2>2. CASE ~take
    <3>1. finished' = finished
      BY Zenon, <1>3, <2>2 DEF PipelineInv, Typed
    <3>2. \A q \in Runs : pc'[q] = "plan" <=> pc[q] = "plan"
      BY <1>3, <1>7 DEF Threads
    <3>3. \A s \in Threads : /\ pc'[s] = "callback" <=> pc[s] = "callback"
                             /\ pc'[s] = "release" <=> pc[s] = "release"
                             /\ pc'[s] = "notify" => pc[s] = "notify"
      BY <1>3, <1>7, <2>2
    <3> QED
      BY ZenonT(30), <1>3, <1>7, <1>11, <3>1, <3>2, <3>3, CompletionFrame DEF turnVars,
         pipelineVars
  <2> QED
    BY Zenon, <2>1, <2>2
<1> QED
  BY ZenonT(30), <1>10, <1>11, <1>12, <1>13, <1>19, <1>20, <1>21, <1>22, <1>23,
     <1>24 DEF PipelineInv

(* The first critical section of complete(): the node is counted, and the   *)
(* dependents that only waited for it are ready.                            *)
LEMMA CompleteStep ==
  ASSUME PipelineAssumption, PipelineInv, NEW w \in Workers, Complete(w)
  PROVE  PipelineInv'
<1>1. PICK r, n : r = RunOf(w) /\ n = job[w][2] /\ r = job[w][1]
  BY Zenon DEF RunOf
<1>2. /\ pc[w] = "complete" /\ pc' = [pc EXCEPT ![w] = "reserve"]
      /\ running' = [running EXCEPT ![r] = @ - 1]
      /\ UNCHANGED <<pipelineVars, plan, status, finished, turnVars, poolVars, job>>
      /\ w \in Threads
  BY Zenon, <1>1 DEF Complete, Goto, Threads
<1>3. pc[w] \in Holding
  BY Zenon, <1>2 DEF Holding
<1>4. /\ r \in Runs /\ n \in Nodes /\ n \in plan[r] /\ job[w] = <<r, n>>
      /\ Created(r) /\ ~finished[r] /\ n \in Ticketed(r) /\ running[r] >= 1
      /\ remDeps[r][n] = 0 /\ n \in Uncompleted(r) /\ n \notin Done(r)
  BY <1>1, <1>2, <1>3, Holder
<1>5. /\ pc'[w] = "reserve" /\ \A s \in Threads : s # w => pc'[s] = pc[s]
      /\ \A s \in Threads : RunOf(s)' = RunOf(s) /\ job'[s] = job[s]
      /\ running[r] \in Nat
      /\ running'[r] = running[r] - 1 /\ \A q \in Runs : q # r => running'[q] = running[q]
  BY Zenon, <1>2, <1>4 DEF PipelineInv, Typed, RunOf
<1>6. \A m \in plan[r] : m \in Nodes /\ remDeps[r][m] \in Nat /\ (n \in Deps[m] => remDeps[r][m] >= 1)
  <2> SUFFICES ASSUME NEW m \in plan[r]
               PROVE  m \in Nodes /\ remDeps[r][m] \in Nat /\ (n \in Deps[m] => remDeps[r][m] >= 1)
    BY Zenon
  <2>1. m \in Nodes /\ remDeps[r][m] \in Nat
    BY Zenon, <1>4 DEF PipelineInv, Typed
  <2>2. ASSUME n \in Deps[m]
        PROVE  remDeps[r][m] >= 1
    <3>1. Cardinality(Deps[m] \cap Uncompleted(r)) <= remDeps[r][m]
      BY Zenon, <1>4 DEF PipelineInv, Released
    <3>2. Deps[m] \cap Uncompleted(r) \subseteq Nodes /\ Deps[m] \cap Uncompleted(r) # {}
      BY Zenon, <1>4, <2>2, NodeSets DEF PipelineInv
    <3>3. IsFiniteSet(Nodes)
      BY Zenon DEF PipelineAssumption
    <3>4. Cardinality(Deps[m] \cap Uncompleted(r)) \in Nat
          /\ Cardinality(Deps[m] \cap Uncompleted(r)) # 0
      BY Zenon, <3>2, <3>3, Counting
    <3> QED
      BY <2>1, <3>1, <3>4
  <2> QED
    BY Zenon, <2>1, <2>2
<1>7. /\ remDeps' \in [Runs -> [Nodes -> Nat]] /\ DOMAIN remNodes' = Runs
      /\ todo' \in [Threads -> SUBSET Nodes]
      /\ \A q \in Runs : q # r => remDeps'[q] = remDeps[q]
      /\ \A s \in Threads : s # w => todo'[s] = todo[s]
      /\ status[r] = "OK" =>
           /\ \A m \in Nodes : remDeps'[r][m] =
                IF m \in plan[r] /\ n \in Deps[m] THEN remDeps[r][m] - 1 ELSE remDeps[r][m]
           /\ todo'[w] = Ready(r, n)
      /\ status[r] # "OK" => remDeps' = remDeps
  <2>1. CASE status[r] = "OK"
    <3> DEFINE new == [m \in Nodes |-> IF m \in plan[r] /\ n \in Deps[m] THEN remDeps[r][m] - 1
                                       ELSE remDeps[r][m]]
    <3>1. /\ remNodes' = [remNodes EXCEPT ![r] = @ - 1]
          /\ remDeps' = [remDeps EXCEPT ![r] = new] /\ todo' = [todo EXCEPT ![w] = Ready(r, n)]
      BY <1>1, <1>4, <2>1 DEF Complete, PipelineInv, Typed
    <3>2. new \in [Nodes -> Nat]
      <4>1. \A m \in Nodes : (IF m \in plan[r] /\ n \in Deps[m] THEN remDeps[r][m] - 1
                              ELSE remDeps[r][m]) \in Nat
        BY <1>4, <1>6 DEF PipelineInv, Typed
      <4> QED
        BY ZenonT(30), <4>1
    <3>3. \A m \in Nodes : new[m] = IF m \in plan[r] /\ n \in Deps[m] THEN remDeps[r][m] - 1
                                    ELSE remDeps[r][m]
      BY Zenon
    <3>4. Ready(r, n) \subseteq Nodes
      BY Zenon, <1>6 DEF Ready
    <3> HIDE DEF new
    <3> QED
      BY ZenonT(30), <1>2, <1>4, <2>1, <3>1, <3>2, <3>3, <3>4 DEF PipelineInv, Typed
  <2>2. CASE status[r] # "OK"
    BY Zenon, <1>1, <2>2 DEF Complete, PipelineInv, Typed
  <2> QED
    BY Zenon, <2>1, <2>2
<1>8. Typed'
  <2>1. running' \in [Runs -> Nat]
    BY <1>2, <1>4, <1>5 DEF PipelineInv, Typed
  <2> QED
    BY ZenonT(30), <1>2, <1>7, <2>1 DEF PipelineInv, Typed, pipelineVars, turnVars, poolVars
<1>9. /\ Places'
      /\ \A q \in Runs : Created(q)' <=> Created(q)
  <2>1. UNCHANGED <<plan, answer, queue, job>>
    BY Zenon, <1>2 DEF turnVars, poolVars
  <2>2. job[w] \in Runs \X (Nodes \cup {NoNode}) /\ Created(RunOf(w))
    BY Zenon, <1>1, <1>2, <1>4 DEF PipelineInv, Places
  <2>3. \A i \in 1..Len(queue') :
          queue'[i] \in Jobs /\ Created(queue'[i][1]) /\ queue'[i][2] \in plan[queue'[i][1]]
    BY ZenonT(30), <2>1, QueueSound
  <2> QED
    BY ZenonT(30), <1>2, <1>5, <2>1, <2>2, <2>3, PlacesFrame DEF Holding
<1>10. Untouched'
  <2>1. \A q \in Runs : q # w /\ q \in Threads
    BY Zenon DEF PipelineAssumption, Threads
  <2> QED
    BY SMTT(20), <1>2, <1>4, <1>5, <1>7, <1>9, <2>1 DEF PipelineInv, Untouched, turnVars
<1>11. /\ TicketsDistinct' /\ Ticketed(r)' = Ticketed(r) \ {n}
       /\ \A q \in Runs : q # r => Ticketed(q)' = Ticketed(q)
  <2>1. pc'[w] \notin Holding
    BY Zenon, <1>5 DEF Holding
  <2> QED
    BY ZenonT(30), <1>2, <1>3, <1>4, <1>5, <2>1, Surrender DEF poolVars
<1>12. /\ \A s \in Threads, q \in Runs :
            Scheduling(s, q)' <=> Scheduling(s, q) \/ (s = w /\ q = r /\ status[r] = "OK")
       /\ \A q \in Runs : ~Scheduling(w, q)
  <2>1. \A s \in Threads, q \in Runs : s # w => (Scheduling(s, q)' <=> Scheduling(s, q))
    BY Zenon, <1>2, <1>5 DEF Scheduling
  <2>2. \A q \in Runs : ~Scheduling(w, q)
    BY ZenonT(30), <1>2 DEF Scheduling
  <2>3. \A q \in Runs : Scheduling(w, q)' <=> q = r /\ status[r] = "OK"
    BY ZenonT(30), <1>1, <1>2, <1>4, <1>5 DEF Scheduling
  <2> QED
    BY Zenon, <2>1, <2>2, <2>3
<1>13. /\ Ready(r, n) \subseteq plan[r] /\ Ready(r, n) \cap Ticketed(r) = {}
       /\ Ready(r, n) \cap Announced(r) = {} /\ Ready(r, n) \subseteq Waiting(r)
       /\ n \notin Ready(r, n) /\ n \notin Announced(r)
  <2>1. \A m \in Ready(r, n) : m \in plan[r] /\ remDeps[r][m] = 1
    BY Zenon DEF Ready
  <2>2. \A m \in Ticketed(r) \cup Announced(r) : remDeps[r][m] = 0
    BY Zenon, <1>4 DEF PipelineInv, ReadyOnly
  <2>3. n \notin Announced(r)
    BY Zenon, <1>4 DEF PipelineInv, TodoFresh, Announced
  <2> QED
    BY <1>4, <2>1, <2>2, <2>3 DEF Waiting
<1>14. /\ \A q \in Runs : q # r => Announced(q)' = Announced(q)
       /\ status[r] = "OK" => Announced(r)' \subseteq Announced(r) \cup Ready(r, n)
       /\ status[r] # "OK" => Announced(r)' = {}
  <2>1. \A q \in Runs : q # r => Announced(q)' = Announced(q)
    BY Zenon, <1>7, <1>12 DEF Announced
  <2>2. status[r] = "OK" => Announced(r)' \subseteq Announced(r) \cup Ready(r, n)
    BY ZenonT(30), <1>4, <1>7, <1>12 DEF Announced
  <2>3. status[r] # "OK" => Announced(r)' = {}
    BY Zenon, <1>2, <1>4 DEF Announced, Scheduling
  <2> QED
    BY Zenon, <2>1, <2>2, <2>3
<1>15. /\ \A q \in Runs : q # r => Uncompleted(q)' = Uncompleted(q)
       /\ Uncompleted(r)' \subseteq Uncompleted(r) \ {n}
  <2>1. \A q \in Runs : q # r => Uncompleted(q)' = Uncompleted(q)
    BY ZenonT(30), <1>2, <1>7, <1>11, <1>14 DEF Uncompleted, Waiting
  <2>2. Waiting(r)' \subseteq Waiting(r) \ {n}
    BY <1>2, <1>4, <1>6, <1>7 DEF Waiting
  <2> QED
    BY ZenonT(30), <1>11, <1>13, <1>14, <2>1, <2>2 DEF Uncompleted
<1>16. /\ \A q \in Runs : q # r => Done(q)' = Done(q)
       /\ Done(r) \subseteq Done(r)' /\ Done(r)' \subseteq Done(r) \cup {n}
       /\ n \in succeeded[r] => n \in Done(r)'
  <2>1. ASSUME NEW q \in Runs, NEW m, m \in succeeded[q], ~(q = r /\ m = n)
        PROVE  m \in Done(q)' <=> m \in Done(q)
    <3>1. job[w] # <<q, m>>
      BY <1>4, <2>1
    <3> QED
      BY ZenonT(30), <1>2, <1>5, <3>1 DEF Done, turnVars
  <2>2. \A q \in Runs : Done(q) \subseteq succeeded[q] /\ Done(q)' \subseteq succeeded[q]
    BY Zenon, <1>2 DEF Done, turnVars
  <2>3. ASSUME n \in succeeded[r]
        PROVE  n \in Done(r)'
    <3>1. \A t \in Threads : pc'[t] = "complete" => job'[t] # <<r, n>>
      <4> SUFFICES ASSUME NEW t \in Threads, t # w, pc[t] = "complete"
                   PROVE  job[t] # job[w]
        BY Zenon, <1>4, <1>5
      <4>1. pc[t] \in Holding
        BY Zenon DEF Holding
      <4> QED
        BY Zenon, <1>2, <1>3, <4>1 DEF PipelineInv, TicketsDistinct
    <3> QED
      BY Zenon, <1>2, <2>3, <3>1 DEF Done, turnVars
  <2>4. \A q \in Runs : q # r => Done(q)' = Done(q)
    BY Zenon, <2>1, <2>2
  <2>5. Done(r) \subseteq Done(r)' /\ Done(r)' \subseteq Done(r) \cup {n}
    BY Zenon, <1>4, <2>1, <2>2
  <2> QED
    BY Zenon, <2>3, <2>4, <2>5
<1>17. TodoFresh'
  <2> SUFFICES ASSUME NEW q \in Runs, NEW t \in Threads, Scheduling(t, q)'
               PROVE  /\ todo'[t] \subseteq plan[q] /\ todo'[t] \cap Ticketed(q)' = {}
                      /\ \A s \in Threads : Scheduling(s, q)' /\ s # t => todo'[s] \cap todo'[t] = {}
    BY Zenon, <1>2 DEF TodoFresh
  <2>1. Ticketed(q)' \subseteq Ticketed(q)
    BY Zenon, <1>11
  <2>2. CASE t # w
    <3>1. Scheduling(t, q) /\ todo'[t] = todo[t]
      BY Zenon, <1>7, <1>12, <2>2
    <3>2. ASSUME NEW s \in Threads, Scheduling(s, q)', s # t
          PROVE  todo'[s] \cap todo'[t] = {}
      <4>1. CASE s # w
        BY ZenonT(30), <1>7, <1>12, <3>1, <3>2, <4>1 DEF PipelineInv, TodoFresh
      <4>2. CASE s = w
        <5>1. q = r /\ todo'[s] = Ready(r, n)
          BY ZenonT(30), <1>7, <1>12, <3>2, <4>2
        <5>2. todo[t] \subseteq Announced(r)
          BY Zenon, <3>1, <5>1 DEF Announced, PipelineInv, Typed
        <5> QED
          BY ZenonT(30), <1>13, <3>1, <5>1, <5>2
      <4> QED
        BY Zenon, <4>1, <4>2
    <3> QED
      BY Zenon, <2>1, <3>1, <3>2 DEF PipelineInv, TodoFresh
  <2>3. CASE t = w
    <3>1. q = r /\ todo'[t] = Ready(r, n)
      BY Zenon, <1>7, <1>12, <2>3
    <3>2. ASSUME NEW s \in Threads, Scheduling(s, q)', s # t
          PROVE  todo'[s] \cap todo'[t] = {}
      <4>1. Scheduling(s, r) /\ todo'[s] = todo[s]
        BY ZenonT(30), <1>7, <1>12, <2>3, <3>1, <3>2
      <4>2. todo[s] \subseteq Announced(r)
        BY Zenon, <4>1 DEF Announced, PipelineInv, Typed
      <4> QED
        BY ZenonT(30), <1>13, <3>1, <4>1, <4>2
    <3> QED
      BY Zenon, <1>13, <2>1, <3>1, <3>2
  <2> QED
    BY Zenon, <2>2, <2>3
<1>18. ReadyOnly'
  <2> SUFFICES ASSUME NEW q \in Runs, Created(q), NEW m \in Ticketed(q)' \cup Announced(q)'
               PROVE  remDeps'[q][m] = 0
    BY ZenonT(30), <1>9 DEF ReadyOnly
  <2>1. CASE q # r
    BY <1>7, <1>11, <1>14, <2>1 DEF PipelineInv, ReadyOnly
  <2>2. CASE q = r /\ m \in Ticketed(r) \cup Announced(r)
    <3>1. m \in Nodes /\ remDeps[r][m] = 0
      BY Zenon, <2>2 DEF PipelineInv, ReadyOnly, Ticketed, Announced
    <3>2. ~(m \in plan[r] /\ n \in Deps[m])
      BY <1>6, <3>1
    <3>3. remDeps'[r][m] = remDeps[r][m]
      BY ZenonT(30), <1>7, <3>1, <3>2
    <3> QED
      BY ZenonT(30), <2>2, <3>1, <3>3
  <2>3. CASE q = r /\ m \in Ready(r, n) /\ status[r] = "OK"
    <3>1. m \in plan[r] /\ m \in Nodes /\ n \in Deps[m] /\ remDeps[r][m] = 1
      BY Zenon, <1>6, <2>3 DEF Ready
    <3> QED
      BY <1>7, <2>3, <3>1
  <2> QED
    BY ZenonT(30), <1>11, <1>14, <2>1, <2>2, <2>3
<1>19. Released'
  <2> SUFFICES ASSUME NEW q \in Runs, Created(q), NEW m \in plan[q]
               PROVE  Cardinality(Deps[m] \cap Uncompleted(q)') <= remDeps'[q][m]
    BY Zenon, <1>2, <1>9 DEF Released
  <2>1. Cardinality(Deps[m] \cap Uncompleted(q)) <= remDeps[q][m]
    BY Zenon DEF PipelineInv, Released
  <2>2. CASE q # r
    BY Zenon, <1>7, <1>15, <2>1, <2>2
  <2>3. CASE q = r
    <3>1. IsFiniteSet(Nodes) /\ m \in Nodes /\ remDeps[r][m] \in Nat
      BY Zenon, <1>6, <2>3 DEF PipelineAssumption
    <3>2. /\ Deps[m] \cap Uncompleted(r) \subseteq Nodes
          /\ Deps[m] \cap Uncompleted(r)' \subseteq (Deps[m] \cap Uncompleted(r)) \ {n}
      BY ZenonT(30), <1>4, <1>15, <3>1, NodeSets DEF PipelineInv
    <3>3. CASE n \in Deps[m]
      <4>1. n \in Deps[m] \cap Uncompleted(r)
        BY Zenon, <1>4, <3>3
      <4>2. /\ Cardinality(Deps[m] \cap Uncompleted(r)) \in Nat
            /\ Cardinality((Deps[m] \cap Uncompleted(r)) \ {n}) = Cardinality(Deps[m] \cap Uncompleted(r)) - 1
        BY ZenonT(30), <3>1, <3>2, <4>1, Counting
      <4>3. /\ Cardinality(Deps[m] \cap Uncompleted(r)') \in Nat
            /\ Cardinality(Deps[m] \cap Uncompleted(r)') <= Cardinality((Deps[m] \cap Uncompleted(r)) \ {n})
        BY Zenon, <3>1, <3>2, Counting
      <4>4. remDeps'[r][m] = remDeps[r][m] - 1 \/ remDeps'[r][m] = remDeps[r][m]
        BY Zenon, <1>7, <3>1
      <4> QED
        BY SMTT(20), <2>1, <2>3, <3>1, <4>2, <4>3, <4>4
    <3>4. CASE n \notin Deps[m]
      <4>1. /\ Cardinality(Deps[m] \cap Uncompleted(r)) \in Nat
            /\ Cardinality(Deps[m] \cap Uncompleted(r)') \in Nat
            /\ Cardinality(Deps[m] \cap Uncompleted(r)') <= Cardinality(Deps[m] \cap Uncompleted(r))
        <5>1. Deps[m] \cap Uncompleted(r)' \subseteq Deps[m] \cap Uncompleted(r)
          BY Zenon, <3>2
        <5> QED
          BY ZenonT(30), <3>1, <3>2, <5>1, Counting
      <4>2. remDeps'[r][m] = remDeps[r][m]
        BY Zenon, <1>7, <3>1, <3>4
      <4> QED
        BY SMTT(20), <2>1, <2>3, <3>1, <4>1, <4>2
    <3> QED
      BY Zenon, <3>3, <3>4
  <2> QED
    BY Zenon, <2>2, <2>3
<1>20. Ordered'
  <2>1. \A q \in Runs : Done(q)' \cap Uncompleted(q)' = {}
    BY Zenon, <1>15, <1>16 DEF PipelineInv, Ordered
  <2>2. \A q \in Runs : context'[q] = "OK" =>
          \A t \in Threads : pc'[t] = "complete" /\ RunOf(t)' = q => job'[t][2] \in succeeded'[q]
    BY Zenon, <1>2, <1>5 DEF PipelineInv, Ordered, turnVars
  <2>3. ASSUME NEW q \in Runs, context[q] = "OK", Created(q), NEW m \in plan[q]
        PROVE  Cardinality(Deps[m] \ Done(q)') <= remDeps'[q][m]
    <3>1. Cardinality(Deps[m] \ Done(q)) <= remDeps[q][m]
      BY Zenon, <2>3 DEF PipelineInv, Ordered
    <3>2. CASE q # r
      BY Zenon, <1>7, <1>16, <3>1, <3>2
    <3>3. CASE q = r
      <4>1. IsFiniteSet(Nodes) /\ m \in Nodes /\ remDeps[r][m] \in Nat
        BY Zenon, <1>6, <3>3, <2>3 DEF PipelineAssumption
      <4>2. n \in Done(r)'
        BY ZenonT(30), <1>1, <1>2, <1>16, <2>3, <3>3 DEF PipelineInv, Ordered
      <4>3. /\ Deps[m] \ Done(r) \subseteq Nodes
            /\ Deps[m] \ Done(r)' = (Deps[m] \ Done(r)) \ {n}
        BY ZenonT(30), <1>4, <1>16, <4>1, <4>2, NodeSets DEF PipelineInv
      <4>4. CASE n \in Deps[m]
        <5>1. n \in Deps[m] \ Done(r)
          BY Zenon, <1>4, <4>4
        <5>2. /\ Cardinality(Deps[m] \ Done(r)) \in Nat
              /\ Cardinality((Deps[m] \ Done(r)) \ {n}) = Cardinality(Deps[m] \ Done(r)) - 1
          BY ZenonT(30), <4>1, <4>3, <5>1, Counting
        <5>3. remDeps'[r][m] = remDeps[r][m] - 1 \/ remDeps'[r][m] = remDeps[r][m]
          BY Zenon, <1>7, <4>1
        <5>4. Cardinality(Deps[m] \ Done(r)') = Cardinality(Deps[m] \ Done(r)) - 1
          BY Zenon, <4>3, <5>2
        <5>5. Cardinality(Deps[m] \ Done(r)) <= remDeps[r][m]
          BY ZenonT(30), <3>1, <3>3
        <5>6. Cardinality(Deps[m] \ Done(r)') <= remDeps'[r][m]
          BY SMTT(20), <4>1, <5>2, <5>3, <5>4, <5>5
        <5> QED
          BY Zenon, <3>3, <5>6
      <4>5. CASE n \notin Deps[m]
        <5>1. Deps[m] \ Done(r)' = Deps[m] \ Done(r)
          BY Zenon, <4>3, <4>5
        <5>2. remDeps'[r][m] = remDeps[r][m]
          BY ZenonT(30), <1>7, <4>1, <4>5
        <5> QED
          BY ZenonT(30), <3>1, <3>3, <5>1, <5>2
      <4> QED
        BY Zenon, <4>4, <4>5
    <3> QED
      BY Zenon, <3>2, <3>3
  <2> QED
    BY ZenonT(30), <1>2, <1>9, <2>1, <2>2, <2>3 DEF Ordered, turnVars
<1>21. JobsCounted'
  <2>1. Cardinality(Ticketed(r)') = Cardinality(Ticketed(r)) - 1 /\ Cardinality(Ticketed(r)) \in Nat
    BY SMTT(20), <1>4, <1>11, NodeSets, Counting DEF PipelineInv, PipelineAssumption
  <2>2. Cardinality(Ticketed(r)) <= running[r]
    BY ZenonT(30), <1>4 DEF PipelineInv, JobsCounted
  <2>3. Cardinality(Ticketed(r)') <= running'[r] /\ ~finished'[r]
    BY <1>2, <1>4, <1>5, <2>1, <2>2
  <2>4. \A q \in Runs : q # r =>
          Cardinality(Ticketed(q)') <= running'[q] /\ (finished'[q] => running'[q] = 0)
    BY Zenon, <1>2, <1>5, <1>11 DEF PipelineInv, JobsCounted
  <2> QED
    BY ZenonT(30), <2>3, <2>4 DEF JobsCounted
<1>22. HandlersInOrder'
  BY Zenon, <1>2, <1>5 DEF PipelineInv, HandlersInOrder, turnVars, Threads
<1>23. CompletedOnce' /\ RunsCounted'
  <2>1. \A q \in Runs : pc'[q] = "plan" <=> pc[q] = "plan"
    BY Zenon, <1>2, <1>5 DEF Threads
  <2> QED
    BY ZenonT(30), <1>2, <1>5, <1>9, <2>1, CompletionFrame DEF turnVars, pipelineVars
<1> QED
  BY ZenonT(30), <1>8, <1>9, <1>10, <1>11, <1>17, <1>18, <1>19, <1>20, <1>21, <1>22,
     <1>23 DEF PipelineInv

(* Every step of the pipeline, its owner, the submitters, the workers and   *)
(* the pool keeps the invariant.                                            *)
LEMMA PipelineStep ==
  ASSUME PipelineAssumption, PipelineInv, [Next]_vars
  PROVE  PipelineInv'
<1>1. ASSUME NEW t \in Threads, ThreadStep(t)
      PROVE  PipelineInv'
  BY ZenonT(30), <1>1, DropStep, ReserveStep, QueueStep, RejectedStep, RejectStep, CallbackStep,
     ReleaseStep,
     NotifyStep DEF ThreadStep
<1>2. CASE UNCHANGED vars
  BY Zenon, <1>2, PipelineStutter
<1>3. CASE \E n \in Nodes : RegisterNode(n) \/ UnregisterNode(n)
  BY Zenon, <1>3, RegisterStep
<1>4. CASE Attach \/ Detach \/ Drain \/ Destroy
  BY Zenon, <1>4, AttachStep, DrainStep
<1>5. ASSUME NEW r \in Runs, Accept(r) \/ SubmitterStep(r)
      PROVE  PipelineInv'
  <2>1. r \in Threads
    BY Zenon DEF Threads
  <2> QED
    BY ZenonT(30), <1>1, <1>5, <2>1, AcceptStep, RefusedStep, CreatedStep,
       SubmitReturnsStep DEF SubmitterStep
<1>6. ASSUME NEW w \in Workers, WorkerStep(w)
      PROVE  PipelineInv'
  <2>1. w \in Threads
    BY Zenon DEF Threads
  <2> QED
    BY ZenonT(30), <1>1, <1>6, <2>1, TakeStep, BeginStep, HandleStep, CompleteStep,
       SettleStep DEF WorkerStep
<1>7. CASE StopPool
  BY Zenon, <1>7, StopPoolStep
<1> QED
  BY ZenonT(30), <1>2, <1>3, <1>4, <1>5, <1>6, <1>7 DEF Next

(* What detach() leaves behind follows from the invariant: with no active   *)
(* run there is no ticket, so no thread has work that could touch the pool. *)
LEMMA InvDrains ==
  ASSUME PipelineAssumption, PipelineInv
  PROVE  DetachDrains
<1>1. ASSUME quiet
      PROVE  activeRuns = 0 /\ queue = <<>> /\ \A t \in Threads : Idle(t)
  <2>1. activeRuns = 0 /\ activeRuns = Cardinality(ActiveRuns)
    BY Zenon, <1>1 DEF PipelineInv, RunsCounted
  <2>2. ActiveRuns = {}
    <3>1. ActiveRuns \subseteq Runs /\ IsFiniteSet(Runs)
      BY Zenon DEF ActiveRuns, PipelineAssumption
    <3> QED
      BY Zenon, <2>1, <3>1, Counting
  <2>3. \A r \in Runs : ~Active(r)
    BY Zenon, <2>2 DEF ActiveRuns
  <2>4. queue = <<>>
    <3> SUFFICES ASSUME queue # <<>>
                 PROVE  FALSE
      BY Zenon
    <3>1. queue \in Seq(Jobs) /\ 1 \in 1..Len(queue)
      BY DEF PipelineInv, Typed
    <3>2. PICK r \in Runs, n \in Nodes : queue[1] = <<r, n>>
      BY <3>1, QueueSound DEF Jobs
    <3>3. Created(r) /\ n \in Ticketed(r)
      BY <3>1, <3>2, QueueSound DEF Ticketed, Queued
    <3>4. finished[r]
      BY Zenon, <2>3, <3>3 DEF Active
    <3>5. Cardinality(Ticketed(r)) <= 0
      BY Zenon, <3>4 DEF PipelineInv, JobsCounted
    <3>6. Ticketed(r) \subseteq Nodes /\ IsFiniteSet(Nodes)
      BY Zenon, NodeSets DEF PipelineInv, PipelineAssumption
    <3>7. Cardinality(Ticketed(r)) \in Nat /\ Cardinality(Ticketed(r)) # 0
      BY Zenon, <3>3, <3>6, Counting
    <3> QED
      BY <3>5, <3>7
  <2>5. ASSUME NEW t \in Threads
        PROVE  Idle(t)
    <3>1. pc[t] \notin Holding
      <4> SUFFICES ASSUME pc[t] \in Holding
                   PROVE  FALSE
        BY Zenon
      <4>1. PICK r, n : r = RunOf(t) /\ n = job[t][2]
        BY Zenon
      <4>2. r \in Runs /\ Created(r) /\ ~finished[r]
        BY <4>1, Holder
      <4> QED
        BY Zenon, <2>3, <4>2 DEF Active
    <3>2. pc[t] \notin {"callback", "release"}
      BY Zenon, <2>3 DEF Active, PipelineInv, Places, RunOf
    <3>3. pc[t] # "plan"
      BY Zenon, <2>3 DEF Active, PipelineInv, Places, Threads
    <3>4. pc[t] = "reserve" => finished[RunOf(t)]
      BY Zenon, <2>3 DEF Active, PipelineInv, Places, RunOf
    <3> QED
      BY Zenon, <3>1, <3>2, <3>3, <3>4 DEF Idle, PipelineInv, Typed, Holding
  <2> QED
    BY Zenon, <2>1, <2>4, <2>5
<1>2. \A r \in Runs :
        completions[r] <= 1 /\ (answer[r] = "INVALID_ARGUMENT" => completions[r] = 0)
  BY Zenon DEF PipelineInv, CompletedOnce, Untouched, Created
<1> QED
  BY Zenon, <1>1, <1>2 DEF DetachDrains

(* After TurnPipeline::detach() nothing of the pipeline is in flight, and a *)
(* submission never has a second completion callback, whatever the pool,    *)
(* the handlers and the threads do.                                         *)
THEOREM DetachCorrect ==
  ASSUME PipelineAssumption
  PROVE  Spec => []DetachDrains
<1>1. Init => PipelineInv
  BY Zenon, PipelineInit
<1>2. PipelineInv /\ [Next]_vars => PipelineInv'
  BY Zenon, PipelineStep
<1>3. PipelineInv => DetachDrains
  BY ZenonT(30), InvDrains
<1> QED
  BY <1>1, <1>2, <1>3, PTL DEF Spec

(* HandlerJob::execute runs a handler only after the handlers of all its    *)
(* prerequisites succeeded for the same Turn.                               *)
THEOREM HandlersOrdered ==
  ASSUME PipelineAssumption
  PROVE  Spec => []HandlersInOrder
<1>1. Init => PipelineInv
  BY Zenon, PipelineInit
<1>2. PipelineInv /\ [Next]_vars => PipelineInv'
  BY Zenon, PipelineStep
<1>3. PipelineInv => HandlersInOrder
  BY Zenon DEF PipelineInv
<1> QED
  BY <1>1, <1>2, <1>3, PTL DEF Spec

=============================================================================
