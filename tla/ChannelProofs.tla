---------------------------- MODULE ChannelProofs -----------------------------
(***************************************************************************)
(* TLAPS proofs about Channel, for any number of clients, workers,          *)
(* subscribers and messages, any depth, and a pool that may stop early.     *)
(***************************************************************************)
EXTENDS Channel, FiniteSetTheorems, SequenceTheorems, WellFoundedInduction, TLAPS

(***************************************************************************)
(* The inductive invariant.  OneDelivery counts the holders of the delivery *)
(* token; Token says the same without counting.  QuietAfterDetach rests on  *)
(* it (a detach returns once the token is free) and on a detached channel   *)
(* holding no message.  ListedAccepts is not inductive: a close_channel()   *)
(* between its two steps must still find the attachment it is about to end, *)
(* and be alone.                                                            *)
(***************************************************************************)

Submitting(t) == call[t] \in {"schedule", "fail"}

\* Nobody is about to submit the DeliveryJob, it is not queued, nobody runs it.
NoneSubmitting == \A t \in Threads : ~Submitting(t)
NoneBusy == \A w \in Workers : worker[w] = "idle"

\* At most one party holds the token, and the flag says whether one does.
Token ==
  /\ \A t, u \in Threads : Submitting(t) /\ Submitting(u) => t = u
  /\ \A v, w \in Workers : worker[v] # "idle" /\ worker[w] # "idle" => v = w
  /\ queued \in {0, 1}
  /\ NoneSubmitting \/ NoneBusy
  /\ queued = 1 => NoneSubmitting /\ NoneBusy
  /\ ~scheduled => NoneSubmitting /\ NoneBusy /\ queued = 0
  /\ poolActive /\ scheduled => ~NoneSubmitting \/ ~NoneBusy \/ queued = 1

\* A detached channel holds no message, and a quiet one is detached and idle.
Detachment ==
  /\ ~attached => pending = <<>>
  /\ quiet => ~attached /\ NoneSubmitting /\ NoneBusy /\ queued = 0

\* Between its two steps a close_channel() is alone, its entry is gone and the
\* channel still attached.
Closing ==
  /\ ListedAccepts
  /\ \A t \in Threads : call[t] = "closing" => ~registered /\ attached
  /\ \A t, u \in Threads : call[t] = "closing" /\ call[u] = "closing" => t = u

\* Messages are numbered in the order of acceptance: those queued are newer
\* than the one being delivered, which is newer than what was received.
Ordered ==
  /\ \A i \in 1..Len(pending) : pending[i] <= accepted
  /\ \A i, k \in 1..Len(pending) : i < k => pending[i] < pending[k]
  /\ \A s \in Subscribers : received[s] <= accepted
  /\ \A s \in Subscribers, i \in 1..Len(pending) : received[s] < pending[i]
  /\ \A w \in Workers : worker[w] \in Delivering =>
       /\ message[w] <= accepted
       /\ \A i \in 1..Len(pending) : message[w] < pending[i]
       /\ \A s \in Subscribers : received[s] <= message[w]
       /\ worker[w] = "snapshot" => \A s \in Subscribers : received[s] < message[w]
       /\ worker[w] # "snapshot" =>
            \A s \in remaining[w] : received[s] < message[w]

DeliveryInv == TypeOK /\ Token /\ Detachment /\ Closing /\ Ordered

-----------------------------------------------------------------------------

(* A non-empty set of naturals has a least element, which Min is.           *)
LEMMA MinIsMember ==
  ASSUME NEW S, S \subseteq Nat, S # {}
  PROVE  Min(S) \in S
<1>1. \E x \in S : \A y \in S : ~(<<y, x>> \in OpToRel(<, Nat))
  BY Zenon, WFMin, NatLessThanWellFounded
<1>2. PICK x \in S : \A y \in S : ~(<<y, x>> \in OpToRel(<, Nat))
  BY Zenon, <1>1
<1>3. \A y \in S : ~(y < x)
  BY Zenon, <1>2 DEF OpToRel
<1>4. \A y \in S : x <= y
  BY <1>3
<1> QED
  BY Zenon, <1>4 DEF Min

(* The queue after enqueue(): the newest MaxDepth messages, the accepted    *)
(* one last.                                                                *)
LEMMA RetainKeeps ==
  ASSUME NEW q \in Seq(1..MaxMessages), Len(q) <= MaxDepth,
         NEW m \in 1..MaxMessages
  PROVE  /\ Retain(q, m) \in Seq(1..MaxMessages)
         /\ Len(Retain(q, m)) \in 1..MaxDepth
         /\ Retain(q, m)[Len(Retain(q, m))] = m
         /\ \E d \in {0, 1} : \A i \in 1..(Len(Retain(q, m)) - 1) :
              i + d \in 1..Len(q) /\ Retain(q, m)[i] = q[i + d]
<1>1. MaxDepth \in Nat \ {0}
  BY Zenon, ChannelAssumption
<1>2. CASE Len(q) = MaxDepth
  <2>1. /\ Tail(q) \in Seq(1..MaxMessages) /\ Len(Tail(q)) = MaxDepth - 1
        /\ \A i \in 1..(MaxDepth - 1) : Tail(q)[i] = q[i + 1]
    BY <1>1, <1>2
  <2>2. Retain(q, m) = Append(Tail(q), m)
    BY Zenon, <1>2 DEF Retain
  <2>3. /\ Len(Retain(q, m)) = MaxDepth
        /\ Retain(q, m)[MaxDepth] = m
        /\ \A i \in 1..(MaxDepth - 1) : Retain(q, m)[i] = q[i + 1]
        /\ Retain(q, m) \in Seq(1..MaxMessages)
    BY <1>1, <2>1, <2>2
  <2>4. \A i \in 1..(MaxDepth - 1) : i + 1 \in 1..Len(q)
    BY <1>1, <1>2
  <2> QED
    BY <1>1, <2>3, <2>4
<1>3. CASE Len(q) # MaxDepth
  <2>1. Retain(q, m) = Append(q, m)
    BY Zenon, <1>3 DEF Retain
  <2>2. /\ Len(Retain(q, m)) = Len(q) + 1
        /\ Retain(q, m)[Len(q) + 1] = m
        /\ \A i \in 1..Len(q) : Retain(q, m)[i] = q[i]
        /\ Retain(q, m) \in Seq(1..MaxMessages)
    BY <2>1
  <2>3. Len(q) \in Nat /\ \A i \in 1..Len(q) : i + 0 \in 1..Len(q) /\ i + 0 = i
    OBVIOUS
  <2> QED
    BY <1>1, <1>3, <2>2, <2>3
<1> QED
  BY Zenon, <1>2, <1>3

(* What deliver_one() takes and what it leaves.                             *)
LEMMA TakeOldestKeeps ==
  ASSUME NEW q \in Seq(1..MaxMessages), q # <<>>
  PROVE  /\ TakeOldest(q).taken \in 1..MaxMessages
         /\ TakeOldest(q).taken = q[1] /\ 1 \in 1..Len(q)
         /\ TakeOldest(q).rest \in Seq(1..MaxMessages)
         /\ Len(TakeOldest(q).rest) = Len(q) - 1
         /\ \A i \in 1..(Len(q) - 1) :
              i + 1 \in 1..Len(q) /\ TakeOldest(q).rest[i] = q[i + 1]
<1>1. TakeOldest(q).taken = Head(q) /\ TakeOldest(q).rest = Tail(q)
  BY Zenon DEF TakeOldest
<1>2. Len(q) \in Nat /\ Len(q) > 0
  OBVIOUS
<1>3. 1 \in 1..Len(q)
  BY <1>2
<1>4. q[1] \in 1..MaxMessages
  BY Zenon, <1>3, ElementOfSeq
<1>5. Head(q) = q[1]
  OBVIOUS
<1>6. Tail(q) \in Seq(1..MaxMessages) /\ Len(Tail(q)) = Len(q) - 1
  BY <1>2
<1>7. ASSUME NEW i \in 1..(Len(q) - 1)
      PROVE  i + 1 \in 1..Len(q) /\ Tail(q)[i] = q[i + 1]
  BY <1>2
<1> QED
  BY Zenon, <1>1, <1>3, <1>4, <1>5, <1>6, <1>7

(* An empty queue is within the depth.                                      *)
LEMMA NoPending ==
  ASSUME pending' = <<>>
  PROVE  pending' \in Seq(1..MaxMessages) /\ Len(pending') <= MaxDepth
BY ChannelAssumption

-----------------------------------------------------------------------------
\* Type correctness

(* A call into the channel or the Directory keeps every variable of its     *)
(* type.                                                                    *)
LEMMA CallType ==
  ASSUME TypeOK, NEW t \in Threads,
         Open(t) \/ Close(t) \/ Enqueue(t) \/ Destroy(t) \/ ChannelStep(t)
  PROVE  TypeOK'
<1> USE DEF TypeOK, deliveryVars, subscriptionVars, workerVars, poolVars,
            Goto, CallStates
<1>1. CASE Open(t)
  BY Zenon, <1>1 DEF Open
<1>2. CASE Close(t)
  BY Zenon, <1>2 DEF Close
<1>3. CASE Enqueue(t)
  <2>1. accepted + 1 \in 1..MaxMessages
    BY <1>3, ChannelAssumption DEF Enqueue
  <2>2. pending' \in Seq(1..MaxMessages) /\ Len(pending') <= MaxDepth
    BY <1>3, <2>1, RetainKeeps, ChannelAssumption DEF Enqueue
  <2>3. scheduled' \in BOOLEAN /\ call' \in [Threads -> CallStates]
    BY Zenon, <1>3 DEF Enqueue, MustSchedule
  <2> QED
    BY <1>3, <2>1, <2>2, <2>3 DEF Enqueue
<1>4. CASE Destroy(t)
  BY Zenon, <1>4, NoPending DEF Destroy, StopAccepting
<1>5. CASE Attach(t)
  BY Zenon, <1>5 DEF Attach
<1>6. CASE Detach(t)
  BY Zenon, <1>6, NoPending DEF Detach, StopAccepting
<1>7. CASE Detached(t)
  <2>1. quiet' \in BOOLEAN
    BY Zenon, <1>7 DEF Detached
  <2> QED
    BY Zenon, <1>7, <2>1 DEF Detached
<1>8. CASE Schedule(t)
  <2>1. queued' \in Nat
    BY <1>8 DEF Schedule
  <2>2. call' \in [Threads -> CallStates]
    BY Zenon, <1>8 DEF Schedule
  <2> QED
    BY Zenon, <1>8, <2>1, <2>2 DEF Schedule
<1>9. CASE EnqueueFails(t)
  BY Zenon, <1>9, NoPending DEF EnqueueFails, FailScheduled
<1> QED
  BY Zenon, <1>1, <1>2, <1>3, <1>4, <1>5, <1>6, <1>7, <1>8, <1>9 DEF ChannelStep

(* So does a step of a worker.                                              *)
LEMMA WorkerType ==
  ASSUME TypeOK, NEW w \in Workers, WorkerStep(w)
  PROVE  TypeOK'
<1> USE DEF TypeOK, deliveryVars, subscriptionVars, workerVars, poolVars,
            WorkerStates
<1>1. CASE TakeJob(w)
  <2>1. queued' \in Nat
    BY <1>1 DEF TakeJob
  <2> QED
    BY Zenon, <1>1, <2>1 DEF TakeJob
<1>2. CASE DeliverOne(w)
  <2>1. CASE NothingToDeliver
    BY Zenon, <1>2, <2>1 DEF DeliverOne
  <2>2. CASE ~NothingToDeliver
    <3>1. pending # <<>>
      BY Zenon, <2>2 DEF NothingToDeliver
    <3>2. /\ pending' = TakeOldest(pending).rest
          /\ message' = [message EXCEPT ![w] = TakeOldest(pending).taken]
          /\ worker' = [worker EXCEPT ![w] = "snapshot"]
          /\ UNCHANGED scheduled
      BY Zenon, <1>2, <2>2 DEF DeliverOne
    <3>3. pending' \in Seq(1..MaxMessages) /\ Len(pending') = Len(pending) - 1
      BY Zenon, <3>1, <3>2, TakeOldestKeeps
    <3>4. Len(pending') <= MaxDepth
      BY <3>3, ChannelAssumption
    <3>5. TakeOldest(pending).taken \in 0..MaxMessages
      BY <3>1, TakeOldestKeeps, ChannelAssumption
    <3>6. message' \in [Workers -> 0..MaxMessages]
      BY Zenon, <3>2, <3>5
    <3> QED
      BY Zenon, <1>2, <3>2, <3>3, <3>4, <3>6 DEF DeliverOne
  <2> QED
    BY Zenon, <2>1, <2>2
<1>3. CASE Snapshot(w)
  BY Zenon, <1>3 DEF Snapshot
<1>4. CASE Examine(w)
  <2> DEFINE s == Min(remaining[w])
  <2> HIDE DEF s
  <2>1. /\ remaining' = [remaining EXCEPT ![w] = @ \ {s}]
        /\ \/ /\ received' = [received EXCEPT ![s] = message[w]]
              /\ worker' = [worker EXCEPT ![w] = "callback"]
           \/ UNCHANGED <<received, worker>>
    BY Zenon, <1>4 DEF Examine, s
  <2>2. received' \in [Subscribers -> 0..MaxMessages]
    BY Zenon, <2>1
  <2>3. worker' \in [Workers -> WorkerStates]
    BY Zenon, <2>1
  <2>4. remaining' \in [Workers -> SUBSET Subscribers]
    BY Zenon, <2>1
  <2> QED
    BY Zenon, <1>4, <2>2, <2>3, <2>4 DEF Examine
<1>5. CASE Return(w)
  BY Zenon, <1>5 DEF Return
<1>6. CASE Settle(w)
  <2>1. message' \in [Workers -> 0..MaxMessages]
    BY <1>6, ChannelAssumption DEF Settle
  <2>2. scheduled' \in BOOLEAN /\ worker' \in [Workers -> WorkerStates]
    BY Zenon, <1>6 DEF Settle
  <2> QED
    BY Zenon, <1>6, <2>1, <2>2 DEF Settle
<1>7. CASE Reschedule(w)
  <2>1. queued' \in Nat
    BY <1>7 DEF Reschedule
  <2>2. worker' \in [Workers -> WorkerStates]
    BY Zenon, <1>7 DEF Reschedule
  <2> QED
    BY Zenon, <1>7, <2>1, <2>2 DEF Reschedule
<1>8. CASE RescheduleFails(w)
  BY Zenon, <1>8, NoPending DEF RescheduleFails, FailScheduled
<1> QED
  BY Zenon, <1>1, <1>2, <1>3, <1>4, <1>5, <1>6, <1>7, <1>8 DEF WorkerStep

(* And so does a step of a subscriber, of the pool, or none.                *)
LEMMA OtherType ==
  ASSUME TypeOK,
         \/ \E s \in Subscribers : Subscribe(s) \/ Reset(s)
         \/ StopPool
         \/ UNCHANGED vars
  PROVE  TypeOK'
<1> USE DEF TypeOK, deliveryVars, subscriptionVars, workerVars, poolVars
<1>1. ASSUME NEW s \in Subscribers, Subscribe(s) PROVE TypeOK'
  BY Zenon, <1>1 DEF Subscribe, NextSnapshot
<1>2. ASSUME NEW s \in Subscribers, Reset(s) PROVE TypeOK'
  BY Zenon, <1>2 DEF Reset
<1>3. CASE StopPool
  BY Zenon, <1>3 DEF StopPool
<1>4. CASE UNCHANGED vars
  BY Zenon, <1>4 DEF vars
<1> QED
  BY Zenon, <1>1, <1>2, <1>3, <1>4

-----------------------------------------------------------------------------
\* The delivery token

(* A step that moves no thread in or out of submitting and no worker in or  *)
(* out of a delivery leaves the token where it is.                          *)
LEMMA TokenStays ==
  ASSUME Token, UNCHANGED <<scheduled, queued, poolActive>>,
         \A t \in Threads : Submitting(t)' = Submitting(t),
         \A w \in Workers : (worker'[w] = "idle") = (worker[w] = "idle")
  PROVE  Token'
BY Zenon DEF Token, NoneSubmitting, NoneBusy

(* Calls into the channel: enqueue() creates the token when there is none,  *)
(* its submission passes it to the pool, and its failure ends it.           *)
LEMMA CallToken ==
  ASSUME TypeOK, Token, NEW t \in Threads,
         Open(t) \/ Close(t) \/ Enqueue(t) \/ Destroy(t) \/ ChannelStep(t)
  PROVE  Token'
<1> USE DEF TypeOK, deliveryVars, subscriptionVars, workerVars, poolVars,
            Goto, Submitting
<1>1. CASE Open(t)
  <2>1. \A u \in Threads : Submitting(u)' = Submitting(u)
    BY <1>1 DEF Open, Free
  <2> QED
    BY Zenon, <1>1, <2>1, TokenStays DEF Open
<1>2. CASE Close(t)
  <2>1. \A u \in Threads : Submitting(u)' = Submitting(u)
    BY <1>2 DEF Close, Free
  <2> QED
    BY Zenon, <1>2, <2>1, TokenStays DEF Close
<1>3. CASE Enqueue(t)
  <2>1. CASE scheduled
    BY Zenon, <1>3, <2>1, TokenStays DEF Enqueue, MustSchedule
  <2>2. CASE ~scheduled
    <3>1. NoneSubmitting /\ NoneBusy /\ queued = 0
      BY Zenon, <2>2 DEF Token
    <3>2. /\ scheduled' /\ queued' = 0 /\ worker' = worker
          /\ call' = [call EXCEPT ![t] = "schedule"]
      BY Zenon, <1>3, <2>2, <3>1 DEF Enqueue, MustSchedule
    <3>3. NoneBusy' /\ ~NoneSubmitting'
      BY Zenon, <3>1, <3>2 DEF NoneBusy, NoneSubmitting
    <3>4. \A u, v \in Threads : Submitting(u)' /\ Submitting(v)' => u = v
      BY Zenon, <3>1, <3>2 DEF NoneSubmitting
    <3> QED
      BY <3>2, <3>3, <3>4 DEF Token, NoneBusy
  <2> QED
    BY Zenon, <2>1, <2>2
<1>4. CASE Destroy(t)
  <2>1. \A u \in Threads : Submitting(u)' = Submitting(u)
    BY <1>4 DEF Destroy, StopAccepting, Free
  <2> QED
    BY Zenon, <1>4, <2>1, TokenStays DEF Destroy, StopAccepting
<1>5. CASE Attach(t)
  <2>1. \A u \in Threads : Submitting(u)' = Submitting(u)
    BY <1>5 DEF Attach
  <2> QED
    BY Zenon, <1>5, <2>1, TokenStays DEF Attach
<1>6. CASE Detach(t)
  <2>1. \A u \in Threads : Submitting(u)' = Submitting(u)
    BY <1>6 DEF Detach, StopAccepting
  <2> QED
    BY Zenon, <1>6, <2>1, TokenStays DEF Detach, StopAccepting
<1>7. CASE Detached(t)
  <2>1. \A u \in Threads : Submitting(u)' = Submitting(u)
    BY <1>7 DEF Detached
  <2> QED
    BY Zenon, <1>7, <2>1, TokenStays DEF Detached
<1>8. CASE Schedule(t)
  <2>1. /\ Submitting(t) /\ NoneBusy /\ queued = 0 /\ scheduled
        /\ \A u \in Threads : Submitting(u) => u = t
    BY Zenon, <1>8 DEF Schedule, Token, NoneSubmitting
  <2>2. CASE poolActive
    <3>1. /\ queued' = 1 /\ UNCHANGED <<scheduled, poolActive, worker>>
          /\ call' = [call EXCEPT ![t] = "none"]
      BY <1>8, <2>1, <2>2 DEF Schedule
    <3>2. NoneSubmitting' /\ NoneBusy'
      BY Zenon, <2>1, <3>1 DEF NoneSubmitting, NoneBusy
    <3> QED
      BY Zenon, <2>1, <3>1, <3>2 DEF Token, NoneBusy, NoneSubmitting
  <2>3. CASE ~poolActive
    <3>1. /\ UNCHANGED <<scheduled, poolActive, queued, worker>>
          /\ call' = [call EXCEPT ![t] = "fail"]
      BY Zenon, <1>8, <2>3 DEF Schedule
    <3>2. \A u \in Threads : Submitting(u)' = Submitting(u)
      BY <2>1, <3>1
    <3> QED
      BY Zenon, <3>1, <3>2, TokenStays
  <2> QED
    BY Zenon, <2>2, <2>3
<1>9. CASE EnqueueFails(t)
  <2>1. /\ NoneBusy /\ queued = 0
        /\ \A u \in Threads : Submitting(u) => u = t
    BY Zenon, <1>9 DEF EnqueueFails, Token, NoneSubmitting
  <2>2. /\ ~scheduled' /\ UNCHANGED <<queued, poolActive, worker>>
        /\ call' = [call EXCEPT ![t] = "none"]
    BY Zenon, <1>9 DEF EnqueueFails, FailScheduled
  <2>3. NoneSubmitting' /\ NoneBusy'
    BY Zenon, <2>1, <2>2 DEF NoneSubmitting, NoneBusy
  <2> QED
    BY Zenon, <2>1, <2>2, <2>3 DEF Token, NoneBusy, NoneSubmitting
<1> QED
  BY Zenon, <1>1, <1>2, <1>3, <1>4, <1>5, <1>6, <1>7, <1>8, <1>9 DEF ChannelStep

(* A worker that ends its delivery gives the token up, to nobody or to the  *)
(* DeliveryJob it queues.                                                   *)
LEMMA TokenReleased ==
  ASSUME TypeOK, Token, NEW w \in Workers, worker[w] # "idle",
         worker' = [worker EXCEPT ![w] = "idle"],
         UNCHANGED <<call, poolActive>>,
         \/ ~scheduled' /\ queued' = queued
         \/ scheduled' = scheduled /\ queued' = queued + 1
  PROVE  Token'
<1>1. /\ scheduled /\ queued = 0 /\ NoneSubmitting
      /\ \A v \in Workers : worker[v] # "idle" => v = w
  BY Zenon DEF Token, NoneBusy
<1>2. NoneSubmitting'
  BY Zenon, <1>1 DEF NoneSubmitting, Submitting
<1>3. NoneBusy'
  BY Zenon, <1>1 DEF NoneBusy, TypeOK
<1>4. CASE ~scheduled' /\ queued' = queued
  BY Zenon, <1>1, <1>2, <1>3, <1>4 DEF Token, NoneBusy, NoneSubmitting
<1>5. CASE scheduled' = scheduled /\ queued' = queued + 1
  <2>1. scheduled' /\ queued' = 1
    BY <1>1, <1>5
  <2> QED
    BY Zenon, <2>1, <1>2, <1>3 DEF Token, NoneBusy, NoneSubmitting
<1> QED
  BY Zenon, <1>4, <1>5

(* deliver_one() carries the token from the pool's queue to its end or to   *)
(* the next DeliveryJob.                                                    *)
LEMMA WorkerToken ==
  ASSUME TypeOK, Token, NEW w \in Workers, WorkerStep(w)
  PROVE  Token'
<1> USE DEF deliveryVars, subscriptionVars, workerVars, poolVars
<1>0. ASSUME UNCHANGED <<scheduled, queued, poolActive, call>>, worker[w] # "idle",
             NEW s \in WorkerStates \ {"idle"},
             worker' = [worker EXCEPT ![w] = s]
      PROVE  Token'
  <2>1. \A v \in Workers : (worker'[v] = "idle") = (worker[v] = "idle")
    BY Zenon, <1>0 DEF TypeOK
  <2>2. \A t \in Threads : Submitting(t)' = Submitting(t)
    BY Zenon, <1>0 DEF Submitting
  <2> QED
    BY Zenon, <1>0, <2>1, <2>2, TokenStays
<1>1. CASE TakeJob(w)
  <2>1. queued = 1 /\ scheduled /\ NoneSubmitting /\ NoneBusy
    BY <1>1 DEF TakeJob, Token
  <2>2. /\ queued' = 0 /\ UNCHANGED <<scheduled, call, poolActive>>
        /\ worker' = [worker EXCEPT ![w] = "start"]
    BY <1>1, <2>1 DEF TakeJob
  <2>3. NoneSubmitting' /\ ~NoneBusy'
    BY Zenon, <2>1, <2>2 DEF NoneSubmitting, NoneBusy, Submitting, TypeOK
  <2>4. \A u, v \in Workers : worker'[u] # "idle" /\ worker'[v] # "idle" => u = v
    BY Zenon, <2>1, <2>2 DEF NoneBusy, TypeOK
  <2> QED
    BY <2>1, <2>2, <2>3, <2>4 DEF Token, NoneSubmitting
<1>2. CASE DeliverOne(w)
  <2>1. CASE NothingToDeliver
    BY Zenon, <1>2, <2>1, TokenReleased DEF DeliverOne
  <2>2. CASE ~NothingToDeliver
    BY Zenon, <1>0, <1>2, <2>2 DEF DeliverOne, WorkerStates
  <2> QED
    BY Zenon, <2>1, <2>2
<1>3. CASE Snapshot(w)
  BY Zenon, <1>0, <1>3 DEF Snapshot, WorkerStates
<1>4. CASE Examine(w)
  <2>1. /\ worker[w] = "invoke" /\ UNCHANGED <<scheduled, queued, poolActive, call>>
        /\ worker' = worker \/ worker' = [worker EXCEPT ![w] = "callback"]
    BY Zenon, <1>4 DEF Examine
  <2>2. CASE worker' = worker
    BY Zenon, <2>1, <2>2, TokenStays DEF Submitting
  <2>3. CASE worker' = [worker EXCEPT ![w] = "callback"]
    BY Zenon, <1>0, <2>1, <2>3 DEF WorkerStates
  <2> QED
    BY Zenon, <2>1, <2>2, <2>3
<1>5. CASE Return(w)
  BY Zenon, <1>0, <1>5 DEF Return, WorkerStates
<1>6. CASE Settle(w)
  <2>1. CASE NothingToDeliver
    BY Zenon, <1>6, <2>1, TokenReleased DEF Settle
  <2>2. CASE ~NothingToDeliver
    BY Zenon, <1>0, <1>6, <2>2 DEF Settle, WorkerStates
  <2> QED
    BY Zenon, <2>1, <2>2
<1>7. CASE Reschedule(w)
  <2>1. CASE poolActive
    BY Zenon, <1>7, <2>1, TokenReleased DEF Reschedule
  <2>2. CASE ~poolActive
    BY Zenon, <1>0, <1>7, <2>2 DEF Reschedule, WorkerStates
  <2> QED
    BY Zenon, <2>1, <2>2
<1>8. CASE RescheduleFails(w)
  BY Zenon, <1>8, TokenReleased DEF RescheduleFails, FailScheduled
<1> QED
  BY Zenon, <1>1, <1>2, <1>3, <1>4, <1>5, <1>6, <1>7, <1>8 DEF WorkerStep

(* Subscriptions do not touch the token, and a pool that stops may only     *)
(* lose it.                                                                 *)
LEMMA OtherToken ==
  ASSUME TypeOK, Token,
         \/ \E s \in Subscribers : Subscribe(s) \/ Reset(s)
         \/ StopPool
         \/ UNCHANGED vars
  PROVE  Token'
<1>1. CASE \/ \E s \in Subscribers : Subscribe(s) \/ Reset(s)
           \/ UNCHANGED vars
  BY Zenon, <1>1, TokenStays DEF Subscribe, Reset, vars, deliveryVars, workerVars,
     poolVars, Submitting
<1>2. CASE StopPool
  <2>1. /\ ~poolActive' /\ queued' = 0
        /\ UNCHANGED <<scheduled, call, worker>>
    BY Zenon, <1>2 DEF StopPool, deliveryVars, workerVars
  <2> QED
    BY Zenon, <2>1 DEF Token, NoneSubmitting, NoneBusy, Submitting
<1> QED
  BY Zenon, <1>1, <1>2

-----------------------------------------------------------------------------
\* Detaching and closing

(* A thread that returns from a blocking detach leaves a channel on which   *)
(* nothing runs or is about to, and a detached one holds no message.        *)
LEMMA DetachmentStep ==
  ASSUME TypeOK, Token, Detachment, [Next]_vars
  PROVE  Detachment'
<1> USE DEF deliveryVars, subscriptionVars, workerVars, poolVars, Goto
<1>1. ASSUME NEW t \in Threads,
             Open(t) \/ Close(t) \/ Enqueue(t) \/ Destroy(t) \/ ChannelStep(t)
      PROVE  Detachment'
  <2> USE DEF Detachment, NoneSubmitting, NoneBusy, Submitting, TypeOK
  <2>1. CASE Open(t)
    BY Zenon, <2>1 DEF Open
  <2>2. CASE Close(t)
    BY Zenon, <2>2 DEF Close
  <2>3. CASE Enqueue(t)
    <3>1. attached' /\ ~quiet'
      BY Zenon, <2>3 DEF Enqueue
    <3> QED
      BY Zenon, <3>1
  <2>4. CASE Destroy(t)
    BY Zenon, <2>4 DEF Destroy, StopAccepting
  <2>5. CASE Attach(t)
    BY Zenon, <2>5 DEF Attach
  <2>6. CASE Detach(t)
    BY Zenon, <2>6 DEF Detach, StopAccepting
  <2>7. CASE Detached(t)
    <3>1. NoneSubmitting /\ NoneBusy /\ queued = 0
      BY Zenon, <2>7 DEF Detached, Token
    <3> QED
      BY Zenon, <2>7, <3>1 DEF Detached
  <2>8. CASE Schedule(t)
    <3>1. ~quiet /\ ~quiet' /\ UNCHANGED <<attached, pending>>
      BY Zenon, <2>8 DEF Schedule
    <3> QED
      BY Zenon, <3>1
  <2>9. CASE EnqueueFails(t)
    BY Zenon, <2>9 DEF EnqueueFails, FailScheduled
  <2> QED
    BY ZenonT(30), <1>1, <2>1, <2>2, <2>3, <2>4, <2>5, <2>6, <2>7, <2>8, <2>9 DEF ChannelStep
<1>2. ASSUME NEW w \in Workers, WorkerStep(w)
      PROVE  Detachment'
  <2>1. ~quiet
    BY <1>2 DEF Detachment, NoneBusy, WorkerStep, TakeJob, DeliverOne, Snapshot,
       Examine, Return, Settle, Reschedule, RescheduleFails
  <2>2. UNCHANGED <<attached, quiet>>
    BY Zenon, <1>2 DEF WorkerStep, TakeJob, DeliverOne, Snapshot, Examine, Return,
       Settle, Reschedule, RescheduleFails
  <2>3. ~attached => pending' = <<>>
    BY Zenon, <1>2 DEF Detachment, WorkerStep, TakeJob, DeliverOne, NothingToDeliver,
       Snapshot, Examine, Return, Settle, Reschedule, RescheduleFails,
       FailScheduled
  <2> QED
    BY ZenonT(30), <2>1, <2>2, <2>3 DEF Detachment
<1>3. CASE \/ \E s \in Subscribers : Subscribe(s) \/ Reset(s)
           \/ StopPool
           \/ UNCHANGED vars
  BY <1>3 DEF Subscribe, Reset, StopPool, vars, Detachment, NoneSubmitting,
     NoneBusy, Submitting
<1> QED
  BY Zenon, <1>1, <1>2, <1>3 DEF Next, Terminated

(* Nobody can take the registration between the two steps of a              *)
(* close_channel(): attach_delivery() refuses an attached channel.          *)
LEMMA ClosingStep ==
  ASSUME TypeOK, Closing, [Next]_vars
  PROVE  Closing'
<1> USE DEF deliveryVars, subscriptionVars, workerVars, poolVars, Goto
<1>1. ASSUME NEW t \in Threads,
             Open(t) \/ Close(t) \/ Enqueue(t) \/ Destroy(t) \/ ChannelStep(t)
      PROVE  Closing'
  <2> USE DEF Closing, ListedAccepts, TypeOK
  <2>1. CASE Open(t)
    BY Zenon, <2>1 DEF Open
  <2>2. CASE Close(t)
    <3>1. attached /\ \A u \in Threads : call[u] # "closing"
      BY Zenon, <2>2 DEF Close
    <3> QED
      BY Zenon, <2>2, <3>1 DEF Close
  <2>3. CASE Enqueue(t)
    BY Zenon, <2>3 DEF Enqueue, MustSchedule
  <2>4. CASE Destroy(t)
    BY Zenon, <2>4 DEF Destroy, StopAccepting
  <2>5. CASE Attach(t)
    BY Zenon, <2>5 DEF Attach
  <2>6. CASE Detach(t)
    BY Zenon, <2>6 DEF Detach, StopAccepting
  <2>7. CASE Detached(t)
    BY Zenon, <2>7 DEF Detached
  <2>8. CASE Schedule(t)
    BY ZenonT(30), <2>8 DEF Schedule
  <2>9. CASE EnqueueFails(t)
    BY Zenon, <2>9 DEF EnqueueFails
  <2> QED
    BY ZenonT(30), <1>1, <2>1, <2>2, <2>3, <2>4, <2>5, <2>6, <2>7, <2>8, <2>9 DEF ChannelStep
<1>2. CASE UNCHANGED <<registered, attached, call>>
  BY Zenon, <1>2 DEF Closing, ListedAccepts
<1>3. ASSUME NEW w \in Workers, WorkerStep(w)
      PROVE  UNCHANGED <<registered, attached, call>>
  BY Zenon, <1>3 DEF WorkerStep, TakeJob, DeliverOne, Snapshot, Examine, Return,
     Settle, Reschedule, RescheduleFails
<1>4. ASSUME \/ \E s \in Subscribers : Subscribe(s) \/ Reset(s)
             \/ StopPool
             \/ UNCHANGED vars
      PROVE  UNCHANGED <<registered, attached, call>>
  BY Zenon, <1>4 DEF Subscribe, Reset, StopPool, vars
<1> QED
  BY Zenon, <1>1, <1>2, <1>3, <1>4 DEF Next, Terminated

-----------------------------------------------------------------------------
\* The order of messages

(* Order survives a step that accepts and hands out nothing: messages may   *)
(* be discarded and deliveries end.                                         *)
LEMMA OrderedStays ==
  ASSUME Ordered, UNCHANGED <<accepted, received>>,
         pending' = pending \/ pending' = <<>>,
         \A w \in Workers : worker'[w] \in Delivering =>
           /\ worker[w] \in Delivering
           /\ (worker'[w] = "snapshot") = (worker[w] = "snapshot")
           /\ message'[w] = message[w]
           /\ remaining'[w] = remaining[w]
  PROVE  Ordered'
<1>1. CASE pending' = pending
  BY ZenonT(30), <1>1 DEF Ordered
<1>2. CASE pending' = <<>>
  <2>1. \A i : i \notin 1..Len(pending')
    BY <1>2
  <2> QED
    BY Zenon, <2>1 DEF Ordered
<1> QED
  BY Zenon, <1>1, <1>2

(* enqueue() appends a number greater than all numbers given so far.        *)
LEMMA EnqueueOrdered ==
  ASSUME TypeOK, Ordered, NEW t \in Threads, Enqueue(t)
  PROVE  Ordered'
<1>1. /\ accepted \in Nat /\ accepted' = accepted + 1
      /\ accepted + 1 \in 1..MaxMessages
      /\ pending' = Retain(pending, accepted + 1)
      /\ UNCHANGED <<received, worker, message, remaining>>
  BY ChannelAssumption DEF Enqueue, TypeOK, subscriptionVars, workerVars
<1> DEFINE last == Len(pending')
<1>2. /\ last \in Nat \ {0}
      /\ pending'[last] = accepted + 1
      /\ \E d \in {0, 1} : \A i \in 1..(last - 1) :
           i + d \in 1..Len(pending) /\ pending'[i] = pending[i + d]
  <2>1. pending \in Seq(1..MaxMessages) /\ Len(pending) <= MaxDepth
    BY Zenon DEF TypeOK
  <2> DEFINE q == Retain(pending, accepted + 1)
  <2>2. /\ Len(q) \in 1..MaxDepth
        /\ q[Len(q)] = accepted + 1
        /\ \E d \in {0, 1} : \A i \in 1..(Len(q) - 1) :
             i + d \in 1..Len(pending) /\ q[i] = pending[i + d]
    BY Zenon, <1>1, <2>1, RetainKeeps
  <2>3. pending' = q
    BY Zenon, <1>1
  <2> HIDE DEF q
  <2> QED
    BY SMTT(20), <2>2, <2>3, ChannelAssumption
<1>3. PICK d \in {0, 1} : \A i \in 1..(last - 1) :
        i + d \in 1..Len(pending) /\ pending'[i] = pending[i + d]
  BY Zenon, <1>2
<1> HIDE DEF last
<1>4. \A i \in 1..last : i = last \/ i \in 1..(last - 1)
  BY <1>2
<1>5. ASSUME NEW i \in 1..Len(pending)
      PROVE  pending[i] \in Nat /\ pending[i] < accepted + 1
  <2>1. pending[i] \in 1..MaxMessages
    BY Zenon, ElementOfSeq DEF TypeOK
  <2>2. pending[i] <= accepted
    BY Zenon DEF Ordered
  <2> QED
    BY <1>1, <2>1, <2>2, ChannelAssumption
<1>6. \A s \in Subscribers : received[s] \in Nat /\ received[s] < accepted + 1
  BY <1>1 DEF Ordered, TypeOK
<1>7. \A i \in 1..last : pending'[i] <= accepted'
  BY <1>1, <1>2, <1>3, <1>4, <1>5
<1>8. ASSUME NEW i \in 1..last, NEW k \in 1..last, i < k
      PROVE  pending'[i] < pending'[k]
  <2>1. i \in 1..(last - 1)
    BY <1>2, <1>8
  <2>2. CASE k = last
    BY Zenon, <1>2, <1>3, <1>5, <2>1, <2>2
  <2>3. CASE k \in 1..(last - 1)
    <3>1. i + d < k + d
      BY <1>8
    <3> QED
      BY Zenon, <1>3, <2>1, <2>3, <3>1 DEF Ordered
  <2> QED
    BY Zenon, <1>4, <2>2, <2>3
<1>9. \A s \in Subscribers, i \in 1..last : received'[s] < pending'[i]
  BY Zenon, <1>1, <1>2, <1>3, <1>4, <1>6 DEF Ordered
<1>10. ASSUME NEW w \in Workers, worker'[w] \in Delivering
       PROVE  message'[w] <= accepted' /\ \A i \in 1..last : message'[w] < pending'[i]
  <2>1. /\ message[w] \in Nat /\ message[w] < accepted + 1
        /\ \A i \in 1..Len(pending) : message[w] < pending[i]
    BY <1>1, <1>10 DEF Ordered, TypeOK
  <2> QED
    BY <1>1, <1>2, <1>3, <1>4, <2>1
<1>11. \A s \in Subscribers : received'[s] <= accepted'
  BY <1>1, <1>6
<1> QED
  BY Zenon, <1>1, <1>7, <1>8, <1>9, <1>10, <1>11 DEF Ordered, last

(* The worker that delivers is the only one, and takes the oldest message.  *)
LEMMA DeliverOneOrdered ==
  ASSUME TypeOK, Token, Ordered, NEW w \in Workers, DeliverOne(w)
  PROVE  Ordered'
<1>0. \A v \in Workers : worker[v] # "idle" => v = w
  BY Zenon DEF DeliverOne, Token
<1>1. CASE NothingToDeliver
  <2>1. /\ worker' = [worker EXCEPT ![w] = "idle"]
        /\ UNCHANGED <<accepted, received, pending, message, remaining>>
    BY Zenon, <1>1 DEF DeliverOne, subscriptionVars
  <2> QED
    BY Zenon, <2>1, OrderedStays DEF TypeOK, Delivering
<1>2. CASE ~NothingToDeliver
  <2>1. /\ pending # <<>> /\ pending \in Seq(1..MaxMessages)
        /\ message' = [message EXCEPT ![w] = TakeOldest(pending).taken]
        /\ pending' = TakeOldest(pending).rest
        /\ worker' = [worker EXCEPT ![w] = "snapshot"]
        /\ UNCHANGED <<accepted, received, remaining>>
    BY Zenon, <1>2 DEF DeliverOne, NothingToDeliver, subscriptionVars, TypeOK
  <2>2. /\ message'[w] = pending[1] /\ 1 \in 1..Len(pending)
        /\ \A i \in 1..Len(pending') :
             i + 1 \in 1..Len(pending) /\ pending'[i] = pending[i + 1]
    BY Zenon, <2>1, TakeOldestKeeps DEF TypeOK
  <2>3. \A v \in Workers : worker'[v] \in Delivering => v = w
    BY Zenon, <1>0, <2>1 DEF Delivering, TypeOK
  <2>4. worker'[w] = "snapshot"
    BY Zenon, <2>1 DEF TypeOK
  <2>5. /\ \A i \in 1..Len(pending') : pending'[i] <= accepted
        /\ \A s \in Subscribers, i \in 1..Len(pending') : received[s] < pending'[i]
    BY Zenon, <2>2 DEF Ordered
  <2>6. ASSUME NEW i \in 1..Len(pending'), NEW k \in 1..Len(pending'), i < k
        PROVE  pending'[i] < pending'[k]
    <3>1. i + 1 < k + 1
      BY <2>6
    <3> QED
      BY Zenon, <2>2, <3>1 DEF Ordered
  <2>7. ASSUME NEW i \in 1..Len(pending') PROVE pending[1] < pending'[i]
    <3>1. 1 < i + 1
      OBVIOUS
    <3> QED
      BY Zenon, <2>2, <3>1 DEF Ordered
  <2>8. \A s \in Subscribers : received[s] < pending[1] /\ received[s] <= pending[1]
    <3>1. pending[1] \in Nat /\ \A s \in Subscribers : received[s] \in Nat
      BY <2>1, <2>2, ElementOfSeq, ChannelAssumption DEF TypeOK
    <3> QED
      BY <2>2, <3>1 DEF Ordered
  <2>9. pending[1] <= accepted /\ \A s \in Subscribers : received[s] <= accepted
    BY Zenon, <2>2 DEF Ordered
  <2> QED
    BY Zenon, <2>1, <2>2, <2>3, <2>4, <2>5, <2>6, <2>7, <2>8, <2>9 DEF Ordered
<1> QED
  BY Zenon, <1>1, <1>2

(* invoke() hands the message to a subscriber it has not examined yet.      *)
LEMMA ExamineOrdered ==
  ASSUME TypeOK, Token, Ordered, NEW w \in Workers, Examine(w)
  PROVE  /\ Ordered'
         /\ worker'[w] = "callback" =>
              \E s \in Subscribers :
                /\ received[s] < message[w]
                /\ received' = [received EXCEPT ![s] = message[w]]
<1>0. \A v \in Workers : worker[v] # "idle" => v = w
  BY Zenon DEF Examine, Token
<1>1. PICK s \in remaining[w] :
        /\ remaining' = [remaining EXCEPT ![w] = @ \ {s}]
        /\ \/ /\ received' = [received EXCEPT ![s] = message[w]]
              /\ worker' = [worker EXCEPT ![w] = "callback"]
           \/ UNCHANGED <<received, worker>>
  <2>1. remaining[w] \subseteq Nat /\ remaining[w] # {}
    BY Zenon, ChannelAssumption DEF Examine, TypeOK
  <2>2. Min(remaining[w]) \in remaining[w]
    BY Zenon, <2>1, MinIsMember
  <2> QED
    BY Zenon, <2>2 DEF Examine
<1>2. /\ worker[w] = "invoke" /\ s \in Subscribers
      /\ UNCHANGED <<accepted, pending, message>>
      /\ message[w] \in Nat
      /\ \A r \in Subscribers : received[r] \in Nat
      /\ \A i \in 1..Len(pending) : pending[i] \in Nat
  BY <1>1, ElementOfSeq, ChannelAssumption DEF Examine, TypeOK, deliveryVars
<1>3. /\ message[w] <= accepted
      /\ \A i \in 1..Len(pending) : message[w] < pending[i]
      /\ \A r \in Subscribers : received[r] <= message[w]
      /\ \A r \in remaining[w] : received[r] < message[w]
  BY Zenon, <1>2 DEF Ordered, Delivering
<1>4. remaining'[w] = remaining[w] \ {s}
  BY Zenon, <1>1 DEF TypeOK
<1>5. worker'[w] # "snapshot" /\ \A v \in Workers : worker'[v] \in Delivering => v = w
  BY Zenon, <1>0, <1>1, <1>2 DEF Delivering, TypeOK
<1>6. /\ \A r \in Subscribers : received'[r] <= message[w] /\ received'[r] <= accepted
      /\ \A r \in Subscribers, i \in 1..Len(pending) : received'[r] < pending[i]
      /\ \A r \in remaining'[w] : received'[r] < message[w]
  <2>1. CASE received' = received
    BY Zenon, <1>3, <1>4, <2>1 DEF Ordered
  <2>2. CASE received' = [received EXCEPT ![s] = message[w]]
    <3>1. /\ received'[s] = message[w]
          /\ \A r \in Subscribers \ {s} : received'[r] = received[r]
      BY Zenon, <1>2, <2>2 DEF TypeOK
    <3>2. \A r \in remaining'[w] : r \in Subscribers \ {s}
      BY Zenon, <1>4 DEF TypeOK
    <3>3. message[w] <= message[w]
      BY <1>2
    <3> QED
      BY Zenon, <1>3, <1>4, <3>1, <3>2, <3>3 DEF Ordered
  <2> QED
    BY Zenon, <1>1, <2>1, <2>2
<1>7. Ordered'
  BY Zenon, <1>2, <1>3, <1>5, <1>6 DEF Ordered
<1>8. worker'[w] = "callback" =>
        received[s] < message[w] /\ received' = [received EXCEPT ![s] = message[w]]
  BY Zenon, <1>1, <1>2, <1>3
<1> QED
  BY Zenon, <1>2, <1>7, <1>8

(* Every step keeps the order of messages.                                  *)
LEMMA OrderedStep ==
  ASSUME TypeOK, Token, Ordered, [Next]_vars
  PROVE  Ordered'
<1> USE DEF deliveryVars, subscriptionVars, workerVars, poolVars
<1>1. ASSUME NEW t \in Threads,
             Open(t) \/ Close(t) \/ Enqueue(t) \/ Destroy(t) \/ ChannelStep(t)
      PROVE  Ordered'
  <2>1. CASE Enqueue(t)
    BY Zenon, <2>1, EnqueueOrdered
  <2>2. CASE Open(t) \/ Close(t) \/ Destroy(t) \/ ChannelStep(t)
    <3>1. /\ UNCHANGED <<accepted, received, worker, message, remaining>>
          /\ pending' = pending \/ pending' = <<>>
      BY Zenon, <2>2 DEF Open, Close, Destroy, ChannelStep, Attach, Detach,
         StopAccepting, Detached, Schedule, EnqueueFails, FailScheduled
    <3> QED
      BY Zenon, <3>1, OrderedStays
  <2> QED
    BY Zenon, <1>1, <2>1, <2>2
<1>2. ASSUME NEW w \in Workers, WorkerStep(w)
      PROVE  Ordered'
  <2> USE DEF TypeOK, Delivering
  <2>1. CASE TakeJob(w)
    BY Zenon, <2>1, OrderedStays DEF TakeJob
  <2>2. CASE DeliverOne(w)
    BY Zenon, <2>2, DeliverOneOrdered
  <2>3. CASE Snapshot(w)
    <3>1. /\ worker[w] = "snapshot" /\ UNCHANGED <<accepted, received, pending, message>>
          /\ remaining' = [remaining EXCEPT ![w] = subscribers]
          /\ worker' = [worker EXCEPT ![w] = "invoke"]
      BY Zenon, <2>3 DEF Snapshot
    <3>2. \A s \in remaining'[w] : s \in Subscribers
      BY Zenon, <3>1
    <3>3. ASSUME NEW v \in Workers \ {w}
          PROVE  worker'[v] = worker[v] /\ remaining'[v] = remaining[v]
      BY Zenon, <3>1
    <3>4. worker'[w] = "invoke"
      BY Zenon, <3>1
    <3> QED
      BY Zenon, <3>1, <3>2, <3>3, <3>4 DEF Ordered
  <2>4. CASE Examine(w)
    BY Zenon, <2>4, ExamineOrdered
  <2>5. CASE Return(w)
    BY Zenon, <2>5, OrderedStays DEF Return
  <2>6. CASE Settle(w)
    BY Zenon, <2>6, OrderedStays DEF Settle
  <2>7. CASE Reschedule(w)
    BY Zenon, <2>7, OrderedStays DEF Reschedule
  <2>8. CASE RescheduleFails(w)
    BY Zenon, <2>8, OrderedStays DEF RescheduleFails, FailScheduled
  <2> QED
    BY ZenonT(30), <1>2, <2>1, <2>2, <2>3, <2>4, <2>5, <2>6, <2>7, <2>8 DEF WorkerStep
<1>3. CASE \/ \E s \in Subscribers : Subscribe(s) \/ Reset(s)
           \/ StopPool
           \/ UNCHANGED vars
  <2>1. UNCHANGED <<accepted, received, pending, worker, message, remaining>>
    BY Zenon, <1>3 DEF Subscribe, Reset, StopPool, vars
  <2> QED
    BY Zenon, <2>1, OrderedStays
<1> QED
  BY Zenon, <1>1, <1>2, <1>3 DEF Next, Terminated

-----------------------------------------------------------------------------
\* Theorems

(* The channel starts closed, idle and empty.                               *)
LEMMA DeliveryInvInit == Init => DeliveryInv
<1> SUFFICES ASSUME Init PROVE DeliveryInv
  BY Zenon
<1>1. <<>> \in Seq(1..MaxMessages) /\ Len(<<>>) = 0
  OBVIOUS
<1>2. TypeOK
  <2>1. 0 \in 0..MaxMessages /\ 0 <= MaxDepth
    BY ChannelAssumption
  <2>2. pending \in Seq(1..MaxMessages) /\ Len(pending) <= MaxDepth
    BY Zenon, <1>1, <2>1 DEF Init
  <2>3. /\ accepted \in 0..MaxMessages
        /\ message \in [Workers -> 0..MaxMessages]
        /\ received \in [Subscribers -> 0..MaxMessages]
    BY Zenon, <2>1 DEF Init
  <2>4. /\ call \in [Threads -> CallStates] /\ worker \in [Workers -> WorkerStates]
        /\ remaining \in [Workers -> SUBSET Subscribers]
        /\ subActive \in [Subscribers -> {"unused", "on", "off"}]
    BY Zenon DEF Init, CallStates, WorkerStates
  <2> QED
    BY Zenon, <2>2, <2>3, <2>4 DEF Init, TypeOK
<1>3. NoneSubmitting /\ NoneBusy
  BY Zenon DEF Init, NoneSubmitting, NoneBusy, Submitting
<1>4. Token /\ Detachment
  BY Zenon, <1>3 DEF Init, Token, Detachment, NoneSubmitting, NoneBusy
<1>5. Closing
  BY Zenon DEF Init, Closing, ListedAccepts
<1>6. Ordered
  <2>1. \A i : i \notin 1..Len(pending)
    BY <1>1 DEF Init
  <2>2. \A s \in Subscribers : received[s] <= accepted
    BY DEF Init
  <2>3. \A w \in Workers : worker[w] \notin Delivering
    BY Zenon DEF Init, Delivering
  <2> QED
    BY Zenon, <2>1, <2>2, <2>3 DEF Ordered
<1> QED
  BY Zenon, <1>2, <1>4, <1>5, <1>6 DEF DeliveryInv

(* Every step keeps the invariant.                                          *)
LEMMA DeliveryInvStep == DeliveryInv /\ [Next]_vars => DeliveryInv'
<1> SUFFICES ASSUME DeliveryInv, [Next]_vars PROVE DeliveryInv'
  BY Zenon
<1>1. TypeOK /\ Token /\ Detachment /\ Closing /\ Ordered
  BY Zenon DEF DeliveryInv
<1>2. TypeOK'
  BY Zenon, <1>1, CallType, WorkerType, OtherType DEF Next, Terminated
<1>3. Token'
  BY Zenon, <1>1, CallToken, WorkerToken, OtherToken DEF Next, Terminated
<1> QED
  BY Zenon, <1>1, <1>2, <1>3, DetachmentStep, ClosingStep, OrderedStep DEF DeliveryInv

(* Counting the holders of the token gives what Token says without          *)
(* counting.                                                                *)
LEMMA TokenCounted ==
  ASSUME TypeOK, Token
  PROVE  OneDelivery
<1>1. CASE NoneSubmitting
  <2>1. Scheduling = {}
    BY Zenon, <1>1 DEF NoneSubmitting, Submitting, Scheduling
  <2>2. Cardinality(Scheduling) = 0
    BY Zenon, <2>1, FS_EmptySet
  <2>3. CASE NoneBusy
    <3>1. Busy = {}
      BY Zenon, <2>3 DEF NoneBusy, Busy
    <3>2. Cardinality(Busy) = 0
      BY Zenon, <3>1, FS_EmptySet
    <3>3. /\ queued \in {0, 1} /\ (queued = 1 => scheduled)
          /\ (poolActive /\ scheduled => queued = 1)
      BY <1>1, <2>3 DEF Token
    <3> QED
      BY <2>2, <3>2, <3>3 DEF OneDelivery
  <2>4. CASE ~NoneBusy
    <3>1. PICK w \in Workers : worker[w] # "idle"
      BY Zenon, <2>4 DEF NoneBusy
    <3>2. Busy = {w}
      BY Zenon, <3>1 DEF Busy, Token
    <3>3. Cardinality(Busy) = 1
      BY Zenon, <3>2, FS_Singleton
    <3>4. queued = 0 /\ scheduled
      BY Zenon, <2>4 DEF Token
    <3> QED
      BY <2>2, <3>3, <3>4 DEF OneDelivery
  <2> QED
    BY Zenon, <2>3, <2>4
<1>2. CASE ~NoneSubmitting
  <2>1. PICK t \in Threads : Submitting(t)
    BY Zenon, <1>2 DEF NoneSubmitting
  <2>2. Scheduling = {t}
    BY Zenon, <2>1 DEF Scheduling, Submitting, Token
  <2>3. Cardinality(Scheduling) = 1
    BY Zenon, <2>2, FS_Singleton
  <2>4. NoneBusy /\ queued = 0 /\ scheduled
    BY Zenon, <1>2 DEF Token
  <2>5. Busy = {}
    BY Zenon, <2>4 DEF NoneBusy, Busy
  <2>6. Cardinality(Busy) = 0
    BY Zenon, <2>5, FS_EmptySet
  <2> QED
    BY <2>3, <2>4, <2>6 DEF OneDelivery
<1> QED
  BY Zenon, <1>1, <1>2

(* Type correctness: in particular pending never exceeds channel_max_depth. *)
THEOREM TypeCorrect == Spec => []TypeOK
<1>1. DeliveryInv => TypeOK
  BY Zenon DEF DeliveryInv
<1> QED
  BY <1>1, DeliveryInvInit, DeliveryInvStep, PTL DEF Spec

(* Bounded delivery is sound: at most one delivery job exists and the flag  *)
(* delivery_scheduled says whether one does, nothing of the channel runs    *)
(* or is queued after a blocking detach_delivery() returned, and a channel  *)
(* the Directory lists accepts messages.  This needs no assumption on the   *)
(* pool, which may stop at any time.                                        *)
THEOREM DeliveryCorrect == Spec => []DeliverySound
<1>1. DeliveryInv => DeliverySound
  <2> SUFFICES ASSUME DeliveryInv PROVE DeliverySound
    BY Zenon
  <2>1. OneDelivery
    BY Zenon, TokenCounted DEF DeliveryInv
  <2>2. QuietAfterDetach
    BY Zenon DEF DeliveryInv, Detachment, QuietAfterDetach, NoneBusy, NoneSubmitting, Submitting
  <2>3. ListedAccepts
    BY Zenon DEF DeliveryInv, Closing
  <2> QED
    BY Zenon, <2>1, <2>2, <2>3 DEF DeliverySound
<1> QED
  BY <1>1, DeliveryInvInit, DeliveryInvStep, PTL DEF Spec

(* No subscription is given an older message after a newer one, or one      *)
(* message twice, whichever workers deliver_one() runs on.                  *)
THEOREM OrderKept == Spec => InOrder
<1> DEFINE Fresh(w) == worker[w] = "invoke" /\ worker'[w] = "callback" =>
                         \E s \in Subscribers :
                           /\ received[s] < message[w]
                           /\ received' = [received EXCEPT ![s] = message[w]]
<1>1. DeliveryInv /\ [Next]_vars => \A w \in Workers : Fresh(w)
  <2> SUFFICES ASSUME DeliveryInv, [Next]_vars, NEW w \in Workers,
                      worker[w] = "invoke", worker'[w] = "callback"
               PROVE  Fresh(w)
    BY Zenon
  <2>1. TypeOK /\ Token /\ Ordered
    BY Zenon DEF DeliveryInv
  <2>2. PICK v \in Workers : WorkerStep(v)
    <3>1. worker' # worker
      BY Zenon
    <3> QED
      BY Zenon, <3>1 DEF Next, Terminated, vars, workerVars, Open, Close, Enqueue, Destroy,
         ChannelStep, Attach, Detach, StopAccepting, Detached, Schedule,
         EnqueueFails, Subscribe, Reset, StopPool
  <2>3. Examine(w)
    BY Zenon, <2>1, <2>2 DEF TypeOK, WorkerStep, TakeJob, DeliverOne, Snapshot, Examine,
       Return, Settle, Reschedule, RescheduleFails
  <2> QED
    BY Zenon, <2>1, <2>3, ExamineOrdered
<1> QED
  BY <1>1, DeliveryInvInit, DeliveryInvStep, PTL DEF Spec, InOrder
=============================================================================
