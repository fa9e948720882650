------------------------------- MODULE Channel --------------------------------
(***************************************************************************)
(* Bounded asynchronous delivery on one channel of utils/ipc, with its      *)
(* subscriptions, its registration in the Directory and the worker pool     *)
(* the Directory borrows.                                                   *)
(*                                                                         *)
(* A critical section of delivery_mutex, of subscription_mutex or of the    *)
(* Directory's mutex is one step.  What lies between two of them is not:    *)
(* enqueue() decides to schedule a DeliveryJob under the mutex and submits  *)
(* it afterwards, deliver_one() runs the callbacks with no mutex held, and  *)
(* close_channel() detaches after it removed the entry.                     *)
(*                                                                         *)
(* A message is the number it was accepted with.  attached stands for       *)
(* delivery_attached and for delivery_workers # nullptr, which the code     *)
(* assigns together.                                                        *)
(***************************************************************************)
EXTENDS Naturals, Sequences, FiniteSets, FiniteSetsExt

CONSTANTS
  Clients,      \* application threads
  Workers,      \* threads of the borrowed JobQueue
  Subscribers,  \* subscription ids, in the order they are handed out
  MaxDepth,     \* ChannelOptions::channel_max_depth
  MaxMessages,  \* bound on the messages accepted
  EarlyStop     \* may the pool stop while the channel is in use, which the
                \* Directory's constructor forbids its owner to do?

ASSUME ChannelAssumption ==
  /\ Clients \cap Workers = {}
  /\ Subscribers \subseteq Nat
  /\ MaxDepth \in Nat \ {0}      \* zero is INVALID_ARGUMENT
  /\ MaxMessages \in Nat
  /\ EarlyStop \in BOOLEAN

VARIABLES
  registered,   \* the Directory has an entry for the channel
  attached,     \* delivery_attached, delivery_workers
  destroying,   \* destroying
  pending,      \* pending
  scheduled,    \* delivery_scheduled
  accepted,     \* messages accepted so far
  subscribers,  \* the immutable subscriber snapshot
  subActive,    \* SubscriptionState::active of the ids handed out
  call,         \* what each thread is doing in the channel or the Directory
  worker,       \* where each worker is in deliver_one
  message,      \* message a worker delivers
  remaining,    \* entries of its snapshot a worker has not examined yet
  received,     \* last message each subscriber's callback saw
  poolActive,   \* the pool accepts work
  queued,       \* DeliveryJobs in the pool's urgent queue
  quiet         \* a blocking detach returned and nobody attached since

deliveryVars == <<attached, destroying, pending, scheduled, accepted, quiet>>
subscriptionVars == <<subscribers, subActive, received>>
workerVars == <<worker, message, remaining>>
poolVars == <<poolActive, queued>>
vars == <<registered, deliveryVars, subscriptionVars, call, workerVars, poolVars>>

Threads == Clients \cup Workers
CallStates == {"none", "opening", "closing", "detaching", "schedule", "fail"}
WorkerStates == {"idle", "start", "snapshot", "invoke", "callback", "resched", "fail"}
Delivering == {"snapshot", "invoke", "callback"}

TypeOK ==
  /\ registered \in BOOLEAN /\ attached \in BOOLEAN /\ destroying \in BOOLEAN
  /\ pending \in Seq(1..MaxMessages) /\ Len(pending) <= MaxDepth
  /\ scheduled \in BOOLEAN /\ quiet \in BOOLEAN
  /\ accepted \in 0..MaxMessages
  /\ subscribers \subseteq Subscribers
  /\ subActive \in [Subscribers -> {"unused", "on", "off"}]
  /\ call \in [Threads -> CallStates]
  /\ worker \in [Workers -> WorkerStates]
  /\ message \in [Workers -> 0..MaxMessages]
  /\ remaining \in [Workers -> SUBSET Subscribers]
  /\ received \in [Subscribers -> 0..MaxMessages]
  /\ poolActive \in BOOLEAN /\ queued \in Nat

Init ==
  /\ registered = FALSE /\ attached = FALSE /\ destroying = FALSE
  /\ pending = <<>> /\ scheduled = FALSE /\ accepted = 0
  /\ subscribers = {}
  /\ subActive = [s \in Subscribers |-> "unused"]
  /\ call = [t \in Threads |-> "none"]
  /\ worker = [w \in Workers |-> "idle"]
  /\ message = [w \in Workers |-> 0]
  /\ remaining = [w \in Workers |-> {}]
  /\ received = [s \in Subscribers |-> 0]
  /\ poolActive = TRUE /\ queued = 0
  /\ quiet = FALSE

-----------------------------------------------------------------------------
\* Calls into the channel

\* A thread that can start a call: a client, or a worker in a callback.  The
\* channel is gone once its destructor ran.
Free(t) ==
  /\ call[t] = "none"
  /\ t \in Workers => worker[t] = "callback"
  /\ ~destroying

Goto(t, s) == call' = [call EXCEPT ![t] = s]

\* Directory::open_channel holds the Directory's mutex from its duplicate test
\* to its last insertion.
DirectoryFree == \A t \in Threads : call[t] # "opening"

\* open_channel up to the test workers.active() of attach_delivery.
Open(t) ==
  /\ Free(t)
  /\ DirectoryFree
  /\ ~registered
  /\ poolActive
  /\ Goto(t, "opening")
  /\ UNCHANGED <<registered, deliveryVars, subscriptionVars, workerVars, poolVars>>

\* The critical section of attach_delivery and the rest of open_channel.
Attach(t) ==
  /\ call[t] = "opening"
  /\ IF destroying \/ attached
       THEN UNCHANGED <<attached, registered, quiet>>
       ELSE attached' = TRUE /\ registered' = TRUE /\ quiet' = FALSE
  /\ Goto(t, "none")
  /\ UNCHANGED <<destroying, pending, scheduled, accepted, subscriptionVars,
                 workerVars, poolVars>>

\* close_channel: remove the entry.
Close(t) ==
  /\ Free(t)
  /\ DirectoryFree
  /\ registered
  /\ registered' = FALSE
  /\ Goto(t, "closing")
  /\ UNCHANGED <<deliveryVars, subscriptionVars, workerVars, poolVars>>

\* The common part of detach_delivery and stop_delivery.  A callback of this
\* very channel does not wait for itself.
StopAccepting(t) ==
  /\ attached' = FALSE
  /\ pending' = <<>>
  /\ Goto(t, IF t \in Workers THEN "none" ELSE "detaching")
  /\ UNCHANGED <<registered, scheduled, accepted, quiet, subscriptionVars,
                 workerVars, poolVars>>

\* detach_delivery, called by close_channel.
Detach(t) ==
  /\ call[t] = "closing"
  /\ StopAccepting(t)
  /\ UNCHANGED destroying

\* ~Channel: the last reference goes, so no other thread is in a call.
Destroy(t) ==
  /\ Free(t)
  /\ ~registered
  /\ \A u \in Threads : call[u] = "none"
  /\ destroying' = TRUE
  /\ StopAccepting(t)

DetachedAtOnce(t) ==
  /\ call[t] = "detaching"
  /\ Goto(t, "none")
  /\ quiet' = ~attached
  /\ UNCHANGED <<registered, attached, destroying, pending, scheduled, accepted,
                 subscriptionVars, workerVars, poolVars>>

\* delivery_changed.wait is over and the call returns.
Detached(t) ==
  /\ call[t] = "detaching"
  /\ ~scheduled
  /\ Goto(t, "none")
  /\ quiet' = ~attached
  /\ UNCHANGED <<registered, attached, destroying, pending, scheduled, accepted,
                 subscriptionVars, workerVars, poolVars>>

\* The newest MaxDepth messages are retained.
Retain(q, m) == Append(IF Len(q) = MaxDepth THEN Tail(q) ELSE q, m)

\* The caller that finds no delivery under way has to submit a DeliveryJob.
MustSchedule(t) ==
  IF scheduled THEN UNCHANGED <<scheduled, call>>
  ELSE scheduled' = TRUE /\ Goto(t, "schedule")

\* The critical section of enqueue.  A channel that is not attached answers
\* CHANNEL_UNAVAILABLE and changes nothing.
Enqueue(t) ==
  /\ Free(t)
  /\ attached
  /\ accepted < MaxMessages
  /\ accepted' = accepted + 1
  /\ pending' = Retain(pending, accepted + 1)
  /\ MustSchedule(t)
  /\ UNCHANGED <<registered, attached, destroying, quiet, subscriptionVars,
                 workerVars, poolVars>>

\* workers->add_urgent after the unlock.
Schedule(t) ==
  /\ call[t] = "schedule"
  /\ IF poolActive
       THEN queued' = queued + 1 /\ Goto(t, "none")
       ELSE queued' = queued /\ Goto(t, "fail")
  /\ UNCHANGED <<registered, deliveryVars, subscriptionVars, workerVars, poolActive>>

\* fail_scheduled_delivery
FailScheduled == pending' = <<>> /\ scheduled' = FALSE

EnqueueFails(t) ==
  /\ call[t] = "fail"
  /\ FailScheduled
  /\ Goto(t, "none")
  /\ UNCHANGED <<registered, attached, destroying, accepted, quiet,
                 subscriptionVars, workerVars, poolVars>>

-----------------------------------------------------------------------------
\* Subscriptions

\* The new snapshot: the entries still active and the new one.
NextSnapshot(s) == {r \in subscribers : subActive[r] = "on"} \cup {s}

\* Ids are handed out in increasing order.
Subscribe(s) ==
  /\ ~destroying
  /\ subActive[s] = "unused"
  /\ \A r \in Subscribers : r < s => subActive[r] # "unused"
  /\ subActive' = [subActive EXCEPT ![s] = "on"]
  /\ subscribers' = NextSnapshot(s)
  /\ UNCHANGED <<registered, deliveryVars, received, call, workerVars, poolVars>>

\* Subscription::reset
Reset(s) ==
  /\ subActive[s] = "on"
  /\ subActive' = [subActive EXCEPT ![s] = "off"]
  /\ UNCHANGED <<registered, deliveryVars, subscribers, received, call,
                 workerVars, poolVars>>

-----------------------------------------------------------------------------
\* The pool and deliver_one

\* A worker takes the DeliveryJob from the urgent queue.
TakeJob(w) ==
  /\ worker[w] = "idle"
  /\ poolActive
  /\ queued > 0
  /\ queued' = queued - 1
  /\ worker' = [worker EXCEPT ![w] = "start"]
  /\ UNCHANGED <<registered, deliveryVars, subscriptionVars, call, message,
                 remaining, poolActive>>

TakeNewest(q) == [taken |-> q[Len(q)], rest |-> SubSeq(q, 1, Len(q) - 1)]

TakeOldest(q) == [taken |-> Head(q), rest |-> Tail(q)]

NothingToDeliver == destroying \/ ~attached \/ pending = <<>>

DeliverOneRetrying(w) ==
  /\ worker[w] = "start"
  /\ IF NothingToDeliver
       THEN /\ worker' = [worker EXCEPT ![w] = "resched"]
            /\ UNCHANGED <<pending, message>>
       ELSE /\ message' = [message EXCEPT ![w] = TakeOldest(pending).taken]
            /\ pending' = TakeOldest(pending).rest
            /\ worker' = [worker EXCEPT ![w] = "snapshot"]
  /\ UNCHANGED <<registered, attached, destroying, scheduled, accepted, quiet,
                 subscriptionVars, call, remaining, poolVars>>

\* The first critical section of deliver_one.
DeliverOne(w) ==
  /\ worker[w] = "start"
  /\ IF NothingToDeliver
       THEN /\ scheduled' = FALSE
            /\ worker' = [worker EXCEPT ![w] = "idle"]
            /\ UNCHANGED <<pending, message>>
       ELSE /\ message' = [message EXCEPT ![w] = TakeOldest(pending).taken]
            /\ pending' = TakeOldest(pending).rest
            /\ worker' = [worker EXCEPT ![w] = "snapshot"]
            /\ UNCHANGED scheduled
  /\ UNCHANGED <<registered, attached, destroying, accepted, quiet,
                 subscriptionVars, call, remaining, poolVars>>

\* invoke() copies the snapshot pointer.
Snapshot(w) ==
  /\ worker[w] = "snapshot"
  /\ remaining' = [remaining EXCEPT ![w] = subscribers]
  /\ worker' = [worker EXCEPT ![w] = "invoke"]
  /\ UNCHANGED <<registered, deliveryVars, subscriptionVars, call, message, poolVars>>

\* It examines the entries in order and calls the active ones.
Examine(w) ==
  /\ worker[w] = "invoke"
  /\ remaining[w] # {}
  /\ LET s == Min(remaining[w]) IN
       /\ remaining' = [remaining EXCEPT ![w] = @ \ {s}]
       /\ IF subActive[s] = "on"
            THEN /\ received' = [received EXCEPT ![s] = message[w]]
                 /\ worker' = [worker EXCEPT ![w] = "callback"]
            ELSE UNCHANGED <<received, worker>>
  /\ UNCHANGED <<registered, deliveryVars, subscribers, subActive, call,
                 message, poolVars>>

\* The callback, which may have called into the channel, returns.
Return(w) ==
  /\ worker[w] = "callback"
  /\ call[w] = "none"
  /\ worker' = [worker EXCEPT ![w] = "invoke"]
  /\ UNCHANGED <<registered, deliveryVars, subscriptionVars, call, message,
                 remaining, poolVars>>

SettleOneMessage(w) ==
  /\ worker[w] = "invoke"
  /\ remaining[w] = {}
  /\ message' = [message EXCEPT ![w] = 0]
  /\ scheduled' = FALSE
  /\ worker' = [worker EXCEPT ![w] = "idle"]
  /\ UNCHANGED <<registered, attached, destroying, pending, accepted, quiet,
                 subscriptionVars, call, remaining, poolVars>>

\* The second critical section of deliver_one.
Settle(w) ==
  /\ worker[w] = "invoke"
  /\ remaining[w] = {}
  /\ message' = [message EXCEPT ![w] = 0]
  /\ IF NothingToDeliver
       THEN /\ scheduled' = FALSE
            /\ worker' = [worker EXCEPT ![w] = "idle"]
       ELSE /\ scheduled' = scheduled
            /\ worker' = [worker EXCEPT ![w] = "resched"]
  /\ UNCHANGED <<registered, attached, destroying, pending, accepted, quiet,
                 subscriptionVars, call, remaining, poolVars>>

\* The DeliveryJob of the next message goes to the end of the urgent queue.
Reschedule(w) ==
  /\ worker[w] = "resched"
  /\ IF poolActive
       THEN /\ queued' = queued + 1
            /\ worker' = [worker EXCEPT ![w] = "idle"]
       ELSE /\ queued' = queued
            /\ worker' = [worker EXCEPT ![w] = "fail"]
  /\ UNCHANGED <<registered, deliveryVars, subscriptionVars, call, message,
                 remaining, poolActive>>

RescheduleFails(w) ==
  /\ worker[w] = "fail"
  /\ FailScheduled
  /\ worker' = [worker EXCEPT ![w] = "idle"]
  /\ UNCHANGED <<registered, attached, destroying, accepted, quiet,
                 subscriptionVars, call, message, remaining, poolVars>>

\* JobQueue::shutdown discards what has not started.
StopPool ==
  /\ poolActive
  /\ EarlyStop \/ quiet
  /\ poolActive' = FALSE
  /\ queued' = 0
  /\ UNCHANGED <<registered, deliveryVars, subscriptionVars, call, workerVars>>

-----------------------------------------------------------------------------

ChannelStep(t) ==
  \/ Attach(t) \/ Detach(t) \/ Detached(t) \/ Schedule(t) \/ EnqueueFails(t)

WorkerStep(w) ==
  \/ TakeJob(w) \/ DeliverOne(w) \/ Snapshot(w) \/ Examine(w) \/ Return(w)
  \/ Settle(w) \/ Reschedule(w) \/ RescheduleFails(w)

\* The channel was destroyed and nobody is in it any more.
Terminated ==
  /\ destroying
  /\ \A t \in Threads : call[t] = "none"
  /\ \A w \in Workers : worker[w] = "idle"
  /\ UNCHANGED vars

Next ==
  \/ \E t \in Threads :
       Open(t) \/ Close(t) \/ Enqueue(t) \/ Destroy(t) \/ ChannelStep(t)
  \/ \E s \in Subscribers : Subscribe(s) \/ Reset(s)
  \/ \E w \in Workers : WorkerStep(w)
  \/ StopPool
  \/ Terminated

Spec == Init /\ [][Next]_vars

\* A thread inside a call keeps running, and so do the workers: callbacks
\* return and some worker takes a queued job.
Fairness ==
  /\ \A t \in Threads : WF_vars(ChannelStep(t))
  /\ \A w \in Workers : WF_vars(WorkerStep(w))

FairSpec == Spec /\ Fairness

-----------------------------------------------------------------------------
\* Properties

Scheduling == {t \in Threads : call[t] \in {"schedule", "fail"}}
Busy == {w \in Workers : worker[w] # "idle"}

(* delivery_scheduled is a token: "One delivery job is queued/running".     *)
(* At any time at most one party holds it, the thread about to submit the   *)
(* DeliveryJob, the job in the pool's queue or the worker executing it, and *)
(* the flag is set while somebody does.  As long as the pool accepts work   *)
(* the flag is never left set with nobody holding it.                       *)
OneDelivery ==
  LET holders == Cardinality(Scheduling) + queued + Cardinality(Busy) IN
    /\ holders <= 1
    /\ holders = 1 => scheduled
    /\ poolActive /\ scheduled => holders = 1

(* "Bounded asynchronous delivery is detached before this function          *)
(* returns": after close_channel() or ~Channel() returned to a thread that  *)
(* is not a callback of the channel, no callback runs, no job is queued and *)
(* no thread still holds the borrowed pool to submit one, until the channel *)
(* is opened again.                                                         *)
QuietAfterDetach ==
  quiet => /\ \A w \in Workers : worker[w] = "idle"
           /\ \A t \in Threads : call[t] \notin {"schedule", "fail"}
           /\ queued = 0 /\ pending = <<>>

(* A channel the Directory lists accepts messages: a close_channel() that   *)
(* removed the entry and has not detached yet never detaches a registration *)
(* made in between.                                                         *)
ListedAccepts == registered => attached

(* A subscriber sees messages in the order they were accepted and none      *)
(* twice, although successive deliveries run on different workers: a        *)
(* callback that invoke() starts is given a message newer than every        *)
(* message its subscription was given before.                               *)
InOrder ==
  [][\A w \in Workers : worker[w] = "invoke" /\ worker'[w] = "callback" =>
       \E s \in Subscribers :
         /\ received[s] < message[w]
         /\ received' = [received EXCEPT ![s] = message[w]]]_vars

(* On a pool that outlives the channel, a call to close_channel() or        *)
(* ~Channel() returns unless somebody opens the channel again meanwhile.    *)
DetachReturns ==
  \A t \in Clients :
    call[t] = "detaching" ~> (call[t] = "none" \/ attached \/ ~poolActive)

Waiting(m) == \E i \in DOMAIN pending : pending[i] = m

(* On a pool that outlives the channel, an accepted message does not stay   *)
(* in the queue: it is delivered, evicted by newer ones or discarded by a   *)
(* detach.                                                                  *)
PendingDrains ==
  \A m \in 1..MaxMessages : Waiting(m) ~> (~Waiting(m) \/ ~poolActive)

(* What bounded delivery promises in every state: one delivery at a time,   *)
(* silence after detach_delivery() returned, and a channel that the         *)
(* Directory lists accepts messages.                                        *)
DeliverySound == OneDelivery /\ QuietAfterDetach /\ ListedAccepts

=============================================================================
