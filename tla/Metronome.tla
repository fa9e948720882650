------------------------------ MODULE Metronome ------------------------------
(***************************************************************************)
(* The one-hertz heartbeat: a periodic job of the shared worker pool that  *)
(* publishes on a channel of the Directory, and the start and stop that    *)
(* own both.  A lifecycle is the number of the start that created its      *)
(* TickState and channel; the tick of an earlier lifecycle may still be on *)
(* a worker when the next one starts.  The pool stays active, as the       *)
(* constructor demands of its caller.                                      *)
(***************************************************************************)
EXTENDS Naturals

CONSTANT MaxLives      \* bound on the calls of start() that build a lifecycle

VARIABLES life,        \* per lifecycle: running, the periodic job, the channel
          route,       \* what //metronome/1hz names: a lifecycle, NoLife, or
                       \* Other, a channel somebody else registered
          tick,        \* Metronome::Impl::state, NoLife when it is null
          call,        \* progress of the caller that holds Impl::mutex
          starts,
          terminated   \* std::terminate was called

heartbeatVars == <<life, route, tick, call, starts, terminated>>

Lives == 1 .. MaxLives
NoLife == 0
Other == MaxLives + 1

FreshLife == [running |-> FALSE, active |-> FALSE, job |-> "none",
              attached |-> FALSE, scheduled |-> FALSE]

Free == [at |-> "free", life |-> NoLife]

HeartbeatInit ==
  /\ life = [g \in Lives |-> FreshLife]
  /\ route = NoLife /\ tick = NoLife
  /\ call = Free
  /\ starts = 0 /\ terminated = FALSE

CallAt(place, g) == call' = [at |-> place, life |-> g]

-----------------------------------------------------------------------------
(* start(), under Impl::mutex.                                             *)

\* open_channel: DUPLICATE_CHANNEL when the name is taken.
start ==
  LET g == starts + 1 IN
  /\ call = Free /\ tick = NoLife /\ starts < MaxLives
  /\ starts' = g
  /\ IF route = NoLife
     THEN /\ life' = [life EXCEPT ![g].attached = TRUE, ![g].running = TRUE]
          /\ route' = g
          /\ CallAt("schedule", g)
     ELSE UNCHANGED <<life, route, call>>
  /\ UNCHANGED <<tick, terminated>>

\* scheduler.every: the first tick is due a period later.
Schedule ==
  LET g == call.life IN
  /\ call.at = "schedule"
  /\ \/ /\ life' = [life EXCEPT ![g].active = TRUE, ![g].job = "queued"]
        /\ tick' = g
        /\ call' = Free
     \/ /\ life' = [life EXCEPT ![g].running = FALSE]  \* the pool refuses
        /\ CallAt("erase", g)
        /\ UNCHANGED tick
  /\ UNCHANGED <<route, starts, terminated>>

-----------------------------------------------------------------------------
(* stop(), under Impl::mutex, and Directory::close_channel.                *)

\* running = false and then cancel(), which waits for nobody.
stop ==
  /\ call = Free /\ tick # NoLife
  /\ life' = [life EXCEPT ![tick].running = FALSE]
  /\ CallAt("cancel", tick)
  /\ UNCHANGED <<route, tick, starts, terminated>>

Cancel ==
  /\ call.at = "cancel"
  /\ life' = [life EXCEPT ![call.life].active = FALSE]
  /\ CallAt("erase", call.life)
  /\ UNCHANGED <<route, tick, starts, terminated>>

\* close_channel removes the name first and detaches with no mutex held.
Erase ==
  /\ call.at = "erase"
  /\ route' = NoLife
  /\ CallAt("detach", call.life)
  /\ UNCHANGED <<life, tick, starts, terminated>>

\* detach_delivery_queue: accept no more, then wait for the delivery.
DetachChannel ==
  /\ call.at = "detach"
  /\ life' = [life EXCEPT ![call.life].attached = FALSE]
  /\ CallAt("drain", call.life)
  /\ UNCHANGED <<route, tick, starts, terminated>>

\* The wait is over; stop() drops its state, a failed start() had none.
ChannelDrained ==
  /\ call.at = "drain" /\ ~life[call.life].scheduled
  /\ tick' = NoLife /\ call' = Free
  /\ UNCHANGED <<life, route, starts, terminated>>

-----------------------------------------------------------------------------
(* A worker of the pool.                                                   *)

Set(g, place) == life' = [life EXCEPT ![g].job = place]

\* The periodic entry is due: executed only while its handle is active.
TakeTick(g) ==
  /\ life[g].job = "queued"
  /\ Set(g, IF life[g].active THEN "check" ELSE "none")
  /\ UNCHANGED <<route, tick, call, starts, terminated>>

\* publish_tick: is publishing still desired?
Check(g) ==
  /\ life[g].job = "check"
  /\ Set(g, IF life[g].running THEN "transmit" ELSE "done")
  /\ UNCHANGED <<route, tick, call, starts, terminated>>

\* transmit(): CHANNEL_UNAVAILABLE once the channel is detached.
Transmit(g) ==
  /\ life[g].job = "transmit"
  /\ life' = [life EXCEPT ![g].job = IF life[g].attached THEN "done" ELSE "recheck",
                          ![g].scheduled = @ \/ life[g].attached]
  /\ UNCHANGED <<route, tick, call, starts, terminated>>

\* Any failure to transmit is unrecoverable.
Recheck_not(g) ==
  /\ life[g].job = "recheck"
  /\ terminated' = TRUE
  /\ Set(g, "done")
  /\ UNCHANGED <<route, tick, call, starts>>

\* A failure that was not wanted is unrecoverable.
Recheck(g) ==
  /\ life[g].job = "recheck"
  /\ terminated' = life[g].running
  /\ Set(g, "done")
  /\ UNCHANGED <<route, tick, call, starts>>

\* The worker queues the entry for its next period.
Requeue(g) ==
  /\ life[g].job = "done"
  /\ Set(g, IF life[g].active THEN "queued" ELSE "none")
  /\ UNCHANGED <<route, tick, call, starts, terminated>>

\* The pending heartbeat reached the subscribers.
Deliver(g) ==
  /\ life[g].scheduled
  /\ life' = [life EXCEPT ![g].scheduled = FALSE]
  /\ UNCHANGED <<route, tick, call, starts, terminated>>

\* Somebody else registers or removes a channel of that name.
Foreign ==
  /\ route' = IF route = NoLife THEN Other ELSE IF route = Other THEN NoLife ELSE route
  /\ route' # route
  /\ UNCHANGED <<life, tick, call, starts, terminated>>

HeartbeatNext ==
  /\ ~terminated
  /\ \/ start \/ Schedule \/ stop \/ Cancel \/ Erase \/ DetachChannel \/ ChannelDrained \/ Foreign
     \/ \E g \in Lives :
          TakeTick(g) \/ Check(g) \/ Transmit(g) \/ Recheck(g) \/ Requeue(g) \/ Deliver(g)

HeartbeatSpec == HeartbeatInit /\ [][HeartbeatNext]_heartbeatVars

-----------------------------------------------------------------------------
\* A stop that races a tick never makes the tick end the process: a tick
\* finds its channel closed only after publishing was switched off.  When
\* stop() or a failed start() returns nothing of the lifecycle is left: the
\* name is free for the next start(), no heartbeat is pending or being
\* delivered, and no tick will be queued again.
HeartbeatQuiet ==
  /\ ~terminated
  /\ call = Free /\ tick = NoLife =>
       /\ route \notin Lives
       /\ \A g \in Lives : ~life[g].attached /\ ~life[g].scheduled /\ ~life[g].active
=============================================================================
