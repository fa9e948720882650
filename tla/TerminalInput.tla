---------------------------- MODULE TerminalInput ----------------------------
(***************************************************************************)
(* The terminal subsystem's input path: blocks read from the terminal are  *)
(* fed to the decoder, its events are published, and a deadline kept for   *)
(* the decoder's current timeout token resolves input that stays           *)
(* incomplete.  The terminal delivers one of Inputs in blocks of any size  *)
(* and may pause for any time between two of them.                         *)
(***************************************************************************)
EXTENDS Decoder

CONSTANTS Inputs,      \* byte sequences the terminal may send
          Reports,     \* key and pointer reports: bytes |-> the event they encode
          MaxSessions

VARIABLES input,       \* what the terminal sends
          fed,         \* how much of it was read
          origin,      \* how much of it had been read at the last start
          d,           \* the decoder
          deadline,    \* TokenDeadline: its token (0 when idle) and whether it is due
          silent,      \* whether a whole timeout interval passed since the last read
          published,   \* events sent since the last start, pieces of one text or paste joined
          timedOut,    \* whether a timeout was resolved since the last start
          phase,       \* "running", "failed", "ended" or "stopped"
          starts

inputVars == <<input, fed, origin, d, deadline, silent, published, timedOut, phase, starts>>

Cancelled == [token |-> 0, due |-> FALSE]

InputInit ==
    /\ input \in Inputs
    /\ fed = 0 /\ origin = 0
    /\ d = NewDecoder
    /\ deadline = Cancelled
    /\ silent = FALSE
    /\ published = <<>>
    /\ timedOut = FALSE
    /\ phase = "running"
    /\ starts = 1

(* Neighbouring pieces of text or of pasted data, joined. *)
Joinable(a, b) ==
    \/ a.type = "text" /\ b.type = "text"
    \/ a.type = "paste" /\ b.type = "paste" /\ a.phase = "DATA" /\ b.phase = "DATA"

Join(a, b) ==
    [event |-> IF a.event.type = "text" THEN Text(a.event.text \o b.event.text)
               ELSE Paste("DATA", a.event.data \o b.event.data),
     from |-> a.from \o b.from]

RECURSIVE Joined(_, _)
Joined(earlier, events) ==
    LET last == Len(earlier)
        grown == IF earlier # <<>> /\ Joinable(earlier[last].event, events[1].event)
                 THEN [earlier EXCEPT ![last] = Join(@, events[1])] ELSE Append(earlier, events[1])
        Rest(joined) == Joined(joined, Tail(events))
    IN  IF events = <<>> THEN earlier ELSE With(grown, Rest)

(* A token that differs from the deadline's does not arm it. *)
synchronize_unarmed(clock, token) == IF token = 0 THEN Cancelled ELSE clock

(* A deadline is kept while its token is current and restarts for a new one. *)
synchronize(clock, token) ==
    CASE token = 0 -> Cancelled
      [] token # 0 /\ clock.token = token -> clock
      [] OTHER -> [token |-> token, due |-> FALSE]

(* Publish what an operation of the decoder emitted; a failed one publishes nothing. *)
publish_events(n, clock, done) ==
    /\ d' = Fresh(n)
    /\ phase' = IF n.status = "OK" THEN done ELSE "failed"
    /\ published' = IF n.status = "OK" THEN Joined(published, n.out) ELSE published
    /\ deadline' = IF n.status = "OK" THEN synchronize(clock, n.timeout) ELSE clock

(* The terminal has bytes: TerminalSession::read feeds one block. *)
poll_input ==
    /\ phase = "running"
    /\ \E size \in 1 .. Len(input) - fed :
         /\ \E n \in {feed(d, SubSeq(input, fed + 1, fed + size))} : publish_events(n, deadline, "running")
         /\ fed' = fed + size
    /\ silent' = FALSE
    /\ UNCHANGED <<input, origin, timedOut, starts>>

(* The timeout interval passes. *)
Elapse ==
    /\ phase = "running" /\ deadline.token # 0 /\ ~deadline.due
    /\ silent' = TRUE
    /\ deadline' = [deadline EXCEPT !.due = TRUE]
    /\ UNCHANGED <<input, fed, origin, d, published, timedOut, phase, starts>>

(* A poll found nothing to read; take_if_due clears the token it returns. *)
resolve_decoder_timeout ==
    /\ phase = "running"
    /\ LET clock == synchronize(deadline, d.timeout)
       IN  /\ clock.due
           /\ \E n \in {handle_timeout(d, clock.token)} : publish_events(n, Cancelled, "running")
    /\ timedOut' = TRUE
    /\ UNCHANGED <<input, fed, origin, silent, starts>>

(* The terminal was closed.  Either read returns no bytes and the decoder
   finishes, or poll reports the hangup alone and the input ends with the
   bytes the decoder still holds.                                            *)
end_of_input ==
    /\ phase = "running" /\ fed = Len(input)
    /\ \/ \E n \in {finish(d)} : publish_events(n, deadline, "ended")
       \/ phase' = "ended" /\ UNCHANGED <<d, published, deadline>>
    /\ UNCHANGED <<input, fed, origin, silent, timedOut, starts>>

stop ==
    /\ phase # "stopped" /\ starts < MaxSessions
    /\ d' = reset(d)
    /\ deadline' = Cancelled
    /\ phase' = "stopped"
    /\ published' = <<>> /\ origin' = fed
    /\ timedOut' = FALSE /\ silent' = FALSE
    /\ UNCHANGED <<input, fed, starts>>

(* Setup replaces the decoder by one over the new map. *)
start ==
    /\ phase = "stopped"
    /\ d' = NewDecoder
    /\ deadline' = Cancelled
    /\ phase' = "running"
    /\ starts' = starts + 1
    /\ UNCHANGED <<input, fed, origin, silent, published, timedOut>>

InputNext == poll_input \/ Elapse \/ resolve_decoder_timeout \/ end_of_input \/ stop \/ start

(* Time passes and the event loop keeps polling, so an armed deadline is taken. *)
InputSpec == InputInit /\ [][InputNext]_inputVars /\ WF_inputVars(Elapse) /\ WF_inputVars(resolve_decoder_timeout)

-----------------------------------------------------------------------------

accepted == SubSeq(input, origin + 1, fed)
Healthy == phase \in {"running", "ended"}

RECURSIVE Sources(_)
Sources(events) == IF events = <<>> THEN <<>> ELSE events[1].from \o Sources(Tail(events))

Held == d.sequence \o d.candidate \o d.buffer

(* Every byte the decoder accepted is accounted for exactly once and in   *)
(* order: by the event that consumed it, or by the bytes still held       *)
(* (Decoder::process, the captures, and the replay of a timed out path).  *)
BytesConserved == Healthy => Sources(published) \o Held = accepted

(* "Decode arbitrarily chunked terminal bytes" (decoder.hpp): however the *)
(* bytes were divided into reads, the events are those of one read of all *)
(* of them, as long as no timeout interfered.                             *)
ChunkingIrrelevant ==
    phase = "running" /\ ~timedOut =>
        published = Joined(<<>>, process([NewDecoder EXCEPT !.buffer = accepted]).out)

(* A report of the keyboard or the pointer yields exactly the event that   *)
(* it encodes once all its bytes were read without a pause: modifiers,     *)
(* repeat and release, positions and clipboard data included.              *)
ReportsDecoded ==
    Healthy /\ ~timedOut /\ accepted \in DOMAIN Reports =>
        [i \in DOMAIN published |-> published[i].event] = <<Reports[accepted]>>

(* A sequence that arrives slowly but steadily is not cut: a timeout is    *)
(* resolved only when a whole interval passed since the last byte was read *)
(* (update_pending_timeout renews the token, TokenDeadline rearms for it). *)
QuietBeforeTimeout ==
    [][(d.timeout # 0 /\ fed' = fed /\ phase' = "running" /\ d' # d) => silent]_inputVars

(* Incomplete input is never held for ever: once the terminal pauses, the *)
(* timeouts that are armed resolve every byte that is not part of a paste. *)
PendingResolves ==
    (phase = "running" /\ fed = Len(input) /\ ~d.pasting /\ Held # <<>>)
        ~> (phase # "running" \/ Held = <<>>)

(* Every byte is accounted for once, and the way the bytes were cut into   *)
(* reads makes no difference to the events (Decoder::process).             *)
StreamFaithful == BytesConserved /\ ChunkingIrrelevant

=============================================================================
