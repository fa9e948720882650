------------------------------- MODULE Screen -------------------------------
(***************************************************************************)
(* Ownership of the terminal.  A Screen on the application thread sends    *)
(* one-way commands over a bounded channel that evicts its oldest pending  *)
(* message; a TerminalSession executes them on a worker and publishes the  *)
(* geometry it observes over a second channel that keeps only the newest   *)
(* event.  The application may be stopped and started again: every start   *)
(* makes a fresh Screen and fresh channels over the same session.          *)
(*                                                                         *)
(* The terminal device is tty: whether it is raw, and the modes that are   *)
(* switched away from their defaults.  Writing, configuring and querying   *)
(* it may fail MaxFaults times.  A command is executed in one step: only   *)
(* TerminalSubsystem::stop could observe it half way, and its unbind waits *)
(* for the command being delivered.                                        *)
(***************************************************************************)
EXTENDS Naturals, Sequences, FiniteSets

CONSTANTS kScreenCommandDepth, Sizes, MaxStarts, MaxFaults, MaxResizes,
          MaxCopies

ScreenAssumption ==
  /\ kScreenCommandDepth \in Nat \ {0}
  /\ MaxFaults \in Nat

VARIABLES screen, commands, current, resize, session, tty, app

screenVars == <<screen, commands, current, resize, session, tty, app>>

NoSize == 0
NoCommand == "none"

Modes == {"alternate", "hidden_cursor", "no_wrap", "paste", "focus", "drag",
          "sgr_mouse", "kitty"}

NewSession == [active |-> FALSE, modes |-> {}, saved |-> FALSE,
               final |-> FALSE, last |-> NoSize, bound |-> FALSE]

NoScreen == [alive |-> FALSE, requested |-> FALSE, size |-> NoSize]

ScreenInit ==
  /\ screen = NoScreen
  /\ commands = <<>>
  /\ current = NoCommand
  /\ resize = NoSize
  /\ session = NewSession
  /\ \E s \in Sizes :
       tty = [raw |-> FALSE, modes |-> {}, size |-> s, faults |-> 0,
              lost |-> FALSE, resizes |-> 0]
  /\ app = [phase |-> "stopped", death |-> "OK", starts |-> 0, copies |-> 0]

-----------------------------------------------------------------------------
(* The terminal device.  A write that fails may have passed any part of    *)
(* its bytes; a failed restoration is remembered in lost.                  *)

mode_sequence(t, switched) == [t EXCEPT !.modes = switched]

Failing(t) == [t EXCEPT !.faults = @ + 1]

\* The device after a call that fails and changes nothing else.
Faulty(t) == IF t.faults < MaxFaults THEN {Failing(t)} ELSE {}

\* write_all of the sequence that leads from the modes of t to those of goal:
\* pairs of the outcome and the device left behind.
write_all(t, goal) ==
  {<<TRUE, mode_sequence(t, goal)>>} \cup
  {<<FALSE, Failing(mode_sequence(t, m))>> :
     m \in IF t.faults < MaxFaults THEN {t.modes, goal} ELSE {}}

tcsetattr(t, raw) ==
  {<<TRUE, [t EXCEPT !.raw = raw]>>} \cup {<<FALSE, u>> : u \in Faulty(t)}

Lost(result) ==
  IF result[1] THEN result[2] ELSE [result[2] EXCEPT !.lost = TRUE]

-----------------------------------------------------------------------------
(* TerminalSession.  take and release are relations: the set of the        *)
(* <<status, session, device>> they may end in.  TERMINAL_FAILED stands    *)
(* for the statuses of a terminal call that failed.                        *)

build_enter_sequence == Modes

\* The modes that remain switched after the leave sequence of these flags.
build_leave_sequence(active_modes, t) == t.modes \ active_modes

\* A failed enter write is undone: leave sequence, then the saved attributes.
TakeUndone(s, t) ==
  UNION {{<<"TERMINAL_FAILED", [s EXCEPT !.modes = {}, !.saved = FALSE], Lost(attr)>> :
            attr \in tcsetattr(Lost(left), FALSE)} :
         left \in write_all(t, build_leave_sequence(build_enter_sequence, t))}

\* isatty and tcgetattr may fail before anything was changed.
session_take(s, t) ==
  IF s.active THEN {<<"ALREADY_ACTIVE", s, t>>}
  ELSE {<<"TERMINAL_FAILED", s, u>> : u \in Faulty(t)} \cup UNION {
    IF ~attr[1] THEN {<<"TERMINAL_FAILED", [s EXCEPT !.saved = FALSE], attr[2]>>}
    ELSE UNION {
      IF entered[1]
      THEN {<<"OK", [s EXCEPT !.active = TRUE, !.saved = TRUE,
                              !.modes = build_enter_sequence], entered[2]>>}
      ELSE TakeUndone(s, entered[2]) :
        entered \in write_all(attr[2], build_enter_sequence)} :
    attr \in tcsetattr(t, TRUE)}

Released(s) ==
  [s EXCEPT !.active = FALSE, !.saved = FALSE, !.modes = {}, !.final = FALSE]

\* A release that forgets the keyboard protocol stack in the leave sequence.
session_release_keeps(s, t) ==
  IF ~s.active THEN {<<"OK", s, t>>}
  ELSE UNION {
    {<<IF left[1] /\ attr[1] THEN "OK" ELSE "TERMINAL_FAILED", Released(s), Lost(attr)>> :
       attr \in tcsetattr(Lost(left), FALSE)} :
    left \in write_all(t, build_leave_sequence(s.modes \ {"kitty"}, t))}

\* The final bytes, the leave sequence and the saved attributes are all
\* attempted, whatever failed before; the session ends inactive.
session_release(s, t) ==
  IF ~s.active THEN {<<"OK", s, t>>}
  ELSE UNION {UNION {
    {<<IF final[1] /\ left[1] /\ attr[1] THEN "OK" ELSE "TERMINAL_FAILED",
       Released(s), Lost(attr)>> :
       attr \in IF s.saved THEN tcsetattr(Lost(left), FALSE)
                ELSE {<<TRUE, Lost(left)>>}} :
    left \in write_all(final[2], build_leave_sequence(s.modes, final[2]))} :
    final \in IF s.final THEN write_all(t, t.modes) ELSE {<<TRUE, t>>}}

set_clipboard(text, t) ==
  IF text = "SET_LONG_CLIPBOARD" THEN {<<"OUTPUT_LIMIT_EXCEEDED", t>>}
  ELSE {<<IF w[1] THEN "OK" ELSE "TERMINAL_FAILED", w[2]>> :
          w \in write_all(t, t.modes)}

\* The resize channel takes events until ScreenChannelSubsystem::stop closes
\* it, and the pool that delivers them outlives it.  It keeps one pending
\* event, the newest.
transmit(s, t, pending) ==
  IF app.phase # "stopped"
  THEN <<"OK", [s EXCEPT !.last = t.size], t, t.size>>
  ELSE <<"CHANNEL_SETUP_FAILED", s, t, pending>>

\* A session that publishes the size it observes first and never again.
publish_size_once(s, t, pending) ==
  IF s.active /\ s.bound /\ s.last = NoSize THEN {transmit(s, t, pending)}
  ELSE {<<"OK", s, t, pending>>}

\* Transmit the observed size unless it is the one published last: the set of
\* the <<status, session, device, pending event>> it may end in.  A size that
\* cannot be read is left to a later presentation; one that was read always
\* fits the wire, as the device reports 16 bits.
publish_size_if_changed(s, t, pending) ==
  IF ~s.active \/ ~s.bound THEN {<<"OK", s, t, pending>>}
  ELSE {<<"OK", s, u, pending>> : u \in Faulty(t)} \cup
       {IF s.last = t.size THEN <<"OK", s, t, pending>> ELSE transmit(s, t, pending)}

fatal_async_failure(status) ==
  app' = [app EXCEPT !.phase = "dead", !.death = status]

FatalUnlessOK(status) ==
  IF status = "OK" THEN UNCHANGED app ELSE fatal_async_failure(status)

-----------------------------------------------------------------------------
(* The session's side of the command channel.                              *)

\* The worker takes the oldest pending command for delivery.
receive_screen_command ==
  /\ app.phase # "dead" /\ session.bound
  /\ current = NoCommand /\ commands # <<>>
  /\ current' = Head(commands)
  /\ commands' = Tail(commands)
  /\ UNCHANGED <<screen, resize, session, tty, app>>

ExecuteTake ==
  \E r \in session_take(session, tty) :
    IF r[1] = "TERMINAL_FAILED"
    THEN fatal_async_failure(r[1]) /\ session' = r[2] /\ tty' = r[3] /\ UNCHANGED resize
    ELSE \E w \in write_all(r[3], r[3].modes) :
           LET s == [r[2] EXCEPT !.final = TRUE] IN
           IF w[1]
           THEN \E p \in publish_size_if_changed(s, w[2], resize) :
                  /\ session' = p[2] /\ tty' = p[3] /\ resize' = p[4]
                  /\ FatalUnlessOK(p[1])
           ELSE /\ session' = s /\ tty' = w[2] /\ UNCHANGED resize
                /\ fatal_async_failure("TERMINAL_FAILED")

ExecuteRelease ==
  \E r \in session_release(session, tty) :
    /\ session' = [r[2] EXCEPT !.last = NoSize]
    /\ tty' = r[3]
    /\ FatalUnlessOK(r[1])
    /\ UNCHANGED resize

ExecuteSetClipboard ==
  /\ IF session.active
       THEN \E c \in set_clipboard(current, tty) : tty' = c[2] /\ FatalUnlessOK(c[1])
       ELSE fatal_async_failure("NOT_ACTIVE") /\ UNCHANGED tty
  /\ UNCHANGED <<session, resize>>

ExecutePresent ==
  IF ~session.active
  THEN fatal_async_failure("NOT_ACTIVE") /\ UNCHANGED <<session, tty, resize>>
  ELSE \E p \in publish_size_if_changed(session, tty, resize) :
         /\ session' = p[2] /\ resize' = p[4]
         /\ IF p[1] = "OK"
              THEN \E w \in write_all(p[3], p[3].modes) :
                     /\ tty' = w[2]
                     /\ FatalUnlessOK(IF w[1] THEN "OK" ELSE "TERMINAL_FAILED")
              ELSE fatal_async_failure(p[1]) /\ tty' = p[3]

execute_screen_command ==
  /\ app.phase # "dead"
  /\ current # NoCommand
  /\ \/ current = "TAKE" /\ ExecuteTake
     \/ current = "RELEASE" /\ ExecuteRelease
     \/ current \in {"SET_CLIPBOARD", "SET_LONG_CLIPBOARD"} /\ ExecuteSetClipboard
     \/ current = "PRESENT" /\ ExecutePresent
  /\ current' = NoCommand
  /\ UNCHANGED <<screen, commands>>

-----------------------------------------------------------------------------
(* The Screen, on the application thread.                                  *)

\* Directory::transmit to the bounded channel: the oldest pending command is
\* evicted at the configured depth.
send_command(command) ==
  commands' = Append(IF Len(commands) = kScreenCommandDepth THEN Tail(commands)
                     ELSE commands, command)

\* The last resize event of the previous ownership kept by take.
take_keeps_size ==
  /\ screen' = [alive |-> TRUE, requested |-> TRUE, size |-> CHOOSE s \in Sizes : TRUE]
  /\ send_command("TAKE")

\* take() of a fresh Screen: the ownership request, and no geometry yet.
take ==
  /\ screen' = [alive |-> TRUE, requested |-> TRUE, size |-> NoSize]
  /\ send_command("TAKE")

\* The application's draw: it gives up without geometry, presents with it.
get_dimensions == screen.size

draw ==
  /\ app.phase = "running"
  /\ get_dimensions # NoSize
  /\ screen.requested
  /\ send_command("PRESENT")
  /\ UNCHANGED <<screen, current, resize, session, tty, app>>

\* A completed selection is copied by an application that runs its loop; its
\* text may be longer than build_clipboard_write takes.
copy_selection ==
  /\ app.phase = "running"
  /\ screen.size # NoSize
  /\ app.copies < MaxCopies
  /\ app' = [app EXCEPT !.copies = @ + 1]
  /\ \E text \in {"SET_CLIPBOARD", "SET_LONG_CLIPBOARD"} : send_command(text)
  /\ UNCHANGED <<screen, current, resize, session, tty>>

receive_resize_event ==
  /\ app.phase # "dead"
  /\ screen.alive /\ resize # NoSize
  /\ screen' = IF screen.requested THEN [screen EXCEPT !.size = resize] ELSE screen
  /\ resize' = NoSize
  /\ UNCHANGED <<commands, current, session, tty, app>>

-----------------------------------------------------------------------------
(* The lifecycle: channels, terminal and screen start in that order and    *)
(* stop in the opposite one.                                               *)

start_screen ==
  /\ app.phase = "stopped" /\ app.starts < MaxStarts
  /\ app' = [app EXCEPT !.phase = "running", !.starts = @ + 1]
  /\ session' = [session EXCEPT !.bound = TRUE]
  /\ take
  /\ UNCHANGED <<current, resize, tty>>

\* ScreenSubsystem::stop: release is enqueued and the Screen is destroyed.
screen_stop ==
  /\ app.phase = "running"
  /\ app' = [app EXCEPT !.phase = "screen_stopped"]
  /\ IF screen.requested THEN send_command("RELEASE") ELSE UNCHANGED commands
  /\ screen' = NoScreen
  /\ UNCHANGED <<current, resize, session, tty>>

\* TerminalSubsystem::stop: unbind waits for the delivery in progress, then
\* the session is released directly.
terminal_stop ==
  /\ app.phase = "screen_stopped"
  /\ current = NoCommand
  /\ app' = [app EXCEPT !.phase = "terminal_stopped"]
  /\ \E r \in session_release([session EXCEPT !.bound = FALSE], tty) :
       session' = r[2] /\ tty' = r[3]
  /\ UNCHANGED <<screen, commands, current, resize>>

\* ScreenChannelSubsystem::stop closes the channels with what they hold.
close_channels ==
  /\ app.phase = "terminal_stopped"
  /\ app' = [app EXCEPT !.phase = "stopped"]
  /\ commands' = <<>>
  /\ resize' = NoSize
  /\ UNCHANGED <<screen, current, session, tty>>

\* The user resizes the window.
WindowResized ==
  /\ app.phase # "dead" /\ tty.resizes < MaxResizes
  /\ \E s \in Sizes \ {tty.size} :
       tty' = [tty EXCEPT !.size = s, !.resizes = @ + 1]
  /\ UNCHANGED <<screen, commands, current, resize, session, app>>

Worker == receive_screen_command \/ execute_screen_command

ScreenNext ==
  \/ receive_screen_command
  \/ execute_screen_command
  \/ draw
  \/ copy_selection
  \/ receive_resize_event
  \/ start_screen
  \/ screen_stop
  \/ terminal_stop
  \/ close_channels
  \/ WindowResized

\* Workers run what is queued; a running application keeps drawing.
ScreenFairness ==
  /\ WF_screenVars(Worker)
  /\ WF_screenVars(receive_resize_event)
  /\ WF_screenVars(draw)
  /\ WF_screenVars(terminal_stop \/ close_channels)

ScreenSpec == ScreenInit /\ [][ScreenNext]_screenVars /\ ScreenFairness

-----------------------------------------------------------------------------
\* A session that is not active has left the terminal as it was found, cooked
\* and with every mode at its default: TerminalSession::release whether it
\* runs as a command or at TerminalSubsystem::stop, and the undo of a failed
\* TerminalSession::take.  Only a restoration that itself failed may differ.
TerminalRestored ==
  ~session.active /\ ~tty.lost => ~tty.raw /\ tty.modes = {}

\* When fatal_async_failure ends the process, a terminal call had failed or the
\* text to copy was longer than build_clipboard_write takes.  It never ends for
\* a presentation or a clipboard write that meets an inactive session, however
\* commands are evicted from the bounded channel, nor for a resize event that
\* meets a closed channel, however stop and the worker interleave.
DeathJustified ==
  app.phase = "dead" =>
    \/ app.death = "OUTPUT_LIMIT_EXCEEDED"
    \/ app.death = "TERMINAL_FAILED" /\ tty.faults > 0

\* Once an application that keeps drawing knows some geometry, it learns the
\* current one, or it stops: publish_size_if_changed retries at every
\* presentation and receive_resize_event keeps the newest event.
GeometryConverges ==
  app.phase = "running" /\ screen.size # NoSize
    ~> screen.size = tty.size \/ app.phase # "running"

\* What screen.hpp promises of take: an application that has started observes
\* the terminal's geometry, which marks it usable, or it is stopped.
GeometryArrives ==
  app.phase = "running" ~> screen.size # NoSize \/ app.phase # "running"
=============================================================================
