----------------------------- MODULE InputProofs -----------------------------
(***************************************************************************)
(* TLAPS proofs about what the user types and points at.  InputStack, for   *)
(* any commands and any number of sessions: a shell reads only what was     *)
(* typed into its session.  Selection, for any frames, layouts and points,  *)
(* whatever the frames refuse: a word takes two clicks and a line three.    *)
(***************************************************************************)
EXTENDS InputStack, Selection, TLAPS

-----------------------------------------------------------------------------
\* InputStack

FrameFields ==
  {"mode", "visible", "armed", "help", "normal", "command", "session", "generation"}

\* The input frame is in terminal mode only with a session.
FrameSound(f) ==
  /\ DOMAIN f = FrameFields /\ f.session \in BOOLEAN
  /\ f.mode = "TERMINAL" => f.session

\* An operation of the frame neither closes a session nor replaces it.
Follows(f, g) == FrameSound(g) /\ (f.session => g.session /\ g.generation = f.generation)

\* A shell runs for the session of the frame and has read what was typed into
\* it; what it has not read yet was typed into that session too.
ChildSound(f, ch) ==
  /\ DOMAIN ch = {"running", "exited", "generation", "pending", "got"}
  /\ ch.got \subseteq {ch.generation}
  /\ IF ch.running THEN f.session /\ ch.generation = f.generation ELSE ch.got = {}
  /\ ch.pending \subseteq {f.generation}
  /\ ch.pending # {} => f.session

SessionInv ==
  /\ FrameSound(frame) /\ "failed" \in DOMAIN loop /\ InputReachesItsSession
  /\ Running => ChildSound(frame, child)

-----------------------------------------------------------------------------

(* Nothing but the mode, the session and its generation matters.            *)
LEMMA Disarmed ==
  ASSUME NEW f, FrameSound(f)
  PROVE  Follows(f, f) /\ Follows(f, Disarm(f))
BY Zenon DEF FrameSound, FrameFields, Follows, Disarm

(* Editing goes to the editor of the mode.                                  *)
LEMMA Edited ==
  ASSUME NEW f, NEW g, NEW ed, Follows(f, g)
  PROVE  Follows(f, WithActive(g, ed))
BY Zenon DEF FrameSound, FrameFields, Follows, WithActive

WithHelp(f, help) == [f EXCEPT !.help = help]

(* The help panel may change.                                               *)
LEMMA Helped ==
  ASSUME NEW f, NEW g, NEW help, Follows(f, g)
  PROVE  Follows(f, WithHelp(g, help))
BY Zenon DEF FrameSound, FrameFields, Follows, WithHelp

(* InputFrame::activate_session keeps a session that is active.             *)
LEMMA Entered ==
  ASSUME NEW f, FrameSound(f)
  PROVE  Follows(f, enter_command_mode(f)) /\ Follows(f, enter_terminal_mode(f))
<1>1. Follows(f, enter_command_mode(f))
  BY Zenon DEF FrameSound, FrameFields, Follows, enter_command_mode
<1>2. /\ FrameSound(activate_session(f)) /\ activate_session(f).session
      /\ f.session => activate_session(f).generation = f.generation
  BY Zenon DEF FrameSound, FrameFields, activate_session
<1>3. Follows(f, enter_terminal_mode(f))
  BY Zenon, <1>2 DEF FrameSound, FrameFields, Follows, enter_terminal_mode
<1> QED
  BY Zenon, <1>1, <1>3

(* InputFrame::handle_escape leaves a mode or clears the draft.             *)
LEMMA Escaped ==
  ASSUME NEW f, FrameSound(f), NEW double \in BOOLEAN
  PROVE  Follows(f, handle_escape(f, double))
<1>1. Follows(f, [f EXCEPT !.armed = "fresh"])
  BY Zenon DEF FrameSound, FrameFields, Follows
<1>2. Follows(f, LeaveMode(f))
  BY Zenon DEF FrameSound, FrameFields, Follows, LeaveMode
<1>3. Follows(f, [f EXCEPT !.normal = Editor(<<>>), !.armed = "no"])
  BY Zenon DEF FrameSound, FrameFields, Follows
<1> QED
  BY Zenon, <1>1, <1>2, <1>3 DEF handle_escape

(* Text goes to an editor, or a chord enters a mode and the rest is typed.  *)
LEMMA Texted ==
  ASSUME NEW f, FrameSound(f), NEW text
  PROVE  Follows(f, handle_committed_text(f, text))
<1>1. \A g, rest : Follows(f, g) =>
        Follows(f, IF g.mode = "TERMINAL" \/ rest = <<>> THEN g
                   ELSE WithActive(g, EditorText(Active(g), rest)))
  BY Zenon, Edited
<1>2. /\ Follows(f, Disarm(f))
      /\ Follows(f, enter_command_mode(f)) /\ Follows(f, enter_terminal_mode(f))
  BY Zenon, Disarmed, Entered
<1> QED
  BY Zenon, <1>1, <1>2 DEF handle_committed_text

(* InputFrame::handle_event keeps an active session, whatever the event.    *)
LEMMA Handled ==
  ASSUME NEW f, FrameSound(f), NEW ev \in Events \cup OpenPasteEvents
  PROVE  Follows(f, FrameEvent(f, ev).f)
<1>1. Follows(f, f) /\ Follows(f, Disarm(f)) /\ Follows(f, enter_command_mode(f))
      /\ Follows(f, enter_terminal_mode(f))
  BY Zenon, Disarmed, Entered
<1>2. \A key : Follows(f, FrameKey(f, key))
  <2>1. \A key : Follows(f, WithActive(Disarm(f), EditorKey(Active(f), key)))
    BY Zenon, <1>1, Edited
  <2>2. \A double \in BOOLEAN : Follows(f, handle_escape(f, double))
    BY Zenon, Escaped
  <2> QED
    BY Zenon, <1>1, <2>1, <2>2 DEF FrameKey
<1>3. \A command : Follows(f, FrameCommand(f, command))
  BY Zenon, <1>1 DEF FrameCommand
<1>4. \A phase, data : Follows(f, FramePaste(f, phase, data).f)
  <2> SUFFICES ASSUME NEW phase, NEW data PROVE Follows(f, FramePaste(f, phase, data).f)
    BY Zenon
  <2> DEFINE quiet == IF phase = "BEGIN" THEN Disarm(f) ELSE f
             step == EditorPaste(Active(f), phase, data)
  <2>1. Follows(f, WithActive(quiet, step.ed))
    BY Zenon, <1>1, Edited
  <2> HIDE DEF quiet, step
  <2>2. \/ FramePaste(f, phase, data) = [f |-> Disarm(f), ok |-> TRUE]
        \/ FramePaste(f, phase, data) = [f |-> WithActive(quiet, step.ed), ok |-> step.ok]
    BY Zenon DEF FramePaste, Ok, quiet, step
  <2> QED
    BY <1>1, <2>1, <2>2
<1>5. \A text : Follows(f, handle_committed_text(f, text))
  BY Zenon, Texted
<1>6. CASE ev.type = "paste"
  <2>1. FrameEvent(f, ev) = FramePaste(f, ev.phase, ev.text)
    BY Zenon, <1>6 DEF FrameEvent
  <2> QED
    BY Zenon, <1>4, <2>1
<1>7. CASE ev.type # "paste"
  <2>1. ev.type \in {"key", "char", "text", "command", "pointer"}
    BY Zenon, <1>7 DEF Events, OpenPasteEvents
  <2>2. \/ FrameEvent(f, ev) = Ok(FrameKey(f, ev.key))
        \/ FrameEvent(f, ev) = Ok(f)
        \/ FrameEvent(f, ev) = Ok(handle_committed_text(f, ev.text))
        \/ FrameEvent(f, ev) = Ok(FrameCommand(f, ev.command))
        \/ FrameEvent(f, ev) = Ok(Disarm(f))
    BY Zenon, <2>1 DEF FrameEvent
  <2>3. \A g : Ok(g).f = g
    BY Zenon DEF Ok
  <2> QED
    BY Zenon, <1>1, <1>2, <1>3, <1>5, <2>2, <2>3
<1> QED
  BY Zenon, <1>6, <1>7

(* CommandModeSubsystem::handle_event keeps an active session too.          *)
LEMMA CommandHandled ==
  ASSUME NEW c, NEW f, FrameSound(f), NEW ev \in Events \cup OpenPasteEvents
  PROVE  Follows(f, CommandModeEvent(c, f, ev).f)
<1>1. \A g, d : Follows(f, g) => Follows(f, refresh_help(d, g).f)
  <2> SUFFICES ASSUME NEW g, NEW d, Follows(f, g) PROVE Follows(f, refresh_help(d, g).f)
    BY Zenon
  <2>1. \E h : refresh_help(d, g).f = WithHelp(g, h)
    <3>1. CASE g.mode # "COMMAND"
      <4>1. refresh_help(d, g).f = WithHelp(g, "none")
        BY Zenon, <3>1 DEF refresh_help, WithHelp
      <4> QED
        BY Zenon, <4>1
    <3>2. CASE g.mode = "COMMAND"
      <4> DEFINE p == FirstWord(g.command.text)
                 l == list_completions(p)
      <4>1. refresh_help(d, g).f =
              WithHelp(g, IF contains(p) THEN "usage"
                          ELSE IF l # <<>> THEN "completions" ELSE "none")
        BY Zenon, <3>2 DEF refresh_help, WithHelp
      <4> QED
        BY Zenon, <4>1
    <3> QED
      BY Zenon, <3>1, <3>2
  <2> QED
    BY Zenon, <2>1, Helped
<1>2. Follows(f, f)
  BY Zenon, Disarmed
<1>3. \A d : Follows(f, autocomplete(d, f).f)
  <2> SUFFICES ASSUME NEW d PROVE Follows(f, autocomplete(d, f).f)
    BY Zenon
  <2>1. Follows(f, Completed(d, f))
    BY Zenon DEF FrameSound, FrameFields, Follows, Completed
  <2>2. autocomplete(d, f).f = f \/ autocomplete(d, f) = refresh_help(d, Completed(d, f))
    BY Zenon DEF autocomplete
  <2> QED
    BY Zenon, <1>1, <1>2, <2>1, <2>2
<1>4. Follows(f, dispatch(c, f).f)
  <2>1. Follows(f, WithHelp(f, "none"))
    BY Zenon, <1>2, Helped
  <2>2. dispatch(c, f).f = f \/ dispatch(c, f).f = WithHelp(f, "none")
    BY Zenon DEF dispatch, WithHelp
  <2> QED
    BY Zenon, <1>2, <2>1, <2>2
<1>5. Follows(f, acknowledge(c, f).f)
  <2>1. acknowledge(c, f).f = leave_command_mode(f)
    BY Zenon DEF acknowledge
  <2>2. Follows(f, leave_command_mode(f))
    BY Zenon DEF FrameSound, FrameFields, Follows, leave_command_mode
  <2> QED
    BY Zenon, <2>1, <2>2
<1> DEFINE step == FrameEvent(f, ev)
           after == IF step.ok THEN refresh_help(c, step.f)
                    ELSE [c |-> c, f |-> step.f, ok |-> FALSE]
<1>6. Follows(f, after.f)
  <2>1. Follows(f, step.f)
    BY Zenon, Handled
  <2> HIDE DEF step
  <2>2. after = refresh_help(c, step.f) \/ after.f = step.f
    BY Zenon
  <2> QED
    BY Zenon, <1>1, <2>1, <2>2
<1> HIDE DEF after
<1>7. CommandModeEvent(c, f, ev) \in
        {acknowledge(c, f), refresh_help(MoveSelection(c, ev.key), f), autocomplete(c, f),
         dispatch(c, f), after}
  BY Zenon DEF CommandModeEvent, after
<1> QED
  BY ZenonT(30), <1>1, <1>2, <1>3, <1>4, <1>5, <1>6, <1>7

(* A shell stays the one of the session while the frame follows it.         *)
LEMMA ChildFollows ==
  ASSUME NEW f, NEW g, NEW ch, ChildSound(f, ch), Follows(f, g)
  PROVE  ChildSound(g, ch)
<1>1. CASE f.session
  BY Zenon, <1>1 DEF ChildSound, Follows
<1>2. CASE ~f.session
  BY Zenon, <1>2 DEF ChildSound
<1> QED
  BY Zenon, <1>1, <1>2

(* flush_input gives a running shell only what was typed into its session.  *)
LEMMA Flushed ==
  ASSUME NEW f, NEW ch, NEW taken \in BOOLEAN, ChildSound(f, ch)
  PROVE  ChildSound(f, flush_input(ch, taken))
<1>1. CASE taken /\ ch.running
  <2> DEFINE d == [ch EXCEPT !.got = @ \cup ch.pending, !.pending = {}]
  <2>1. /\ d.running = ch.running /\ d.generation = ch.generation
        /\ d.got = ch.got \cup ch.pending /\ d.pending = {}
        /\ DOMAIN d = DOMAIN ch
    BY Zenon DEF ChildSound
  <2>2. flush_input(ch, taken) = d
    BY Zenon, <1>1 DEF flush_input
  <2> HIDE DEF d
  <2> QED
    BY Zenon, <1>1, <2>1, <2>2 DEF ChildSound
<1>2. CASE ~(taken /\ ch.running)
  BY Zenon, <1>2 DEF flush_input
<1> QED
  BY Zenon, <1>1, <1>2

(* send() is for the session of the frame.                                  *)
LEMMA SentOn ==
  ASSUME NEW f, NEW ch, NEW taken \in BOOLEAN, ChildSound(f, ch), f.session
  PROVE  ChildSound(f, send(ch, f.generation, taken))
<1> DEFINE d == [ch EXCEPT !.pending = @ \cup {f.generation}]
<1>1. /\ d.running = ch.running /\ d.generation = ch.generation /\ d.got = ch.got
      /\ d.pending = ch.pending \cup {f.generation} /\ DOMAIN d = DOMAIN ch
  BY Zenon DEF ChildSound
<1>2. send(ch, f.generation, taken) = flush_input(d, taken)
  BY Zenon DEF send
<1> HIDE DEF d
<1>3. ChildSound(f, d)
  BY Zenon, <1>1 DEF ChildSound
<1> QED
  BY Zenon, <1>2, <1>3, Flushed

(* No shell: nothing is pending and nothing was read.                       *)
LEMMA Finished == \A f : ChildSound(f, NoChild)
BY Zenon DEF ChildSound, NoChild

(* start() begins a shell for the session of the frame, with what was typed *)
(* into that session before.                                                *)
LEMMA StartedChild ==
  ASSUME NEW f, NEW ch, NEW taken \in BOOLEAN, ChildSound(f, ch), f.session
  PROVE  ChildSound(f, start(ch, f.generation, taken))
<1> DEFINE kept == IF ch.running THEN {} ELSE ch.pending
           d == [NoChild EXCEPT !.running = TRUE, !.generation = f.generation, !.pending = kept]
<1>1. kept \subseteq {f.generation}
  BY Zenon DEF ChildSound
<1> HIDE DEF kept
<1>2. /\ d.running = TRUE /\ d.generation = f.generation /\ d.got = {} /\ d.pending = kept
      /\ DOMAIN d = {"running", "exited", "generation", "pending", "got"}
  BY Zenon DEF NoChild
<1>3. start(ch, f.generation, taken) = flush_input(d, taken)
  BY Zenon DEF start, kept
<1> HIDE DEF d
<1>4. ChildSound(f, d)
  BY Zenon, <1>1, <1>2 DEF ChildSound
<1> QED
  BY Zenon, <1>3, <1>4, Flushed

(* EmbeddedTerminalSubsystem::synchronize: the shell is the session's, or   *)
(* both end.                                                                *)
LEMMA Synchronized ==
  ASSUME NEW f, NEW ch, NEW taken \in BOOLEAN, NEW big, FrameSound(f), ChildSound(f, ch)
  PROVE  LET done == synchronize(f, ch, big, taken)
         IN  FrameSound(done.f) /\ ChildSound(done.f, done.ch)
<1>1. FrameSound(close_terminal(f))
  BY Zenon DEF FrameSound, FrameFields, close_terminal
<1>2. CASE ~f.session
  <2>1. synchronize(f, ch, big, taken) = [f |-> f, ch |-> NoChild]
    BY Zenon, <1>2 DEF synchronize, finish_child
  <2> QED
    BY <2>1, Finished
<1>3. CASE f.session
  <2> DEFINE owner == flush_input(IF /\ ~ch.running \/ ch.generation # f.generation
                                     /\ terminal_fits(big)
                                  THEN start(ch, f.generation, taken) ELSE ch, taken)
  <2>1. ChildSound(f, owner)
    BY Zenon, <1>3, Flushed, StartedChild
  <2>2. synchronize(f, ch, big, taken) =
          IF owner.exited THEN [f |-> close_terminal(f), ch |-> NoChild]
          ELSE [f |-> f, ch |-> owner]
    BY Zenon, <1>3 DEF synchronize, finish_child
  <2> HIDE DEF owner
  <2> QED
    BY <1>1, <2>1, <2>2, Finished
<1> QED
  BY Zenon, <1>2, <1>3

(* An event, forwarded to the shell only from a session that is active.     *)
LEMMA RouteStep ==
  ASSUME SessionInv, Running, NEW ev \in Events \cup OpenPasteEvents, NEW taken \in BOOLEAN,
         route_event(ev, taken)
  PROVE  SessionInv'
<1> DEFINE step == CommandModeEvent(cmd, frame, ev)
<1>1. /\ frame' = step.f
      /\ \/ child' = child
         \/ frame.mode = "TERMINAL" /\ child' = send(child, step.f.generation, taken)
  BY Zenon DEF route_event
<1>2. Follows(frame, step.f)
  BY Zenon, CommandHandled DEF SessionInv
<1> HIDE DEF step
<1>3. ChildSound(step.f, child)
  BY Zenon, <1>2, ChildFollows DEF SessionInv
<1>4. ChildSound(frame', child')
  <2>1. CASE child' = child
    BY ZenonT(30), <1>1, <1>3, <2>1
  <2>2. CASE frame.mode = "TERMINAL" /\ child' = send(child, step.f.generation, taken)
    <3>1. step.f.session
      BY Zenon, <1>2, <2>2 DEF SessionInv, FrameSound, Follows
    <3> QED
      BY ZenonT(30), <1>1, <1>3, <2>2, <3>1, SentOn
  <2> QED
    BY Zenon, <1>1, <2>1, <2>2
<1>5. "failed" \in DOMAIN loop'
  BY Zenon DEF route_event, SessionInv
<1> QED
  BY ZenonT(30), <1>1, <1>2, <1>4, <1>5
     DEF SessionInv, Follows, ChildSound, InputReachesItsSession

(* Every step keeps the shell with its session.                             *)
LEMMA SessionStep == SessionInv /\ [Next]_vars => SessionInv'
<1> SUFFICES ASSUME SessionInv, [Next]_vars PROVE SessionInv'
  BY Zenon
<1>1. CASE UNCHANGED vars
  BY Zenon, <1>1 DEF vars, SessionInv, Running, InputReachesItsSession
<1>2. ASSUME Running, "failed" \in DOMAIN loop', FrameSound(frame'), ChildSound(frame', child')
      PROVE  SessionInv'
  BY Zenon, <1>2 DEF SessionInv, ChildSound, InputReachesItsSession
<1>3. "failed" \in DOMAIN loop /\ FrameSound(frame) /\ (Running => ChildSound(frame, child))
  BY Zenon DEF SessionInv
<1>4. CASE Resize
  <2>1. "failed" \in DOMAIN loop' /\ UNCHANGED <<frame, child>> /\ Running
    BY Zenon, <1>3, <1>4 DEF Resize
  <2> QED
    BY Zenon, <1>2, <1>3, <2>1
<1>5. CASE Poll
  <2>1. PICK ev \in Events \cup OpenPasteEvents, taken \in BOOLEAN :
          IF loop.small
          THEN loop' = [loop EXCEPT !.pasting = AfterEvent(ev)] /\ UNCHANGED <<frame, cmd, child>>
          ELSE route_event(ev, taken)
    BY Zenon, <1>5 DEF Poll
  <2>2. Running
    BY Zenon, <1>5 DEF Poll
  <2>3. CASE loop.small
    <3>1. "failed" \in DOMAIN loop' /\ UNCHANGED <<frame, child>>
      BY Zenon, <1>3, <2>1, <2>3
    <3> QED
      BY ZenonT(30), <1>2, <1>3, <2>2, <3>1
  <2>4. CASE ~loop.small
    BY ZenonT(30), <2>1, <2>2, <2>4, RouteStep
  <2> QED
    BY Zenon, <2>3, <2>4
<1>6. CASE EndPoll \/ IntervalPasses
  <2>1. "failed" \in DOMAIN loop' /\ child' = child /\ Running
    BY Zenon, <1>3, <1>6 DEF EndPoll, IntervalPasses
  <2>2. Follows(frame, advance_time(frame))
    BY Zenon, <1>3, Disarmed DEF advance_time
  <2>3. Follows(frame, [frame EXCEPT !.armed = "stale"])
    BY Zenon, <1>3 DEF Follows, FrameSound, FrameFields
  <2>4. Follows(frame, frame')
    BY Zenon, <1>6, <2>2, <2>3 DEF EndPoll, IntervalPasses
  <2> QED
    BY ZenonT(30), <1>2, <1>3, <2>1, <2>4, ChildFollows DEF Follows
<1>7. CASE Synchronize
  <2>1. "failed" \in DOMAIN loop' /\ Running
    BY Zenon, <1>3, <1>7 DEF Synchronize
  <2>2. PICK taken \in BOOLEAN : LET done == synchronize(frame, child, loop.screen, taken)
                                 IN  frame' = done.f /\ child' = done.ch
    BY Zenon, <1>7 DEF Synchronize
  <2> QED
    BY ZenonT(30), <1>2, <1>3, <2>1, <2>2, Synchronized
<1>8. CASE SynchronizeFails
  <2>1. loop'.failed = "system" /\ "failed" \in DOMAIN loop' /\ child' = child
    BY Zenon, <1>3, <1>8 DEF SynchronizeFails
  <2>2. FrameSound(close_terminal(frame))
    BY Zenon, <1>3 DEF FrameSound, FrameFields, close_terminal
  <2>3. FrameSound(frame')
    BY Zenon, <1>3, <1>8, <2>2 DEF SynchronizeFails
  <2>4. ~Running'
    BY Zenon, <2>1 DEF Running
  <2> QED
    BY Zenon, <2>1, <2>3, <2>4 DEF SessionInv, InputReachesItsSession
<1>9. CASE ShellExits
  <2>1. UNCHANGED <<frame, loop>> /\ Running
    BY Zenon, <1>9 DEF ShellExits
  <2>2. /\ DOMAIN child' = DOMAIN child /\ child'.running = child.running /\ child'.got = child.got
        /\ child'.generation = child.generation /\ child'.pending = child.pending
    BY Zenon, <1>3, <1>9, <2>1 DEF ShellExits, ChildSound
  <2>3. ChildSound(frame', child')
    BY Zenon, <1>3, <2>1, <2>2 DEF ChildSound
  <2> QED
    BY Zenon, <1>2, <1>3, <2>1, <2>3
<1> QED
  BY ZenonT(30), <1>1, <1>4, <1>5, <1>6, <1>7, <1>8, <1>9 DEF Next

(* EmbeddedTerminalSubsystem: bytes typed into one session are never read   *)
(* by the shell of another, through pending input, restarts, shells that    *)
(* end unseen and a screen too small to start one, for any commands and     *)
(* any number of sessions.                                                  *)
THEOREM InputCorrect == Spec => []InputReachesItsSession
<1>1. Init => SessionInv
  <2> SUFFICES ASSUME Init PROVE SessionInv
    BY Zenon
  <2>1. FrameSound(frame)
    BY Zenon DEF Init, NewFrame, FrameSound, FrameFields
  <2>2. "failed" \in DOMAIN loop
    BY Zenon DEF Init
  <2>3. ChildSound(frame, child)
    BY Zenon, Finished DEF Init
  <2> QED
    BY Zenon, <2>1, <2>2, <2>3 DEF SessionInv, ChildSound, InputReachesItsSession
<1>2. SessionInv => InputReachesItsSession
  BY Zenon DEF SessionInv
<1> QED
  BY <1>1, <1>2, SessionStep, PTL DEF Spec

-----------------------------------------------------------------------------
\* Selection

Highlights == {"plain", "RANGE", "WORD", "LINE", "ALL"}
Gestures == {"EXTEND", "END", "WORD", "LINE", "ALL"}
FrameType == [Frames -> Highlights]

\* What a frame highlights after an operation of this type.
Highlight(type) == IF type \in {"EXTEND", "END"} THEN "RANGE" ELSE type

\* A gesture captured a frame that accepts selections.
GestureSound ==
  gesture # NoGesture =>
    /\ gesture.target \in Selectable
    /\ gesture = [target |-> gesture.target, press |-> gesture.press, extended |-> gesture.extended]

\* The click history is what the user has clicked since the last pause or drag.
HistoryTrue ==
  LET h == clicks.history IN
  /\ clicks = [history |-> h, timeout |-> clicks.timeout, generation |-> clicks.generation]
  /\ h # NoClicks => /\ h.count \in {1, 2}
                     /\ pressed = [count |-> h.count, at |-> <<h.target, h.position, h.modifiers>>]

ClickInv == highlighted \in FrameType /\ GestureSound /\ HistoryTrue
      
-----------------------------------------------------------------------------

(* A frame accepts an update and shows it, or refuses and stays as it was.  *)
LEMMA FrameUpdated ==
  ASSUME NEW fr \in FrameType, NEW f, NEW h \in Highlights,
         NEW u \in update_selection(fr, f, h)
  PROVE  /\ u[2] \in FrameType /\ \A g \in Frames : u[2][g] \in {fr[g], h}
         /\ u[1] # "OK" => u[2] = fr
<1>1. CASE u = <<"OK", [fr EXCEPT ![f] = h]>>
  BY Zenon, <1>1 DEF FrameType
<1>2. CASE u = <<"REFUSED", fr>>
  BY Zenon, <1>2 DEF FrameType
<1> QED
  BY Zenon, <1>1, <1>2 DEF update_selection

(* SelectionStateMachine::reset() clears the highlight or changes nothing.  *)
LEMMA MachineReset ==
  ASSUME NEW m, NEW fr \in FrameType, NEW r \in reset(m, fr)
  PROVE  /\ r[3] \in FrameType /\ \A g \in Frames : r[3][g] \in {fr[g], "plain"}
<1>1. CASE m.phase = "NONE"
  <2>1. r = <<"OK", NoTarget, fr>>
    BY Zenon, <1>1 DEF reset
  <2> QED
    BY Zenon, <2>1
<1>2. CASE m.phase # "NONE"
  <2>1. PICK u \in update_selection(fr, m.target, "plain") :
          r = IF u[1] = "OK" THEN <<"OK", NoTarget, u[2]>> ELSE <<u[1], m, fr>>
    BY Zenon, <1>2 DEF reset
  <2>2. u[2] \in FrameType /\ \A g \in Frames : u[2][g] \in {fr[g], "plain"}
    BY ZenonT(30), FrameUpdated DEF Highlights
  <2> QED
    BY Zenon, <2>1, <2>2
<1> QED
  BY Zenon, <1>1, <1>2

\* A frame shows what it showed or the new highlight, the last only on success.
Updated(r, fr, type) ==
  /\ r[3] \in FrameType /\ \A g \in Frames : r[3][g] \in {fr[g], Highlight(type)}
  /\ r[1] # "OK" => r[3] = fr

(* An update shows the new highlight in its frame, or is refused.           *)
LEMMA MachineUpdated ==
  ASSUME NEW f, NEW type \in Gestures, NEW m, NEW fr \in FrameType,
         NEW r \in Update(f, type, m, fr)
  PROVE  Updated(r, fr, type)
<1> USE DEF Updated
<1>1. Highlight(type) \in Highlights
  BY Zenon DEF Highlight, Highlights, Gestures
<1>2. PICK u \in update_selection(fr, f, Highlight(type)) :
        r = IF u[1] # "OK" THEN <<u[1], m, fr>>
            ELSE <<"OK", [phase |-> IF type = "EXTEND" THEN "IN_PROGRESS" ELSE "COMPLETE",
                          target |-> f], u[2]>>
  BY Zenon DEF Update, Highlight
<1>3. u[2] \in FrameType /\ \A g \in Frames : u[2][g] \in {fr[g], Highlight(type)}
  BY Zenon, <1>1, FrameUpdated
<1>4. CASE u[1] # "OK"
  <2>1. r = <<u[1], m, fr>>
    BY Zenon, <1>2, <1>4
  <2> QED
    BY Zenon, <2>1
<1>5. CASE u[1] = "OK"
  <2>1. r[1] = "OK" /\ r[3] = u[2]
    BY Zenon, <1>2, <1>5
  <2> QED
    BY Zenon, <1>3, <2>1
<1> QED
  BY Zenon, <1>4, <1>5

\* A frame shows what it showed, nothing, or what a successful operation shows.
Shows(r, fr, type) ==
  /\ r[3] \in FrameType
  /\ \A g \in Frames : \/ r[3][g] \in {fr[g], "plain"}
                       \/ r[1] = "OK" /\ r[3][g] = Highlight(type)

(* SelectionStateMachine::apply(): a frame shows what it showed, nothing or *)
(* the new highlight, and the last only if the operation succeeded.         *)
LEMMA MachineApplied ==
  ASSUME NEW f, NEW type \in Gestures, NEW m, NEW fr \in FrameType,
         NEW r \in apply(f, type, m, fr)
  PROVE  Shows(r, fr, type)
<1> USE DEF Shows
<1>1. CASE r[3] = fr
  BY Zenon, <1>1
<1>2. CASE r \in Update(f, type, m, fr)
  <2>1. Updated(r, fr, type)
    BY Zenon, <1>2, MachineUpdated
  <2> QED
    BY Zenon, <2>1 DEF Updated
<1>3. CASE r \in UNION {IF e[1] = "OK" THEN Update(f, type, e[2], e[3]) ELSE {e} :
                          e \in reset(m, fr)}
  <2>1. PICK e \in reset(m, fr) :
          r \in IF e[1] = "OK" THEN Update(f, type, e[2], e[3]) ELSE {e}
    BY Zenon, <1>3
  <2>2. e[3] \in FrameType /\ \A g \in Frames : e[3][g] \in {fr[g], "plain"}
    BY Zenon, MachineReset
  <2>3. CASE r = e
    BY Zenon, <2>2, <2>3
  <2>4. CASE r \in Update(f, type, e[2], e[3])
    <3>1. \A n, s : s \in FrameType /\ r \in Update(f, type, n, s) => Updated(r, s, type)
      BY Zenon, MachineUpdated
    <3>2. Updated(r, e[3], type)
      BY ZenonT(30), <2>2, <2>4, <3>1
    <3> QED
      BY Zenon, <2>2, <3>2 DEF Updated
  <2> QED
    BY Zenon, <2>1, <2>3, <2>4
<1>4. r \in {<<"FRAME_NOT_SELECTABLE", m, fr>>, <<"INVALID_SELECTION_TRANSITION", m, fr>>}
        => r[3] = fr
  OBVIOUS
<1> QED
  BY ZenonT(30), <1>1, <1>2, <1>3, <1>4 DEF apply

(* The history that was cleared, and one that was armed.                    *)
LEMMA HistoryCleared ==
  ASSUME HistoryTrue, clicks' = clear_click_history
  PROVE  HistoryTrue'
<1>1. /\ clicks'.history = NoClicks
      /\ clicks' = [history |-> clicks'.history, timeout |-> clicks'.timeout,
                    generation |-> clicks'.generation]
  BY Zenon DEF HistoryTrue, clear_click_history
<1> QED
  BY Zenon, <1>1 DEF HistoryTrue

(* Nothing is forgotten while the history and the user's count stand.       *)
LEMMA HistoryKept ==
  ASSUME HistoryTrue, UNCHANGED <<clicks, pressed>>
  PROVE  HistoryTrue'
BY Zenon DEF HistoryTrue

(* The steps that leave the count of clicks alone or start it again, and    *)
(* highlight neither a word nor a line.                                     *)
LEMMA NoClickStep ==
  ASSUME ClickInv, highlighted' \in FrameType, GestureSound',
         \A g \in Frames : highlighted'[g] \in {highlighted[g], "plain", "RANGE", "ALL"},
         UNCHANGED <<clicks, pressed>> \/ clicks' = clear_click_history
  PROVE  ClickInv' /\ CountedStep
<1>1. HistoryTrue'
  BY Zenon, HistoryCleared, HistoryKept DEF ClickInv
<1>2. CountedStep
  BY Zenon DEF CountedStep
<1> QED
  BY Zenon, <1>1, <1>2 DEF ClickInv

(* A press and a reset clear the highlight.                                 *)
LEMMA PressStep ==
  ASSUME ClickInv, \/ \E x \in Points : Press(x)
                   \/ reset_selection
  PROVE  ClickInv' /\ CountedStep
<1>1. PICK r \in reset(machine, highlighted) : Stored(r)
  BY Zenon DEF Press, reset_selection
<1>2. highlighted' \in FrameType /\ \A g \in Frames : highlighted'[g] \in {highlighted[g], "plain"}
  BY Zenon, <1>1, MachineReset DEF Stored, ClickInv
<1>3. UNCHANGED <<clicks, pressed>> \/ clicks' = clear_click_history
  BY Zenon DEF Press, reset_selection
<1>4. GestureSound'
  <2>1. CASE gesture' \in {gesture, NoGesture}
    BY Zenon, <2>1 DEF ClickInv, GestureSound
  <2>2. CASE \E x \in Points : Hit(x) \in Selectable /\
                gesture' = [target |-> Hit(x), press |-> x, extended |-> FALSE]
    BY <2>2 DEF GestureSound
  <2> QED
    BY Zenon, <2>1, <2>2 DEF Press, reset_selection
<1> QED
  BY ZenonT(30), <1>2, <1>3, <1>4, NoClickStep

(* Choosing everything highlights everything and starts the count again.    *)
LEMMA SelectAllStep ==
  ASSUME ClickInv, NEW f \in Frames, select_all(f)
  PROVE  ClickInv' /\ CountedStep
<1>1. PICK r \in apply(f, "ALL", machine, highlighted) : Stored(r)
  BY Zenon DEF select_all
<1>2. /\ r[3] \in FrameType
      /\ \A g \in Frames : r[3][g] \in {highlighted[g], "plain"} \/ r[3][g] = Highlight("ALL")
  <2>1. "ALL" \in Gestures /\ highlighted \in FrameType
    BY Zenon DEF Gestures, ClickInv
  <2>2. Shows(r, highlighted, "ALL")
    BY Zenon, <2>1, MachineApplied
  <2> QED
    BY Zenon, <2>2 DEF Shows
<1>3. /\ highlighted' \in FrameType
      /\ \A g \in Frames : highlighted'[g] \in {highlighted[g], "plain", "RANGE", "ALL"}
  BY Zenon, <1>1, <1>2 DEF Stored, Highlight
<1>4. clicks' = clear_click_history /\ GestureSound'
  BY Zenon DEF select_all, GestureSound
<1> QED
  BY Zenon, <1>3, <1>4, NoClickStep

(* A drag extends the selection and starts the count again, or is refused.  *)
LEMMA DragStep ==
  ASSUME ClickInv, NEW x \in Points, Drag(x)
  PROVE  ClickInv' /\ CountedStep
<1>1. CASE Abandon
  <2>1. PICK r \in reset(machine, highlighted) : Stored(r)
    BY Zenon, <1>1 DEF Abandon
  <2>2. /\ highlighted' \in FrameType
        /\ \A g \in Frames : highlighted'[g] \in {highlighted[g], "plain"}
    BY Zenon, <2>1, MachineReset DEF Stored, ClickInv
  <2>3. clicks' = clear_click_history /\ GestureSound'
    BY Zenon, <1>1 DEF Abandon, GestureSound
  <2> QED
    BY Zenon, <2>2, <2>3, NoClickStep
<1>2. CASE ~Abandon
  <2>1. PICK r \in apply(gesture.target, "EXTEND", machine, highlighted) :
          /\ Stored(r)
          /\ IF r[1] = "OK"
             THEN /\ gesture' = [gesture EXCEPT !.extended = TRUE]
                  /\ clicks' = clear_click_history
                  /\ pressed' = Unclicked
             ELSE UNCHANGED <<gesture, clicks, pressed>>
    BY Zenon, <1>2 DEF Drag
  <2>2. /\ r[3] \in FrameType
        /\ \A g \in Frames : r[3][g] \in {highlighted[g], "plain"} \/ r[3][g] = Highlight("EXTEND")
    <3>1. "EXTEND" \in Gestures /\ highlighted \in FrameType
      BY Zenon DEF Gestures, ClickInv
    <3>2. Shows(r, highlighted, "EXTEND")
      BY Zenon, <3>1, MachineApplied
    <3> QED
      BY Zenon, <3>2 DEF Shows
  <2>3. /\ highlighted' \in FrameType
        /\ \A g \in Frames : highlighted'[g] \in {highlighted[g], "plain", "RANGE", "ALL"}
    BY Zenon, <2>1, <2>2 DEF Stored, Highlight
  <2>4. UNCHANGED <<clicks, pressed>> \/ clicks' = clear_click_history
    BY Zenon, <2>1
  <2>5. GestureSound'
    <3>1. /\ gesture.target \in Selectable
          /\ gesture = [target |-> gesture.target, press |-> gesture.press,
                        extended |-> gesture.extended]
      BY Zenon DEF Drag, ClickInv, GestureSound
    <3>2. CASE r[1] = "OK"
      <4>1. gesture' = [target |-> gesture.target, press |-> gesture.press, extended |-> TRUE]
        BY Zenon, <2>1, <3>1, <3>2
      <4> QED
        BY Zenon, <3>1, <4>1 DEF GestureSound
    <3>3. CASE r[1] # "OK"
      BY Zenon, <2>1, <3>1, <3>3 DEF GestureSound
    <3> QED
      BY Zenon, <3>2, <3>3
  <2> QED
    BY ZenonT(30), <2>3, <2>4, <2>5, NoClickStep
<1> QED
  BY Zenon, <1>1, <1>2

(* A release that ends a drag selects a range and starts the count again.   *)
LEMMA MovedStep ==
  ASSUME ClickInv, ReleaseMoved, gesture' = NoGesture
  PROVE  ClickInv' /\ CountedStep
<1>1. PICK r \in IF gesture.extended THEN {<<"OK", machine, highlighted>>}
                 ELSE apply(gesture.target, "EXTEND", machine, highlighted) :
        \E e \in IF r[1] = "OK" THEN apply(gesture.target, "END", r[2], r[3]) ELSE {r} :
          Stored(e)
  BY Zenon DEF ReleaseMoved
<1>2. PICK e \in IF r[1] = "OK" THEN apply(gesture.target, "END", r[2], r[3]) ELSE {r} :
        Stored(e)
  BY Zenon, <1>1
<1>3. highlighted \in FrameType /\ "EXTEND" \in Gestures /\ "END" \in Gestures
  BY Zenon DEF ClickInv, Gestures
<1>4. Shows(r, highlighted, "EXTEND")
  <2>1. CASE r = <<"OK", machine, highlighted>>
    BY Zenon, <1>3, <2>1 DEF Shows
  <2>2. CASE r \in apply(gesture.target, "EXTEND", machine, highlighted)
    BY Zenon, <1>3, <2>2, MachineApplied
  <2> QED
    BY Zenon, <1>1, <2>1, <2>2
<1>5. Shows(e, r[3], "END") \/ e = r
  <2>1. r[3] \in FrameType
    BY Zenon, <1>4 DEF Shows
  <2>2. \A n, s : s \in FrameType /\ e \in apply(gesture.target, "END", n, s) =>
          Shows(e, s, "END")
    BY Zenon, <1>3, MachineApplied
  <2> QED
    BY Zenon, <1>2, <2>1, <2>2
<1>6. /\ highlighted' \in FrameType
      /\ \A g \in Frames : highlighted'[g] \in {highlighted[g], "plain", "RANGE", "ALL"}
  <2>1. Highlight("EXTEND") = "RANGE" /\ Highlight("END") = "RANGE"
    BY Zenon DEF Highlight
  <2>2. highlighted' = e[3]
    BY Zenon, <1>2 DEF Stored
  <2> QED
    BY ZenonT(30), <1>4, <1>5, <2>1, <2>2 DEF Shows
<1>7. clicks' = clear_click_history /\ GestureSound'
  BY Zenon DEF ReleaseMoved, GestureSound
<1> QED
  BY Zenon, <1>6, <1>7, NoClickStep

(* A first click places the cursor and starts the count, or is refused.     *)
LEMMA FirstClickStep ==
  ASSUME ClickInv, NEW x, NEW m, ReleaseClick(x, m),
         gesture' = NoGesture, click_count(x, m) = 1
  PROVE  ClickInv' /\ CountedStep
<1>1. PICK p \in place_cursor(gesture.target) :
        /\ highlighted' = p[2]
        /\ clicks' = IF p[1] = "OK" THEN Clicked(x, m, 1) ELSE clear_click_history
        /\ pressed' = IF p[1] # "OK" THEN Unclicked
                      ELSE [count |-> 1, at |-> <<gesture.target, x, m>>]
  BY Zenon DEF ReleaseClick
<1>2. highlighted \in FrameType /\ "plain" \in Highlights
  BY Zenon DEF ClickInv, Highlights
<1>3. p[2] \in FrameType /\ \A g \in Frames : p[2][g] \in {highlighted[g], "plain"}
  <2>1. CASE p = <<"OK", highlighted>>
    BY Zenon, <1>2, <2>1
  <2>2. CASE p \in update_selection(highlighted, gesture.target, "plain")
    BY Zenon, <1>2, <2>2, FrameUpdated
  <2> QED
    BY Zenon, <2>1, <2>2 DEF place_cursor
<1>4. GestureSound'
  BY Zenon DEF GestureSound
<1>5. CASE p[1] # "OK"
  BY ZenonT(30), <1>1, <1>3, <1>4, <1>5, NoClickStep
<1>6. CASE p[1] = "OK"
  <2>1. /\ clicks' = Clicked(x, m, 1)
        /\ pressed' = [count |-> 1, at |-> <<gesture.target, x, m>>]
    BY Zenon, <1>1, <1>6
  <2>2. HistoryTrue'
    BY Zenon, <2>1 DEF Clicked, arm_click_timeout, HistoryTrue
  <2>3. CountedStep
    BY Zenon, <1>1, <1>3 DEF CountedStep
  <2> QED
    BY ZenonT(30), <1>1, <1>3, <1>4, <2>2, <2>3 DEF ClickInv
<1> QED
  BY Zenon, <1>5, <1>6

(* A later click selects a word if it is the second one and a line if it is *)
(* the third: the count of the history is the count of the user.            *)
LEMMA NextClickStep ==
  ASSUME SelectionAssumption, ClickInv, gesture # NoGesture,
         NEW x, NEW m, ReleaseClick(x, m),
         gesture' = NoGesture, click_count(x, m) # 1
  PROVE  ClickInv' /\ CountedStep
<1> DEFINE h == clicks.history
<1>1. /\ h.target = gesture.target /\ h.position = x /\ h.modifiers = m
      /\ click_count(x, m) = h.count + 1
  BY Zenon DEF click_count
<1>2. h # NoClicks
  BY <1>1 DEF NoClicks, SelectionAssumption, ClickInv, GestureSound
<1>3. /\ h.count \in {1, 2}
      /\ pressed = [count |-> h.count, at |-> <<h.target, h.position, h.modifiers>>]
  BY Zenon, <1>2 DEF ClickInv, HistoryTrue
<1> DEFINE count == click_count(x, m)
           type == IF count = 2 THEN "WORD" ELSE "LINE"
<1>4. /\ count \in {2, 3} /\ pressed.count = count - 1
      /\ pressed.at = <<gesture.target, x, m>> /\ pressed.count < 3
  BY <1>1, <1>3
<1>5. PICK r \in apply(gesture.target, type, machine, highlighted) :
        /\ Stored(r)
        /\ clicks' = IF r[1] # "OK" \/ count >= 3 THEN clear_click_history
                     ELSE Clicked(x, m, count)
        /\ pressed' = IF r[1] # "OK" THEN Unclicked
                      ELSE [count |-> IF pressed.at = <<gesture.target, x, m>> /\ pressed.count < 3
                                      THEN pressed.count + 1 ELSE 1,
                            at |-> <<gesture.target, x, m>>]
  BY Zenon DEF ReleaseClick
<1>6. Shows(r, highlighted, type)
  <2>1. type \in Gestures /\ highlighted \in FrameType
    BY Zenon DEF Gestures, ClickInv
  <2> HIDE DEF type
  <2> QED
    BY Zenon, <2>1, MachineApplied
<1>7. highlighted' = r[3] /\ highlighted' \in FrameType /\ GestureSound'
  BY Zenon, <1>5, <1>6 DEF Stored, Shows, GestureSound
<1>8. CASE r[1] # "OK"
  <2>1. clicks' = clear_click_history
    BY Zenon, <1>5, <1>8
  <2>2. \A g \in Frames : highlighted'[g] \in {highlighted[g], "plain", "RANGE", "ALL"}
    BY ZenonT(30), <1>6, <1>7, <1>8 DEF Shows
  <2> QED
    BY ZenonT(30), <1>7, <2>1, <2>2, NoClickStep
<1>9. CASE r[1] = "OK"
  <2>1. pressed' = [count |-> count, at |-> <<gesture.target, x, m>>]
    <3>1. pressed.count + 1 = count
      BY <1>4
    <3> HIDE DEF count
    <3> QED
      BY ZenonT(30), <1>4, <1>5, <1>9, <3>1
  <2>2. HistoryTrue'
    <3>1. CASE count = 2
      <4>1. clicks' = Clicked(x, m, 2)
        BY <1>5, <1>9, <3>1
      <4> QED
        BY ZenonT(30), <2>1, <3>1, <4>1 DEF Clicked, arm_click_timeout, HistoryTrue
    <3>2. CASE count = 3
      <4>1. clicks' = clear_click_history
        BY SMTT(20), <1>5, <1>9, <3>2
      <4> QED
        BY ZenonT(30), <4>1, HistoryCleared DEF ClickInv
    <3> QED
      BY ZenonT(30), <1>4, <3>1, <3>2
  <2>3. CountedStep
    <3>1. Highlight(type) = type /\ type = IF count = 2 THEN "WORD" ELSE "LINE"
      BY Zenon DEF Highlight
    <3> HIDE DEF type, count
    <3>2. \A g \in Frames : highlighted'[g] \in {highlighted[g], "plain", type}
      BY ZenonT(30), <1>6, <1>7, <3>1 DEF Shows
    <3>3. pressed'.count = count
      BY Zenon, <2>1
    <3> QED
      BY ZenonT(30), <1>4, <3>1, <3>2, <3>3 DEF CountedStep
  <2> QED
    BY ZenonT(30), <1>7, <2>2, <2>3 DEF ClickInv
<1> QED
  BY Zenon, <1>8, <1>9

(* A release, whichever way it ends.                                        *)
LEMMA ReleaseStep ==
  ASSUME SelectionAssumption, ClickInv, NEW x \in Points,
         NEW m \in Modifiers, Release(x, m)
  PROVE  ClickInv' /\ CountedStep
<1>1. gesture # NoGesture /\ gesture' = NoGesture
  BY Zenon DEF Release
<1>2. CASE gesture.target \notin DOMAIN layout
  <2>1. PICK r \in reset(machine, highlighted) : Stored(r)
    BY Zenon, <1>2 DEF Release
  <2>2. /\ highlighted' \in FrameType
        /\ \A g \in Frames : highlighted'[g] \in {highlighted[g], "plain"}
    BY Zenon, <2>1, MachineReset DEF Stored, ClickInv
  <2>3. clicks' = clear_click_history /\ GestureSound'
    BY Zenon, <1>2 DEF Release, GestureSound
  <2> QED
    BY ZenonT(30), <2>2, <2>3, NoClickStep
<1>3. CASE ReleaseMoved
  BY ZenonT(30), <1>1, <1>3, MovedStep
<1>4. CASE ReleaseClick(x, m)
  BY ZenonT(30), <1>1, <1>4, FirstClickStep, NextClickStep
<1> QED
  BY ZenonT(30), <1>2, <1>3, <1>4 DEF Release

(* A timeout, live or stale, and another layout.                            *)
LEMMA TimeoutStep ==
  ASSUME ClickInv, \/ \E g \in 1 .. MaxTimeouts : handle_selection_timeout(g)
                   \/ Rearrange
                   \/ UNCHANGED selectionVars
  PROVE  ClickInv' /\ CountedStep
<1>1. /\ UNCHANGED <<gesture, highlighted>>
      /\ UNCHANGED <<clicks, pressed>> \/ clicks' = clear_click_history
  BY Zenon DEF handle_selection_timeout, Rearrange, selectionVars
<1>2. highlighted' \in FrameType /\ GestureSound'
  BY Zenon, <1>1 DEF ClickInv, GestureSound
<1>3. \A g \in Frames : highlighted'[g] \in {highlighted[g], "plain", "RANGE", "ALL"}
  BY Zenon, <1>1
<1> QED
  BY ZenonT(30), <1>1, <1>2, <1>3, NoClickStep

(* Screen::handle_mouse_event and handle_selection_timeout: a word is       *)
(* selected by a second click and a line by a third one in the same place,  *)
(* and by nothing else, for any frames, layouts and points, whatever the    *)
(* frames refuse.                                                           *)
THEOREM ClicksCorrect ==
  ASSUME SelectionAssumption
  PROVE  SelectionSpec => ClicksCounted
<1>1. SelectionInit => ClickInv
  <2> SUFFICES ASSUME SelectionInit PROVE ClickInv
    BY Zenon
  <2>1. highlighted \in FrameType
    BY Zenon DEF SelectionInit, FrameType, Highlights
  <2>2. GestureSound
    BY Zenon DEF SelectionInit, GestureSound
  <2>3. HistoryTrue
    BY Zenon DEF SelectionInit, HistoryTrue
  <2> QED
    BY Zenon, <2>1, <2>2, <2>3 DEF ClickInv
<1>2. ClickInv /\ [SelectionNext]_selectionVars => ClickInv' /\ CountedStep
  <2> SUFFICES ASSUME ClickInv, [SelectionNext]_selectionVars
               PROVE  ClickInv' /\ CountedStep
    BY Zenon
  <2>1. CASE (\E x \in Points : Press(x)) \/ reset_selection
    BY Zenon, <2>1, PressStep
  <2>2. CASE \E x \in Points : Drag(x)
    BY Zenon, <2>2, DragStep
  <2>3. CASE \E x \in Points, m \in Modifiers : Release(x, m)
    BY ZenonT(30), <2>3, ReleaseStep
  <2>4. CASE \E f \in Frames : select_all(f)
    BY Zenon, <2>4, SelectAllStep
  <2>5. CASE \/ \E g \in 1 .. MaxTimeouts : handle_selection_timeout(g)
             \/ Rearrange
             \/ UNCHANGED selectionVars
    BY Zenon, <2>5, TimeoutStep
  <2> QED
    BY ZenonT(30), <2>1, <2>2, <2>3, <2>4, <2>5 DEF SelectionNext
<1> QED
  BY <1>1, <1>2, PTL DEF SelectionSpec, ClicksCounted

=============================================================================
