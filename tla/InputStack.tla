----------------------------- MODULE InputStack -----------------------------
(***************************************************************************)
(* The input side of the interactive runtime: InputFrame with its normal   *)
(* and command editors and its integrated terminal, CommandModeSubsystem   *)
(* above it, EmbeddedTerminalSubsystem beside it, and the runtime loop     *)
(* that polls events, routes each of them and synchronizes the shell.      *)
(*                                                                         *)
(* An editor is the text it holds and the text its open paste would        *)
(* restore; `armed' abstracts escape_started to whether the interval of a  *)
(* double Escape still runs.  Input bytes carry the session they were      *)
(* typed into.                                                             *)
(***************************************************************************)
EXTENDS Integers, Sequences, SequencesExt, FiniteSets

CONSTANTS Spellings,     \* registered command spellings, in trie order
          Letters,       \* letters a user may type
          MaxDraft,      \* bound on the length of the normal draft
          MaxCommand,    \* bound on the length of the command line
          MaxGeneration  \* bound on the sessions

VARIABLES frame, cmd, child, loop

vars == <<frame, cmd, child, loop>>

COMMAND_KEY == ":"
TERMINAL_KEY == ">"
BLANK == " "

Editor(text) == [text |-> text, paste |-> <<>>]

NewFrame ==
    [mode |-> "NORMAL", visible |-> FALSE, armed |-> "no", help |-> "none",
     normal |-> Editor(<<>>), command |-> Editor(<<>>),
     session |-> FALSE, generation |-> 0]

NewCommandMode ==
    [waiting |-> FALSE, completions |-> <<>>, prefix |-> <<>>, selected |-> 0]

NoChild == [running |-> FALSE, exited |-> FALSE, generation |-> 0, pending |-> {}, got |-> {}]

(* `at' is the runtime's place in its loop and `pasting' whether the decoder
   is inside a bracketed paste.                                              *)
Init ==
    /\ frame = NewFrame
    /\ cmd = NewCommandMode
    /\ child = NoChild
    /\ loop = [at |-> "resize", screen |-> "large", small |-> FALSE, pasting |-> FALSE,
               failed |-> "no"]

-----------------------------------------------------------------------------
(* Editors, as InputFrame sees them *)

Ok(f) == [f |-> f, ok |-> TRUE]

AppendText(ed, text) == [ed EXCEPT !.text = @ \o text]

EditorText(ed, text) == IF ed.paste # <<>> THEN ed ELSE AppendText(ed, text)

EditorKey(ed, key) ==
    CASE ed.paste # <<>> -> ed
      [] ed.paste = <<>> /\ key = "BACKSPACE" /\ ed.text # <<>> -> [ed EXCEPT !.text = Front(@)]
      [] ed.paste = <<>> /\ key = "TAB" -> AppendText(ed, <<BLANK>>)
      [] OTHER -> ed

(* handle_paste: the editor after one stage, and whether it was legal. *)
EditorPaste(ed, phase, data) ==
    CASE phase = "BEGIN" -> [ed |-> IF ed.paste = <<>> THEN [ed EXCEPT !.paste = <<@, ed.text>>]
                                    ELSE ed, ok |-> ed.paste = <<>>]
      [] phase = "DATA" -> [ed |-> IF ed.paste # <<>> THEN AppendText(ed, data) ELSE ed,
                            ok |-> ed.paste # <<>>]
      [] phase = "END" -> [ed |-> [ed EXCEPT !.paste = <<>>], ok |-> ed.paste # <<>>]
      [] phase = "CANCEL" -> [ed |-> IF ed.paste # <<>> THEN Editor(ed.paste[2]) ELSE ed,
                              ok |-> TRUE]

Active(f) == IF f.mode = "COMMAND" THEN f.command ELSE f.normal
WithActive(f, ed) ==
    IF f.mode = "COMMAND" THEN [f EXCEPT !.command = ed] ELSE [f EXCEPT !.normal = ed]
paste_in_progress(f) == f.mode \in {"NORMAL", "COMMAND"} /\ Active(f).paste # <<>>
Disarm(f) == [f EXCEPT !.armed = "no"]

-----------------------------------------------------------------------------
(* InputFrame *)

enter_command_mode(f) ==
    [f EXCEPT !.command = Editor(<<>>), !.help = "none", !.mode = "COMMAND",
              !.visible = FALSE, !.armed = "no"]

(* activate_session asks for a new shell only when none is active. *)
activate_session(f) ==
    IF f.session THEN f ELSE [f EXCEPT !.session = TRUE, !.generation = @ + 1]

enter_terminal_mode(f) ==
    [activate_session(f) EXCEPT !.help = "none", !.mode = "TERMINAL", !.visible = TRUE,
                                !.armed = "no"]

(* One Escape arms; a second within the interval, or the decoder's double
   Escape, leaves the mode or, in normal mode, clears the draft.             *)
LeaveMode(f) == [f EXCEPT !.mode = "NORMAL", !.visible = FALSE, !.armed = "no"]

handle_escape(f, double) ==
    CASE ~double /\ f.armed # "fresh" -> [f EXCEPT !.armed = "fresh"]
      [] (double \/ f.armed = "fresh") /\ f.mode # "NORMAL" -> LeaveMode(f)
      [] OTHER -> [f EXCEPT !.normal = Editor(<<>>), !.armed = "no"]

handle_committed_text(f, text) ==
    LET chord == f.mode # "TERMINAL" /\ f.armed = "fresh" /\ Head(text) \in {COMMAND_KEY, TERMINAL_KEY}
        Type(entered, rest) ==
            IF entered.mode = "TERMINAL" \/ rest = <<>> THEN entered
            ELSE WithActive(entered, EditorText(Active(entered), rest))
    IN  IF ~chord THEN Type(Disarm(f), text)
        ELSE Type(IF Head(text) = COMMAND_KEY THEN enter_command_mode(f) ELSE enter_terminal_mode(f),
                  Tail(text))

FrameKey(f, key) ==
    CASE paste_in_progress(f) \/ key = "SHIFT" -> f
      [] ~paste_in_progress(f) /\ key \in {"ESCAPE", "DOUBLE_ESCAPE"} ->
           handle_escape(f, key = "DOUBLE_ESCAPE")
      [] OTHER -> IF f.mode = "TERMINAL" THEN Disarm(f)
                  ELSE WithActive(Disarm(f), EditorKey(Active(f), key))

FrameCommand(f, command) ==
    CASE paste_in_progress(f) -> f
      [] ~paste_in_progress(f) /\ command = "ENTER_COMMAND_MODE" -> enter_command_mode(f)
      [] ~paste_in_progress(f) /\ command = "ENTER_TERMINAL_MODE" -> enter_terminal_mode(f)
      [] OTHER -> Disarm(f)

FramePaste(f, phase, data) ==
    LET quiet == IF phase = "BEGIN" THEN Disarm(f) ELSE f
        step == EditorPaste(Active(f), phase, data)
    IN  IF f.mode = "TERMINAL" THEN Ok(Disarm(f))
        ELSE [f |-> WithActive(quiet, step.ed), ok |-> step.ok]

(* InputFrame::handle_event *)
FrameEvent(f, ev) ==
    CASE ev.type = "key" -> Ok(FrameKey(f, ev.key))
      [] ev.type \in {"char", "text"} ->
           Ok(IF paste_in_progress(f) THEN f ELSE handle_committed_text(f, ev.text))
      [] ev.type = "paste" -> FramePaste(f, ev.phase, ev.text)
      [] ev.type = "command" -> Ok(FrameCommand(f, ev.command))
      [] ev.type = "pointer" -> Ok(Disarm(f))

leave_command_mode(f) ==
    [f EXCEPT !.mode = IF @ = "COMMAND" THEN "NORMAL" ELSE @, !.help = "none", !.armed = "no"]

close_terminal(f) ==
    LET closed == [f EXCEPT !.session = FALSE, !.armed = "no"]
    IN  IF f.mode = "TERMINAL" THEN [closed EXCEPT !.mode = "NORMAL", !.visible = FALSE]
        ELSE closed

advance_time(f) == IF f.armed = "stale" THEN Disarm(f) ELSE f

-----------------------------------------------------------------------------
(* CommandModeSubsystem, on the pair of its own state and the frame *)

FirstWord(text) ==
    LET blanks == {i \in DOMAIN text : text[i] = BLANK}
    IN  IF blanks = {} THEN text
        ELSE SubSeq(text, 1, (CHOOSE i \in blanks : \A j \in blanks : i <= j) - 1)

Trimmed(text) ==
    LET words == {i \in DOMAIN text : text[i] # BLANK}
    IN  IF words = {} THEN <<>>
        ELSE SubSeq(text, CHOOSE i \in words : \A j \in words : i <= j, Len(text))

(* First token of the command line, <<>> when there is none. *)
FirstToken(text) == FirstWord(Trimmed(text))

contains(name) == name \in ToSet(Spellings)

list_completions(prefix) == SelectSeq(Spellings, LAMBDA s : IsPrefix(prefix, s))

(* refresh_help: completions of the typed prefix, and what is presented. *)
refresh_help(c, f) ==
    LET Kept(prefix) == IF prefix # c.prefix THEN 0 ELSE c.selected
        Selected(listed, kept) == IF listed = <<>> THEN 0
                                  ELSE IF kept < Len(listed) THEN kept ELSE Len(listed) - 1
        Present(prefix, listed) ==
            [c |-> [c EXCEPT !.completions = listed, !.prefix = prefix,
                             !.selected = Selected(listed, Kept(prefix))],
             f |-> [f EXCEPT !.help = IF contains(prefix) THEN "usage"
                                      ELSE IF listed # <<>> THEN "completions" ELSE "none"],
             ok |-> TRUE]
        Of(prefix) == Present(prefix, list_completions(prefix))
    IN  IF f.mode # "COMMAND"
        THEN [c |-> [NewCommandMode EXCEPT !.waiting = c.waiting],
              f |-> [f EXCEPT !.help = "none"], ok |-> TRUE]
        ELSE Of(FirstWord(f.command.text))

(* The command line once the selected completion replaced it; clearing the
   editor also closes an open paste.                                         *)
Completed(c, f) ==
    LET chosen == IF c.selected < Len(c.completions) THEN c.selected + 1 ELSE Len(c.completions)
    IN  [f EXCEPT !.command = Editor(c.completions[chosen] \o <<BLANK>>)]

autocomplete_stale(c, f) ==
    [c |-> c, f |-> IF c.completions = <<>> THEN f ELSE Completed(c, f), ok |-> TRUE]

autocomplete(c, f) ==
    IF c.completions = <<>> THEN [c |-> c, f |-> f, ok |-> TRUE] ELSE refresh_help(c, Completed(c, f))

(* The command runs, or a notification says why not; either way the next key
   press only acknowledges.                                                  *)
dispatch(c, f) ==
    IF FirstToken(f.command.text) = <<>> THEN [c |-> [c EXCEPT !.waiting = TRUE], f |-> f, ok |-> TRUE]
    ELSE [c |-> [c EXCEPT !.waiting = TRUE, !.completions = <<>>],
          f |-> [f EXCEPT !.help = "none"], ok |-> TRUE]

acknowledge(c, f) ==
    [c |-> [c EXCEPT !.waiting = FALSE, !.completions = <<>>, !.prefix = <<>>],
     f |-> leave_command_mode(f), ok |-> TRUE]

MoveSelection(c, key) ==
    LET n == Len(c.completions)
    IN  [c EXCEPT !.selected = IF key = "UP" THEN (@ + n - 1) % n ELSE (@ + 1) % n]

(* CommandModeSubsystem::handle_event *)
CommandModeEvent(c, f, ev) ==
    LET pressed == ev.type \in {"key", "char"}
        named == f.mode = "COMMAND" /\ ev.type = "key"
        After(step) == IF step.ok THEN refresh_help(c, step.f) ELSE [c |-> c, f |-> step.f, ok |-> FALSE]
    IN  CASE c.waiting /\ pressed -> acknowledge(c, f)
          [] ~(c.waiting /\ pressed) /\ named /\ ev.key \in {"UP", "DOWN"} /\ c.completions # <<>> ->
               refresh_help(MoveSelection(c, ev.key), f)
          [] ~(c.waiting /\ pressed) /\ named /\ ev.key = "TAB" -> autocomplete(c, f)
          [] ~(c.waiting /\ pressed) /\ named /\ ev.key = "ENTER" ->
               IF c.completions # <<>> /\ ~contains(FirstToken(f.command.text))
               THEN autocomplete(c, f) ELSE dispatch(c, f)
          [] OTHER -> After(FrameEvent(f, ev))

-----------------------------------------------------------------------------
(* EmbeddedTerminalSubsystem *)

(* flush_input hands the pending bytes over, or keeps them on EAGAIN. *)
flush_input(ch, taken) ==
    IF taken /\ ch.running THEN [ch EXCEPT !.got = @ \cup ch.pending, !.pending = {}] ELSE ch

send(ch, typed, taken) == flush_input([ch EXCEPT !.pending = @ \cup {typed}], taken)

(* Both stop and finish_child forget what no shell has read. *)
finish_child_keeps(ch) == [NoChild EXCEPT !.pending = ch.pending]
finish_child(ch) == NoChild

(* start: input typed before the shell runs is kept for it. *)
start(ch, generation, taken) ==
    flush_input([NoChild EXCEPT !.running = TRUE, !.generation = generation,
                                !.pending = IF ch.running THEN {} ELSE ch.pending], taken)

(* A short screen holds an editor and not the terminal. *)
terminal_fits(screen) == screen = "large"
minimum_fits(f, screen) == f.visible => terminal_fits(screen)

(* synchronize, when the operating system refuses nothing. *)
synchronize(f, ch, screen, taken) ==
    LET stale == ~ch.running \/ ch.generation # f.generation
        Pumped(owner) == IF owner.exited THEN [f |-> close_terminal(f), ch |-> finish_child(owner)]
                         ELSE [f |-> f, ch |-> owner]
    IN  IF ~f.session THEN [f |-> f, ch |-> finish_child(ch)]
        ELSE Pumped(flush_input(IF stale /\ terminal_fits(screen) THEN start(ch, f.generation, taken)
                                ELSE ch, taken))

-----------------------------------------------------------------------------
(* The runtime loop *)

Running == loop.failed = "no"

(* draw(): take the terminal's size, then poll. *)
Resize ==
    /\ Running /\ loop.at = "resize"
    /\ \E screen \in {"large", "short"} :
          loop' = [loop EXCEPT !.screen = screen, !.small = ~minimum_fits(frame, screen), !.at = "poll"]
    /\ UNCHANGED <<frame, cmd, child>>

(* Terminal mode hands the shell what the frame leaves in that mode. *)
Forwarded(f, ev) == f.mode = "TERMINAL" /\ ev.type # "pointer" /\ ~(ev.type = "command" /\ ev.command # "MOVE")
Bytes(ev) == ev.type = "paste" => ev.phase = "DATA"
AfterEvent(ev) == IF ev.type = "paste" THEN ev.phase \in {"BEGIN", "DATA"} ELSE loop.pasting

(* route_event: command mode first, then the shell. *)
route_event(ev, taken) ==
    \E step \in {CommandModeEvent(cmd, frame, ev)} :
        /\ frame' = step.f
        /\ cmd' = step.c
        /\ child' = IF step.ok /\ frame.mode = "TERMINAL" /\ Forwarded(step.f, ev) /\ Bytes(ev)
                    THEN send(child, step.f.generation, taken) ELSE child
        /\ loop' = [loop EXCEPT !.failed = IF step.ok THEN "no" ELSE ev.type, !.pasting = AfterEvent(ev)]

(* Events the decoder emits: nothing but paste stages inside a paste. *)
Keys == {"ESCAPE", "DOUBLE_ESCAPE", "SHIFT", "UP", "DOWN", "TAB", "ENTER", "BACKSPACE"}
Texts == {<<l>> : l \in Letters \cup {COMMAND_KEY, TERMINAL_KEY, BLANK}}

Events ==
    [type : {"key"}, key : Keys]
    \cup [type : {"char", "text"}, text : Texts]
    \cup [type : {"command"}, command : {"ENTER_COMMAND_MODE", "ENTER_TERMINAL_MODE", "MOVE"}]
    \cup [type : {"pointer"}]
    \cup [type : {"paste"}, phase : {"BEGIN"}, text : {<<>>}]

OpenPasteEvents ==
    [type : {"paste"}, phase : {"DATA"}, text : {<<l>> : l \in Letters}]
    \cup [type : {"paste"}, phase : {"END", "CANCEL"}, text : {<<>>}]

(* Bounds: the lengths above, and no chord letter inside a text. *)
Bounded ==
    /\ Len(frame'.normal.text) <= MaxDraft /\ ToSet(frame'.normal.text) \subseteq Letters
    /\ Len(frame'.command.text) <= MaxCommand
    /\ ToSet(frame'.command.text) \subseteq Letters \cup {BLANK}
    /\ frame'.generation <= MaxGeneration

(* Events that arrive while the screen is too small are dropped. *)
Poll ==
    /\ Running /\ loop.at = "poll"
    /\ \E ev \in IF loop.pasting THEN OpenPasteEvents ELSE Events, taken \in BOOLEAN :
          IF loop.small
          THEN loop' = [loop EXCEPT !.pasting = AfterEvent(ev)] /\ UNCHANGED <<frame, cmd, child>>
          ELSE route_event(ev, taken)
    /\ Bounded

EndPoll ==
    /\ Running /\ loop.at = "poll"
    /\ frame' = advance_time(frame)
    /\ loop' = [loop EXCEPT !.at = "synchronize"]
    /\ UNCHANGED <<cmd, child>>

Synchronize ==
    /\ Running /\ loop.at = "synchronize"
    /\ \E taken \in BOOLEAN :
          \E done \in {synchronize(frame, child, loop.screen, taken)} :
              frame' = done.f /\ child' = done.ch
    /\ loop' = [loop EXCEPT !.at = "resize"]
    /\ UNCHANGED cmd

(* The operating system refuses a fork, a resize, a read or a write: a shell
   that could not start closes the terminal, and draw() fails.               *)
SynchronizeFails ==
    /\ Running /\ loop.at = "synchronize" /\ frame.session
    /\ frame' = IF child.running THEN frame ELSE close_terminal(frame)
    /\ loop' = [loop EXCEPT !.failed = "system"]
    /\ UNCHANGED <<cmd, child>>

(* The shell ends by itself; the Escape interval passes. *)
ShellExits ==
    /\ Running /\ child.running /\ ~child.exited
    /\ child' = [child EXCEPT !.exited = TRUE]
    /\ UNCHANGED <<frame, cmd, loop>>

IntervalPasses ==
    /\ Running /\ frame.armed = "fresh"
    /\ frame' = [frame EXCEPT !.armed = "stale"]
    /\ UNCHANGED <<cmd, child, loop>>

Next ==
    \/ Resize \/ Poll \/ EndPoll \/ Synchronize \/ SynchronizeFails
    \/ ShellExits \/ IntervalPasses

Spec == Init /\ [][Next]_vars

-----------------------------------------------------------------------------
(* A command line, a draft and a session request are well formed. *)
TypeOK ==
    /\ frame.mode \in {"NORMAL", "COMMAND", "TERMINAL"} /\ frame.armed \in {"no", "fresh", "stale"}
    /\ frame.visible <=> frame.mode = "TERMINAL"
    /\ frame.mode = "TERMINAL" => frame.session
    /\ child.running => child.generation \in 1 .. frame.generation

(* Bytes the user typed into one session are never read by the shell of
   another, through pending input, restarts and shells that end unseen.      *)
InputReachesItsSession == child.got \subseteq {child.generation}

(* Outside an acknowledgement the completions are those of the word on the
   command line, and the selection is one of them.                           *)
HelpIsFresh ==
    frame.mode = "COMMAND" /\ ~cmd.waiting =>
        /\ cmd.prefix = FirstWord(frame.command.text)
        /\ cmd.completions = list_completions(cmd.prefix)
        /\ cmd.completions # <<>> => cmd.selected < Len(cmd.completions)

=============================================================================
