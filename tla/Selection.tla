----------------------------- MODULE Selection ------------------------------
(***************************************************************************)
(* Pointer selection: Screen's mouse handler, the SelectionStateMachine it *)
(* drives, and the frames that interpret the selection.  A frame keeps its *)
(* own highlight and may refuse an event; the layout may change between    *)
(* any two events.  Positions are points of one axis.                      *)
(***************************************************************************)
EXTENDS Integers, Sequences, FiniteSets

CONSTANTS Frames,          \* ids, each with one frame object
          Selectable,      \* the frames that accept selections
          Placeable,       \* those that accept the cursor
          Layouts,         \* functions from some frames to <<origin, extent>>
          ZOrder,          \* all frames, back to front
          Points, Modifiers, MaxTimeouts

VARIABLES layout, machine, gesture, clicks, highlighted, pressed

selectionVars == <<layout, machine, gesture, clicks, highlighted, pressed>>

None == "none"

SelectionAssumption == None \notin Selectable

NoTarget == [phase |-> "NONE", target |-> None]
NoGesture == [target |-> None]
NoClicks == [target |-> None]
Unclicked == [count |-> 0, at |-> <<>>]

\* pressed counts the clicks made at one place without a pause or a drag, as
\* the user sees them; highlighted maps every frame to what it highlights.
SelectionInit ==
  /\ layout \in Layouts
  /\ machine = NoTarget
  /\ gesture = NoGesture
  /\ clicks = [history |-> NoClicks, timeout |-> 0, generation |-> 0]
  /\ highlighted = [f \in Frames |-> "plain"]
  /\ pressed = Unclicked

-----------------------------------------------------------------------------
(* SelectionStateMachine.  Each operation yields the set of the            *)
(* <<status, machine, frame>> it may end in: a frame may refuse.           *)

update_selection(fr, f, highlight) ==
  {<<"OK", [fr EXCEPT ![f] = highlight]>>, <<"REFUSED", fr>>}

reset(m, fr) ==
  IF m.phase = "NONE" THEN {<<"OK", NoTarget, fr>>}
  ELSE {IF u[1] = "OK" THEN <<"OK", NoTarget, u[2]>> ELSE <<u[1], m, fr>> :
          u \in update_selection(fr, m.target, "plain")}

\* The highlight is changed and the machine follows.
Update(f, type, m, fr) ==
  {IF u[1] # "OK" THEN <<u[1], m, fr>>
   ELSE <<"OK", [phase |-> IF type = "EXTEND" THEN "IN_PROGRESS" ELSE "COMPLETE",
                 target |-> f], u[2]>> :
     u \in update_selection(fr, f, IF type \in {"EXTEND", "END"} THEN "RANGE" ELSE type)}

apply(f, type, m, fr) ==
  IF f \notin Selectable THEN {<<"FRAME_NOT_SELECTABLE", m, fr>>}
  ELSE IF \/ type = "EXTEND" /\ m.phase = "IN_PROGRESS" /\ m.target # f
          \/ type = "END" /\ (m.phase # "IN_PROGRESS" \/ m.target # f)
  THEN {<<"INVALID_SELECTION_TRANSITION", m, fr>>}
  ELSE IF \/ type = "EXTEND" /\ m.phase = "COMPLETE"
          \/ type \in {"WORD", "LINE", "ALL"} /\ m.phase # "NONE"
  THEN UNION {IF r[1] = "OK" THEN Update(f, type, r[2], r[3]) ELSE {r} :
                r \in reset(m, fr)}
  ELSE Update(f, type, m, fr)

-----------------------------------------------------------------------------
(* The click history and its timeout.                                      *)

clear_click_history == [clicks EXCEPT !.history = NoClicks, !.timeout = 0]

\* A new generation; 0 means none and is skipped.
arm_click_timeout(history) ==
  LET g == (clicks.generation % MaxTimeouts) + 1
  IN  [history |-> history, timeout |-> g, generation |-> g]

contains_point(rect, x) == x >= rect[1] /\ x - rect[1] < rect[2]

\* The frontmost frame under x, or None.
Hit(x) ==
  LET on == {i \in 1 .. Len(ZOrder) :
               ZOrder[i] \in DOMAIN layout /\ contains_point(layout[ZOrder[i]], x)}
  IN  IF on = {} THEN None ELSE ZOrder[CHOOSE i \in on : \A j \in on : j <= i]

Stored(r) == machine' = r[2] /\ highlighted' = r[3]

-----------------------------------------------------------------------------
(* handle_mouse_event, by action.                                          *)

\* The first press starts a gesture on the frame it hits.
Press(x) ==
  /\ \E r \in reset(machine, highlighted) :
       /\ Stored(r)
       /\ IF r[1] # "OK" THEN UNCHANGED <<gesture, clicks, pressed>>
          ELSE IF Hit(x) \notin Selectable
          THEN gesture' = NoGesture /\ clicks' = clear_click_history /\ pressed' = Unclicked
          ELSE /\ gesture' = [target |-> Hit(x), press |-> x, extended |-> FALSE]
               /\ UNCHANGED <<clicks, pressed>>
  /\ UNCHANGED layout

\* The captured frame left the layout: the selection is given up.
Abandon ==
  /\ \E r \in reset(machine, highlighted) : Stored(r)
  /\ gesture' = NoGesture
  /\ clicks' = clear_click_history
  /\ pressed' = Unclicked

Drag(x) ==
  /\ gesture # NoGesture
  /\ IF gesture.target \notin DOMAIN layout THEN Abandon
     ELSE \E r \in apply(gesture.target, "EXTEND", machine, highlighted) :
            /\ Stored(r)
            /\ IF r[1] = "OK"
               THEN /\ gesture' = [gesture EXCEPT !.extended = TRUE]
                    /\ clicks' = clear_click_history
                    /\ pressed' = Unclicked
               ELSE UNCHANGED <<gesture, clicks, pressed>>
  /\ UNCHANGED layout

\* The end of a drag, or a release somewhere else than the press.
ReleaseMoved ==
  /\ clicks' = clear_click_history
  /\ \E r \in IF gesture.extended THEN {<<"OK", machine, highlighted>>}
              ELSE apply(gesture.target, "EXTEND", machine, highlighted) :
       \E e \in IF r[1] = "OK" THEN apply(gesture.target, "END", r[2], r[3]) ELSE {r} :
         Stored(e)
  /\ pressed' = Unclicked

\* A count that goes on after any click in the same frame.
click_count_anywhere(x, m) ==
  IF clicks.history.target = gesture.target THEN clicks.history.count + 1 ELSE 1

\* The click is one more of the last ones, or the first of a series.
click_count(x, m) ==
  IF /\ clicks.history.target = gesture.target
     /\ clicks.history.position = x /\ clicks.history.modifiers = m
  THEN clicks.history.count + 1 ELSE 1

\* place_cursor drops the frame's own highlight; the frame may refuse.
place_cursor(f) ==
  IF f \in Placeable THEN update_selection(highlighted, f, "plain") ELSE {<<"OK", highlighted>>}

Clicked(x, m, count) ==
  arm_click_timeout([target |-> gesture.target, position |-> x,
                     modifiers |-> m, count |-> count])

\* A click: the cursor, then a word, then a line.
ReleaseClick(x, m) ==
  LET count == click_count(x, m)
      again == pressed.at = <<gesture.target, x, m>> /\ pressed.count < 3
  IN  /\ IF count = 1
         THEN \E p \in place_cursor(gesture.target) :
                /\ highlighted' = p[2]
                /\ clicks' = IF p[1] = "OK" THEN Clicked(x, m, 1) ELSE clear_click_history
                /\ UNCHANGED machine
                /\ pressed' = IF p[1] # "OK" THEN Unclicked
                              ELSE [count |-> 1, at |-> <<gesture.target, x, m>>]
         ELSE \E r \in apply(gesture.target, IF count = 2 THEN "WORD" ELSE "LINE",
                             machine, highlighted) :
                /\ Stored(r)
                /\ clicks' = IF r[1] # "OK" \/ count >= 3 THEN clear_click_history
                             ELSE Clicked(x, m, count)
                /\ pressed' = IF r[1] # "OK" THEN Unclicked
                              ELSE [count |-> IF again THEN pressed.count + 1 ELSE 1,
                                    at |-> <<gesture.target, x, m>>]

Release(x, m) ==
  /\ gesture # NoGesture
  /\ gesture' = NoGesture
  /\ IF gesture.target \notin DOMAIN layout
     THEN /\ \E r \in reset(machine, highlighted) : Stored(r)
          /\ clicks' = clear_click_history
          /\ pressed' = Unclicked
     ELSE IF gesture.extended \/ x # gesture.press THEN ReleaseMoved
     ELSE ReleaseClick(x, m)
  /\ UNCHANGED layout

-----------------------------------------------------------------------------
(* The other operations.                                                   *)

select_all(f) ==
  /\ gesture' = NoGesture
  /\ clicks' = clear_click_history
  /\ \E r \in apply(f, "ALL", machine, highlighted) : Stored(r)
  /\ pressed' = Unclicked
  /\ UNCHANGED layout

reset_selection ==
  /\ \E r \in reset(machine, highlighted) :
       /\ Stored(r)
       /\ IF r[1] = "OK"
          THEN gesture' = NoGesture /\ clicks' = clear_click_history /\ pressed' = Unclicked
          ELSE UNCHANGED <<gesture, clicks, pressed>>
  /\ UNCHANGED layout

\* A timeout the application scheduled; a stale generation does nothing.
handle_selection_timeout(generation) ==
  /\ clicks' = IF clicks.timeout = generation THEN clear_click_history ELSE clicks
  /\ pressed' = IF clicks.timeout = generation THEN Unclicked ELSE pressed
  /\ UNCHANGED <<layout, machine, gesture, highlighted>>

\* The application solves its layout for another screen.
Rearrange ==
  /\ layout' \in Layouts
  /\ UNCHANGED <<machine, gesture, clicks, highlighted, pressed>>

SelectionNext ==
  \/ \E x \in Points : Press(x)
  \/ \E x \in Points : Drag(x)
  \/ \E x \in Points, m \in Modifiers : Release(x, m)
  \/ \E f \in Frames : select_all(f)
  \/ reset_selection
  \/ \E g \in 1 .. MaxTimeouts : handle_selection_timeout(g)
  \/ Rearrange

SelectionSpec == SelectionInit /\ [][SelectionNext]_selectionVars

-----------------------------------------------------------------------------
CountedStep ==
  \A f \in Frames :
    highlighted'[f] # highlighted[f] /\ highlighted'[f] \in {"WORD", "LINE"} =>
      pressed'.count = IF highlighted'[f] = "WORD" THEN 2 ELSE 3

\* A word is selected by a second click and a line by a third one in the same
\* place with the same modifiers, and by nothing else: a drag, a timeout or
\* a refused click starts the count of handle_mouse_event again.
ClicksCounted == [][CountedStep]_selectionVars
=============================================================================
