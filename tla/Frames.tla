------------------------------- MODULE Frames -------------------------------
(***************************************************************************)
(* What an InputFrame shows and what a pointer hits in it: the bounding    *)
(* box, the numbered gutter, the command help above the box, the embedded  *)
(* terminal, and the screen loop that asks the frame for a height, lays it *)
(* out at the bottom of the screen and draws it.                           *)
(*                                                                         *)
(* A picture is a function from screen cells to marks; a character is the  *)
(* caret it stands at.  Events are reduced to what they do to text, mode,  *)
(* help and session (module InputStack has the handlers themselves).       *)
(***************************************************************************)
EXTENDS TextBuffer, TLC

CONSTANTS kMinimumWidth,   \* narrowest screen the frame accepts
          Radix,           \* base of the line numbers (10 in the code)
          Fallback,        \* wrap width before the first draw
          Typed,           \* scalars one event may insert
          Screens,         \* <<width, height>> of the screen
          Helps,           \* numbers of help rows
          MaxText,         \* bound on a text, its lines and scalars counted,
          MaxBeside,       \* on a text beside another or a session,
          MaxEvents        \* and on the events of one pass of the loop, clicks aside

VARIABLES frame,   \* mode, editors, help, session, retained geometry
          screen,  \* <<width, height>>
          pty,     \* <<columns, rows>> of the shell's terminal, <<0, 0>> for none
          layout,  \* the rectangle of the frame in the last draw, <<>> for none
          shown,   \* the last draw, kept until the next event
          events   \* events of this pass

vars == <<frame, screen, pty, layout, shown, events>>

kMinimumHeight == 5
kTerminalMinimumHeight == 6
kBaselineMaximumHeight == 7
Editing == {"NORMAL", "COMMAND"}

Rect(x, y, w, h) == [x |-> x, y |-> y, w |-> w, h |-> h]
Cells(r) == {<<x, y>> : x \in r.x..(r.x + r.w - 1), y \in r.y..(r.y + r.h - 1)}
Mark(kind, a, b) == [kind |-> kind, a |-> a, b |-> b]
Fill(r, kind) == [c \in Cells(r) |-> Mark(kind, 0, 0)]

Init ==
    /\ frame = [mode |-> "NORMAL", armed |-> FALSE, help |-> 0, session |-> FALSE,
                edit |-> [m \in Editing |-> NewEditor(Fallback)],
                offset |-> [m \in Editing \cup {"TERMINAL"} |-> [x |-> 0, y |-> 0, valid |-> FALSE]],
                gutter |-> [m \in Editing |-> [width |-> 0, valid |-> FALSE]],
                terminal |-> <<0, 0>>]
    /\ screen \in Screens
    /\ pty = <<0, 0>>
    /\ layout = <<>> /\ shown = <<>> /\ events = 0

-----------------------------------------------------------------------------
(* Heights *)

RECURSIVE decimal_columns(_)
decimal_columns(n) == IF n < Radix THEN 1 ELSE 1 + decimal_columns(n \div Radix)

LineColumns(e) == Greatest(2, decimal_columns(Len(e.lines)))
gutter_width(e) == LineColumns(e) + 1

maximum_height(h) == Least(h, Greatest(kBaselineMaximumHeight, h \div 5))
terminal_height(h) == Least(h, Greatest(kTerminalMinimumHeight, (h * 3) \div 5))
command_maximum_height(h, help) == Least(h, maximum_height(h) + help)

minimum_height(f) == IF f.mode = "TERMINAL" THEN kTerminalMinimumHeight ELSE kMinimumHeight

HelpRows(f) == IF f.mode = "COMMAND" THEN f.help ELSE 0

Maximum(f, h) ==
    IF f.mode = "TERMINAL" THEN terminal_height(h) ELSE command_maximum_height(h, HelpRows(f))

(* A height that counts the rows of the text as wide as the box. *)
preferred_height_wide(f, s) ==
    IF f.mode = "TERMINAL" THEN terminal_height(s[2])
    ELSE LET rows == Len(visual_rows(f.edit[f.mode], s[1] - 2))
         IN  Least(Maximum(f, s[2]), Greatest(kMinimumHeight, rows + 4 + HelpRows(f)))

(* preferred_height, on a screen the frame fits. *)
preferred_height(f, s) ==
    IF f.mode = "TERMINAL" THEN terminal_height(s[2])
    ELSE LET e == f.edit[f.mode]
             rows == Len(visual_rows(e, s[1] - 2 - gutter_width(e)))
         IN  Least(Maximum(f, s[2]), Greatest(kMinimumHeight, rows + 4 + HelpRows(f)))

-----------------------------------------------------------------------------
(* Drawing: each draw returns the next frame, the picture and whether it was
   accepted; a refused draw leaves what the code had already retained.       *)
Drawn(f, picture) == [f |-> f, picture |-> picture, ok |-> TRUE]
Refused(f) == [f |-> f, picture |-> <<>>, ok |-> FALSE]

(* Margins of the box, its border, and the inner margin on the left. *)
box_rect(r, top) == Rect(r.x, r.y + top, r.w, r.h - top - 1)
content_rect(r, top, left) == Rect(r.x + 1 + left, r.y + top + 1, r.w - 2 - left, r.h - top - 3)

(* The rows of the text in the viewport of its last draw. *)
ShownRows(e) ==
    LET From(rows) == SubSeq(rows, e.scroll + 1, Least(e.scroll + e.height, Len(rows)))
    IN  From(visual_rows(e, e.width))

(* TextInputFrame: the visible rows of the editor in this viewport. *)
draw_text(f, r) ==
    LET Text(rows) ==
            {c \in Cells(r) : /\ c[2] - r.y < Len(rows)
                              /\ c[1] - r.x < rows[c[2] - r.y + 1].length}
        Characters(rows) ==
            [c \in Text(rows) |-> LET row == rows[c[2] - r.y + 1]
                                  IN  Mark("text", row.line, row.first + c[1] - r.x)]
        Draw(e) == Drawn([f EXCEPT !.edit[f.mode] = e],
                         Characters(ShownRows(e)) @@ Fill(r, "blank"))
    IN  Draw(set_viewport(f.edit[f.mode], r.w, r.h))

(* AnnotatedTextFrame: the text first, then the gutter, which numbers the rows
   that begin a line.                                                        *)
draw_annotated(f, r) ==
    LET columns == LineColumns(f.edit[f.mode])
        width == columns + 1
        gutter == Rect(r.x, r.y, width, r.h)
        Number(row) == row.line + 1
        Numbered(rows) ==
            {c \in Cells(gutter) :
                /\ c[2] - r.y < Len(rows)
                /\ rows[c[2] - r.y + 1].first = 0
                /\ c[1] - r.x \in (columns - decimal_columns(Number(rows[c[2] - r.y + 1])))..(columns - 1)}
        Numbers(rows) ==
            [c \in Numbered(rows) |-> Mark("number", Number(rows[c[2] - r.y + 1]), c[1] - r.x)]
        Draw(child) ==
            Drawn([child.f EXCEPT !.gutter[f.mode] = [width |-> width, valid |-> TRUE]],
                  Numbers(ShownRows(child.f.edit[f.mode])) @@ Fill(gutter, "blank") @@ child.picture)
    IN  IF width >= r.w THEN Refused(f)
        ELSE Draw(draw_text(f, Rect(r.x + width, r.y, r.w - width, r.h)))

(* IntegratedTermFrame: the emulator takes the size of the rectangle. *)
draw_terminal(f, r) ==
    IF r.w < 2 \/ r.h < 2 THEN Refused(f)
    ELSE Drawn([f EXCEPT !.terminal = <<r.w, r.h>>], Fill(r, "terminal"))

(* BoundingFrame: the size constraints, the box, then the child. *)
draw_bounding(f, s, r, top, left) ==
    LET Place(content) ==
            [f EXCEPT !.offset[f.mode] = [x |-> content.x - r.x, y |-> content.y - r.y, valid |-> TRUE]]
        Draw(placed, content) ==
            IF f.mode = "TERMINAL" THEN draw_terminal(placed, content)
            ELSE draw_annotated(placed, content)
        Within(content) ==
            IF \/ r.w < kMinimumWidth \/ r.w # s[1] \/ r.x # 0
               \/ r.h \notin minimum_height(f)..Maximum(f, s[2])
               \/ r.y + r.h > s[2] \/ content.w <= 0 \/ content.h <= 0
            THEN Refused(f)
            ELSE [Draw(Place(content), content) EXCEPT
                    !.picture = @ @@ Fill(box_rect(r, top), "box") @@ Fill(r, "blank")]
    IN  Within(content_rect(r, top, left))

(* InputFrame::draw: the command box moves down to make room for the help, and
   help, Escape prompt and notification are written over the box's margins.  *)
draw(f, s, r) ==
    LET help == IF f.mode = "COMMAND" THEN Least(Greatest(r.h - kMinimumHeight, 0), f.help) ELSE 0
        prompt == Rect(r.x + 2, r.y + r.h - 2, IF f.armed THEN r.w - 4 ELSE 0, 1)
        Over(box) ==
            IF ~box.ok THEN box
            ELSE [box EXCEPT !.picture =
                    Fill(Rect(r.x, r.y + r.h - 1, r.w, 1), "notification") @@ Fill(prompt, "prompt")
                      @@ Fill(Rect(r.x + 2, r.y, r.w - 4, help), "help") @@ @]
    IN  IF \/ r.x # 0 \/ r.w # s[1] \/ r.w < kMinimumWidth
           \/ r.h \notin minimum_height(f)..Maximum(f, s[2]) \/ r.y + r.h > s[2]
        THEN Refused(f)
        ELSE Over(draw_bounding([f EXCEPT !.offset[f.mode].valid = FALSE], s, r, 1 + help,
                                IF f.mode = "TERMINAL" THEN 3 ELSE 0))

-----------------------------------------------------------------------------
(* Pointers: a position in the frame, translated by what the last draw left. *)
ToChild(f, pos) ==
    LET o == f.offset[f.mode] IN IF o.valid THEN <<pos[1] - o.x, pos[2] - o.y>> ELSE pos

ToText(f, pos) ==
    LET g == f.gutter[f.mode] IN IF g.valid THEN <<pos[1] - g.width, pos[2]>> ELSE pos

(* A click in the gutter placed at the start of the row. *)
place_in_gutter(f, pos) ==
    LET at == ToText(f, ToChild(f, pos))
    IN  place_cursor(f.edit[f.mode], <<Greatest(at[1], 0), at[2]>>)

place(f, pos) ==
    LET at == ToText(f, ToChild(f, pos))
        e == f.edit[f.mode]
    IN  IF f.gutter[f.mode].valid /\ at[1] < 0 THEN e ELSE place_cursor(e, at)

select(f, anchor, extent) ==
    update_selection(f.edit[f.mode], "SELECT_AND_EXTEND",
                     ToText(f, ToChild(f, anchor)), ToText(f, ToChild(f, extent)))

-----------------------------------------------------------------------------
(* Events *)
Fits(f) == screen[1] >= kMinimumWidth /\ screen[2] >= minimum_height(f)

RECURSIVE Size(_)
Size(lines) == IF lines = <<>> THEN 0 ELSE 1 + Len(Head(lines)) + Size(Tail(lines))

Bounded(f) ==
    LET sizes == {<<m, Size(f.edit[m].lines)>> : m \in Editing}
        large == {z \in sizes : z[2] > MaxBeside}
    IN  Cardinality(large) <= (IF f.session THEN 0 ELSE 1) /\ \A z \in large : z[2] <= MaxText

Becomes(f) ==
    /\ events < MaxEvents /\ Bounded(f)
    /\ frame' = f /\ shown' = <<>> /\ events' = events + 1
    /\ UNCHANGED <<screen, pty, layout>>

Edited(e) ==
    \E n \in IF frame.mode = "COMMAND" THEN Helps ELSE {frame.help} :
        Becomes([frame EXCEPT !.edit[frame.mode] = e, !.help = n, !.armed = FALSE])

Type ==
    /\ frame.mode \in Editing /\ Fits(frame)
    /\ \E s \in Typed : Edited(insert(frame.edit[frame.mode], s, FALSE, 2).e)

(* A click in the rectangle of the last draw, which text, mode, help or screen
   may have left behind.                                                     *)
Pointer ==
    /\ frame.mode \in Editing
    /\ \E r \in ToSet(layout) : \E e \in {place(frame, <<c[1], c[2] - r.y>>) : c \in Cells(r)} :
          frame' = [frame EXCEPT !.edit[frame.mode] = e, !.armed = FALSE]
    /\ shown' = <<>>
    /\ UNCHANGED <<screen, pty, layout, events>>

Cleared(e) == set_viewport(NewEditor(e.fallback), e.width, e.height)

enter_command_mode ==
    /\ Fits(frame)
    /\ \E n \in Helps :
          Becomes([frame EXCEPT !.mode = "COMMAND", !.edit["COMMAND"] = Cleared(@), !.help = n, !.armed = FALSE])

leave_command_mode ==
    /\ frame.mode = "COMMAND" /\ Fits(frame)
    /\ Becomes([frame EXCEPT !.mode = "NORMAL", !.help = 0, !.armed = FALSE])

enter_terminal_mode ==
    /\ Fits(frame)
    /\ Becomes([frame EXCEPT !.mode = "TERMINAL", !.help = 0, !.session = TRUE, !.armed = FALSE])

(* A double Escape leaves a mode, or clears the draft. *)
handle_escape ==
    /\ Fits(frame)
    /\ \E double \in BOOLEAN :
          Becomes(IF ~double /\ ~frame.armed THEN [frame EXCEPT !.armed = TRUE]
                  ELSE IF frame.mode = "NORMAL" THEN [frame EXCEPT !.edit["NORMAL"] = Cleared(@), !.armed = FALSE]
                  ELSE [frame EXCEPT !.mode = "NORMAL", !.help = 0, !.armed = FALSE])

(* The end of the shell. *)
close_terminal ==
    /\ frame.session
    /\ Becomes([frame EXCEPT !.mode = IF @ = "TERMINAL" THEN "NORMAL" ELSE @,
                             !.session = FALSE, !.terminal = <<0, 0>>, !.armed = FALSE])

(* The loop takes the screen's size before the events of a pass. *)
Resize ==
    /\ shown # <<>>
    /\ \E s \in Screens \ {screen} : screen' = s
    /\ shown' = <<>>
    /\ UNCHANGED <<frame, pty, layout, events>>

-----------------------------------------------------------------------------
(* The shell's terminal, sized without asking the frame where it draws. *)
synchronize_wide ==
    CASE ~frame.session -> <<0, 0>>
      [] frame.session /\ (pty = <<0, 0>> \/ frame.mode = "TERMINAL") ->
           <<screen[1] - 2, terminal_height(screen[2]) - 4>>
      [] OTHER -> pty

synchronize ==
    LET size == <<screen[1] - 5, terminal_height(screen[2]) - 4>>
        fits == screen[1] >= kMinimumWidth /\ screen[2] >= kTerminalMinimumHeight
    IN  CASE ~frame.session -> <<0, 0>>
          [] frame.session /\ pty = <<0, 0>> -> IF fits THEN size ELSE pty
          [] OTHER -> IF frame.mode = "TERMINAL" THEN size ELSE pty

(* One pass of the loop after its events; a screen too small shows a message
   in place of the frame.                                                    *)
Render ==
    /\ pty' = synchronize /\ events' = 0
    /\ IF Fits(frame)
       THEN \E height \in {preferred_height(frame, screen)} :
            \E rect \in {Rect(0, screen[2] - height, screen[1], height)} :
            \E done \in {draw(frame, screen, rect)} :
                /\ frame' = done.f /\ layout' = <<rect>>
                /\ shown' = <<[rect |-> rect, ok |-> done.ok, picture |-> done.picture]>>
       ELSE LET all == Rect(0, 0, screen[1], screen[2])
            IN  /\ frame' = frame /\ layout' = <<>>
                /\ shown' = <<[rect |-> all, ok |-> TRUE, picture |-> Fill(all, "message")]>>
    /\ UNCHANGED screen

Next ==
    \/ Type \/ Pointer \/ handle_escape \/ Resize \/ Render
    \/ enter_command_mode \/ leave_command_mode
    \/ enter_terminal_mode \/ close_terminal

Spec == Init /\ [][Next]_vars

-----------------------------------------------------------------------------
TextCells(p) == {c \in DOMAIN p : p[c].kind = "text"}

(* The height InputFrame asks for is a height it accepts, in every mode and on
   every screen it fits, and it is enough: unless the frame is at its maximum
   every character of the text is on the screen, no part of the box, gutter,
   help, prompt or notification lying over it, and no row is wasted.  At the
   maximum the text fills the box.                                           *)
WholeTextShown ==
    \A s \in ToSet(shown) :
        /\ s.ok
        /\ frame.mode \in Editing /\ Fits(frame) =>
             LET e == frame.edit[frame.mode]
                 lengths == [i \in DOMAIN ShownRows(e) |-> ShownRows(e)[i].length]
             IN  /\ Cardinality(TextCells(s.picture)) = FoldFunction(+, 0, lengths)
                 /\ s.rect.h < Maximum(frame, screen[2]) => Len(visual_rows(e, e.width)) = e.height

(* The pointer hits what the screen shows: a click on a character puts the
   caret before it, a click on anything else that is not in a row of the text
   leaves the caret alone, and a drag from one character to another selects
   exactly those two and what lies between, whatever gutter, border, help rows
   and scroll position stand between the screen and the text.  A click that
   comes when text, help or screen have changed since the draw may hit another
   character, but it leaves the caret in the text.                           *)
PointerHitsShown ==
  /\ \A m \in Editing : LET at == frame.edit[m].cursor IN
        /\ at.line < Len(frame.edit[m].lines)
        /\ at.column <= Len(frame.edit[m].lines[at.line + 1])
  /\ \A s \in ToSet(shown) : frame.mode \in Editing /\ Fits(frame) /\ s.ok =>
        LET p == s.picture
            Local(c) == <<c[1], c[2] - s.rect.y>>
            At(c) == Caret(p[c].a, p[c].b)
        IN  /\ \A c \in TextCells(p) : place(frame, Local(c)).cursor = At(c)
            /\ \A c \in DOMAIN p : p[c].kind \notin {"text", "blank"}
                  => place(frame, Local(c)) = frame.edit[frame.mode]
            /\ \A c, d \in TextCells(p) : ~cursor_less(At(d), At(c)) =>
                  select(frame, Local(c), Local(d)).selection
                    = <<[first |-> At(c), last |-> Caret(p[d].a, p[d].b + 1)]>>

(* A terminal on the screen has the size its shell was told, although the
   subsystem that tells the shell computes it apart from the frames.         *)
ShellSeesItsSize ==
    \A s \in ToSet(shown) : frame.mode = "TERMINAL" /\ Fits(frame) => pty = frame.terminal
=============================================================================
