----------------------------- MODULE TextEditor -----------------------------
(***************************************************************************)
(* TextInputFrame and the TextEditor it owns: every call takes the frame's *)
(* mutex, so each is one step.  The viewport of the editor changes only    *)
(* when the frame is drawn.                                                *)
(*                                                                         *)
(* `given' and `quiet' are history: the bytes of the open paste, and       *)
(* whether nothing but paste data reached the editor since it began;       *)
(* `settled' is the pre-paste editor and the bytes of the paste that the   *)
(* last step committed undisturbed.                                        *)
(***************************************************************************)
EXTENDS TextBuffer

CONSTANTS TabWidth, Fallback, ReservePlainEnter,  \* TextEditorOptions
          Typed,         \* byte strings a text event may carry
          Chunks,        \* byte strings a paste DATA event may carry
          Viewports,     \* <<width, height>> of a draw
          Cells,         \* pointer cells, some outside the viewport
          MaxScalars, MaxLines,             \* bounds on the text,
          MaxPaste,                         \* on the bytes of a paste,
          MaxBefore, MaxPasted              \* and on the text before and during one

VARIABLES editor, given, quiet, settled

vars == <<editor, given, quiet, settled>>

(* The contents and carets a paste transaction saves. *)
Saved(e) == [lines |-> e.lines, cursor |-> e.cursor, selection |-> e.selection,
             anchor |-> e.anchor, scroll |-> e.scroll, desired |-> e.desired]

Restore(e, s) ==
    [e EXCEPT !.lines = s.lines, !.cursor = s.cursor, !.selection = s.selection,
              !.anchor = s.anchor, !.scroll = s.scroll, !.desired = s.desired, !.paste = <<>>]

Init ==
    /\ editor = NewEditor(Fallback)
    /\ given = <<>> /\ quiet = TRUE /\ settled = <<>>

RECURSIVE SumLengths(_)
SumLengths(ls) == IF ls = <<>> THEN 0 ELSE Len(Head(ls)) + SumLengths(Tail(ls))

(* The next editor, within the bounds on its text: an undisturbed paste
   may add one line more than typing may.                                    *)
Becomes(e) ==
    /\ Len(e.lines) <= IF quiet /\ editor.paste # <<>> THEN MaxLines + 1 ELSE MaxLines
    /\ SumLengths(e.lines) <= IF e.paste = <<>> THEN MaxScalars ELSE MaxPasted
    /\ editor' = e

(* Any call but paste data: an open paste is disturbed when the call changes
   what the paste works on.  At most one call disturbs a paste.              *)
Call(e) ==
    /\ quiet \/ editor.paste = <<>>
    /\ Becomes(e)
    /\ quiet' = (e.paste = <<>> \/ e = editor)
    /\ given' = IF e.paste # <<>> /\ quiet' THEN given ELSE <<>>
    /\ settled' = <<>>

-----------------------------------------------------------------------------
(* Named keys with the modifiers that change what they do. *)
Presses ==
    ({"LEFT", "RIGHT", "UP", "DOWN"}
        \X {{}, {"SHIFT"}, {"ALT"}, {"SUPER"}, {"SHIFT", "ALT"}, {"SHIFT", "SUPER"}})
    \cup ({"HOME", "END", "ENTER"} \X {{}, {"SHIFT"}})
    \cup ({"PAGE_UP", "PAGE_DOWN", "TAB", "BACKSPACE", "DELETE"} \X {{}})

KeyTarget(e, key, extend, option, command) ==
    CASE key = "ENTER" /\ ReservePlainEnter /\ ~extend -> e
      [] key = "TAB" \/ (key = "ENTER" /\ (ReservePlainEnter => extend)) ->
           insert(e, IF key = "TAB" THEN <<TAB>> ELSE <<LF>>, FALSE, TabWidth).e
      [] key = "BACKSPACE" -> backspace(e)
      [] key = "DELETE" -> delete_forward(e)
      [] key \in {"LEFT", "RIGHT"} ->
           IF command THEN move_row_boundary(e, key = "RIGHT", extend)
           ELSE IF option THEN (IF key = "RIGHT" THEN move_word_right(e, extend)
                                ELSE move_word_left(e, extend))
           ELSE move_horizontal(e, key = "RIGHT", extend)
      [] key \in {"UP", "DOWN"} ->
           IF command THEN move_buffer_boundary(e, key = "DOWN", extend)
           ELSE IF option THEN move_page(e, key = "DOWN", extend)
           ELSE move_vertical(e, IF key = "DOWN" THEN 1 ELSE -1, extend)
      [] key \in {"HOME", "END"} -> move_row_boundary(e, key = "END", extend)
      [] key \in {"PAGE_UP", "PAGE_DOWN"} -> move_page(e, key = "PAGE_DOWN", FALSE)

(* handle_key for a named key press; an open paste owns the input. *)
handle_key ==
    /\ editor.paste = <<>>
    /\ \E p \in Presses :
          Call(KeyTarget(editor, p[1], "SHIFT" \in p[2], "ALT" \in p[2], "SUPER" \in p[2]))

(* handle_text, and handle_key for a key that carries text. *)
handle_text ==
    /\ editor.paste = <<>>
    /\ \E bytes \in Typed : Call(insert_utf8(editor, bytes, TabWidth))

(* apply_command: also while a paste is open. *)
apply_command ==
    /\ \E e \in {SelectAll(editor), move_word_left(editor, FALSE), move_word_right(editor, FALSE)}
                 \cup {move_row_boundary(editor, end, FALSE) : end \in BOOLEAN}
                 \cup {move_buffer_boundary(editor, end, FALSE) : end \in BOOLEAN}
                 \cup {move_page(editor, down, FALSE) : down \in BOOLEAN} : Call(e)

-----------------------------------------------------------------------------
PasteBegin ==
    /\ editor.paste = <<>>
    /\ SumLengths(editor.lines) <= MaxBefore
    /\ Becomes([editor EXCEPT !.paste =
                  <<[saved |-> Saved(editor), pending |-> <<>>, cr |-> FALSE]>>])
    /\ given' = <<>> /\ quiet' = TRUE /\ settled' = <<>>

(* A paste that starts every chunk without a preceding carriage return. *)
PasteInsertedFresh(e, bytes, finish) ==
    LET Keep(done, left) == [done.e EXCEPT !.paste[1].pending = left]
        Insert(read) == Keep(insert(e, read.out, FALSE, TabWidth), read.left)
    IN  Insert(consume_utf8(e.paste[1].pending \o bytes, finish))

PasteInserted(e, bytes, finish) ==
    LET Keep(done, left) ==
            [done.e EXCEPT !.paste[1].pending = left, !.paste[1].cr = done.cr]
        Insert(read) == Keep(insert(e, read.out, e.paste[1].cr, TabWidth), read.left)
    IN  Insert(consume_utf8(e.paste[1].pending \o bytes, finish))

PasteData ==
    /\ editor.paste # <<>>
    /\ \E bytes \in Chunks :
          /\ Len(given) + Len(bytes) <= MaxPaste
          /\ given' = IF quiet THEN given \o bytes ELSE <<>>
          /\ Becomes(PasteInserted(editor, bytes, FALSE))
    /\ settled' = <<>>
    /\ UNCHANGED quiet

PasteEnd ==
    /\ editor.paste # <<>>
    /\ Becomes([PasteInserted(editor, <<>>, TRUE) EXCEPT !.paste = <<>>])
    /\ settled' = IF quiet THEN <<[base |-> editor.paste[1].saved, bytes |-> given]>> ELSE <<>>
    /\ given' = <<>> /\ quiet' = TRUE

PasteCancel ==
    /\ editor.paste # <<>>
    /\ Becomes(Restore(editor, editor.paste[1].saved))
    /\ given' = <<>> /\ quiet' = TRUE /\ settled' = <<>>

-----------------------------------------------------------------------------
(* A wheel event inside the last drawn rectangle. *)
Scroll ==
    /\ editor.width > 0
    /\ \E delta \in {-1, 1} : Call(scroll_vertical(editor, delta))

Selection ==
    \/ Call(Unselect(editor)) \/ Call(SelectAll(editor))
    \/ \E extent, anchor \in Cells, type \in {"SELECT_WORD", "SELECT_LINE", "SELECT_AND_EXTEND"} :
          Call(update_selection(editor, type, anchor, extent))

Place ==
    /\ \E pos \in Cells : Call(place_cursor(editor, pos))

(* draw, within the canvas: the editor's viewport is the rectangle drawn. *)
draw == \E v \in Viewports : Call(set_viewport(editor, v[1], v[2]))

(* A new editor, which the frame gives the viewport of its last draw. *)
clear == Call(set_viewport(NewEditor(editor.fallback), editor.width, editor.height))

Next ==
    \/ handle_key \/ handle_text \/ apply_command
    \/ PasteBegin \/ PasteData \/ PasteEnd \/ PasteCancel
    \/ Scroll \/ Selection \/ Place \/ draw \/ clear

Spec == Init /\ [][Next]_vars

-----------------------------------------------------------------------------
InBuffer(c) == c.line < Len(editor.lines) /\ c.column <= Len(editor.lines[c.line + 1])

(* Every caret the editor keeps lies in its text: the cursor, the ends of the
   selection, which are in order and apart, and the Shift anchor; no edit,
   wrap, paste, cancel or clear leaves one behind in text that is gone.      *)
CaretsInBuffer ==
    /\ InBuffer(editor.cursor)
    /\ \A s \in ToSet(editor.selection) :
          InBuffer(s.first) /\ InBuffer(s.last) /\ cursor_less(s.first, s.last)
    /\ \A a \in ToSet(editor.anchor) : InBuffer(a)

(* A committed paste does not depend on how the terminal cut it into chunks:
   UTF-8 sequences and CR LF pairs that straddle chunks come out as if the
   bytes had been inserted at once.                                          *)
PasteUndivided ==
    \A s \in ToSet(settled) :
        \A whole \in {insert_utf8(Restore(editor, s.base), s.bytes, TabWidth)} :
            editor.lines = whole.lines /\ editor.cursor = whole.cursor

(* The first row shown is a row of the text, on which the unsigned arithmetic
   of the wheel and of a drag relies: edits, a paste and its cancellation move
   the scroll position with the text.  Viewports that change while a paste is
   open and then cancelled are another matter: the restored position is that
   of the old viewport until the next draw.                                  *)
ScrollInText == editor.width > 0 => editor.scroll < Len(visual_rows(editor, editor.width))

(* The editor's text and carets are sound: carets and the scroll position lie
   in the text, and a committed paste left what its bytes would have left
   inserted at once.                                                         *)
EditorSound == CaretsInBuffer /\ ScrollInText /\ PasteUndivided

=============================================================================
