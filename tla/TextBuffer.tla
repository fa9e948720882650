----------------------------- MODULE TextBuffer -----------------------------
(***************************************************************************)
(* The reusable text-buffer mechanics of puc-cli/tui/text_input            *)
(* (TextEditor::Impl), as operators on the record `e' that holds one       *)
(* editor's state.  Scalars and bytes are their numbers, lines are         *)
(* sequences of scalars, and carets keep the code's zero-based line and    *)
(* column.                                                                 *)
(***************************************************************************)
EXTENDS Integers, Sequences, SequencesExt, FiniteSetsExt

TAB == 9
LF == 10
CR == 13
SPACE == 32
REPLACEMENT == 65533    \* U+FFFD
None == -1

Take(s, n) == SubSeq(s, 1, n)
Drop(s, n) == SubSeq(s, n + 1, Len(s))
Least(a, b) == IF a < b THEN a ELSE b
Greatest(a, b) == IF a > b THEN a ELSE b

-----------------------------------------------------------------------------
(* UTF-8 *)

(* Length of the encoding a lead byte announces, zero for a byte that cannot
   lead; the bits it contributes; and the least scalar that needs the length. *)
EncodedLength(b) ==
    CASE b <= 127 -> 1 [] b \in 194..223 -> 2
      [] b \in 224..239 -> 3 [] b \in 240..244 -> 4 [] OTHER -> 0

LeadBits(b, n) == CASE n = 1 -> b [] n = 2 -> b % 32 [] n = 3 -> b % 16 [] n = 4 -> b % 8

Minimum(n) == CASE n = 1 -> 0 [] n = 2 -> 128 [] n = 3 -> 2048 [] n = 4 -> 65536

is_continuation(b) == b \in 128..191

IsScalar(c) == c <= 1114111 /\ c \notin 55296..57343

RECURSIVE Codepoint(_, _)
Codepoint(bits, tail) ==
    IF tail = <<>> THEN bits ELSE Codepoint(bits * 64 + (Head(tail) % 64), Tail(tail))

(* consume_utf8: the scalars of every complete encoding in `bytes' and the
   suffix left over.  An invalid lead byte costs one replacement character,
   and an incomplete suffix is kept when more bytes may follow.             *)
RECURSIVE consume_utf8(_, _)
consume_utf8(bytes, finish) ==
    IF bytes = <<>> THEN [out |-> <<>>, left |-> <<>>]
    ELSE LET n == EncodedLength(bytes[1])
             tail == [i \in 1..(n - 1) |-> bytes[i + 1]]
             code == Codepoint(LeadBits(bytes[1], n), tail)
             valid == /\ \A i \in DOMAIN tail : is_continuation(tail[i])
                      /\ code >= Minimum(n)
                      /\ IsScalar(code)
             Emit(c, used) == LET rest == consume_utf8(Drop(bytes, used), finish)
                              IN  [rest EXCEPT !.out = <<c>> \o @]
         IN  CASE n = 0 -> Emit(REPLACEMENT, 1)
               [] n > Len(bytes) /\ ~finish -> [out |-> <<>>, left |-> bytes]
               [] n > Len(bytes) /\ finish -> Emit(REPLACEMENT, 1)
               [] n \in 1..Len(bytes) /\ valid -> Emit(code, n)
               [] OTHER -> Emit(REPLACEMENT, 1)

decode_utf8(bytes) == consume_utf8(bytes, TRUE).out

(* append_utf8: the bytes of one scalar, U+FFFD standing for an invalid one. *)
append_utf8(scalar) ==
    LET c == IF IsScalar(scalar) THEN scalar ELSE REPLACEMENT
        Cont(shift) == 128 + ((c \div shift) % 64)
    IN  CASE c <= 127 -> <<c>>
          [] c \in 128..2047 -> <<192 + c \div 64, Cont(1)>>
          [] c \in 2048..65535 -> <<224 + c \div 4096, Cont(64), Cont(1)>>
          [] c >= 65536 -> <<240 + c \div 262144, Cont(4096), Cont(64), Cont(1)>>

RECURSIVE encode_utf8(_)
encode_utf8(scalars) ==
    IF scalars = <<>> THEN <<>> ELSE append_utf8(Head(scalars)) \o encode_utf8(Tail(scalars))

is_word_character(c) == c > 127 \/ c \in (48..57) \cup (65..90) \cup (97..122) \cup {45, 95}

-----------------------------------------------------------------------------
(* State, carets and wrapping *)

Caret(line, column) == [line |-> line, column |-> column]

cursor_less(a, b) == a.line < b.line \/ (a.line = b.line /\ a.column < b.column)

(* A fresh Impl; optional values are sequences of length zero or one, and
   `desired' is None while has_desired_column is false.                     *)
NewEditor(fallback) ==
    [lines |-> <<<<>>>>, cursor |-> Caret(0, 0), selection |-> <<>>, anchor |-> <<>>,
     scroll |-> 0, desired |-> None, width |-> 0, height |-> 0,
     fallback |-> Greatest(fallback, 1), paste |-> <<>>]

LineAt(e, i) == e.lines[i + 1]
LastCaret(e) == Caret(Len(e.lines) - 1, Len(Last(e.lines)))
has_input(e) == Len(e.lines) > 1 \/ e.lines[1] # <<>>
editable_width(e) == IF e.width = 0 THEN e.fallback ELSE e.width

(* Index of the space before the first word that overflows a row, or None. *)
RECURSIVE WrapBreakFrom(_, _, _)
WrapBreakFrom(line, width, row) ==
    IF Len(line) - row <= width THEN None
    ELSE LET words == {i \in (row + width)..(Len(line) - 1) : line[i + 1] # SPACE}
             spaces == {i \in (row + 1)..Min(words) : line[i] = SPACE}
         IN  CASE words = {} -> None
               [] words # {} /\ spaces # {} -> Max(spaces) - 1
               [] OTHER -> WrapBreakFrom(line, width, row + width)

materialized_wrap_break(line, width) == WrapBreakFrom(line, width, 0)

(* Split lines i..final of `e' at their overflowing words; the caret follows
   the text it was in.                                                      *)
RECURSIVE WrapLines(_, _, _)
WrapLines(e, i, final) ==
    IF i > final THEN e
    ELSE LET Split(at) == Take(e.lines, i)
                            \o <<Take(LineAt(e, i), at), Drop(LineAt(e, i), at + 1)>>
                            \o Drop(e.lines, i + 1)
             Moved(at) == IF e.cursor.line = i /\ e.cursor.column > at
                          THEN Caret(i + 1, e.cursor.column - at - 1)
                          ELSE IF e.cursor.line > i
                               THEN Caret(e.cursor.line + 1, e.cursor.column)
                               ELSE e.cursor
             Wrap(at) == IF at = None THEN WrapLines(e, i + 1, final)
                         ELSE WrapLines([e EXCEPT !.lines = Split(at), !.cursor = Moved(at)],
                                        i + 1, final + 1)
         IN  Wrap(materialized_wrap_break(LineAt(e, i), editable_width(e)))

materialize_word_wraps(e, first) == WrapLines(e, first, first)

(* Scalars of `line' on the row that starts at `first'. *)
RowLength(line, first, width) ==
    LET hard == first + width
        spaces == {c \in (first + 1)..hard : line[c] = SPACE}
    IN  IF /\ Len(line) > hard
           /\ line[hard] # SPACE /\ line[hard + 1] # SPACE
           /\ spaces # {}
        THEN Max(spaces) - first
        ELSE Least(width, Len(line) - first)

RECURSIVE LineRows(_, _, _, _)
LineRows(line, i, first, width) ==
    IF first = Len(line) THEN <<>>
    ELSE LET From(n) == <<[line |-> i, first |-> first, length |-> n]>>
                          \o LineRows(line, i, first + n, width)
         IN  From(RowLength(line, first, width))

(* visual_rows for a positive width: an empty line has one empty row, and a
   caret after a full last row gets a row of its own.                       *)
RECURSIVE RowsFrom(_, _, _)
RowsFrom(e, i, width) ==
    IF i = Len(e.lines) THEN <<>>
    ELSE LET end == Len(LineAt(e, i))
             blank == <<[line |-> i, first |-> end, length |-> 0]>>
             Full(rows) == e.cursor = Caret(i, end) /\ Last(rows).length = width
             Held(rows) == IF end = 0 \/ Full(rows) THEN rows \o blank ELSE rows
         IN  Held(LineRows(LineAt(e, i), i, 0, width)) \o RowsFrom(e, i + 1, width)

visual_rows(e, width) == RowsFrom(e, 0, width)

(* Zero-based row and column of the caret, the last row when none matches. *)
visual_cursor(e, rows, width) ==
    LET Holds(r) == /\ r.line = e.cursor.line
                    /\ \/ r.length = 0 /\ r.first = e.cursor.column
                       \/ e.cursor.column \in r.first..(r.first + r.length - 1)
                       \/ r.length < width /\ e.cursor.column = r.first + r.length
        Cell(on) == IF on = {} THEN <<Len(rows) - 1, 0>>
                    ELSE <<Min(on) - 1, e.cursor.column - rows[Min(on)].first>>
    IN  Cell({k \in DOMAIN rows : Holds(rows[k])})

MaxScroll(e) == Greatest(Len(visual_rows(e, e.width)) - e.height, 0)

clamp_scroll(e) ==
    [e EXCEPT !.scroll = IF e.width = 0 THEN 0 ELSE Least(@, MaxScroll(e))]

ensure_cursor_visible(e) ==
    LET Near(row) == IF row < e.scroll THEN row
                     ELSE IF row >= e.scroll + e.height THEN row - e.height + 1 ELSE e.scroll
        Held(rows) == Least(Near(visual_cursor(e, rows, e.width)[1]),
                            Greatest(Len(rows) - e.height, 0))
    IN  IF e.width = 0 \/ e.height = 0 THEN e
        ELSE [e EXCEPT !.scroll = Held(visual_rows(e, e.width))]

-----------------------------------------------------------------------------
(* Editing *)

Unselect(e) == [e EXCEPT !.selection = <<>>, !.anchor = <<>>]

(* Remove the text from caret a to caret b and put the caret at a. *)
CutRange(e, a, b) ==
    [e EXCEPT !.lines = Take(e.lines, a.line)
                          \o <<Take(LineAt(e, a.line), a.column) \o Drop(LineAt(e, b.line), b.column)>>
                          \o Drop(e.lines, b.line + 1),
              !.cursor = a]

delete_selection(e) ==
    IF e.selection = <<>> THEN e
    ELSE [Unselect(CutRange(e, e.selection[1].first, e.selection[1].last))
            EXCEPT !.desired = None]

(* Put `scalars', which hold no line break, before the caret. *)
InsertInLine(e, scalars) ==
    LET old == LineAt(e, e.cursor.line)
        new == Take(old, e.cursor.column) \o scalars \o Drop(old, e.cursor.column)
    IN  [e EXCEPT !.lines[e.cursor.line + 1] = new, !.cursor.column = @ + Len(scalars)]

BreakLine(e) ==
    LET old == LineAt(e, e.cursor.line)
    IN  [e EXCEPT !.lines = Take(@, e.cursor.line)
                              \o <<Take(old, e.cursor.column), Drop(old, e.cursor.column)>>
                              \o Drop(@, e.cursor.line + 1),
                  !.cursor = Caret(e.cursor.line + 1, 0)]

(* One scalar of insert(): `s' holds the editor and whether a CR came before. *)
InsertScalar(s, c, tabWidth) ==
    LET spaces == [i \in 1..(tabWidth - (s.e.cursor.column % tabWidth)) |-> SPACE]
    IN  CASE c = LF /\ s.cr -> [s EXCEPT !.cr = FALSE]
          [] c = CR \/ (c = LF /\ ~s.cr) -> [e |-> BreakLine(s.e), cr |-> c = CR]
          [] c \in ((0..31) \cup {127}) \ {TAB, LF, CR} -> [s EXCEPT !.cr = FALSE]
          [] OTHER -> [e |-> materialize_word_wraps(
                               InsertInLine(s.e, IF c = TAB THEN spaces ELSE <<c>>),
                               s.e.cursor.line),
                       cr |-> FALSE]

RECURSIVE InsertAll(_, _, _)
InsertAll(s, scalars, tabWidth) ==
    IF scalars = <<>> THEN s
    ELSE InsertAll(InsertScalar(s, Head(scalars), tabWidth), Tail(scalars), tabWidth)

insert(e, scalars, cr, tabWidth) ==
    [InsertAll([e |-> delete_selection(e), cr |-> cr], scalars, tabWidth)
        EXCEPT !.e = ensure_cursor_visible([Unselect(@) EXCEPT !.desired = None])]

insert_utf8(e, bytes, tabWidth) == insert(e, decode_utf8(bytes), FALSE, tabWidth).e

(* The caret one scalar before or after the caret, itself at the ends. *)
Before(e) ==
    IF e.cursor.column > 0 THEN Caret(e.cursor.line, e.cursor.column - 1)
    ELSE IF e.cursor.line > 0
         THEN Caret(e.cursor.line - 1, Len(LineAt(e, e.cursor.line - 1)))
         ELSE e.cursor

After(e) ==
    IF e.cursor.column < Len(LineAt(e, e.cursor.line))
    THEN Caret(e.cursor.line, e.cursor.column + 1)
    ELSE IF e.cursor.line + 1 < Len(e.lines) THEN Caret(e.cursor.line + 1, 0) ELSE e.cursor

(* backspace and delete_forward remove the selection, or one scalar or line
   break beside the caret.                                                   *)
Erase(e, a, b) ==
    ensure_cursor_visible(
        IF e.selection # <<>> THEN delete_selection(e)
        ELSE [CutRange(e, a, b) EXCEPT !.anchor = <<>>, !.desired = None])

backspace(e) == Erase(e, Before(e), e.cursor)
delete_forward(e) == Erase(e, e.cursor, After(e))

-----------------------------------------------------------------------------
(* Navigation *)

(* Move the caret of `e' to `to'; with Shift the range from the anchor
   follows, and without it the selection goes.                               *)
finish_navigation(e, to, extend) ==
    LET anchor == IF e.anchor = <<>> THEN e.cursor ELSE e.anchor[1]
        range == CASE anchor = to -> <<>>
                   [] cursor_less(to, anchor) -> <<[first |-> to, last |-> anchor]>>
                   [] OTHER -> <<[first |-> anchor, last |-> to]>>
    IN  IF extend THEN [e EXCEPT !.cursor = to, !.anchor = <<anchor>>, !.selection = range]
        ELSE [Unselect(e) EXCEPT !.cursor = to]

Navigate(e, to, extend) ==
    ensure_cursor_visible([finish_navigation(e, to, extend) EXCEPT !.desired = None])

move_horizontal(e, right, extend) ==
    Navigate(e, IF right THEN After(e) ELSE Before(e), extend)

(* Nearest column before `from' that starts a word, and nearest column after
   it that follows the separators behind a word.                             *)
WordStart(line, from) ==
    LET end == Max({0} \cup {c \in 1..from : is_word_character(line[c])})
    IN  Max({0} \cup {c \in 1..end : ~is_word_character(line[c])})

WordEnd(line, from) ==
    LET end == Min({Len(line)} \cup {c \in from..(Len(line) - 1) : ~is_word_character(line[c + 1])})
    IN  Min({Len(line)} \cup {c \in end..(Len(line) - 1) : is_word_character(line[c + 1])})

move_word_left(e, extend) ==
    LET To(from) == Caret(from.line, WordStart(LineAt(e, from.line), from.column))
    IN  IF e.cursor = Caret(0, 0) THEN finish_navigation(e, e.cursor, extend)
        ELSE Navigate(e, To(IF e.cursor.column = 0 THEN Before(e) ELSE e.cursor), extend)

move_word_right(e, extend) ==
    LET from == IF e.cursor.column = Len(LineAt(e, e.cursor.line)) THEN After(e) ELSE e.cursor
    IN  Navigate(e, Caret(from.line, WordEnd(LineAt(e, from.line), from.column)), extend)

(* Row `row' moved by `delta' and held within 0..rows-1. *)
ShiftRow(row, delta, rows) == Least(Greatest(row + delta, 0), rows - 1)

move_vertical(e, delta, extend) ==
    LET width == editable_width(e)
        Land(row, desired) ==
            [finish_navigation(e, Caret(row.line, row.first + Least(desired, row.length)), extend)
                EXCEPT !.desired = desired]
        From(at, rows) == Land(rows[ShiftRow(at[1], delta, Len(rows)) + 1],
                               IF e.desired = None THEN at[2] ELSE e.desired)
        Among(rows) == From(visual_cursor(e, rows, width), rows)
    IN  ensure_cursor_visible(Among(visual_rows(e, width)))

move_page(e, down, extend) ==
    LET page == Greatest(e.height, 1)
    IN  move_vertical(e, IF down THEN page ELSE -page, extend)

move_row_boundary(e, end, extend) ==
    LET width == editable_width(e)
        Edge(row) == Caret(row.line, IF end THEN row.first + row.length ELSE row.first)
        Among(rows) == Edge(rows[visual_cursor(e, rows, width)[1] + 1])
    IN  Navigate(e, Among(visual_rows(e, width)), extend)

move_buffer_boundary(e, end, extend) ==
    Navigate(e, IF end THEN LastCaret(e) ELSE Caret(0, 0), extend)

-----------------------------------------------------------------------------
(* Pointer and selection *)

(* The row `y' rows below the first one shown, held within the text.  The
   rows left below are an unsigned difference: it wraps when the scroll
   position lies behind the text, and then nothing holds the row.            *)
RowBelow(scroll, y, rows) ==
    IF y < 0 THEN Greatest(scroll + y, 0)
    ELSE IF scroll < rows THEN Least(scroll + y, rows - 1) ELSE scroll + y

(* Caret of the character at cell <<x, y>>, y may lie outside the viewport;
   <<>> when the row is empty.  A row that does not exist has no value here,
   as it has none in the code.  map_caret answers only inside the viewport.  *)
map_character(e, pos) ==
    LET On(row) ==
            IF row.length = 0 THEN <<>>
            ELSE <<Caret(row.line, row.first + Least(Greatest(pos[1], 0), row.length - 1))>>
        Among(rows) == On(rows[RowBelow(e.scroll, pos[2], Len(rows)) + 1])
    IN  IF e.width = 0 \/ e.height = 0 THEN <<>> ELSE Among(visual_rows(e, e.width))

map_caret(e, pos) ==
    LET On(row) == <<Caret(row.line, row.first + Least(pos[1], row.length))>>
        Among(rows) == IF e.scroll + pos[2] >= Len(rows) THEN <<>>
                       ELSE On(rows[e.scroll + pos[2] + 1])
    IN  IF \/ e.width = 0 \/ pos[1] \notin 0..(e.width - 1)
           \/ pos[2] \notin 0..(e.height - 1)
        THEN <<>> ELSE Among(visual_rows(e, e.width))

Select(e, first, last) ==
    [e EXCEPT !.selection = <<[first |-> first, last |-> last]>>, !.anchor = <<>>]

SelectAll(e) == IF has_input(e) THEN Select(e, Caret(0, 0), LastCaret(e)) ELSE e

SelectWord(e, c) ==
    LET line == LineAt(e, c.line)
        stops == {i \in DOMAIN line : ~is_word_character(line[i])}
        first == Max({0} \cup {i \in stops : i <= c.column})
        last == Min({Len(line)} \cup {i - 1 : i \in {j \in stops : j > c.column}})
    IN  IF is_word_character(line[c.column + 1])
        THEN Select(e, Caret(c.line, first), Caret(c.line, last))
        ELSE Select(e, c, Caret(c.line, c.column + 1))

SelectLine(e, c) == Select(e, Caret(c.line, 0), Caret(c.line, Len(LineAt(e, c.line))))

SelectSpan(e, a, b) ==
    LET past(c) == Caret(c.line, c.column + 1)
    IN  IF cursor_less(b, a) THEN Select(e, b, past(a)) ELSE Select(e, a, past(b))

update_selection(e, type, anchor, extent) ==
    LET Apply(from, to) ==
            CASE type = "RESET" -> Unselect(e)
              [] type = "SELECT_ALL" -> SelectAll(e)
              [] type = "SELECT_WORD" /\ to # <<>> -> SelectWord(e, to[1])
              [] type = "SELECT_LINE" /\ to # <<>> -> SelectLine(e, to[1])
              [] type = "SELECT_AND_EXTEND" /\ to # <<>> /\ from # <<>> -> SelectSpan(e, from[1], to[1])
              [] OTHER -> e
    IN  Apply(map_character(e, anchor), map_character(e, extent))

place_cursor(e, pos) ==
    LET To(to) == IF to = <<>> THEN e ELSE Navigate(e, to[1], FALSE)
    IN  To(map_caret(e, pos))

(* A positive delta scrolls towards the first row; the rows left below are an
   unsigned difference, and wrap behind the text.                            *)
scroll_vertical(e, delta) ==
    IF e.width = 0 THEN e
    ELSE IF delta > 0 THEN [e EXCEPT !.scroll = Greatest(@ - delta, 0)]
         ELSE [e EXCEPT !.scroll = IF @ > MaxScroll(e) THEN @ - delta
                                   ELSE Least(@ - delta, MaxScroll(e))]

set_viewport(e, width, height) ==
    LET Kept(sized) == IF e.width # width \/ e.height # height
                       THEN ensure_cursor_visible(sized) ELSE sized
    IN  Kept(clamp_scroll([e EXCEPT !.width = width, !.height = height]))

is_selected(e, c) ==
    e.selection # <<>> /\ ~cursor_less(c, e.selection[1].first) /\ cursor_less(c, e.selection[1].last)

=============================================================================
