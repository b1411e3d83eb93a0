------------------------------ MODULE LineEditor -----------------------------
(***************************************************************************)
(* The two command-line editors over the terminal: the one of the Ring-3   *)
(* console service (user/console_service.c), which writes to the terminal  *)
(* through its portal, and the one of the kernel monitor                   *)
(* (kernel/shell/editor.c).  Both keep the position and the length of what *)
(* they last drew and repair the row relative to them; the first one also  *)
(* takes short cuts at the end of the line.                                *)
(*                                                                         *)
(* `kind' tells which of the two runs.  Characters are taken from a small  *)
(* alphabet in turn, so that misplaced ones are told apart.                *)
(***************************************************************************)
EXTENDS Terminal

CONSTANTS
  Capacity,         \* characters a line holds: SHELL_LINE_CAPACITY - 1
  HistoryCapacity,  \* SHELL_HISTORY_CAPACITY
  Prompt,           \* characters of the prompt
  KeyLimit

VARIABLES kind, e, t, keys, start, slipped

vars == <<kind, e, t, keys, start, slipped>>

Ring3 == kind = "ring3"

NewLine == [line |-> <<>>, cursor |-> 0, rendered_length |-> 0, rendered_cursor |-> 0, offset |-> -1,
            draft |-> <<>>, saved |-> FALSE, selecting |-> FALSE, anchor |-> 0, history |-> <<>>, clipboard |-> <<>>]

\* shell_reset_line and shell_editor_reset_line.
reset_line(d) == [NewLine EXCEPT !.history = d.history, !.clipboard = d.clipboard]

Length(d) == Len(d.line)

Prompted(s) == terminal_write(s, Prompt, "default")

Init ==
  /\ kind \in {"ring3", "kernel"}
  /\ e = NewLine /\ keys = 0 /\ slipped = FALSE
  /\ t = Prompted(Cleared(TRUE, TRUE)) /\ start = CursorAt(t)

(***************************************************************************)
(* Redrawing.  An operator returns the editor and the terminal.            *)
(***************************************************************************)

Both(d, s) == [e |-> d, t |-> s]

Lefts(s, n) == FoldLeft(LAMBDA x, i : terminal_cursor_left(x), s, [i \in 1..n |-> i])
Rights(s, n) == FoldLeft(LAMBDA x, i : terminal_cursor_right(x), s, [i \in 1..n |-> i])

selection_start(d) == IF d.cursor < d.anchor THEN d.cursor ELSE d.anchor
selection_end(d) == IF d.cursor > d.anchor THEN d.cursor ELSE d.anchor
selected_at(d, i) == d.selecting /\ i >= selection_start(d) /\ i < selection_end(d)

Color(d, i) == IF selected_at(d, i) THEN "accent" ELSE "default"

Longer(a, b) == IF a > b THEN a ELSE b

\* Back to the start of the line, all of it again, blanks over what was longer
\* before, and back to the cursor.
redraw(d, s) ==
  LET at == Lefts(s, d.rendered_cursor)
      written == FoldLeft(LAMBDA x, i : terminal_putchar(x, d.line[i], Color(d, i - 1)), at, [i \in 1..Length(d) |-> i])
      display == Longer(d.rendered_length, Length(d))
      blanked == terminal_write(written, [i \in 1..(display - Length(d)) |-> " "], "default")
  IN Both([d EXCEPT !.rendered_length = Length(d), !.rendered_cursor = d.cursor],
          Lefts(blanked, display - d.cursor))

(***************************************************************************)
(* Editing.                                                                *)
(***************************************************************************)

clear_selection(d) == [d EXCEPT !.selecting = FALSE, !.anchor = d.cursor]
leave_history(d) == [d EXCEPT !.offset = -1, !.saved = FALSE]

delete_range(d, from, to) ==
  IF from >= to \/ to > Length(d) THEN d
  ELSE leave_history(clear_selection(
         [d EXCEPT !.line = SubSeq(@, 1, from) \o SubSeq(@, to + 1, Len(@)), !.cursor = from]))

delete_selection(d) == IF d.selecting THEN delete_range(d, selection_start(d), selection_end(d)) ELSE d

Inserted(d, bytes) ==
  LET room == Capacity - Length(d)
      new == SubSeq(bytes, 1, IF Len(bytes) > room THEN room ELSE Len(bytes))
  IN leave_history(clear_selection(
       [d EXCEPT !.line = SubSeq(@, 1, d.cursor) \o new \o SubSeq(@, d.cursor + 1, Len(@)), !.cursor = @ + Len(new)]))

insert_bytes(d, s, bytes) ==
  LET c == delete_selection(d) IN
  IF Length(c) = Capacity THEN Both(c, s) ELSE redraw(Inserted(c, bytes), s)

\* Ring 3: at the end of the line and of the drawing the bytes are just written.
shell_insert_bytes(d, s, bytes) ==
  LET c == delete_selection(d)
      n == Inserted(c, bytes)
      count == Length(n) - Length(c)
      appended == /\ c.cursor = Length(c) /\ n.rendered_cursor = n.rendered_length
                  /\ n.rendered_length + count = Length(n)
  IN CASE count = 0 -> Both(c, s)
       [] count > 0 /\ appended ->
            Both([n EXCEPT !.rendered_length = Length(n), !.rendered_cursor = n.cursor],
                 terminal_write(s, SubSeq(bytes, 1, count), "default"))
       [] OTHER -> redraw(n, s)

Insert(d, s, bytes) == IF Ring3 THEN shell_insert_bytes(d, s, bytes) ELSE insert_bytes(d, s, bytes)

erase_before(d, s) ==
  CASE d.selecting -> redraw(delete_selection(d), s)
    [] ~d.selecting /\ d.cursor = 0 -> Both(d, s)
    [] OTHER -> redraw(delete_range(d, d.cursor - 1, d.cursor), s)

\* Ring 3: at the end of the line one backspace is enough.
EraseAtEnd(d) == Ring3 /\ ~d.selecting /\ d.cursor > 0 /\ d.cursor = Length(d) /\ d.rendered_cursor = d.rendered_length

shell_erase_before(d, s) ==
  LET n == leave_history([d EXCEPT !.line = SubSeq(@, 1, d.cursor - 1), !.cursor = @ - 1]) IN
  IF EraseAtEnd(d)
    THEN Both([n EXCEPT !.rendered_cursor = n.cursor, !.rendered_length = Length(n)], terminal_putchar(s, "BS", "default"))
    ELSE erase_before(d, s)

erase_at(d, s) ==
  CASE d.selecting -> redraw(delete_selection(d), s)
    [] ~d.selecting /\ d.cursor >= Length(d) -> Both(d, s)
    [] OTHER -> redraw(delete_range(d, d.cursor, d.cursor + 1), s)

selection_begin_if_needed(d) == IF d.selecting THEN d ELSE [d EXCEPT !.anchor = d.cursor]
selection_finish_move(d) == [d EXCEPT !.selecting = d.cursor /= d.anchor]

\* Defect: a move without shift leaves the highlight on the screen.
MovedQuietly(d, s, to, selecting) ==
  LET b == IF selecting THEN selection_begin_if_needed(d) ELSE clear_selection(d)
      m == [b EXCEPT !.cursor = to, !.rendered_cursor = to]
      moved == IF to <= d.cursor THEN Lefts(s, d.cursor - to) ELSE Rights(s, to - d.cursor)
  IN IF selecting THEN redraw(selection_finish_move(m), moved) ELSE Both(m, moved)

shell_move(d, s, to, selecting) ==
  LET b == IF selecting THEN selection_begin_if_needed(d) ELSE clear_selection(d)
      m == [b EXCEPT !.cursor = to]
  IN redraw(IF selecting THEN selection_finish_move(m) ELSE m, s)

\* The kernel's editor moves the terminal's cursor along before it redraws.
editor_move(d, s, to, selecting) ==
  LET b == IF selecting THEN selection_begin_if_needed(d) ELSE clear_selection(d)
      m == [b EXCEPT !.cursor = to, !.rendered_cursor = to]
      moved == IF to <= d.cursor THEN Lefts(s, d.cursor - to) ELSE Rights(s, to - d.cursor)
  IN redraw(IF selecting THEN selection_finish_move(m) ELSE m, moved)

Move(d, s, to, selecting) == IF Ring3 THEN shell_move(d, s, to, selecting) ELSE editor_move(d, s, to, selecting)

move_left(d, s, sel) == IF d.cursor = 0 THEN Both(d, s) ELSE Move(d, s, d.cursor - 1, sel)
move_right(d, s, sel) == IF d.cursor >= Length(d) THEN Both(d, s) ELSE Move(d, s, d.cursor + 1, sel)
move_home(d, s, sel) == Move(d, s, 0, sel)
move_end(d, s, sel) == Move(d, s, Length(d), sel)

copy_selection_or_line(d) ==
  [d EXCEPT !.clipboard = IF d.selecting THEN SubSeq(d.line, selection_start(d) + 1, selection_end(d)) ELSE d.line]

cut_selection_or_line(d, s) ==
  LET c == copy_selection_or_line(d)
  IN redraw(IF d.selecting THEN delete_selection(c)
            ELSE leave_history(clear_selection([c EXCEPT !.line = <<>>, !.cursor = 0])), s)

(***************************************************************************)
(* History, newest first.                                                  *)
(***************************************************************************)

history_store(d) ==
  IF d.line = <<>> \/ (d.history /= <<>> /\ d.history[1] = d.line) THEN d
  ELSE LET h == <<d.line>> \o d.history
       IN [d EXCEPT !.history = SubSeq(h, 1, IF Len(h) > HistoryCapacity THEN HistoryCapacity ELSE Len(h))]

Loaded(d, line, s) == redraw(clear_selection([d EXCEPT !.line = line, !.cursor = Len(line)]), s)

history_up(d, s) ==
  LET c == CASE d.offset < 0 -> [d EXCEPT !.draft = d.line, !.saved = TRUE, !.offset = 0]
             [] d.offset >= 0 /\ d.offset + 1 < Len(d.history) -> [d EXCEPT !.offset = @ + 1]
             [] OTHER -> d
  IN IF d.history = <<>> THEN Both(d, s) ELSE Loaded(c, d.history[c.offset + 1], s)

history_down(d, s) ==
  CASE d.offset < 0 -> Both(d, s)
    [] d.offset > 0 -> Loaded([d EXCEPT !.offset = @ - 1], d.history[d.offset], s)
    [] OTHER -> Loaded([d EXCEPT !.offset = -1, !.saved = FALSE], IF d.saved THEN d.draft ELSE <<>>, s)

\* The line is drawn plain to its end before it is left.
shell_submit(d, s) ==
  LET h == history_store(d) IN
  IF h.selecting \/ h.cursor /= Length(h) THEN redraw(clear_selection([h EXCEPT !.cursor = Length(h)]), s) ELSE Both(h, s)

Ended(r) == move_end(r.e, r.t, FALSE)
Stored(r) == Both(history_store(r.e), r.t)

editor_submit(d, s) == Stored(Ended(redraw(clear_selection(d), s)))

(***************************************************************************)
(* Keys.                                                                   *)
(***************************************************************************)

\* shell_handle_key and shell_editor_handle first return to the live view.
Live == IF Ring3 \/ terminal_scrollback_active(t) THEN terminal_scrollback_to_bottom(t) ELSE t

KeySlips(r, slips) ==
  /\ e' = r.e /\ t' = r.t /\ slipped' = slips
  /\ keys' = keys + 1 /\ UNCHANGED <<kind, start>>

Key(r) == KeySlips(r, slipped)

Letter == CASE keys % 3 = 0 -> "a" [] keys % 3 = 1 -> "b" [] OTHER -> "c"

Typed == Key(Insert(e, Live, <<Letter>>))
Tab == Ring3 /\ Key(Insert(e, Live, <<" ", " ", " ", " ">>))
Pasted == e.clipboard /= <<>> /\ Key(Insert(e, Live, e.clipboard))

\* The terminal's own backspace stops at the left edge; from then on the short
\* cut of the Ring-3 editor has lost the place of a line that had wrapped.
BackspaceKey ==
  KeySlips(IF Ring3 THEN shell_erase_before(e, Live) ELSE erase_before(e, Live),
           slipped \/ (EraseAtEnd(e) /\ Live.column = 0))

DeleteKey == Key(erase_at(e, Live))

MoveKey ==
  \E sel \in BOOLEAN :
    \/ Key(move_left(e, Live, sel)) \/ Key(move_right(e, Live, sel))
    \/ Key(move_home(e, Live, sel)) \/ Key(move_end(e, Live, sel))

HistoryKey == Key(history_up(e, Live)) \/ Key(history_down(e, Live))

CopyKey == Key(Both(copy_selection_or_line(e), Live))
CutKey == Key(cut_selection_or_line(e, Live))

\* Enter: the command's output, here one line, and a new prompt.
Output(s) == terminal_write(s, <<"LF", "o", "LF">>, "default")

Submitted(r) ==
  /\ e' = reset_line(r.e) /\ t' = Prompted(Output(r.t)) /\ start' = CursorAt(t')
  /\ keys' = keys + 1 /\ slipped' = FALSE /\ UNCHANGED kind

EnterKey == Submitted(IF Ring3 THEN shell_submit(e, Live) ELSE editor_submit(e, Live))

ScrollKey ==
  \E step \in {1, Step} : Key(Both(e, ScrollUp(t, step))) \/ Key(Both(e, ScrollDown(t, step)))

\* The loop of the shell blinks the cursor; a graphical session takes the
\* framebuffer and gives it back.
Blink == keys' = keys + 1 /\ t' = terminal_cursor_toggle(t) /\ UNCHANGED <<kind, e, start, slipped>>

RenderSwitch ==
  /\ keys' = keys + 1 /\ t' = terminal_set_render_enabled(t, ~t.render)
  /\ UNCHANGED <<kind, e, start, slipped>>

CursorSwitch ==
  /\ keys' = keys + 1 /\ t' = terminal_cursor_enable(t, ~t.enabled)
  /\ UNCHANGED <<kind, e, start, slipped>>

Redraw == keys' = keys + 1 /\ t' = terminal_redraw(t) /\ UNCHANGED <<kind, e, start, slipped>>

\* The monitor's clear command ends in a new prompt.
ClearCommand ==
  /\ t' = Prompted(terminal_clear(t)) /\ start' = CursorAt(t')
  /\ e' = reset_line(e) /\ keys' = keys + 1 /\ slipped' = FALSE /\ UNCHANGED kind

Next ==
  /\ keys < KeyLimit
  /\ \/ Typed \/ Tab \/ Pasted \/ BackspaceKey \/ DeleteKey \/ MoveKey \/ HistoryKey
     \/ CopyKey \/ CutKey \/ EnterKey \/ ScrollKey \/ Blink \/ RenderSwitch \/ CursorSwitch \/ Redraw \/ ClearCommand

Spec == Init /\ [][Next]_vars

(***************************************************************************)
(* Properties.                                                             *)
(***************************************************************************)

\* The cell of the i-th character of the line, from where the prompt ended.
Place(i) ==
  LET at == start[2] + i IN <<start[1] + at \div Columns, at % Columns>>

Cell(p) == t.chars[line_slot(p[1])][p[2]]

\* After every key the rows hold exactly the line, with the selection in its
\* colour and nothing behind it, and the terminal's cursor is at the editor's:
\* the editor's idea of what it drew never drifts from the terminal.  (A
\* Ring-3 line that wrapped and was erased back over the edge is excepted.)
RowsShowLine ==
  ~slipped /\ start[1] >= t.first =>
    /\ \A i \in 0..(Len(e.line) - 1) : Cell(Place(i)) = <<e.line[i + 1], Color(e, i)>>
    /\ \A i \in Len(e.line)..Capacity :
         LET p == Place(i) IN p[1] <= t.last => Cell(p) \in {Empty, <<" ", "default">>}
    /\ CursorAt(t) = Place(e.cursor)

\* The picture follows the retained lines and holds no second cursor.
PictureIsCurrent == Current(t)
==============================================================================
