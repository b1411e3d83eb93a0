------------------------------- MODULE Terminal ------------------------------
(***************************************************************************)
(* The text terminal, kernel/terminal.c: a ring of retained lines, the     *)
(* cursor, a view that follows the output page by page or is scrolled      *)
(* back, and the picture in the framebuffer, which is repaired cell by     *)
(* cell where possible and redrawn as a whole where necessary.  The blink  *)
(* of the cursor is a bar painted over a cell and painted out again.       *)
(*                                                                         *)
(* Every function of the file is an operator on the terminal's state.  A   *)
(* cell is a character with its colour; pixels are left out.  A screenful  *)
(* of rows is fewer than the retained lines.                               *)
(***************************************************************************)
EXTENDS Integers, Sequences, SequencesExt

CONSTANTS
  Columns,      \* g_columns
  Rows,         \* g_rows
  Scrollback    \* TERMINAL_SCROLLBACK_LINES

Empty == <<"", "">>
BlankLine == [k \in 0..(Columns - 1) |-> Empty]
BlankScreen == [r \in 0..(Rows - 1) |-> BlankLine]

\* terminal_init and terminal_clear.
Cleared(enabled, render) ==
  [chars |-> [s \in 0..(Scrollback - 1) |-> BlankLine],
   first |-> 0, last |-> 0, line |-> 0, column |-> 0, top |-> 0,
   follow |-> TRUE, enabled |-> enabled, visible |-> FALSE, render |-> render,
   screen |-> BlankScreen, bar |-> {}]

terminal_clear(t) == [Cleared(t.enabled, t.render) EXCEPT !.screen = IF t.render THEN @ ELSE t.screen]

line_slot(n) == n % Scrollback
line_retained(t, n) == n >= t.first /\ n <= t.last
line_visible(t, n) == n >= t.top /\ n < t.top + Rows
visible_row(t, n) == n - t.top

\* What the view should look like.
View(t) ==
  [r \in 0..(Rows - 1) |->
     IF line_retained(t, t.top + r) THEN t.chars[line_slot(t.top + r)] ELSE BlankLine]

render_viewport(t) == IF t.render THEN [t EXCEPT !.screen = View(t), !.bar = {}] ELSE t

render_cell(t, n, k) ==
  IF ~t.render \/ ~line_visible(t, n) \/ k >= Columns THEN t
  ELSE LET r == visible_row(t, n)
       IN [t EXCEPT !.screen[r][k] = View(t)[r][k], !.bar = @ \ {<<r, k>>}]

live_view_top(t) ==
  LET top == (t.line \div Rows) * Rows IN IF top < t.first THEN t.first ELSE top

hide_cursor_overlay(t) ==
  IF ~t.visible THEN t ELSE [render_cell(t, t.line, t.column) EXCEPT !.visible = FALSE]

show_cursor_overlay(t) ==
  IF ~t.render \/ ~t.enabled \/ t.visible THEN t
  ELSE [t EXCEPT !.visible = TRUE,
                 !.bar = IF line_visible(t, t.line) /\ t.column < Columns
                           THEN @ \union {<<visible_row(t, t.line), t.column>>} ELSE @]

\* The overlay is shown again when it was there before.
Reshow(was, t) == IF was THEN show_cursor_overlay(t) ELSE t

keep_view_valid(t) ==
  IF t.top >= t.first THEN t
  ELSE LET moved == [t EXCEPT !.top = t.first] IN IF t.follow THEN moved ELSE render_viewport(moved)

\* Defect: the reused slot keeps the characters of the line it held before.
ReusedUncleared(t, n) ==
  IF n <= t.last THEN t
  ELSE keep_view_valid(
         [t EXCEPT !.last = n,
                   !.first = IF n - t.first + 1 > Scrollback THEN n - Scrollback + 1 ELSE @])

retain_new_line(t, n) ==
  IF n <= t.last THEN t
  ELSE keep_view_valid(
         [t EXCEPT !.last = n,
                   !.first = IF n - t.first + 1 > Scrollback THEN n - Scrollback + 1 ELSE @,
                   !.chars[line_slot(n)] = BlankLine])

NextLine(t) == retain_new_line([t EXCEPT !.line = @ + 1, !.column = 0], t.line + 1)

FollowOutput(t) ==
  IF t.follow /\ live_view_top(t) /= t.top THEN render_viewport([t EXCEPT !.top = live_view_top(t)]) ELSE t

advance_line(t) == Reshow(t.visible, FollowOutput(NextLine(hide_cursor_overlay(t))))

Backspace(t) ==
  IF t.column = 0 THEN t
  ELSE render_cell([t EXCEPT !.column = @ - 1, !.chars[line_slot(t.line)][t.column - 1] = Empty],
                   t.line, t.column - 1)

LeaveFull(t) == IF t.column >= Columns THEN advance_line(t) ELSE t

Written(t, ch, color) ==
  [render_cell([t EXCEPT !.chars[line_slot(t.line)][t.column] = <<ch, color>>], t.line, t.column)
     EXCEPT !.column = @ + 1]

\* A printable character; the line is left as soon as it is full.
Printable(t, ch, color) == LeaveFull(Written(LeaveFull(t), ch, color))

PutHidden(was, t, ch, color) ==
  CASE ch = "BS" -> Reshow(was, Backspace(t))
    [] ch = "CR" -> Reshow(was, [t EXCEPT !.column = 0])
    [] ch = "LF" -> advance_line(Reshow(was, t))
    [] OTHER -> Reshow(was, Printable(t, ch, color))

terminal_putchar(t, ch, color) == PutHidden(t.visible, hide_cursor_overlay(t), ch, color)

terminal_write(t, text, color) == FoldLeft(LAMBDA s, ch : terminal_putchar(s, ch, color), t, text)

Left(t) ==
  CASE t.column > 0 -> [t EXCEPT !.column = @ - 1]
    [] t.column = 0 /\ t.line > t.first -> [t EXCEPT !.line = @ - 1, !.column = Columns - 1]
    [] OTHER -> t

Right(t) ==
  CASE t.column + 1 < Columns -> [t EXCEPT !.column = @ + 1]
    [] t.column + 1 >= Columns /\ t.line < t.last -> [t EXCEPT !.line = @ + 1, !.column = 0]
    [] OTHER -> t

terminal_cursor_left(t) == Reshow(t.visible, Left(hide_cursor_overlay(t)))
terminal_cursor_right(t) == Reshow(t.visible, Right(hide_cursor_overlay(t)))

CursorAt(t) == <<t.line, t.column>>

terminal_cursor_enable(t, on) == IF on THEN [t EXCEPT !.enabled = TRUE] ELSE [hide_cursor_overlay(t) EXCEPT !.enabled = FALSE]

terminal_cursor_set_visible(t, on) ==
  CASE ~t.enabled -> [t EXCEPT !.visible = FALSE]
    [] t.enabled /\ on -> show_cursor_overlay(t)
    [] OTHER -> hide_cursor_overlay(t)

terminal_cursor_toggle(t) == IF t.enabled THEN terminal_cursor_set_visible(t, ~t.visible) ELSE t

\* While rendering is off the framebuffer belongs to somebody else.
terminal_set_render_enabled(t, on) ==
  CASE on = t.render -> t
    [] on /\ ~t.render ->
         LET v == render_viewport([t EXCEPT !.render = TRUE]) IN IF t.enabled THEN show_cursor_overlay(v) ELSE v
    [] OTHER -> [hide_cursor_overlay(t) EXCEPT !.render = FALSE]

terminal_redraw(t) == Reshow(t.visible, render_viewport([t EXCEPT !.visible = FALSE]))

\* The page steps overlap by a row.
Step == IF Rows > 1 THEN Rows - 1 ELSE 1

ScrollUp(t, step) ==
  IF t.top <= t.first THEN t
  ELSE LET h == hide_cursor_overlay(t)
       IN render_viewport([h EXCEPT !.top = IF t.top - t.first > step THEN @ - step ELSE t.first, !.follow = FALSE])

ScrollDown(t, step) ==
  LET bottom == live_view_top(t)
      h == hide_cursor_overlay(t)
      top == IF bottom - t.top > step THEN t.top + step ELSE bottom
      v == render_viewport([h EXCEPT !.top = top, !.follow = (top = bottom)])
  IN IF t.top >= bottom THEN render_viewport([t EXCEPT !.top = bottom, !.follow = TRUE])
     ELSE Reshow(v.follow /\ t.enabled /\ t.visible, v)

terminal_scrollback_to_bottom(t) ==
  LET bottom == live_view_top(t) IN
  IF t.follow /\ t.top = bottom THEN t
  ELSE Reshow(t.enabled /\ t.visible,
              render_viewport([hide_cursor_overlay(t) EXCEPT !.top = bottom, !.follow = TRUE]))

terminal_scrollback_active(t) == ~t.follow \/ t.top /= live_view_top(t)

\* The picture is that of the view and holds at most one cursor, at the place
\* where the cursor is.
Current(t) ==
  t.render =>
    /\ t.screen = View(t)
    /\ t.bar \subseteq {<<t.line - t.top, t.column>>}
    /\ t.bar /= {} => t.visible
==============================================================================
