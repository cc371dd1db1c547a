------------------------------ MODULE Console -------------------------------
(***************************************************************************)
(* The text console (drivers/console/console.c, and its users in vfs.c,    *)
(* input.c, pit.c and syscall.c): what programs write goes to a back       *)
(* buffer and to a ring of history lines; Ctrl+Up and Ctrl+Down look back; *)
(* the timer blinks the cursor and copies the dirty rectangle of the back  *)
(* buffer to the screen; a window manager draws over everything.           *)
(*                                                                         *)
(* A cell of the back buffer is a character, or Window for the pixels of a *)
(* window manager; the line of the cursor is kept apart, as the set        *)
(* `under'.  Colours are left out.  The console is modelled from the       *)
(* moment double buffering is on (kernel.c:441), before which the buffer   *)
(* and the screen are the same memory.                                     *)
(***************************************************************************)
EXTENDS Integers, FiniteSets, FiniteSetsExt

CONSTANTS W, H,     \* screen_width_chars, screen_height_chars: 10 at least
          Lines,    \* CONSOLE_HISTORY_LINES
          Tab,      \* columns of a tab: 4, fewer than W
          Chars,    \* characters that are drawn
          Spots,    \* cells <<x, y>> a program moves the cursor to
          Frames,   \* rectangles a window manager presents
          Begun,    \* numbers of empty lines at the beginning
          MaxChars, MaxCalls    \* bounds on the characters written and on the other calls

VARIABLES con,      \* the state of console.c
          stale,    \* the cells drawn since they were copied to the screen
          apart,    \* the buffer was changed in a way the history is not told of
          chars, calls

vars == <<con, stale, apart, chars, calls>>

Rows == 0 .. H - 1
Cols == 0 .. W - 1
Blank == " "
Window == "window"
BlankLine == [x \in Cols |-> Blank]
Clean == [x0 |-> 0, y0 |-> 0, x1 |-> 0, y1 |-> 0]

-----------------------------------------------------------------------------
(* Double buffering *)

\* Fault: the rectangle is the last one, not the union.
mark_dirty_last(k, x0, y0, x1, y1) ==
    [k EXCEPT !.dirty = [x0 |-> x0, y0 |-> y0, x1 |-> x1, y1 |-> y1]]

\* mark_dirty_rect_raw, of a rectangle inside the screen
mark_dirty_rect(k, x0, y0, x1, y1) ==
    LET d == k.dirty
    IN  [k EXCEPT !.dirty = IF d = Clean THEN [x0 |-> x0, y0 |-> y0, x1 |-> x1, y1 |-> y1]
                            ELSE [x0 |-> Min({d.x0, x0}), y0 |-> Min({d.y0, y0}),
                                  x1 |-> Max({d.x1, x1}), y1 |-> Max({d.y1, y1})]]

mark_dirty(k) == mark_dirty_rect(k, 0, 0, W, H)

InRect(r, y, x) == y \in r.y0 .. r.y1 - 1 /\ x \in r.x0 .. r.x1 - 1

\* The cells that differ between two states of the back buffer
Drawn(k, j) ==
    {p \in Rows \X Cols : k.fb[p[1]][p[2]] # j.fb[p[1]][p[2]] \/ (p \in k.under) # (p \in j.under)}

-----------------------------------------------------------------------------
(* The ring of history lines *)

\* The ring slot of a line, 0 for a line that is not there
history_get_index(k, line) == IF line >= k.count THEN 0 ELSE (k.start + line) % Lines

\* When the ring is not full, the slot that is cleared is the one of a line that
\* is not there yet.
history_new_line(k) ==
    IF k.count < Lines
    THEN [k EXCEPT !.hist[history_get_index(k, k.count)] = BlankLine, !.count = @ + 1]
    ELSE LET j == [k EXCEPT !.start = (@ + 1) % Lines]
         IN  [j EXCEPT !.hist[history_get_index(j, j.count - 1)] = BlankLine]

\* The line in the first row of the screen, when it is not scrolled
TopLine(k) == IF k.count > H THEN k.count - H ELSE 0

history_set_visible_char(k, x, y, c) ==
    IF TopLine(k) + y >= k.count THEN k
    ELSE [k EXCEPT !.hist[history_get_index(k, TopLine(k) + y)][x] = c]

Line(k, line) == IF line >= k.count THEN BlankLine ELSE k.hist[history_get_index(k, line)]

\* clear_console_line and history_render_line for the rows of S, row y with line L(y)
Render(k, S, L(_)) ==
    LET j == [k EXCEPT !.fb = [y \in Rows |-> IF y \in S THEN Line(k, L(y)) ELSE @[y]],
                       !.under = {p \in @ : p[1] \notin S}]
    IN  mark_dirty_rect(j, 0, Min(S), W, Max(S) + 1)

framebuffer_shift_up(k, n) ==
    IF n = 0 \/ n >= H THEN k
    ELSE mark_dirty([k EXCEPT
            !.fb = [y \in Rows |-> IF y + n \in Rows THEN @[y + n] ELSE BlankLine],
            !.under = {<<p[1] - n, p[2]>> : p \in {q \in @ : q[1] >= n}}])

framebuffer_shift_down(k, n) ==
    IF n = 0 \/ n >= H THEN k
    ELSE mark_dirty([k EXCEPT
            !.fb = [y \in Rows |-> IF y - n \in Rows THEN @[y - n] ELSE BlankLine],
            !.under = {<<p[1] + n, p[2]>> : p \in {q \in @ : q[1] + n < H}}])

-----------------------------------------------------------------------------
(* The cursor *)

draw_cursor(k) ==
    mark_dirty_rect([k EXCEPT !.under = @ \cup {<<k.y, k.x>>}, !.vis = TRUE], k.x, k.y, k.x + 1, k.y + 1)

erase_cursor(k) ==
    mark_dirty_rect([k EXCEPT !.under = @ \ {<<k.y, k.x>>}, !.vis = FALSE], k.x, k.y, k.x + 1, k.y + 1)

Erased(k) == IF k.vis THEN erase_cursor(k) ELSE k

update_cursor(k) == IF k.vis THEN erase_cursor(k) ELSE draw_cursor(k)

MoveTo(k, x, y) == draw_cursor([erase_cursor(k) EXCEPT !.x = x, !.y = y])

-----------------------------------------------------------------------------
(* Looking back *)

console_redraw_from_history(k) == mark_dirty(Render(k, Rows, LAMBDA y : TopLine(k) + y))

console_scroll_up(k) ==
    IF k.scroll >= TopLine(k) THEN k
    ELSE [Render(framebuffer_shift_down([Erased(k) EXCEPT !.scroll = @ + 1], 1),
                 {0}, LAMBDA y : TopLine(k) - (k.scroll + 1))
             EXCEPT !.vis = FALSE]

console_scroll_down(k) ==
    IF k.scroll = 0 THEN k
    ELSE LET bottom == TopLine(k) - (k.scroll - 1) + H - 1
             j == Render(framebuffer_shift_up([Erased(k) EXCEPT !.scroll = @ - 1], 1),
                         {H - 1}, LAMBDA y : Min({bottom, k.count - 1}))
         IN  IF j.scroll = 0 THEN draw_cursor(j) ELSE j

\* All rows anew after a long way, or the rows that are new after a short one
console_scroll_to_bottom(k) ==
    IF k.scroll = 0 THEN k
    ELSE LET n == k.scroll
             e == [Erased(k) EXCEPT !.scroll = 0]
         IN  draw_cursor(IF n >= H THEN Render(e, Rows, LAMBDA y : TopLine(k) + y)
                         ELSE Render(framebuffer_shift_up(e, n), H - n .. H - 1,
                                     LAMBDA y : k.count - n + (y - (H - n))))

-----------------------------------------------------------------------------
(* Writing *)

\* Below the last row nothing is seen.
put_char_graphic(k, c, x, y) ==
    LET j == IF k.scroll = 0 THEN history_set_visible_char(k, x, y, c) ELSE k
    IN  IF y >= H THEN j
        ELSE mark_dirty_rect([j EXCEPT !.fb[y][x] = c, !.under = @ \ {<<y, x>>}], x, y, x + 1, y + 1)

NewLine(k) == history_new_line([k EXCEPT !.x = 0, !.y = @ + 1])

\* One character, and the next line at the right border
Put(k, c) ==
    LET j == put_char_graphic(k, c, k.x, k.y)
    IN  IF k.x + 1 >= W THEN NewLine(j) ELSE [j EXCEPT !.x = @ + 1]

scroll_screen(k) ==
    LET j == [framebuffer_shift_up([k EXCEPT !.scroll = 0], 1) EXCEPT !.x = 0, !.y = H - 1]
    IN  draw_cursor(Render(j, {H - 1}, LAMBDA y : k.count - 1))

\* The line of LOG_PENDING is ended by whatever comes but "cr", which goes back over it.
ClosePending(k, c) ==
    IF ~k.pend \/ c = "cr" THEN k
    ELSE LET j == [k EXCEPT !.pend = FALSE] IN IF c = "nl" THEN j ELSE NewLine(j)

Effect(k, c) ==
    CASE c = "nl" -> NewLine(k)
      [] c = "cr" -> [k EXCEPT !.x = 0, !.pend = FALSE]
      [] c = "bs" -> IF k.x = 0 THEN k
                     ELSE put_char_graphic([k EXCEPT !.x = @ - 1], Blank, k.x - 1, k.y)
      [] c = "tab" -> FoldSet(LAMBDA i, j : Put(j, Blank), k, 1 .. Tab)
      [] OTHER -> Put(k, c)

put_char(k, c) ==
    LET j == Effect(ClosePending(Erased(console_scroll_to_bottom(k)), c), c)
    IN  IF j.y >= H THEN scroll_screen(j) ELSE j

clear_screen(k) ==
    mark_dirty([Erased(k) EXCEPT !.fb = [y \in Rows |-> BlankLine], !.under = {}, !.x = 0, !.y = 0])

set_cursor_position(k, x, y) ==
    LET j == console_scroll_to_bottom(k) IN IF x \in Cols /\ y \in Rows THEN MoveTo(j, x, y) ELSE j

-----------------------------------------------------------------------------
(* Who calls.  Interrupts are off in console_write() and in printf().      *)

\* initialize_console and clear_entire_screen
Fresh ==
    [x |-> 0, y |-> 0, vis |-> FALSE, pend |-> FALSE, wm |-> FALSE,
     count |-> 1, start |-> 0, scroll |-> 0, hist |-> [i \in 0 .. Lines - 1 |-> BlankLine],
     fb |-> [y \in Rows |-> BlankLine], under |-> {}, dirty |-> Clean]

\* Some empty lines have been written, and a tick has copied them to the screen.
Init ==
    /\ \E n \in Begun : con = [FoldSet(LAMBDA i, k : put_char(k, "nl"), Fresh, 1 .. n) EXCEPT !.dirty = Clean]
    /\ stale = {} /\ apart = FALSE /\ chars = 0 /\ calls = 0

\* The row of the cursor shows the last line.
InStep(k) == k.y = Min({k.count, H}) - 1

\* A new line is the last one of the history and the next row of the screen, which
\* is the same only in step; rows below the last line are not in the history.
Write(c) ==
    /\ con' = put_char(con, c)
    /\ apart' = \/ apart
                \/ con.y >= con.count
                \/ ~InStep(con) /\ <<con'.count, con'.start>> # <<con.count, con.start>>

\* The escape sequences of console_write()
SetCursor(x, y) == con' = set_cursor_position(con, x, y) /\ UNCHANGED apart
Left == con.x > 0 /\ con' = MoveTo(con, con.x - 1, con.y) /\ UNCHANGED apart
Right == con.x < W - 1 /\ con' = MoveTo(con, con.x + 1, con.y) /\ UNCHANGED apart
Clear == con' = clear_screen(con) /\ apart' = TRUE

\* The end of LOG_PENDING
MarkPending == con' = [con EXCEPT !.pend = TRUE] /\ UNCHANGED apart

\* Ctrl+Up, Ctrl+Down and Ctrl+C, which go to the window manager if there is one
Key ==
    /\ ~con.wm
    /\ con' \in {console_scroll_up(con), console_scroll_down(con), console_scroll_to_bottom(con)}
    /\ UNCHANGED apart

\* The timer: the cursor blinks every tenth time, and gfx_present copies the dirty
\* rectangle.
Tick ==
    /\ \E k \in {con} \cup (IF con.wm THEN {} ELSE {update_cursor(con)}) :
        /\ stale' = {p \in stale \cup Drawn(con, k) : ~InRect(k.dirty, p[1], p[2])}
        /\ con' = [k EXCEPT !.dirty = Clean]
    /\ UNCHANGED <<apart, chars, calls>>

wm_register == ~con.wm /\ con' = [con EXCEPT !.wm = TRUE] /\ UNCHANGED apart

\* A frame of the window manager, or a part of it
sys_fb_present ==
    /\ con.wm
    /\ \E r \in Frames :
        con' = mark_dirty_rect([con EXCEPT
            !.fb = [y \in Rows |-> [x \in Cols |-> IF InRect(r, y, x) THEN Window ELSE @[y][x]]],
            !.under = {p \in @ : ~InRect(r, p[1], p[2])}], r.x0, r.y0, r.x1, r.y1)
    /\ UNCHANGED apart

\* It steps back and leaves its frame, or ends and the text comes back.
wm_unregister == con.wm /\ con' = [con EXCEPT !.wm = FALSE] /\ apart' = TRUE
WmEnds ==
    /\ con.wm
    /\ con' = console_redraw_from_history([con EXCEPT !.wm = FALSE])
    /\ apart' = (con.scroll # 0)

Changes ==
    \/ \E s \in Spots : SetCursor(s[1], s[2])
    \/ Left \/ Right \/ Clear \/ MarkPending
    \/ wm_register \/ wm_unregister \/ WmEnds

Draws ==
    \/ /\ chars < MaxChars /\ chars' = chars + 1 /\ UNCHANGED calls
       /\ \E c \in Chars \cup {"nl", "cr", "bs", "tab"} : Write(c)
    \/ calls < MaxCalls /\ calls' = calls + 1 /\ Changes /\ UNCHANGED chars
    \/ (Key \/ sys_fb_present) /\ UNCHANGED <<chars, calls>>

Next == (Draws /\ stale' = stale \cup Drawn(con, con')) \/ Tick

Spec == Init /\ [][Next]_vars

-----------------------------------------------------------------------------
(* What the user sees is right: the back buffer shows the lines of the     *)
(* history that the scroll position names, whatever was written, scrolled  *)
(* and drawn over in between; what the screen does not show yet is inside  *)
(* the dirty rectangle; and there is one cursor, where the next character  *)
(* goes.  The first line is excepted until it has left the screen, because *)
(* history_new_line() clears it in the history while the ring fills.       *)
ScreenTrue ==
    /\ ~apart /\ ~con.wm =>
        \A y \in Rows : y # 0 \/ con.count > H => con.fb[y] = Line(con, TopLine(con) - con.scroll + y)
    /\ \A p \in stale : InRect(con.dirty, p[1], p[2])
    /\ con.under \subseteq {<<con.y, con.x>>}
=============================================================================
