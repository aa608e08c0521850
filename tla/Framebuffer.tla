----------------------------- MODULE Framebuffer -----------------------------
(***************************************************************************)
(* The framebuffer backend (flanterm_backends/fb.c): the characters on the *)
(* display are kept in grid, the changes since the last flush in a queue   *)
(* with at most one item per cell, found through map.  The loops of scroll,*)
(* revscroll and clear are walked one push_to_queue at a time: todo holds  *)
(* the pushes the current operation still has to make, each reading its    *)
(* source when it is made, so that their order matters as it does in the   *)
(* code.  Sizes, colours and character codes are abstract.                 *)
(***************************************************************************)
EXTENDS Integers, Sequences

CONSTANTS COLS, ROWS, Chars, Space, Colours, DefFg, DefBg,
          Margins,      \* the scroll regions the frontend selects, <<top, bot>>
          MaxOps        \* bound on the operations between which flushes happen

ASSUME FramebufferAssumption ==
    /\ COLS \in Nat \ {0} /\ ROWS \in Nat \ {0} /\ MaxOps \in Nat
    /\ Space \in Chars /\ DefFg \in Colours /\ DefBg \in Colours
    /\ \A m \in Margins : m[1] \in 0 .. ROWS - 1 /\ m[2] \in m[1] + 1 .. ROWS

VARIABLES
    grid,       \* ctx->grid: what was last plotted
    map,        \* ctx->map: the item of each cell in queue, 0 for NULL
    queue,      \* ctx->queue[0 .. queue_i - 1]
    ctx,        \* cursor, text colours, saved state, and the frontend's modes
    old,        \* ctx->old_cursor_x, old_cursor_y
    shown,      \* the display: what plot_char drew in each cell
    todo,       \* the pushes still to make, when an operation has several
    before,     \* the screen as the last finished operation left it
    ops         \* operations other than flushes so far

vars == <<grid, map, queue, ctx, old, shown, todo, before, ops>>

Cell == 0 .. ROWS * COLS - 1
Glyph == [c: Chars, fg: Colours, bg: Colours]
Item == [i: Cell, g: Glyph]
At(x, y) == y * COLS + x
Inverted(g) == [g EXCEPT !.fg = g.bg, !.bg = g.fg]

\* A cell's character: the queued one if there is one.
Pending(mp, qu, i) == IF mp[i] # 0 THEN qu[mp[i]].g ELSE grid[i]
Content(i) == Pending(map, queue, i)
-----------------------------------------------------------------------------
\* flanterm_fb_init: an empty grid, an empty queue, and the first refresh.
Init ==
    LET blank == [i \in Cell |-> [c |-> Space, fg |-> DefFg, bg |-> DefBg]]
        cx == [x |-> 0, y |-> 0, fg |-> DefFg, bg |-> DefBg,
               save |-> [fg |-> DefFg, bg |-> DefBg, x |-> 0, y |-> 0],
               top |-> 0, bot |-> ROWS,
               wrap |-> TRUE, scroll |-> TRUE, cursor |-> TRUE]
    IN  /\ grid = blank /\ map = [i \in Cell |-> 0] /\ queue = <<>>
        /\ ctx = cx /\ old = <<0, 0>> /\ todo = <<>> /\ ops = 0
        /\ before = [cell |-> blank, ctx |-> cx]
        /\ shown = [blank EXCEPT ![0] = Inverted(@)]

\* One push: to cell (x, y), of the character g or of the one in cell from.
Char(x, y, g) == [x |-> x, y |-> y, from |-> -1, g |-> g]
Copy(x, y, i) == [x |-> x, y |-> y, from |-> i, g |-> grid[i]]

\* Mutant of push_to_queue: a second item for a cell that has one.
PushTwice(p) ==
    LET i == At(p.x, p.y)
        g == IF p.from = -1 THEN p.g ELSE Content(p.from)
    IN  IF p.x >= COLS \/ p.y >= ROWS \/ grid[i] = g
              \/ Len(queue) = ROWS * COLS
        THEN UNCHANGED <<map, queue>>
        ELSE /\ queue' = Append(queue, [i |-> i, g |-> g])
             /\ map' = [map EXCEPT ![i] = Len(queue) + 1]
push_to_queue(p) ==
    LET i == At(p.x, p.y)
        g == IF p.from = -1 THEN p.g ELSE Content(p.from)
    IN  IF p.x >= COLS \/ p.y >= ROWS
        THEN UNCHANGED <<map, queue>>
        ELSE IF map[i] # 0
        THEN queue' = [queue EXCEPT ![map[i]].g = g] /\ UNCHANGED map
        ELSE IF grid[i] = g \/ Len(queue) = ROWS * COLS
        THEN UNCHANGED <<map, queue>>
        ELSE /\ queue' = Append(queue, [i |-> i, g |-> g])
             /\ map' = [map EXCEPT ![i] = Len(queue) + 1]

Screen(cells, cx) == [cell |-> cells, ctx |-> cx]

\* An operation that leaves the context as cx and makes the given pushes.
Begin(cx, pushes) ==
    /\ todo = <<>> /\ ops < MaxOps /\ ops' = ops + 1
    /\ ctx' = cx /\ todo' = pushes
    /\ before' = IF pushes = <<>> THEN [before EXCEPT !.ctx = cx] ELSE before
    /\ UNCHANGED <<grid, map, queue, old, shown>>

\* The next push of the operation under way.
Step ==
    /\ todo # <<>>
    /\ push_to_queue(Head(todo))
    /\ todo' = Tail(todo)
    /\ before' = IF Tail(todo) # <<>> THEN before
                 ELSE Screen([i \in Cell |-> Pending(map', queue', i)], ctx)
    /\ UNCHANGED <<grid, ctx, old, shown, ops>>
-----------------------------------------------------------------------------
Empty(cx) == [c |-> Space, fg |-> cx.fg, bg |-> cx.bg]

\* The pushes of flanterm_fb_scroll: each line of the region to the one above,
\* from the top down, then an empty last line.
ScrollPushes(cx) ==
    LET start == (cx.top + 1) * COLS
        moved == cx.bot * COLS - start
    IN  [k \in 1 .. moved + COLS |->
           IF k <= moved
           THEN LET i == start + k - 1
                IN  Copy((i - COLS) % COLS, (i - COLS) \div COLS, i)
           ELSE Char(k - moved - 1, cx.bot - 1, Empty(cx))]

\* The pushes of flanterm_fb_revscroll: each line to the one below, from the
\* end back, then an empty first line.
\* Mutant of RevScrollPushes: the lines are copied from the top down.
RevScrollForward(cx) ==
    LET start == cx.top * COLS
        moved == (cx.bot - 1) * COLS - start
    IN  [k \in 1 .. moved + COLS |->
           IF k <= moved
           THEN LET i == start + k - 1
                IN  Copy((i + COLS) % COLS, (i + COLS) \div COLS, i)
           ELSE Char(k - moved - 1, cx.top, Empty(cx))]
RevScrollPushes(cx) ==
    LET end == (cx.bot - 1) * COLS
        moved == end - cx.top * COLS
    IN  [k \in 1 .. moved + COLS |->
           IF k <= moved
           THEN LET i == end - k
                IN  Copy((i + COLS) % COLS, (i + COLS) \div COLS, i)
           ELSE Char(k - moved - 1, cx.top, Empty(cx))]

scroll == Begin(ctx, ScrollPushes(ctx))
revscroll == Begin(ctx, RevScrollPushes(ctx))

clear(move) ==
    Begin([ctx EXCEPT !.x = IF move THEN 0 ELSE @, !.y = IF move THEN 0 ELSE @],
          [k \in 1 .. ROWS * COLS |->
             Char((k - 1) % COLS, (k - 1) \div COLS, Empty(ctx))])

\* The wrap left pending by the last column is made before the character.
PutRow(wraps, scrolls) ==
    IF wraps /\ ~scrolls
    THEN IF ctx.y + 1 >= ROWS THEN ROWS - 1 ELSE ctx.y + 1
    ELSE ctx.y
raw_putchar(c) ==
    LET full == ctx.x >= COLS
        wraps == full /\ ctx.wrap /\ (ctx.y < ctx.bot - 1 \/ ctx.scroll)
        scrolls == wraps /\ ctx.y + 1 = ctx.bot
        x == IF wraps THEN 0 ELSE IF full THEN COLS - 1 ELSE ctx.x
        y == PutRow(wraps, scrolls)
    IN  Begin([ctx EXCEPT !.x = x + 1, !.y = y],
              (IF scrolls THEN ScrollPushes(ctx) ELSE <<>>)
              \o <<Char(x, y, [c |-> c, fg |-> ctx.fg, bg |-> ctx.bg])>>)

move_character(nx, ny, ox, oy) ==
    /\ nx < COLS /\ ox < COLS /\ ny < ROWS /\ oy < ROWS
    /\ Begin(ctx, <<Copy(nx, ny, At(ox, oy))>>)

Clamp(v, n) == IF v < 0 THEN 0 ELSE IF v >= n THEN n - 1 ELSE v
set_cursor_pos(x, y) ==
    Begin([ctx EXCEPT !.x = Clamp(x, COLS), !.y = Clamp(y, ROWS)], <<>>)

set_text_fg(col) == Begin([ctx EXCEPT !.fg = col], <<>>)
set_text_bg(col) == Begin([ctx EXCEPT !.bg = col], <<>>)
swap_palette == Begin([ctx EXCEPT !.fg = ctx.bg, !.bg = ctx.fg], <<>>)
save_state ==
    Begin([ctx EXCEPT !.save =
             [fg |-> ctx.fg, bg |-> ctx.bg, x |-> ctx.x, y |-> ctx.y]], <<>>)
restore_state ==
    Begin([ctx EXCEPT !.fg = ctx.save.fg, !.bg = ctx.save.bg,
                      !.x = ctx.save.x, !.y = ctx.save.y], <<>>)

\* The frontend changes the fields it owns.
Modes ==
    \E m \in Margins, w, r, cu \in BOOLEAN :
       Begin([ctx EXCEPT !.top = m[1], !.bot = m[2],
                         !.wrap = w, !.scroll = r, !.cursor = cu], <<>>)
-----------------------------------------------------------------------------
\* draw_cursor: the cell under the cursor is plotted inverted, and its queued
\* character becomes the plotted one.
CursorCell == IF ctx.cursor /\ ctx.x < COLS /\ ctx.y < ROWS
              THEN {At(ctx.x, ctx.y)} ELSE {}

\* The cell the cursor left since the last flush, or was switched off in.
CursorLeft ==
    IF (old # <<ctx.x, ctx.y>> \/ ~ctx.cursor) /\ old[1] < COLS /\ old[2] < ROWS
    THEN {At(old[1], old[2])} ELSE {}

\* double_buffer_flush: the cursor, then the queue in order without the cells
\* the cursor took, then the cell the cursor left.
double_buffer_flush ==
    LET first(i) == CHOOSE k \in 1 .. Len(queue) :
                      queue[k].i = i /\ \A j \in 1 .. k - 1 : queue[j].i # i
        new(i) == IF i \in CursorCell THEN Content(i) ELSE queue[first(i)].g
        queued == {queue[k].i : k \in {k \in 1 .. Len(queue) :
                                         map[queue[k].i] # 0}}
    IN  /\ todo = <<>>
        /\ grid' = [i \in Cell |-> IF i \in queued \cup CursorCell
                                   THEN new(i) ELSE grid[i]]
        /\ map' = [i \in Cell |-> IF i \in queued \cup CursorCell
                                  THEN 0 ELSE map[i]]
        /\ queue' = <<>>
        /\ shown' = [i \in Cell |->
              IF i \in CursorLeft THEN grid'[i]
              ELSE IF i \in CursorCell THEN Inverted(Content(i))
              ELSE IF i \in queued THEN new(i) ELSE shown[i]]
        /\ old' = <<ctx.x, ctx.y>>
        /\ UNCHANGED <<ctx, todo, before, ops>>

\* full_refresh replots the grid.  The code has no guard; the kernel calls it
\* once, at the end of flanterm_fb_init, and the guard keeps to states like
\* that one, with nothing queued and the cursor where it was drawn: elsewhere
\* the queue keeps an item for the cursor's cell and a second cursor is left.
full_refresh ==
    /\ todo = <<>> /\ queue = <<>> /\ old = <<ctx.x, ctx.y>>
    /\ ops < MaxOps /\ ops' = ops + 1
    /\ shown' = [i \in Cell |-> IF i \in CursorCell THEN Inverted(Content(i))
                                ELSE grid[i]]
    /\ grid' = [i \in Cell |-> IF i \in CursorCell THEN Content(i) ELSE grid[i]]
    /\ map' = [i \in Cell |-> IF i \in CursorCell THEN 0 ELSE map[i]]
    /\ UNCHANGED <<queue, ctx, old, todo, before>>

Next ==
    \/ Step
    \/ scroll
    \/ revscroll
    \/ \E move \in BOOLEAN : clear(move)
    \/ \E c \in Chars : raw_putchar(c)
    \/ \E nx, ox \in 0 .. COLS, ny, oy \in 0 .. ROWS :
          move_character(nx, ny, ox, oy)
    \/ \E x \in -1 .. COLS, y \in -1 .. ROWS : set_cursor_pos(x, y)
    \/ \E col \in Colours : set_text_fg(col) \/ set_text_bg(col)
    \/ swap_palette
    \/ save_state
    \/ restore_state
    \/ Modes
    \/ double_buffer_flush
    \/ full_refresh

Spec == Init /\ [][Next]_vars
-----------------------------------------------------------------------------
\* Types of the backend's state: the cursor may stand one column past the
\* last, and never past the last row.
TypeOK ==
    /\ grid \in [Cell -> Glyph] /\ shown \in [Cell -> Glyph]
    /\ map \in [Cell -> 0 .. ROWS * COLS]
    /\ queue \in Seq(Item)
    /\ ctx.x \in 0 .. COLS /\ ctx.y \in 0 .. ROWS - 1
    /\ ctx.fg \in Colours /\ ctx.bg \in Colours
    /\ ctx.save \in [fg: Colours, bg: Colours, x: 0 .. COLS, y: 0 .. ROWS - 1]
    /\ ctx.top \in 0 .. ctx.bot - 1 /\ ctx.bot \in 1 .. ROWS
    /\ old \in (0 .. COLS) \X (0 .. ROWS - 1)
    /\ ops \in 0 .. MaxOps

\* map and the queue describe each other: every queued item is found through
\* the map entry of its own cell, so no cell has two items and the queue,
\* which has room for one item per cell, never has to drop a change
\* (push_to_queue's queue_i == rows * cols).
QueueExact ==
    /\ \A i \in Cell : map[i] # 0 =>
          map[i] \in 1 .. Len(queue) /\ queue[map[i]].i = i
    /\ \A k \in 1 .. Len(queue) : map[queue[k].i] = k

\* The display shows each cell's last plotted character, with at most the cell
\* of the last drawn cursor inverted: however often the cursor moved, wrapped
\* or was switched on and off between flushes, no second cursor is left behind.
OneCursor ==
    \A i \in Cell :
       shown[i] # grid[i] =>
          shown[i] = Inverted(grid[i]) /\ i = At(old[1], old[2]) /\ old[1] < COLS

\* Cursor, queue, map and display agree with each other after every step.
BackendSound == TypeOK /\ QueueExact /\ OneCursor

\* The screen the backend stands for: the characters and the context at the
\* start of the operation in progress.
Abstract == INSTANCE Screen WITH
    scr <- [cell |-> before.cell,
            x |-> before.ctx.x, y |-> before.ctx.y,
            fg |-> before.ctx.fg, bg |-> before.ctx.bg,
            save |-> before.ctx.save,
            top |-> before.ctx.top, bot |-> before.ctx.bot,
            wrap |-> before.ctx.wrap, scroll |-> before.ctx.scroll,
            cursor |-> before.ctx.cursor]

\* The backend implements a screen: every operation changes the characters as
\* if there were no queue, and what a flush shows is those characters with the
\* cursor inverted, whatever was queued, overwritten or moved before.
ImplementsScreen == Abstract!ScreenSpec
=============================================================================
