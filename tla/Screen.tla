------------------------------- MODULE Screen -------------------------------
(***************************************************************************)
(* What a backend of the terminal promises (the function pointers of       *)
(* struct flanterm_context): a grid of characters that the operations      *)
(* change at once, and a display that shows it after the next flush, with  *)
(* the cursor's cell inverted.  The operators take and return the whole    *)
(* screen s, so that flanterm.c, which calls several of them for one byte, *)
(* can be written by applying one to the result of another.                *)
(* scr also holds the fields of the context that the frontend owns and a   *)
(* backend reads: margins, wrap_enabled, scroll_enabled, cursor_enabled.   *)
(***************************************************************************)
EXTENDS Integers

CONSTANTS
    COLS, ROWS,     \* size of the grid
    Chars, Space,   \* character codes, and ' '
    Colours,        \* colours a cell can have
    DefFg, DefBg    \* default_fg and the transparent 0xffffffff

ASSUME ScreenAssumption ==
    /\ COLS \in Nat \ {0} /\ ROWS \in Nat \ {0}
    /\ Space \in Chars /\ DefFg \in Colours /\ DefBg \in Colours

VARIABLES
    scr,            \* the screen as the operations left it
    shown           \* the characters on the display

Cell == 0 .. ROWS * COLS - 1
Glyph == [c: Chars, fg: Colours, bg: Colours]

At(x, y) == y * COLS + x
Inverted(g) == [g EXCEPT !.fg = g.bg, !.bg = g.fg]
Empty(s) == [c |-> Space, fg |-> s.fg, bg |-> s.bg]

\* What a flush must put on the display.
Rendered(s) ==
    [i \in Cell |->
       IF s.cursor /\ s.x < COLS /\ s.y < ROWS /\ i = At(s.x, s.y)
       THEN Inverted(s.cell[i]) ELSE s.cell[i]]

Blank == [cell |-> [i \in Cell |-> [c |-> Space, fg |-> DefFg, bg |-> DefBg]],
          x |-> 0, y |-> 0, fg |-> DefFg, bg |-> DefBg,
          save |-> [fg |-> DefFg, bg |-> DefBg, x |-> 0, y |-> 0],
          top |-> 0, bot |-> ROWS,
          wrap |-> TRUE, scroll |-> TRUE, cursor |-> TRUE]
-----------------------------------------------------------------------------
\* The operations.

Put(s, x, y, g) ==
    IF x < COLS /\ y < ROWS THEN [s EXCEPT !.cell[At(x, y)] = g] ELSE s

Scroll(s) ==
    [s EXCEPT !.cell = [i \in Cell |->
        IF i \in At(0, s.top) .. At(0, s.bot - 1) - 1 THEN s.cell[i + COLS]
        ELSE IF i \in At(0, s.bot - 1) .. At(0, s.bot) - 1 THEN Empty(s)
        ELSE s.cell[i]]]

RevScroll(s) ==
    [s EXCEPT !.cell = [i \in Cell |->
        IF i \in At(0, s.top + 1) .. At(0, s.bot) - 1 THEN s.cell[i - COLS]
        ELSE IF i \in At(0, s.top) .. At(0, s.top + 1) - 1 THEN Empty(s)
        ELSE s.cell[i]]]

Clear(s, move) ==
    [s EXCEPT !.cell = [i \in Cell |-> Empty(s)],
              !.x = IF move THEN 0 ELSE @, !.y = IF move THEN 0 ELSE @]

\* A coordinate past the edge is moved to the edge, one below 0 (a size_t
\* that wrapped) to 0.
Clamp(v, n) == IF v < 0 THEN 0 ELSE IF v >= n THEN n - 1 ELSE v

SetCursor(s, x, y) == [s EXCEPT !.x = Clamp(x, COLS), !.y = Clamp(y, ROWS)]

\* get_cursor_pos hides the pending wrap: the column after the last one is
\* reported as the last.
CursorX(s) == IF s.x >= COLS THEN COLS - 1 ELSE s.x
CursorY(s) == IF s.y >= ROWS THEN ROWS - 1 ELSE s.y

MoveChar(s, nx, ny, ox, oy) ==
    IF ox < COLS /\ oy < ROWS THEN Put(s, nx, ny, s.cell[At(ox, oy)]) ELSE s

SetFg(s, col) == [s EXCEPT !.fg = col]
SetBg(s, col) == [s EXCEPT !.bg = col]
SwapPalette(s) == [s EXCEPT !.fg = s.bg, !.bg = s.fg]
SaveState(s) ==
    [s EXCEPT !.save = [fg |-> s.fg, bg |-> s.bg, x |-> s.x, y |-> s.y]]
RestoreState(s) ==
    [s EXCEPT !.fg = s.save.fg, !.bg = s.save.bg,
              !.x = s.save.x, !.y = s.save.y]

\* The wrap that was pending when the last column was written.
Wrapped(s) ==
    IF s.x < COLS THEN s
    ELSE IF s.wrap /\ (s.y < s.bot - 1 \/ s.scroll)
    THEN IF s.y + 1 = s.bot THEN Scroll([s EXCEPT !.x = 0])
         ELSE [s EXCEPT !.x = 0, !.y = Clamp(s.y + 1, ROWS)]
    ELSE [s EXCEPT !.x = COLS - 1]

RawPutchar(s, c) ==
    LET w == Wrapped(s)
    IN  [Put(w, w.x, w.y, [c |-> c, fg |-> w.fg, bg |-> w.bg])
         EXCEPT !.x = w.x + 1]
-----------------------------------------------------------------------------
\* The abstract specification: any operation, with any arguments the frontend
\* gives it, and flushes.

Frontend ==
    \/ \E c \in Chars : scr' = RawPutchar(scr, c)
    \/ scr' = Scroll(scr)
    \/ scr' = RevScroll(scr)
    \/ \E move \in BOOLEAN : scr' = Clear(scr, move)
    \/ \E x \in -1 .. COLS, y \in -1 .. ROWS : scr' = SetCursor(scr, x, y)
    \/ \E nx, ox \in 0 .. COLS, ny, oy \in 0 .. ROWS :
          scr' = MoveChar(scr, nx, ny, ox, oy)
    \/ \E col \in Colours : scr' = SetFg(scr, col) \/ scr' = SetBg(scr, col)
    \/ scr' = SwapPalette(scr)
    \/ scr' = SaveState(scr)
    \/ scr' = RestoreState(scr)
    \/ \E t, b \in 0 .. ROWS, w, r, cu \in BOOLEAN :
          t < b /\ scr' = [scr EXCEPT !.top = t, !.bot = b, !.wrap = w,
                                      !.scroll = r, !.cursor = cu]

ScreenInit == scr = Blank /\ shown = Rendered(Blank)

ScreenNext ==
    \/ Frontend /\ UNCHANGED shown
    \/ shown' = Rendered(scr) /\ UNCHANGED scr

ScreenSpec == ScreenInit /\ [][ScreenNext]_<<scr, shown>>
=============================================================================
