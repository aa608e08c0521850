------------------------------ MODULE Terminal ------------------------------
(***************************************************************************)
(* The terminal emulator (logging/flanterm.c): flanterm_write hands the    *)
(* bytes of a buffer one by one to flanterm_putchar, which decodes UTF-8,  *)
(* follows escape sequences, and calls the backend, here the operators of  *)
(* Screen (Framebuffer shows that fb.c implements them).                   *)
(* The fields of struct flanterm_context are in three records: par, the    *)
(* parser; att, text attributes and modes; and scr, what the backend sees. *)
(* The kernel never sets a callback, so ctx->callback is NULL throughout.  *)
(***************************************************************************)
EXTENDS Screen, Sequences

CONSTANTS
    Writes,         \* the byte strings the callers of flanterm_write pass
    MaxWrites,      \* bound on the number of calls
    Api,            \* whether the other functions of flanterm.h are called
    MAXVALS,        \* FLANTERM_MAX_ESC_VALUES
    VALUEMAX,       \* UINT32_MAX
    OSCBUF,         \* sizeof(osc_buf)
    Cp437(_),       \* unicode_to_cp437: the glyph of a code point, or -1
    Width(_)        \* mk_wcwidth: 0, 1 or 2 columns

ASSUME TerminalAssumption ==
    /\ MaxWrites \in Nat /\ Api \in BOOLEAN
    /\ MAXVALS \in Nat \ {0} /\ VALUEMAX \in Nat /\ OSCBUF \in Nat

VARIABLES
    par,            \* escape-sequence and UTF-8 parser
    att,            \* colours, charsets, modes, and what ESC 7 saved of them
    input,          \* bytes of the current write not yet handled
    calls,          \* calls so far
    ref             \* history: the text colours of a terminal that ignores
                    \* reverse video, and the UTF-8 sequence under way

vars == <<scr, shown, par, att, input, calls, ref>>

\* Codes of the bytes the parser distinguishes.
BEL == 7
CAN == 24
SUB == 26
ESC == 27
DEL == 127
ch == [A |-> 65, B |-> 66, C |-> 67, D |-> 68, E |-> 69, F |-> 70, G |-> 71,
       H |-> 72, J |-> 74, K |-> 75, L |-> 76, M |-> 77, P |-> 80, S |-> 83,
       T |-> 84, X |-> 88, Z |-> 90, a |-> 97, b |-> 98, c |-> 99, d |-> 100,
       e |-> 101, f |-> 102, h |-> 104, l |-> 108, m |-> 109, n |-> 110,
       q |-> 113, r |-> 114, s |-> 115, u |-> 117,
       zero |-> 48, seven |-> 55, eight |-> 56, nine |-> 57, semi |-> 59,
       quest |-> 63, at |-> 64, open |-> 91, back |-> 92, close |-> 93,
       grave |-> 96, lpar |-> 40, rpar |-> 41]
Replacement == 254

Min2(m, n) == IF m < n THEN m ELSE n
Max2(m, n) == IF m > n THEN m ELSE n

St == [s |-> scr, p |-> par, a |-> att, g |-> ref]
Becomes(st) == scr' = st.s /\ par' = st.p /\ att' = st.a /\ ref' = st.g
-----------------------------------------------------------------------------
\* Colours: the palette, its bright half, RGB values, and the defaults.
Ansi(n) == <<"ansi", n>>
Bright(n) == <<"bright", n>>
Rgb(n) == <<"rgb", n>>
Indexed(n) == <<"col256", n>>
FgBright == <<"default fg bright", 0>>
BgBright == <<"default bg bright", 0>>
None == -1      \* current_primary, current_bg: the default colour
Fixed == -2     \* an RGB or indexed colour, which bold does not alter

Reinit(st) ==
    [s |-> [st.s EXCEPT !.cursor = TRUE, !.scroll = TRUE, !.wrap = TRUE,
                        !.top = 0, !.bot = ROWS],
     p |-> [escape |-> FALSE, csi |-> FALSE, osc |-> FALSE, oscEsc |-> FALSE,
            oscLen |-> st.p.oscLen, rrr |-> FALSE, discard |-> FALSE,
            dec |-> FALSE, unhandled |-> FALSE, offset |-> 0,
            vals |-> <<>>, cur |-> 0, uni |-> 0, cp |-> 0, gsel |-> 0,
            last |-> Space, graphic |-> FALSE],
     a |-> [autoflush |-> TRUE,
            bold |-> FALSE, bgBold |-> FALSE, rev |-> FALSE,
            origin |-> FALSE, insert |-> FALSE, charset |-> 0,
            charsets |-> <<0, 1>>, primary |-> None, bg |-> None,
            sx |-> 0, sy |-> 0,
            save |-> [st.a.save EXCEPT !.wrap = TRUE, !.charsets = <<0, 1>>,
                                       !.primary = None, !.bg = None,
                                       !.top = 0, !.bot = ROWS]],
     g |-> [st.g EXCEPT !.fg = DefFg, !.bg = DefBg, !.exact = TRUE]]

save_state(st) ==
    [st EXCEPT
       !.s = SaveState(@),
       !.a.save = [bold |-> st.a.bold, bgBold |-> st.a.bgBold,
                   rev |-> st.a.rev, origin |-> st.a.origin,
                   wrap |-> st.s.wrap, charset |-> st.a.charset,
                   charsets |-> st.a.charsets, primary |-> st.a.primary,
                   bg |-> st.a.bg, top |-> st.s.top, bot |-> st.s.bot],
       !.g.save = [fg |-> st.g.fg, bg |-> st.g.bg, exact |-> st.g.exact]]

restore_state(st) ==
    LET v == st.a.save
    IN  [st EXCEPT
           !.a.bold = v.bold, !.a.bgBold = v.bgBold, !.a.rev = v.rev,
           !.a.origin = v.origin, !.a.charset = v.charset,
           !.a.charsets = v.charsets, !.a.primary = v.primary, !.a.bg = v.bg,
           !.s = RestoreState([@ EXCEPT !.wrap = v.wrap,
                                        !.top = v.top, !.bot = v.bot]),
           !.g.fg = st.g.save.fg, !.g.bg = st.g.save.bg,
           !.g.exact = st.g.save.exact]
-----------------------------------------------------------------------------
\* sgr: colours and attributes.  In reverse video the backend's foreground
\* and background are exchanged, so the text's colour is set as background.
\* Mutant of Front: reverse video is forgotten.
FrontAlways(t, col) == [t EXCEPT !.s = SetFg(@, col)]
Front(t, col) ==
    [t EXCEPT !.s = IF t.a.rev THEN SetBg(@, col) ELSE SetFg(@, col)]
Back(t, col) ==
    [t EXCEPT !.s = IF t.a.rev THEN SetFg(@, col) ELSE SetBg(@, col)]

\* The default colour of the side that is set: in reverse video the default
\* background where the text's default is asked for (g.exact records it).
FrontDefault(t, bright) ==
    Front([t EXCEPT !.g.exact = @ /\ ~t.a.rev],
          IF t.a.rev THEN IF bright THEN BgBright ELSE DefBg
          ELSE IF bright THEN FgBright ELSE DefFg)
BackDefault(t, bright) ==
    Back([t EXCEPT !.g.exact = @ /\ ~t.a.rev],
         IF t.a.rev THEN IF bright THEN FgBright ELSE DefFg
         ELSE IF bright THEN BgBright ELSE DefBg)

Reverse(t, on) ==
    IF t.a.rev = on THEN t
    ELSE [t EXCEPT !.a.rev = on, !.s = SwapPalette(@)]

SgrDefaults(t) ==
    LET u == Reverse(t, FALSE)
    IN  [u EXCEPT !.a.bold = FALSE, !.a.bgBold = FALSE,
                  !.a.primary = None, !.a.bg = None, !.g.exact = TRUE,
                  !.s = SetFg(SetBg(@, DefBg), DefFg)]

\* Bold on or off for the text (1, 22) and for the background (5, 25).
SgrBold(t, on) ==
    LET u == [t EXCEPT !.a.bold = on]
    IN  IF t.a.primary = Fixed THEN u
        ELSE IF t.a.primary = None THEN FrontDefault(u, on)
        ELSE Front(u, IF on THEN Bright(t.a.primary) ELSE Ansi(t.a.primary))
SgrBgBold(t, on) ==
    LET u == [t EXCEPT !.a.bgBold = on]
    IN  IF t.a.bg = Fixed THEN u
        ELSE IF t.a.bg = None THEN BackDefault(u, on)
        ELSE Back(u, IF on THEN Bright(t.a.bg) ELSE Ansi(t.a.bg))

SgrColour(t, v) ==
    CASE v \in 30 .. 37 ->
           Front([t EXCEPT !.a.primary = v - 30],
                 IF t.a.bold THEN Bright(v - 30) ELSE Ansi(v - 30))
      [] v \in 40 .. 47 ->
           Back([t EXCEPT !.a.bg = v - 40],
                IF t.a.bgBold THEN Bright(v - 40) ELSE Ansi(v - 40))
      [] v \in 90 .. 97 ->
           Front([t EXCEPT !.a.primary = v - 90], Bright(v - 90))
      [] v \in 100 .. 107 ->
           Back([t EXCEPT !.a.bg = v - 100], Bright(v - 100))
      [] v = 39 ->
           Front([t EXCEPT !.a.primary = None],
                 IF t.a.bold THEN FgBright ELSE DefFg)
      [] v = 49 ->
           Back([t EXCEPT !.a.bg = None],
                IF t.a.bgBold THEN BgBright ELSE DefBg)
      [] OTHER -> t

\* 38 and 48 take their arguments from the values that follow: t.skip values
\* are consumed, and a list that ends too early ends sgr.
SgrExtended(t, vals, i) ==
    LET n == Len(vals)
        side(u, col) == IF vals[i] = 38
                        THEN Front([u EXCEPT !.a.primary = Fixed], col)
                        ELSE Back([u EXCEPT !.a.bg = Fixed], col)
        arg(k) == vals[i + k]
    IN  IF i + 1 > n THEN [t EXCEPT !.skip = n]
        ELSE IF arg(1) = 2
        THEN IF i + 4 > n THEN [t EXCEPT !.skip = n]
             ELSE side([t EXCEPT !.skip = 4],
                       Rgb((arg(2) % 256) * 65536 + (arg(3) % 256) * 256
                           + (arg(4) % 256)))
        ELSE IF arg(1) = 5
        THEN IF i + 2 > n THEN [t EXCEPT !.skip = n]
             ELSE IF arg(2) < 8 THEN side([t EXCEPT !.skip = 2], Ansi(arg(2)))
             ELSE IF arg(2) < 16
             THEN side([t EXCEPT !.skip = 2], Bright(arg(2) - 8))
             ELSE IF arg(2) < 256
             THEN side([t EXCEPT !.skip = 2], Indexed(arg(2)))
             ELSE [t EXCEPT !.skip = 2]
        ELSE [t EXCEPT !.skip = 1]

\* One value of the list; plain = TRUE computes the colours of a terminal
\* without reverse video.
SgrValue(t, vals, i, plain) ==
    LET v == vals[i]
    IN  CASE v = 0 -> SgrDefaults(t)
          [] v \in {1, 22} -> SgrBold(t, v = 1)
          [] v \in {5, 25} -> SgrBgBold(t, v = 5)
          [] v \in {7, 27} -> IF plain THEN t ELSE Reverse(t, v = 7)
          [] v \in {38, 48} -> SgrExtended(t, vals, i)
          [] OTHER -> SgrColour(t, v)

SgrList(t0, vals, plain) ==
    LET t[i \in 0 .. Len(vals)] ==
          IF i = 0 THEN t0
          ELSE IF t[i - 1].skip > 0 THEN [t[i - 1] EXCEPT !.skip = @ - 1]
          ELSE SgrValue(t[i - 1], vals, i, plain)
    IN  t[Len(vals)]

sgr(st) ==
    LET vals == IF st.p.vals = <<>> THEN <<0>> ELSE st.p.vals
        t0 == [s |-> st.s, a |-> st.a, g |-> st.g, skip |-> 0]
        done == SgrList(t0, vals, FALSE)
        plain == SgrList([t0 EXCEPT !.s = SetFg(SetBg(@, st.g.bg), st.g.fg),
                                    !.a.rev = FALSE], vals, TRUE)
    IN  [st EXCEPT !.s = done.s, !.a = done.a,
                   !.g = [done.g EXCEPT !.fg = plain.s.fg, !.bg = plain.s.bg]]
-----------------------------------------------------------------------------
\* control_sequence_parse: CSI sequences.

\* move_character for a row, rightwards by n from column x (from the end back)
\* and leftwards by n (from column x on).
\* Mutant of MoveRight: the characters are moved from the front.
MoveRightForward(s, x, y, n) ==
    LET m[k \in x + n - 1 .. COLS - 1] ==
          IF k = x + n - 1 THEN s ELSE MoveChar(m[k - 1], k, y, k - n, y)
    IN  m[COLS - 1]
MoveRight(s, x, y, n) ==
    LET m[k \in x + n .. COLS] ==
          IF k = COLS THEN s ELSE MoveChar(m[k + 1], k, y, k - n, y)
    IN  m[x + n]
MoveLeft(s, x, y, n) ==
    LET m[k \in x + n - 1 .. COLS - 1] ==
          IF k = x + n - 1 THEN s ELSE MoveChar(m[k - 1], k - n, y, k, y)
    IN  m[COLS - 1]

\* n blanks written with raw_putchar from where the cursor is.
Blanks(s, n) ==
    LET b[k \in 0 .. n] == IF k = 0 THEN s ELSE RawPutchar(b[k - 1], Space)
    IN  b[n]
BlankRows(s, first, last) ==
    LET b[k \in first - 1 .. last] ==
          IF k = first - 1 THEN s
          ELSE Blanks(SetCursor(b[k - 1], 0, k), COLS)
    IN  IF last < first THEN s ELSE b[last]

\* op applied n times.
Scrolls(s, n) == LET r[k \in 0 .. n] == IF k = 0 THEN s ELSE Scroll(r[k - 1])
                 IN  r[n]
RevScrolls(s, n) ==
    LET r[k \in 0 .. n] == IF k = 0 THEN s ELSE RevScroll(r[k - 1])
    IN  r[n]

\* The row that n names: counted from the top margin in origin mode.
RowOf(low, high, n) == low + Min2(Max2(n - 1, 0), high - low - 1)

\* F A E e B a C D d G ` H f: where the cursor goes; v and w are the first
\* two values.
CsiCursor(s, origin, c, v, w) ==
    LET x == CursorX(s)
        y == CursorY(s)
        low == IF origin THEN s.top ELSE 0
        high == IF origin THEN s.bot ELSE ROWS
        col(n) == Min2(Max2(n - 1, 0), COLS - 1)
    IN  CASE c \in {ch.F, ch.A} ->
               SetCursor(s, IF c = ch.F THEN 0 ELSE x, Max2(y - Min2(v, y), low))
          [] c \in {ch.E, ch.e, ch.B} ->
               SetCursor(s, IF c = ch.E THEN 0 ELSE x,
                         Min2(y + Min2(v, ROWS - 1 - y), high - 1))
          [] c \in {ch.a, ch.C} -> SetCursor(s, x + Min2(v, COLS - 1 - x), y)
          [] c = ch.D -> SetCursor(s, x - Min2(v, x), y)
          [] c = ch.d -> SetCursor(s, x, RowOf(low, high, v))
          [] c \in {ch.G, ch.grave} -> SetCursor(s, col(v), y)
          [] c \in {ch.H, ch.f} -> SetCursor(s, col(w), RowOf(low, high, v))

\* The cells of row y up to and including column x.
BlankHead(s, x, y) == Blanks(SetCursor(s, 0, y), x + 1)

\* J and K: erase to the end, from the start, or all, of the screen or line.
CsiErase(s, c, v) ==
    LET x == CursorX(s)
        y == CursorY(s)
        back(u) == SetCursor(u, x, y)
        tail == Blanks(SetCursor(s, x, y), COLS - x)
    IN  CASE c = ch.J /\ v = 0 -> back(BlankRows(tail, y + 1, ROWS - 1))
          [] c = ch.J /\ v = 1 -> back(BlankHead(BlankRows(s, 0, y - 1), x, y))
          [] c = ch.J /\ v \in {2, 3} -> Clear(s, FALSE)
          [] c = ch.K /\ v = 0 -> back(tail)
          [] c = ch.K /\ v = 1 -> back(BlankHead(s, x, y))
          [] c = ch.K /\ v = 2 -> back(Blanks(SetCursor(s, 0, y), COLS))
          [] OTHER -> s

\* @ P X: insert, delete and erase characters in the cursor's row.
CsiChars(s, c, v) ==
    LET x == CursorX(s)
        y == CursorY(s)
        n == Min2(v, COLS - x)
        from(u, cx) == SetCursor(Blanks(SetCursor(u, cx, y),
                                        Min2(n, COLS - Clamp(cx, COLS))), x, y)
    IN  CASE c = ch.at -> IF v = 0 THEN s ELSE from(MoveRight(s, x, y, n), x)
          [] c = ch.P -> from(MoveLeft(s, x, y, n), COLS - n)
          [] c = ch.X -> from(s, x)

\* The region with the top margin it had before L or M moved it.
TopBack(u, s) == [u EXCEPT !.top = s.top]

\* L M S T: insert and delete lines at the cursor, scroll the region.  For L
\* and M the region starts at the cursor's row.
CsiLines(s, c, v) ==
    LET y == CursorY(s)
        inside == s.top <= y /\ y < s.bot
        at == [s EXCEPT !.top = y]
        n == Min2(v, s.bot - y)
        region == Min2(v, s.bot - s.top)
    IN  CASE c = ch.M -> IF inside THEN TopBack(Scrolls(at, n), s) ELSE s
          [] c = ch.L -> IF inside THEN TopBack(RevScrolls(at, n), s) ELSE s
          [] c = ch.S -> Scrolls(s, region)
          [] c = ch.T -> RevScrolls(s, region)

\* A region has two lines at least, or is the whole screen.
RegionOk(t, b) == t < ROWS /\ b <= ROWS /\ t < b - 1

\* r: the scroll region.  vals are the values given, at least 1 each.
CsiMargins(s, origin, vals) ==
    LET t == IF vals = <<>> THEN 0 ELSE vals[1] - 1
        b == IF Len(vals) < 2 THEN ROWS ELSE vals[2]
        ok == RegionOk(t, b)
        u == [s EXCEPT !.top = IF ok THEN t ELSE 0, !.bot = IF ok THEN b ELSE ROWS]
    IN  SetCursor(u, 0, IF origin THEN u.top ELSE 0)

\* b: the last graphic character again, n times.
Repeat(st, n) ==
    LET one(s) == RawPutchar(IF st.a.insert
                             THEN MoveRight(s, CursorX(s), CursorY(s), 1) ELSE s,
                             st.p.last)
        r[k \in 0 .. n] == IF k = 0 THEN st.s ELSE one(r[k - 1])
    IN  IF st.p.graphic THEN [st EXCEPT !.s = r[n]] ELSE st

dec_private_parse(st, c) ==
    LET on == c = ch.h
        one(u, v) ==
          CASE v = 6 -> [u EXCEPT !.a.origin = on,
                           !.s = SetCursor(@, 0, IF on THEN @.top ELSE 0)]
            [] v = 7 -> [u EXCEPT !.s.wrap = on]
            [] v = 25 -> [u EXCEPT !.s.cursor = on]
            [] v = 1049 /\ on ->
                 [save_state(u) EXCEPT
                    !.s = Clear([@ EXCEPT !.top = 0, !.bot = ROWS], TRUE)]
            [] v = 1049 /\ ~on ->
                 restore_state([u EXCEPT !.s = Clear(@, TRUE)])
            [] OTHER -> u
        off == [st EXCEPT !.p.dec = FALSE]
        r[i \in 0 .. Len(st.p.vals)] ==
          IF i = 0 THEN off ELSE one(r[i - 1], st.p.vals[i])
    IN  IF c \in {ch.h, ch.l} THEN r[Len(st.p.vals)] ELSE off

\* Scrolling and wrapping as they were before the sequence.
ModesBack(u, s) == [u EXCEPT !.scroll = s.scroll, !.wrap = s.wrap]

\* The final byte of a CSI sequence.  Everything but b runs with scrolling off
\* and wrapping on; both are put back.
CsiExecute(st, c, dflt) ==
    LET vals == st.p.vals
        v == IF vals = <<>> THEN dflt ELSE vals[1]
        w == IF Len(vals) < 2 THEN dflt ELSE vals[2]
        s0 == [st.s EXCEPT !.scroll = FALSE, !.wrap = TRUE]
        put(s) == [st EXCEPT !.s = ModesBack(s, st.s)]
    IN  CASE c \in {ch.F, ch.A, ch.E, ch.e, ch.B, ch.a, ch.C, ch.D, ch.d, ch.G,
                    ch.grave, ch.H, ch.f} ->
               put(CsiCursor(s0, st.a.origin, c, v, w))
          [] c \in {ch.J, ch.K} -> put(CsiErase(s0, c, v))
          [] c \in {ch.at, ch.P, ch.X} -> put(CsiChars(s0, c, v))
          [] c \in {ch.L, ch.M, ch.S, ch.T} -> put(CsiLines(s0, c, v))
          [] c = ch.r -> put(CsiMargins(s0, st.a.origin, vals))
          [] c = ch.m -> sgr(st)
          [] c = ch.s -> [st EXCEPT !.a.sx = CursorX(st.s), !.a.sy = CursorY(st.s)]
          [] c = ch.u -> put(SetCursor(s0, st.a.sx, st.a.sy))
          [] c \in {ch.h, ch.l} /\ vals # <<>> /\ v = 4 ->
               [st EXCEPT !.a.insert = (c = ch.h)]
          [] c = ch.b -> Repeat(st, Min2(v, 65535))
          [] OTHER -> st

\* execute_c0: control characters, also inside sequences.
LineFeed(s) ==
    LET x == CursorX(s)
        y == CursorY(s)
    IN  IF y = s.bot - 1 THEN SetCursor(Scroll(s), x, y)
        ELSE IF y < ROWS - 1 THEN SetCursor(s, x, y + 1) ELSE s

execute_c0(st, c) ==
    LET x == CursorX(st.s)
        y == CursorY(st.s)
    IN  CASE c = 8 -> [st EXCEPT !.s = IF x > 0 THEN SetCursor(@, x - 1, y) ELSE @]
          [] c = 9 -> [st EXCEPT !.s =
                         SetCursor(@, Min2((x \div 8 + 1) * 8, COLS - 1), y)]
          [] c \in 10 .. 12 -> [st EXCEPT !.s = LineFeed(@)]
          [] c = 13 -> [st EXCEPT !.s = SetCursor(@, 0, y)]
          [] c \in {14, 15} -> [st EXCEPT !.a.charset = 15 - c]
          [] OTHER -> st

\* A digit of a value.  The value saturates, and values past the last are
\* dropped.
Digit(st, d) ==
    LET v == st.p.cur
    IN  IF Len(st.p.vals) = MAXVALS THEN st
        ELSE IF v > VALUEMAX \div 10 THEN [st EXCEPT !.p.rrr = TRUE]
        ELSE [st EXCEPT !.p.rrr = TRUE,
                        !.p.cur = Min2(v * 10 + d, VALUEMAX)]

\* A value ends.
EndValue(st) ==
    IF st.p.rrr
    THEN [st EXCEPT !.p.vals = Append(@, st.p.cur), !.p.cur = 0, !.p.rrr = FALSE]
    ELSE st

\* The rest of control_sequence_parse: c is neither a control character nor
\* part of a value.
CsiByte(st, c) ==
    LET dflt == IF c \in {ch.J, ch.K, ch.q, ch.m, ch.c, ch.close} THEN 0 ELSE 1
        q == [st EXCEPT !.p.vals =
                [i \in DOMAIN st.p.vals |-> Max2(st.p.vals[i], dflt)]]
        done(u) == [u EXCEPT !.p.csi = FALSE, !.p.escape = FALSE]
        again == [q EXCEPT !.p.csi = FALSE, !.p.offset = 0, !.p.unhandled = FALSE]
    IN  IF st.p.dec THEN done(dec_private_parse(q, c))
        ELSE IF c = ESC THEN again
        ELSE IF c \notin 64 .. 126 THEN [q EXCEPT !.p.unhandled = TRUE]
        ELSE IF st.p.unhandled THEN done([q EXCEPT !.p.unhandled = FALSE])
        ELSE done(CsiExecute(q, c, dflt))

control_sequence_parse(st, c) ==
    CASE st.p.offset = 2 /\ c = ch.open ->
           [st EXCEPT !.p.discard = TRUE, !.p.csi = FALSE, !.p.escape = FALSE]
      [] st.p.offset = 2 /\ c = ch.quest -> [st EXCEPT !.p.dec = TRUE]
      [] c < 32 /\ c # ESC -> execute_c0(st, c)
      [] c \in 48 .. 57 -> Digit(st, c - 48)
      [] c = ch.semi /\ ~st.p.rrr ->
           IF Len(st.p.vals) = MAXVALS THEN st
           ELSE [st EXCEPT !.p.vals = Append(@, 0)]
      [] c = ch.semi /\ st.p.rrr -> EndValue(st)
      [] OTHER -> CsiByte(EndValue(st), c)

\* osc_parse, for a byte it consumes; OscAborted is its return value false.
OscAborted(st, c) == st.p.oscEsc /\ c # ch.back
osc_parse(st, c) ==
    IF st.p.oscEsc \/ c = BEL
    THEN [st EXCEPT !.p.osc = FALSE, !.p.oscEsc = FALSE, !.p.escape = FALSE]
    ELSE IF c = ESC THEN [st EXCEPT !.p.oscEsc = TRUE]
    ELSE [st EXCEPT !.p.oscLen = Min2(@ + 1, OSCBUF)]

\* The byte after ESC.
Escaped(st, c) ==
    LET x == CursorX(st.s)
        y == CursorY(st.s)
        out == [st EXCEPT !.p.escape = FALSE]
    IN  CASE c = ESC -> [st EXCEPT !.p.offset = 0]
          [] c = ch.close -> [st EXCEPT !.p.osc = TRUE, !.p.oscEsc = FALSE,
                                        !.p.oscLen = 0]
          [] c = ch.open -> [st EXCEPT !.p.vals = <<>>, !.p.cur = 0,
                                       !.p.rrr = FALSE, !.p.unhandled = FALSE,
                                       !.p.csi = TRUE]
          [] c = ch.seven -> save_state(out)
          [] c = ch.eight -> restore_state(out)
          [] c = ch.c ->
               save_state([Reinit(st) EXCEPT
                  !.s = Clear(SetFg(SetBg(@, DefBg), DefFg), TRUE)])
          [] c = ch.D -> [out EXCEPT !.s = LineFeed(@)]
          [] c = ch.E -> [out EXCEPT !.s = LET n == LineFeed(@)
                                           IN  SetCursor(n, 0, CursorY(n))]
          [] c = ch.M -> [out EXCEPT !.s =
                            IF y = @.top THEN SetCursor(RevScroll(@), x, y)
                            ELSE IF y > 0 THEN SetCursor(@, x, y - 1) ELSE @]
          [] c \in {ch.lpar, ch.rpar} -> [out EXCEPT !.p.gsel = c - 39]
          [] OTHER -> out

\* escape_offset is only compared with 2.
escape_parse(st, c) ==
    LET at == [st EXCEPT !.p.offset = Min2(@ + 1, 3)]
        on == IF at.p.osc
              THEN [at EXCEPT !.p.osc = FALSE, !.p.oscEsc = FALSE, !.p.offset = 1]
              ELSE at
    IN  IF at.p.osc /\ ~OscAborted(at, c) THEN osc_parse(at, c)
        ELSE IF on.p.csi THEN control_sequence_parse(on, c)
        ELSE Escaped(on, c)
-----------------------------------------------------------------------------
\* dec_special_print: the DEC line-drawing characters.
DecFrom == <<96, 48, 45, 44, 46, 97, 102, 103, 104, 106, 107, 108, 109, 110, 113,
             115, 116, 117, 118, 119, 120, 121, 122, 126, 95, 43, 123, 125>>
DecTo == <<4, 219, 24, 27, 25, 177, 248, 241, 176, 217, 191, 218, 192, 197, 196,
           95, 195, 180, 193, 194, 179, 243, 242, 250, 255, 26, 227, 156>>

insert_shift(s, insert, n) ==
    LET x == CursorX(s)
    IN  IF insert THEN MoveRight(s, x, CursorY(s), Min2(n, COLS - x)) ELSE s

Printed(st, c) ==
    [st EXCEPT !.p.last = c, !.p.graphic = TRUE, !.s = RawPutchar(@, c)]

\* A printable byte, through the selected character set.
Graphic(st, c) ==
    LET u == [st EXCEPT !.s = insert_shift(@, st.a.insert, 1)]
        dec == {k \in DOMAIN DecFrom : DecFrom[k] = c}
    IN  IF st.a.charsets[st.a.charset + 1] = 1 /\ dec # {}
        THEN Printed(u, DecTo[CHOOSE k \in dec : TRUE])
        ELSE Printed(u, IF c < 128 THEN c ELSE Replacement)

\* A byte outside escape sequences.
Ground(st, c) ==
    LET control == c < 32 \/ c = DEL
        u == [st EXCEPT !.p.gsel = 0,
                        !.p.graphic = @ /\ (~control \/ c = ESC)]
    IN  CASE st.p.gsel # 0 /\ ~control ->
               [st EXCEPT !.p.gsel = 0,
                          !.a.charsets[st.p.gsel] =
                             IF c = ch.B THEN 0 ELSE IF c = ch.zero THEN 1 ELSE @]
          [] c \in {0, DEL} -> u
          [] c = ESC -> [u EXCEPT !.p.offset = 0, !.p.escape = TRUE]
          [] c < 32 /\ c \notin {0, ESC} -> execute_c0(u, c)
          [] OTHER -> Graphic(u, c)

\* unicode_error: a byte that does not continue a sequence.
Fresh(st, c) ==
    LET lead == [st EXCEPT !.p.gsel = 0, !.g.seq = <<c>>]
    IN  CASE c \in 194 .. 223 ->
               [lead EXCEPT !.p.uni = 1, !.p.cp = (c % 32) * 64]
          [] c \in 224 .. 239 ->
               [lead EXCEPT !.p.uni = 2, !.p.cp = (c % 16) * 4096]
          [] c \in 240 .. 244 ->
               [lead EXCEPT !.p.uni = 3, !.p.cp = (c % 8) * 262144]
          [] c \notin 194 .. 244 /\ st.p.escape -> escape_parse(st, c)
          [] c \notin 194 .. 244 /\ ~st.p.escape -> Ground(st, c)

\* A decoded character; one the font lacks is shown as a box of its width.
Decoded(st, cp) ==
    LET g == Cp437(cp)
        w == Width(cp)
        shift(n) == [st EXCEPT !.s = insert_shift(@, st.a.insert, n)]
    IN  IF g # -1 THEN Printed(shift(1), g)
        ELSE IF w = 0 THEN st
        ELSE [Printed(shift(w), Replacement) EXCEPT !.s = Blanks(@, w - 1)]

\* A byte of a UTF-8 sequence that has begun.
\* Mutant of Rejected: surrogates and too large code points pass.
RejectedOverlong(uni, cp) == cp < (IF uni = 1 THEN 2048 ELSE IF uni = 2 THEN 65536 ELSE 0)
Rejected(uni, cp) ==
    \/ uni = 1 /\ cp < 2048
    \/ uni = 2 /\ (cp < 65536 \/ cp > 1114111)
    \/ uni = 0 /\ cp \in 55296 .. 57343
Continue(st, c) ==
    LET uni == st.p.uni - 1
        cp == st.p.cp + (c % 64) * (IF uni = 0 THEN 1 ELSE IF uni = 1 THEN 64
                                    ELSE 4096)
        u == [st EXCEPT !.p.uni = uni, !.p.cp = cp, !.g.seq = Append(@, c)]
    IN  IF c \notin 128 .. 191
        THEN Fresh([st EXCEPT !.p.uni = 0,
                      !.s = RawPutchar(insert_shift(@, st.a.insert, 1),
                                       Replacement)], c)
        ELSE IF Rejected(uni, cp) THEN Fresh([u EXCEPT !.p.uni = 0], c)
        ELSE IF uni # 0 THEN u
        ELSE Decoded([u EXCEPT !.g.cp = cp], cp)

\* CAN, SUB, or the byte after ESC [ [: back to the ground state.
\* Mutant of Cancelled: only the escape is given up.
CancelledHalf(st) ==
    [st EXCEPT !.p.discard = FALSE, !.p.escape = FALSE, !.p.uni = 0,
               !.p.gsel = 0, !.p.graphic = FALSE]
Cancelled(st) ==
    [st EXCEPT !.p.discard = FALSE, !.p.escape = FALSE, !.p.csi = FALSE,
               !.p.uni = 0, !.p.osc = FALSE, !.p.oscEsc = FALSE,
               !.p.gsel = 0, !.p.graphic = FALSE]

PutByte(st, c) ==
    IF st.p.discard \/ c \in {CAN, SUB} THEN Cancelled(st)
    ELSE IF st.p.uni # 0 THEN Continue(st, c)
    ELSE Fresh(st, c)
-----------------------------------------------------------------------------
Init ==
    LET st == Reinit([s |-> Blank,
                      p |-> [oscLen |-> 0],
                      a |-> [save |-> [bold |-> FALSE, bgBold |-> FALSE,
                                       rev |-> FALSE, origin |-> FALSE,
                                       wrap |-> TRUE, charset |-> 0,
                                       charsets |-> <<0, 1>>, primary |-> None,
                                       bg |-> None, top |-> 0, bot |-> ROWS]],
                      g |-> [fg |-> DefFg, bg |-> DefBg, exact |-> TRUE,
                             save |-> [fg |-> DefFg, bg |-> DefBg,
                                       exact |-> TRUE],
                             seq |-> <<>>, cp |-> -1]])
    IN  /\ scr = st.s /\ par = st.p /\ att = st.a /\ ref = st.g
        /\ shown = Rendered(Blank) /\ input = <<>> /\ calls = 0

\* flanterm_write is called.
flanterm_write(w) ==
    /\ input = <<>> /\ calls < MaxWrites
    /\ input' = w /\ calls' = calls + 1
    /\ UNCHANGED <<scr, shown, par, att, ref>>

\* Its loop handles a byte; after the last one it flushes.
flanterm_putchar ==
    /\ input # <<>>
    /\ Becomes(PutByte([St EXCEPT !.g.cp = -1], Head(input)))
    /\ input' = Tail(input)
    /\ shown' = IF input' = <<>> /\ att'.autoflush THEN Rendered(scr') ELSE shown
    /\ UNCHANGED calls

\* The other functions of flanterm.h.
ApiCall(st) ==
    /\ Api /\ input = <<>> /\ calls < MaxWrites /\ calls' = calls + 1
    /\ Becomes(st) /\ UNCHANGED <<shown, input>>

flanterm_set_cursor_pos(x, y) ==
    ApiCall([St EXCEPT !.s = SetCursor(@, Min2(x, COLS - 1), Min2(y, ROWS - 1))])
flanterm_set_text_fg(col, bright) ==
    LET shade == IF bright THEN Bright(col) ELSE Ansi(col)
    IN  ApiCall(Front([St EXCEPT !.a.primary = col, !.g.fg = shade], shade))
flanterm_set_text_bg(col, bright) ==
    LET shade == IF bright THEN Bright(col) ELSE Ansi(col)
    IN  ApiCall(Back([St EXCEPT !.a.bg = col, !.g.bg = shade], shade))
flanterm_reset_text_fg ==
    ApiCall(FrontDefault([St EXCEPT !.a.primary = None,
                            !.g.fg = IF att.bold THEN FgBright ELSE DefFg],
                         att.bold))
flanterm_reset_text_bg ==
    ApiCall(BackDefault([St EXCEPT !.a.bg = None,
                           !.g.bg = IF att.bgBold THEN BgBright ELSE DefBg],
                        att.bgBold))
flanterm_clear(move) == ApiCall([St EXCEPT !.s = Clear(@, move)])
flanterm_set_autoflush(on) == ApiCall([St EXCEPT !.a.autoflush = on])
flanterm_flush ==
    /\ Api /\ input = <<>> /\ shown' = Rendered(scr)
    /\ UNCHANGED <<scr, par, att, ref, input, calls>>

Next ==
    \/ \E w \in Writes : flanterm_write(w)
    \/ flanterm_putchar
    \/ \E x \in 0 .. COLS, y \in 0 .. ROWS : flanterm_set_cursor_pos(x, y)
    \/ \E col \in {1}, bright \in BOOLEAN :
          flanterm_set_text_fg(col, bright) \/ flanterm_set_text_bg(col, bright)
    \/ flanterm_reset_text_fg
    \/ flanterm_reset_text_bg
    \/ \E b \in BOOLEAN : flanterm_clear(b) \/ flanterm_set_autoflush(b)
    \/ flanterm_flush

Spec == Init /\ [][Next]_vars
-----------------------------------------------------------------------------
\* Types, and the indices the code uses without a test of its own: esc_values_i,
\* osc_buf_i, g_select, the charset, and the cursor of the backend.
TypeOK ==
    /\ scr.x \in 0 .. COLS /\ scr.y \in 0 .. ROWS - 1
    /\ scr.cell \in [Cell -> [c: 0 .. 255, fg: Colours, bg: Colours]]
    /\ Len(par.vals) <= MAXVALS /\ (par.rrr => Len(par.vals) < MAXVALS)
    /\ par.cur \in 0 .. VALUEMAX /\ par.oscLen \in 0 .. OSCBUF
    /\ par.gsel \in 0 .. 2 /\ att.charset \in {0, 1}
    /\ att.charsets \in {0, 1} \X {0, 1}
    /\ par.uni \in 0 .. 3 /\ par.cp \in 0 .. 2097151
    /\ att.primary \in -2 .. 7 /\ att.bg \in -2 .. 7
    /\ att.sx \in 0 .. COLS - 1 /\ att.sy \in 0 .. ROWS - 1

\* The scroll region, and every region a restore can bring back, has two lines
\* at least or is the whole screen, whatever was selected, inserted, deleted,
\* saved and restored before: the loops of scroll and revscroll count with
\* bottom - 1, which must not wrap.
RegionValid ==
    /\ RegionOk(scr.top, scr.bot) \/ (scr.top = 0 /\ scr.bot = ROWS)
    /\ RegionOk(att.save.top, att.save.bot)
         \/ (att.save.top = 0 /\ att.save.bot = ROWS)

\* The flags of the parser form a tree: control sequences and OSC strings only
\* inside an escape, never both, and nothing is left over from one sequence
\* that the next would be misled by, wherever a writer was cut off.
\* (dec_private is the exception: CAN and SUB leave it set.)
ParserShape ==
    /\ par.csi \/ par.osc => par.escape
    /\ ~(par.csi /\ par.osc)
    /\ par.oscEsc => par.osc
    /\ par.gsel # 0 => ~par.escape /\ par.uni = 0
    /\ par.discard => ~par.escape
-----------------------------------------------------------------------------
\* The step handles a byte; it handles c as the final byte of a CSI sequence
\* with first value v (dflt when none was given).
Handled == input # <<>>
Final(c) ==
    /\ Handled /\ Head(input) = c
    /\ par.csi /\ par.uni = 0 /\ ~par.discard /\ ~par.dec /\ ~par.unhandled
Value(dflt) ==
    LET vals == EndValue(St).p.vals
    IN  IF vals = <<>> THEN dflt ELSE Max2(vals[1], dflt)

\* J, K and X erase exactly the cells they are defined to erase: cells before
\* or after the cursor, the cursor's own included, or all; other cells and the
\* cursor stay as they were, whatever the margins, a pending wrap or the wrap
\* mode.
EraseExact ==
    [][LET x == CursorX(scr)
           y == CursorY(scr)
           i == At(x, y)
           line == At(0, y) .. At(COLS - 1, y)
           erased(c) ==
             CASE c = ch.J -> CASE Value(0) = 0 -> {k \in Cell : k >= i}
                                [] Value(0) = 1 -> {k \in Cell : k <= i}
                                [] Value(0) \in {2, 3} -> Cell
                                [] OTHER -> {}
               [] c = ch.K -> CASE Value(0) = 0 -> {k \in line : k >= i}
                                [] Value(0) = 1 -> {k \in line : k <= i}
                                [] Value(0) = 2 -> line
                                [] OTHER -> {}
               [] c = ch.X -> {k \in line : k >= i /\ k < i + Value(1)}
       IN  \A c \in {ch.J, ch.K, ch.X} : Final(c) =>
              /\ scr'.cell = [k \in Cell |-> IF k \in erased(c) THEN Empty(scr)
                                             ELSE scr.cell[k]]
              /\ CursorX(scr') = x /\ CursorY(scr') = y]_vars

\* @ and P move the rest of the cursor's line and blank what they uncover; L,
\* M, S and T move whole lines of the region in the same way, by as many places
\* as were asked for, and touch nothing else.
ShiftExact ==
    [][LET x == CursorX(scr)
           y == CursorY(scr)
           n == Value(1)
           blank == Empty(scr)
           old(cx, cy) == scr.cell[At(cx, cy)]
           lines(from) ==        \* rows from .. bot - 1 move up by n
             [k \in Cell |-> LET r == k \div COLS
                             IN  IF r \notin from .. scr.bot - 1 THEN scr.cell[k]
                                 ELSE IF r + n < scr.bot
                                 THEN old(k % COLS, r + n) ELSE blank]
           linesDown(from) ==    \* they move down by n
             [k \in Cell |-> LET r == k \div COLS
                             IN  IF r \notin from .. scr.bot - 1 THEN scr.cell[k]
                                 ELSE IF r - n >= from
                                 THEN old(k % COLS, r - n) ELSE blank]
           row(f(_)) == [k \in Cell |-> IF k \div COLS = y /\ k % COLS >= x
                                        THEN f(k % COLS) ELSE scr.cell[k]]
           inserted(cx) == IF cx < x + n THEN blank ELSE old(cx - n, y)
           deleted(cx) == IF cx + n >= COLS THEN blank ELSE old(cx + n, y)
           inside == scr.top <= y /\ y < scr.bot
       IN  /\ Final(ch.at) => scr'.cell = row(inserted)
           /\ Final(ch.P) => scr'.cell = row(deleted)
           /\ Final(ch.M) => scr'.cell = IF inside THEN lines(y) ELSE scr.cell
           /\ Final(ch.L) => scr'.cell = IF inside THEN linesDown(y) ELSE scr.cell
           /\ Final(ch.S) => scr'.cell = lines(scr.top)
           /\ Final(ch.T) => scr'.cell = linesDown(scr.top)]_vars

\* Text, line feeds and scrolling stay inside the scroll region: a line outside
\* it changes only where the cursor stands, except when the screen is cleared
\* or erased (J, ESC c, the alternate screen, flanterm_clear).
RegionKept ==
    [][(/\ Handled /\ ~Final(ch.J)
        /\ ~(par.escape /\ Head(input) \in {ch.c, ch.h, ch.l})) =>
          \A k \in Cell :
             LET r == k \div COLS
             IN  r \notin scr.top .. scr.bot - 1 /\ r \notin {scr.y, scr'.y}
                   => scr'.cell[k] = scr.cell[k]]_vars

\* In origin mode the cursor never leaves the scroll region, by whatever mix of
\* movements, line feeds, wraps, restores and new regions; only the position
\* saved by CSI s, which is not tied to a region, can take it out.
OriginConfined ==
    [][LET in == att.origin => scr.top <= scr.y /\ scr.y < scr.bot
       IN  in /\ Handled /\ ~Final(ch.u) => in']_vars

\* Scrolling is never left off, and wrapping changes only where a sequence says
\* so: the CSI handler switches both for its own use and returns on many paths.
ModesKept ==
    [][/\ scr'.scroll
       /\ scr'.wrap # scr.wrap =>
            \/ par.dec /\ Head(input) \in {ch.h, ch.l}
            \/ par.escape /\ Head(input) \in {ch.eight, ch.c}]_vars

\* Reverse video is an exchange of the two colours and nothing more: whatever
\* sequence of colours, intensities, saves and restores was written, in reverse
\* video the backend has the colours a terminal without it would have, swapped.
\* Excepted are intensities and resets asked for in reverse video while the
\* default colour is selected (FrontDefault).
ReverseExact ==
    ref.exact =>
      IF att.rev THEN scr.fg = ref.bg /\ scr.bg = ref.fg
      ELSE scr.fg = ref.fg /\ scr.bg = ref.bg

\* UTF-8 as Unicode defines it: well-formed sequences and their code points.
WellFormed(b) ==
    LET any == 128 .. 191
        second == CASE b[1] = 224 -> 160 .. 191 [] b[1] = 237 -> 128 .. 159
                    [] b[1] = 240 -> 144 .. 191 [] b[1] = 244 -> 128 .. 143
                    [] OTHER -> any
    IN  /\ Len(b) = (IF b[1] < 224 THEN 2 ELSE IF b[1] < 240 THEN 3 ELSE 4)
        /\ b[2] \in second /\ \A i \in 3 .. Len(b) : b[i] \in any
Scalar(b) ==
    LET v[i \in 1 .. Len(b)] ==
          IF i = 1 THEN b[1] % (IF b[1] < 224 THEN 32 ELSE IF b[1] < 240 THEN 16
                                ELSE 8)
          ELSE v[i - 1] * 64 + (b[i] % 64)
    IN  v[Len(b)]
\* flanterm_putchar decodes a sequence of bytes exactly when it is well formed,
\* and to its code point; overlong forms and surrogates are refused.
Utf8Exact ==
    [][par.uni # 0 /\ Handled /\ Head(input) \notin {CAN, SUB} =>
         LET b == Append(ref.seq, Head(input))
         IN  ref'.cp = IF WellFormed(b) THEN Scalar(b) ELSE -1]_vars

\* Text is never swallowed: outside escape sequences a printable character is
\* shown as itself, whatever broken UTF-8, cut-off sequence or control
\* character came before it.
TextShown ==
    [][(/\ Handled /\ Head(input) \in 32 .. 126
        /\ ~par.escape /\ ~par.discard /\ par.gsel = 0
        /\ att.charsets[att.charset + 1] = 0) =>
          /\ scr'.cell[At(scr'.x - 1, scr'.y)].c = Head(input)
          /\ par'.last = Head(input) /\ par'.graphic]_vars
-----------------------------------------------------------------------------
\* The indices stay in range, the regions can be scrolled, and the parser never
\* mixes two sequences: what the code relies on at every byte.
StateSound == TypeOK /\ RegionValid /\ ParserShape

\* The sequences that edit the screen do exactly what they are for and leave
\* region, origin mode, wrapping and scrolling as they found them.
EditExact == EraseExact /\ ShiftExact /\ RegionKept /\ OriginConfined /\ ModesKept

\* Bytes become characters as UTF-8 defines it, and no text is lost between.
TextExact == Utf8Exact /\ TextShown
=============================================================================
