-------------------------------- MODULE Plot --------------------------------
(***************************************************************************)
(* From cells to pixels (fb.c): the geometry flanterm_fb_init computes, the *)
(* four plot_char functions and the background of full_refresh.  Memory is *)
(* addressed in pixels of 4 bytes; address 0 is the first of the hardware's *)
(* framebuffer, whose lines are Pitch pixels apart.  A glyph is the set of  *)
(* its dots, BYTE dots wide before spacing; line-drawing characters (0xc0   *)
(* .. 0xdf) repeat their last column.  The four functions differ in what a  *)
(* scale of 1 or a missing canvas leave out of the same loop.               *)
(***************************************************************************)
EXTENDS Integers

CONSTANTS
    BYTE,           \* dots of a font byte (8)
    FontHeight,     \* lines of the font
    Spacing,        \* font_spacing
    MaxPlots,       \* bound on the characters plotted
    Setups,         \* [w, h, pitch, limit, rotation, sx, sy, margin, canvas]
    Glyphs          \* [dots, line]: dots \subseteq (0 .. BYTE-1) \X (0 .. FontHeight-1)

PlotAssumption ==
    /\ MaxPlots \in Nat /\ BYTE \in Nat \ {0} /\ FontHeight \in Nat \ {0} /\ Spacing \in Nat
    /\ \A s \in Setups : s.pitch >= s.w /\ s.rotation \in 0 .. 3

VARIABLES
    geo,            \* the fields of the context that describe the display
    grid,           \* the glyph last plotted in each cell
    mem,            \* pixels written: address -> colour
    plots           \* characters plotted so far

vars == <<geo, grid, mem, plots>>

Min2(m, n) == IF m < n THEN m ELSE n
FontWidth == BYTE + Spacing
Turned(r) == r \in {1, 3}

\* flanterm_fb_init: sizes as the rotated viewer sees them, the part used when
\* the pool limits it, and the cells.  base is the shift of the framebuffer
\* address that centres that part.
\* Mutant of Base: the offsets of the turned screen are swapped.
BaseFlat(s, w, h, lw, lh) ==
    (h \div 2 - lh \div 2) * s.pitch + (w \div 2 - lw \div 2)
Base(s, w, h, lw, lh) ==
    IF Turned(s.rotation)
    THEN (h \div 2 - lh \div 2) + (w \div 2 - lw \div 2) * s.pitch
    ELSE (h \div 2 - lh \div 2) * s.pitch + (w \div 2 - lw \div 2)

Geometry(s) ==
    LET w == IF Turned(s.rotation) THEN s.h ELSE s.w
        h == IF Turned(s.rotation) THEN s.w ELSE s.h
        lw == Min2(w, s.limit)
        lh == Min2(h, s.limit)
        gw == FontWidth * s.sx
        gh == FontHeight * s.sy
    IN  [s |-> s, base |-> Base(s, w, h, lw, lh), width |-> lw, height |-> lh,
         gw |-> gw, gh |-> gh,
         cols |-> (lw - 2 * s.margin) \div gw, rows |-> (lh - 2 * s.margin) \div gh,
         ox |-> s.margin + ((lw - 2 * s.margin) % gw) \div 2,
         oy |-> s.margin + ((lh - 2 * s.margin) % gh) \div 2]

\* font_bool: the dots of a glyph, its columns past the byte filled.
font_bool(g, fx, fy) ==
    IF fx < BYTE THEN <<fx, fy>> \in g.dots
    ELSE g.line /\ <<BYTE - 1, fy>> \in g.dots

\* Where plot_char starts, and its strides.
Dest(r, x, y) ==
    LET p == geo.s.pitch
    IN  geo.base + CASE r = 0 -> x + y * p
                     [] r = 1 -> (geo.height - 1 - y) + x * p
                     [] r = 2 -> (geo.width - 1 - x) + (geo.height - 1 - y) * p
                     [] r = 3 -> y + (geo.width - 1 - x) * p
OuterStride(r) == <<geo.s.pitch, -1, -geo.s.pitch, 1>>[r + 1]
InnerStride(r) == <<1, geo.s.pitch, -1, -geo.s.pitch>>[r + 1]

\* full_refresh: the address of a logical pixel.
PixelAt(x, y) ==
    LET r == geo.s.rotation
        px == <<x, geo.height - 1 - y, geo.width - 1 - x, y>>[r + 1]
        py == <<y, x, geo.height - 1 - y, geo.width - 1 - x>>[r + 1]
    IN  geo.base + py * geo.s.pitch + px

\* The background: a canvas's pixel, or the default colour.
Ground(x, y) == IF geo.s.canvas THEN <<"canvas", x, y>> ELSE <<"default", 0, 0>>

\* The pixels plot_char writes for a glyph in cell (cx, cy).  The text's
\* background is transparent, as it is after flanterm_fb_init.
FontDot(gx, gy) == <<gx \div geo.s.sx, gy \div geo.s.sy>>

plot_char(g, cx, cy) ==
    LET x == geo.ox + cx * geo.gw
        y == geo.oy + cy * geo.gh
        r == geo.s.rotation
        at(gx, gy) == Dest(r, x, y) + gy * OuterStride(r) + gx * InnerStride(r)
        dots == (0 .. geo.gw - 1) \X (0 .. geo.gh - 1)
        colour(gx, gy) == LET f == FontDot(gx, gy)
                          IN  IF font_bool(g, f[1], f[2]) THEN <<"text", 0, 0>>
                              ELSE Ground(x + gx, y + gy)
    IN  [a \in {at(q[1], q[2]) : q \in dots} |->
           LET q == CHOOSE q \in dots : at(q[1], q[2]) = a
           IN  colour(q[1], q[2])]

Over(new, old) ==
    [a \in DOMAIN new \cup DOMAIN old |-> IF a \in DOMAIN new THEN new[a] ELSE old[a]]
-----------------------------------------------------------------------------
Cells == (0 .. geo.cols - 1) \X (0 .. geo.rows - 1)
Nothing == [dots |-> {}, line |-> FALSE]

\* The end of flanterm_fb_init: full_refresh of an empty grid.
Init ==
    /\ \E s \in Setups : geo = Geometry(s)
    /\ grid = [c \in Cells |-> Nothing] /\ plots = 0
    /\ mem = [a \in {PixelAt(x, y) : x \in 0 .. geo.width - 1, y \in 0 .. geo.height - 1}
                |-> LET q == CHOOSE q \in (0 .. geo.width - 1) \X (0 .. geo.height - 1) :
                                PixelAt(q[1], q[2]) = a
                    IN  Ground(q[1], q[2])]

Plot(c, g) ==
    /\ plots < MaxPlots /\ plots' = plots + 1
    /\ grid' = [grid EXCEPT ![c] = g]
    /\ mem' = Over(plot_char(g, c[1], c[2]), mem)
    /\ UNCHANGED geo

Next == \E c \in Cells, g \in Glyphs : Plot(c, g)

Spec == Init /\ [][Next]_vars
-----------------------------------------------------------------------------
\* Only pixels of the hardware's framebuffer are written: none before it, none
\* after it, none between its lines, for every rotation and limit.
InsideFramebuffer ==
    \A a \in DOMAIN mem :
       a >= 0 /\ a % geo.s.pitch < geo.s.w /\ a \div geo.s.pitch < geo.s.h

\* What someone sees who looks at the turned screen: the pixel in line v and
\* column u of it, counted from the corner that is at the upper left.
Seen(u, v) ==
    LET s == geo.s
        a == CASE s.rotation = 0 -> <<u, v>>
               [] s.rotation = 1 -> <<s.w - 1 - v, u>>
               [] s.rotation = 2 -> <<s.w - 1 - u, s.h - 1 - v>>
               [] s.rotation = 3 -> <<v, s.h - 1 - u>>
        i == a[2] * s.pitch + a[1]
    IN  IF i \in DOMAIN mem THEN mem[i] ELSE <<"untouched", 0, 0>>

\* Whatever was plotted before, the viewer sees the terminal upright and whole,
\* in the middle of the screen (to a pixel): every cell shows its glyph,
\* enlarged by the scale, and all the rest is background.
PictureExact ==
    LET tall == IF Turned(geo.s.rotation) THEN geo.s.w ELSE geo.s.h
        wide == IF Turned(geo.s.rotation) THEN geo.s.h ELSE geo.s.w
        image(x, y) ==
          LET cx == (x - geo.ox) \div geo.gw
              cy == (y - geo.oy) \div geo.gh
              in == x >= geo.ox /\ y >= geo.oy /\ <<cx, cy>> \in Cells
          IN  IF in /\ font_bool(grid[<<cx, cy>>],
                                 ((x - geo.ox) % geo.gw) \div geo.s.sx,
                                 ((y - geo.oy) % geo.gh) \div geo.s.sy)
              THEN <<"text", 0, 0>> ELSE Ground(x, y)
    IN  \E left \in 0 .. wide - geo.width, top \in 0 .. tall - geo.height :
           /\ 2 * left + geo.width - wide \in -1 .. 1
           /\ 2 * top + geo.height - tall \in -1 .. 1
           /\ \A x \in 0 .. geo.width - 1, y \in 0 .. geo.height - 1 :
                 Seen(left + x, top + y) = image(x, y)

\* Every pixel is written where it belongs, and nowhere else.
PixelsExact == InsideFramebuffer /\ PictureExact
=============================================================================
