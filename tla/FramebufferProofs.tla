------------------------- MODULE FramebufferProofs -------------------------
(***************************************************************************)
(* Proofs about Framebuffer, for a screen of any size and any alphabet:    *)
(* cursor, queue, map and display agree (BackendSound), and the backend    *)
(* implements the screen of Screen (ImplementsScreen).                     *)
(*                                                                         *)
(* That push_to_queue never finds the queue full is a pigeonhole argument: *)
(* each item is found through the map entry of its own cell, so a cell     *)
(* without an item leaves room (RoomInQueue).  That an operation in        *)
(* progress ends in the state Screen asks for is the invariant Progress:   *)
(* the pushes still to be made fit some final screen (Fits), which the     *)
(* operation allows.  A push from another cell must find it as it was at   *)
(* the start; scroll and revscroll make this so by copying upwards from    *)
(* the top and downwards from the bottom (ScrollFits, RevScrollFits).      *)
(***************************************************************************)
EXTENDS Framebuffer, FiniteSetTheorems, TLAPS

-----------------------------------------------------------------------------
(* Cells and coordinates. *)

(* Products grow with their first factor. *)
LEMMA Monotone ==
    ASSUME NEW a \in Nat, NEW b \in Nat, a <= b, NEW c \in Nat
    PROVE  a * c <= b * c /\ a * c \in Nat /\ b * c \in Nat
    OBVIOUS

(* A division by a positive number, with its remainder. *)
LEMMA Division ==
    ASSUME NEW n \in Int, n >= 0, NEW c \in Int, c > 0
    PROVE  \E q \in Nat, r \in 0 .. c - 1 : q = n \div c /\ r = n % c /\ n = q * c + r
<1>1. n \div c \in Nat /\ n % c \in 0 .. c - 1
    OBVIOUS
<1>2. n = c * (n \div c) + (n % c)
    OBVIOUS
<1>3. ASSUME NEW q \in Nat, NEW r \in 0 .. c - 1, q = n \div c, r = n % c PROVE n = q * c + r
    BY <1>2, <1>3
<1> QED
    BY <1>1, <1>3

(* The cells of a row follow each other, the rows too. *)
LEMMA AtCell ==
    ASSUME NEW x \in 0 .. COLS - 1, NEW y \in 0 .. ROWS - 1
    PROVE  At(x, y) \in Cell
<1> USE FramebufferAssumption
<1>1. y * COLS <= (ROWS - 1) * COLS /\ y * COLS \in Nat
    BY Monotone
<1>2. (ROWS - 1) * COLS = ROWS * COLS - COLS
    OBVIOUS
<1> QED
    BY <1>1, <1>2 DEF At, Cell

(* Two places of the grid are two cells. *)
LEMMA AtInjective ==
    ASSUME NEW x \in 0 .. COLS - 1, NEW y \in Nat, NEW u \in 0 .. COLS - 1, NEW v \in Nat,
           At(x, y) = At(u, v)
    PROVE  x = u /\ y = v
<1> USE FramebufferAssumption
<1>1. ASSUME NEW a \in Nat, NEW b \in Nat, a < b
      PROVE  a * COLS + COLS <= b * COLS
  <2>1. (a + 1) * COLS <= b * COLS
      BY <1>1, Monotone
  <2> QED
      BY <2>1
<1>2. y * COLS \in Int /\ v * COLS \in Int
    OBVIOUS
<1> QED
    BY <1>1, <1>2 DEF At

(* The column and the row that the loops of scroll, revscroll and clear    *)
(* compute from a cell's index are that cell's.                            *)
LEMMA AtDivMod ==
    ASSUME NEW n \in Cell
    PROVE  /\ n % COLS \in 0 .. COLS - 1
           /\ n \div COLS \in 0 .. ROWS - 1
           /\ At(n % COLS, n \div COLS) = n
<1> USE FramebufferAssumption
<1>1. n \in Nat /\ n < ROWS * COLS
    BY DEF Cell
<1>2. PICK q \in Nat, r \in 0 .. COLS - 1 :
          q = n \div COLS /\ r = n % COLS /\ n = q * COLS + r
    BY <1>1, Division
<1>3. q < ROWS
  <2> SUFFICES ASSUME ROWS <= q PROVE FALSE
      OBVIOUS
  <2>1. ROWS * COLS <= q * COLS
      BY Monotone
  <2> QED
      BY <1>1, <1>2, <2>1
<1>4. At(r, q) = n /\ q \in 0 .. ROWS - 1
    BY <1>2, <1>3 DEF At
<1> QED
    BY <1>2, <1>4

-----------------------------------------------------------------------------
(* Types. *)

\* The context of a terminal: cursor, colours, saved state, region and modes.
Context == [x : 0 .. COLS, y : 0 .. ROWS - 1, fg : Colours, bg : Colours,
            save : [fg : Colours, bg : Colours, x : 0 .. COLS, y : 0 .. ROWS - 1],
            top : 0 .. ROWS - 1, bot : 1 .. ROWS,
            wrap : BOOLEAN, scroll : BOOLEAN, cursor : BOOLEAN]

\* A push of one of the operations: to a cell, of a character or from a cell.
Push == [x : 0 .. COLS - 1, y : 0 .. ROWS - 1, from : Cell \cup {-1}, g : Glyph]

\* The types of the state; the queue has room for one item per cell.
Types ==
    /\ grid \in [Cell -> Glyph] /\ shown \in [Cell -> Glyph]
    /\ map \in [Cell -> 0 .. ROWS * COLS]
    /\ queue \in Seq(Item) /\ Len(queue) <= ROWS * COLS
    /\ ctx \in Context /\ ctx.top < ctx.bot
    /\ old \in (0 .. COLS) \X (0 .. ROWS - 1)
    /\ todo \in Seq(Push)
    /\ before \in [cell : [Cell -> Glyph], ctx : Context] /\ before.ctx.top < before.ctx.bot
    /\ ops \in 0 .. MaxOps

(* There is a first cell, and the queue has room for one item per cell. *)
LEMMA Size ==
    ROWS * COLS \in Nat /\ ROWS * COLS > 0 /\ 0 \in Cell
<1>1. ROWS * COLS >= 1 * COLS /\ ROWS * COLS \in Nat
    BY Monotone, FramebufferAssumption
<1> QED
    BY <1>1, FramebufferAssumption DEF Cell

(* The inverse of a character is one. *)
LEMMA InvertedGlyph ==
    ASSUME NEW g \in Glyph PROVE Inverted(g) \in Glyph
    BY DEF Inverted, Glyph

(* What a cell will show is a character. *)
LEMMA ContentGlyph ==
    ASSUME Types, QueueExact, NEW i \in Cell PROVE Content(i) \in Glyph
<1>1. CASE map[i] = 0
    BY <1>1 DEF Types, Content, Pending
<1>2. CASE map[i] # 0
  <2>1. map[i] \in 1 .. Len(queue)
      BY <1>2 DEF QueueExact
  <2>2. queue[map[i]] \in Item
      BY <2>1 DEF Types
  <2> QED
      BY <1>2, <2>2 DEF Content, Pending, Item
<1> QED
    BY <1>1, <1>2

(* A cell without an item leaves room in the queue: push_to_queue never    *)
(* drops a change because the queue is full.                               *)
LEMMA RoomInQueue ==
    ASSUME Types, QueueExact, NEW i \in Cell, map[i] = 0
    PROVE  Len(queue) < ROWS * COLS
<1> SUFFICES ASSUME Len(queue) = ROWS * COLS PROVE FALSE
    BY Size DEF Types
<1> DEFINE S == 1 .. Len(queue)
           T == Cell \ {i}
           f == [k \in S |-> queue[k].i]
<1>1. IsFiniteSet(S) /\ Cardinality(S) = ROWS * COLS
    BY FS_Interval, Size
<1>2. IsFiniteSet(Cell) /\ Cardinality(Cell) = ROWS * COLS
    BY FS_Interval, Size DEF Cell
<1>3. IsFiniteSet(T) /\ Cardinality(T) = ROWS * COLS - 1
    BY <1>2, FS_RemoveElement
<1>4. \A k \in S : map[queue[k].i] = k
    BY DEF QueueExact
<1>5. \A k \in S : queue[k].i \in T
  <2> TAKE k \in S
  <2>1. queue[k] \in Item
      BY DEF Types
  <2> QED
      BY <2>1, <1>4, Size DEF Item
<1>6. f \in [S -> T]
    BY <1>5
<1>7. Cardinality(T) < Cardinality(S)
    BY <1>1, <1>3, Size
<1>8. \E k, l \in S : k # l /\ f[k] = f[l]
  <2> HIDE DEF S, T, f
  <2> QED
      BY <1>1, <1>3, <1>6, <1>7, FS_PigeonHole
<1> QED
    BY <1>4, <1>8

(* The value a push writes. *)
Value(p) == IF p.from = -1 THEN p.g ELSE Content(p.from)

(* One push keeps map and queue exact and changes what one cell will show. *)
LEMMA PushExact ==
    ASSUME Types, QueueExact, NEW p \in Push, push_to_queue(p), UNCHANGED grid
    PROVE  /\ map' \in [Cell -> 0 .. ROWS * COLS]
           /\ queue' \in Seq(Item) /\ Len(queue') <= ROWS * COLS
           /\ QueueExact'
           /\ \A i \in Cell : Content(i)' = IF i = At(p.x, p.y) THEN Value(p) ELSE Content(i)
<1> DEFINE c == At(p.x, p.y)
           g == Value(p)
<1>1. c \in Cell
    BY AtCell DEF Push
<1>2. g \in Glyph
    BY ContentGlyph DEF Value, Push
<1>3. ~(p.x >= COLS \/ p.y >= ROWS)
    BY FramebufferAssumption DEF Push
<1>4. CASE map[c] # 0
  <2>1. map[c] \in 1 .. Len(queue) /\ queue[map[c]].i = c
      BY <1>1, <1>4 DEF QueueExact
  <2>2. queue' = [queue EXCEPT ![map[c]].g = g] /\ map' = map
      BY <1>3, <1>4 DEF push_to_queue, Value
  <2>3. /\ queue' \in Seq(Item) /\ Len(queue') = Len(queue)
        /\ \A k \in 1 .. Len(queue) : queue'[k].i = queue[k].i
        /\ \A k \in 1 .. Len(queue) : queue'[k].g = IF k = map[c] THEN g ELSE queue[k].g
    <3> DEFINE item == [queue[map[c]] EXCEPT !.g = g]
    <3>1. queue[map[c]] \in Item
        BY <2>1 DEF Types
    <3>2. item \in Item /\ item.i = c /\ item.g = g
        BY <1>2, <2>1, <3>1 DEF Item
    <3>3. queue' = [queue EXCEPT ![map[c]] = item]
        BY <2>2
    <3> HIDE DEF item, g, c
    <3>4. queue' \in Seq(Item) /\ Len(queue') = Len(queue)
        BY <2>1, <3>2, <3>3 DEF Types
    <3>5. \A k \in 1 .. Len(queue) : queue'[k] = IF k = map[c] THEN item ELSE queue[k]
        BY <2>1, <3>3 DEF Types
    <3> QED
        BY <2>1, <3>2, <3>4, <3>5
  <2>4. QueueExact'
      BY <2>2, <2>3 DEF QueueExact
  <2>5. \A i \in Cell : Content(i)' = IF i = c THEN g ELSE Content(i)
      BY <1>4, <2>1, <2>2, <2>3 DEF Content, Pending, QueueExact
  <2> QED
      BY <2>2, <2>3, <2>4, <2>5 DEF Types
<1>5. CASE map[c] = 0 /\ grid[c] = g
  <2>1. map' = map /\ queue' = queue
      BY <1>3, <1>5 DEF push_to_queue, Value
  <2>2. \A i \in Cell : Content(i)' = IF i = c THEN g ELSE Content(i)
      BY <1>5, <2>1 DEF Content, Pending
  <2> QED
      BY <2>1, <2>2 DEF Types, QueueExact
<1>6. CASE map[c] = 0 /\ grid[c] # g
  <2>1. Len(queue) < ROWS * COLS
      BY <1>1, <1>6, RoomInQueue
  <2>2. /\ queue' = Append(queue, [i |-> c, g |-> g])
        /\ map' = [map EXCEPT ![c] = Len(queue) + 1]
      BY <1>3, <1>6, <2>1 DEF push_to_queue, Value
  <2>3. /\ queue' \in Seq(Item) /\ Len(queue') = Len(queue) + 1
        /\ \A k \in 1 .. Len(queue) : queue'[k] = queue[k]
        /\ queue'[Len(queue) + 1] = [i |-> c, g |-> g]
      BY <1>1, <1>2, <2>2 DEF Types, Item
  <2>4. Len(queue) \in Nat
      BY DEF Types
  <2>5. map' \in [Cell -> 0 .. ROWS * COLS] /\ Len(queue') <= ROWS * COLS
      BY <1>1, <2>1, <2>2, <2>3, <2>4, Size DEF Types
  <2>6. \A i \in Cell : map'[i] = IF i = c THEN Len(queue) + 1 ELSE map[i]
      BY <1>1, <2>2 DEF Types
  <2>7. \A k \in 1 .. Len(queue) : queue[k].i # c /\ queue[k].i \in Cell
    <3> TAKE k \in 1 .. Len(queue)
    <3>1. queue[k] \in Item /\ map[queue[k].i] = k
        BY DEF Types, QueueExact
    <3> QED
        BY <1>6, <3>1, <2>4 DEF Item
  <2>8. QueueExact'
    <3>1. \A i \in Cell : map'[i] # 0 => map'[i] \in 1 .. Len(queue') /\ queue'[map'[i]].i = i
        BY <2>3, <2>4, <2>6 DEF QueueExact
    <3>2. \A k \in 1 .. Len(queue') : map'[queue'[k].i] = k
        BY <1>1, <2>3, <2>4, <2>6, <2>7 DEF QueueExact
    <3> QED
        BY <3>1, <3>2 DEF QueueExact
  <2>9. \A i \in Cell : Content(i)' = IF i = c THEN g ELSE Content(i)
      BY <2>3, <2>4, <2>6 DEF Content, Pending, QueueExact
  <2> QED
      BY <2>3, <2>5, <2>8, <2>9
<1> QED
    BY <1>4, <1>5, <1>6

-----------------------------------------------------------------------------
(* The pushes of an operation. *)

Dest(p) == At(p.x, p.y)

\* Making the pushes p[1], p[2], ... one after the other turns the characters b
\* into f: a cell no push writes is right already, and the last push to a cell
\* writes the right character, if from another cell then from one that no
\* earlier push has changed.
Fits(p, f, b) ==
    /\ \A i \in Cell : b[i] = f[i] \/ \E k \in 1 .. Len(p) : Dest(p[k]) = i
    /\ \A k \in 1 .. Len(p) :
         \/ \E j \in k + 1 .. Len(p) : Dest(p[j]) = Dest(p[k])
         \/ p[k].from = -1 /\ p[k].g = f[Dest(p[k])]
         \/ /\ p[k].from # -1 /\ b[p[k].from] = f[Dest(p[k])]
            /\ \A j \in 1 .. k - 1 : Dest(p[j]) # p[k].from

(* Every push writes a cell. *)
LEMMA DestCell ==
    ASSUME NEW p \in Push PROVE Dest(p) \in Cell
    BY AtCell DEF Dest, Push

(* After the first push, the rest of the pushes leads to the same result. *)
LEMMA FitsTail ==
    ASSUME NEW p \in Seq(Push), p # <<>>, NEW f, NEW b, NEW c, Fits(p, f, b),
           \A i \in Cell : c[i] = IF i # Dest(p[1]) THEN b[i]
                                  ELSE IF p[1].from = -1 THEN p[1].g ELSE b[p[1].from]
    PROVE  Fits(Tail(p), f, c)
<1> DEFINE q == Tail(p)
<1>1. Len(p) \in Nat /\ Len(p) >= 1 /\ Len(q) = Len(p) - 1
    OBVIOUS
<1>2. \A k \in 1 .. Len(q) : q[k] = p[k + 1]
    OBVIOUS
<1>3. \A k \in 1 .. Len(p) : p[k] \in Push
    OBVIOUS
<1> HIDE DEF q
<1>4. ASSUME NEW i \in Cell, ~\E k \in 1 .. Len(q) : Dest(q[k]) = i
      PROVE  c[i] = f[i]
  <2>1. \A k \in 2 .. Len(p) : Dest(p[k]) # i
    <3> TAKE k \in 2 .. Len(p)
    <3>1. k - 1 \in 1 .. Len(q) /\ q[k - 1] = p[k]
        BY <1>1, <1>2
    <3> QED
        BY <1>4, <3>1
  <2>2. CASE i = Dest(p[1])
    <3>1. 1 \in 1 .. Len(p) /\ \A j \in 2 .. Len(p) : Dest(p[j]) # Dest(p[1])
        BY <1>1, <2>1, <2>2
    <3> QED
        BY <2>2, <3>1 DEF Fits
  <2>3. CASE i # Dest(p[1])
      BY <1>1, <2>1, <2>3 DEF Fits
  <2> QED
      BY <2>2, <2>3
<1>5. ASSUME NEW k \in 1 .. Len(q)
      PROVE  \/ \E j \in k + 1 .. Len(q) : Dest(q[j]) = Dest(q[k])
             \/ q[k].from = -1 /\ q[k].g = f[Dest(q[k])]
             \/ /\ q[k].from # -1 /\ c[q[k].from] = f[Dest(q[k])]
                /\ \A j \in 1 .. k - 1 : Dest(q[j]) # q[k].from
  <2>1. k + 1 \in 1 .. Len(p) /\ q[k] = p[k + 1]
      BY <1>1, <1>2
  <2>2. CASE \E j \in k + 2 .. Len(p) : Dest(p[j]) = Dest(p[k + 1])
    <3>1. PICK j \in k + 2 .. Len(p) : Dest(p[j]) = Dest(p[k + 1])
        BY <2>2
    <3>2. j - 1 \in k + 1 .. Len(q) /\ q[j - 1] = p[j]
        BY <1>1, <1>2
    <3> QED
        BY <2>1, <3>1, <3>2
  <2>3. CASE p[k + 1].from = -1 /\ p[k + 1].g = f[Dest(p[k + 1])]
      BY <2>1, <2>3
  <2>4. CASE /\ p[k + 1].from # -1 /\ b[p[k + 1].from] = f[Dest(p[k + 1])]
             /\ \A j \in 1 .. k : Dest(p[j]) # p[k + 1].from
    <3>3. p[k + 1].from \in Cell
        BY <1>3, <2>1, <2>4 DEF Push
    <3>1. c[q[k].from] = f[Dest(q[k])]
        BY <1>1, <2>1, <2>4, <3>3
    <3>2. \A j \in 1 .. k - 1 : Dest(q[j]) # q[k].from
      <4> TAKE j \in 1 .. k - 1
      <4>1. j + 1 \in 1 .. k /\ q[j] = p[j + 1]
          BY <1>1, <1>2
      <4> QED
          BY <2>1, <2>4, <4>1
    <3> QED
        BY <2>1, <2>4, <3>1, <3>2
  <2>5. (k + 1) + 1 = k + 2 /\ (k + 1) - 1 = k
      OBVIOUS
  <2> QED
      BY <2>1, <2>2, <2>3, <2>4, <2>5 DEF Fits
<1> QED
    BY <1>4, <1>5 DEF Fits, q

(* A character written after all pushes replaces what they left in a cell. *)
LEMMA FitsAppend ==
    ASSUME NEW p \in Seq(Push), NEW z \in Push, z.from = -1, NEW f, NEW b, NEW e,
           Fits(p, f, b), \A i \in Cell : e[i] = IF i = Dest(z) THEN z.g ELSE f[i]
    PROVE  Append(p, z) \in Seq(Push) /\ Append(p, z) # <<>> /\ Fits(Append(p, z), e, b)
<1> DEFINE q == Append(p, z)
<1>1. q \in Seq(Push) /\ q # <<>> /\ Len(p) \in Nat /\ Len(q) = Len(p) + 1
    OBVIOUS
<1>2. q[Len(q)] = z /\ \A k \in 1 .. Len(p) : q[k] = p[k]
    OBVIOUS
<1>3. Dest(z) \in Cell /\ \A k \in 1 .. Len(p) : Dest(p[k]) \in Cell
    BY DestCell
<1> HIDE DEF q
<1>4. ASSUME NEW i \in Cell, ~\E k \in 1 .. Len(q) : Dest(q[k]) = i
      PROVE  b[i] = e[i]
  <2>1. i # Dest(z)
      BY <1>1, <1>2, <1>4
  <2>2. ~\E k \in 1 .. Len(p) : Dest(p[k]) = i
      BY <1>1, <1>2, <1>4
  <2> QED
      BY <2>1, <2>2 DEF Fits
<1>5. ASSUME NEW k \in 1 .. Len(q)
      PROVE  \/ \E j \in k + 1 .. Len(q) : Dest(q[j]) = Dest(q[k])
             \/ q[k].from = -1 /\ q[k].g = e[Dest(q[k])]
             \/ /\ q[k].from # -1 /\ b[q[k].from] = e[Dest(q[k])]
                /\ \A j \in 1 .. k - 1 : Dest(q[j]) # q[k].from
  <2>1. CASE k = Len(q)
      BY <1>2, <1>3, <2>1
  <2>2. CASE k # Len(q) /\ Dest(p[k]) = Dest(z)
    <3>1. Len(q) \in k + 1 .. Len(q) /\ q[k] = p[k]
        BY <1>1, <1>2, <2>2
    <3> QED
        BY <1>2, <2>2, <3>1
  <2>3. CASE k # Len(q) /\ Dest(p[k]) # Dest(z)
    <3>1. k \in 1 .. Len(p) /\ q[k] = p[k] /\ e[Dest(p[k])] = f[Dest(p[k])]
        BY <1>1, <1>2, <1>3, <2>3
    <3>2. \A j \in k + 1 .. Len(p) : j \in k + 1 .. Len(q) /\ q[j] = p[j]
        BY <1>1, <1>2
    <3>3. \A j \in 1 .. k - 1 : q[j] = p[j]
        BY <1>1, <1>2, <3>1
    <3> QED
        BY <3>1, <3>2, <3>3 DEF Fits
  <2> QED
      BY <2>1, <2>2, <2>3
<1> QED
    BY <1>1, <1>4, <1>5 DEF Fits, q

-----------------------------------------------------------------------------
(* The pushes of each operation lead to what Screen says of it. *)

\* The abstract screen of characters b and context cx.
ScreenOf(b, cx) ==
    [cell |-> b, x |-> cx.x, y |-> cx.y, fg |-> cx.fg, bg |-> cx.bg, save |-> cx.save,
     top |-> cx.top, bot |-> cx.bot, wrap |-> cx.wrap, scroll |-> cx.scroll,
     cursor |-> cx.cursor]

(* A function on 1 .. n is a sequence. *)
LEMMA FunctionSequence ==
    ASSUME NEW S, NEW n \in Nat, NEW s \in [1 .. n -> S]
    PROVE  s \in Seq(S) /\ Len(s) = n
    OBVIOUS

(* The rows of a scroll region, as cells. *)
LEMMA Region ==
    ASSUME NEW t \in 0 .. ROWS - 1, NEW b \in 1 .. ROWS, t < b
    PROVE  /\ t * COLS \in Nat /\ b * COLS \in Nat
           /\ t * COLS + COLS <= b * COLS /\ b * COLS <= ROWS * COLS
           /\ (t + 1) * COLS = t * COLS + COLS /\ (b - 1) * COLS = b * COLS - COLS
<1> USE FramebufferAssumption
<1>1. (t + 1) * COLS <= b * COLS
    BY Monotone
<1>2. b * COLS <= ROWS * COLS
    BY Monotone
<1>3. (t + 1) * COLS = t * COLS + COLS /\ (b - 1) * COLS = b * COLS - COLS
    OBVIOUS
<1>4. t * COLS \in Nat /\ b * COLS \in Nat
    OBVIOUS
<1> QED
    BY <1>1, <1>2, <1>3, <1>4

(* An empty character is a character. *)
LEMMA EmptyGlyph ==
    ASSUME NEW cx \in Context PROVE Empty(cx) \in Glyph
    BY FramebufferAssumption DEF Empty, Glyph, Context

(* The pushes of flanterm_fb_scroll write the cells of the region in       *)
(* order, each but those of the last line from one line below.             *)
LEMMA ScrollShape ==
    ASSUME NEW cx \in Context, cx.top < cx.bot, grid \in [Cell -> Glyph]
    PROVE  LET a == cx.top * COLS
               e == cx.bot * COLS
               p == ScrollPushes(cx)
           IN  /\ p \in Seq(Push) /\ Len(p) = e - a
               /\ \A k \in 1 .. e - a :
                    /\ Dest(p[k]) = a + k - 1
                    /\ k <= e - a - COLS => p[k].from = a + k - 1 + COLS
                    /\ k > e - a - COLS => p[k].from = -1 /\ p[k].g = Empty(cx)
<1> DEFINE a == cx.top * COLS
           e == cx.bot * COLS
           start == (cx.top + 1) * COLS
           moved == e - start
           p == ScrollPushes(cx)
<1> USE FramebufferAssumption
<1>1. cx.top \in 0 .. ROWS - 1 /\ cx.bot \in 1 .. ROWS
    BY DEF Context
<1>2. /\ a \in Nat /\ e \in Nat /\ a + COLS <= e /\ e <= ROWS * COLS /\ start = a + COLS
      /\ (cx.bot - 1) * COLS = e - COLS
    BY <1>1, Region
<1>3. moved \in Nat /\ moved + COLS = e - a
    BY <1>2
<1>4. p = [k \in 1 .. moved + COLS |->
             IF k <= moved
             THEN Copy(((start + k - 1) - COLS) % COLS, ((start + k - 1) - COLS) \div COLS, start + k - 1)
             ELSE Char(k - moved - 1, cx.bot - 1, Empty(cx))]
    BY DEF ScrollPushes
<1> HIDE DEF a, e, start, moved, p
<1>5. ASSUME NEW k \in 1 .. moved + COLS, k <= moved
      PROVE  p[k] \in Push /\ Dest(p[k]) = a + k - 1 /\ p[k].from = a + k - 1 + COLS
  <2> DEFINE n == (start + k - 1) - COLS
  <2>1. n \in Cell /\ start + k - 1 \in Cell /\ n = a + k - 1 /\ start + k - 1 = a + k - 1 + COLS
      BY <1>2, <1>3, <1>5, Size DEF Cell
  <2>2. n % COLS \in 0 .. COLS - 1 /\ n \div COLS \in 0 .. ROWS - 1 /\ At(n % COLS, n \div COLS) = n
      BY <2>1, AtDivMod
  <2>3. p[k] = Copy(n % COLS, n \div COLS, start + k - 1)
      BY <1>4, <1>5
  <2> HIDE DEF n
  <2>4. p[k] \in Push /\ p[k].x = n % COLS /\ p[k].y = n \div COLS /\ p[k].from = start + k - 1
      BY <2>1, <2>2, <2>3 DEF Copy, Push
  <2> QED
      BY <2>1, <2>2, <2>4 DEF Dest
<1>6. ASSUME NEW k \in 1 .. moved + COLS, ~(k <= moved)
      PROVE  p[k] \in Push /\ Dest(p[k]) = a + k - 1 /\ p[k].from = -1 /\ p[k].g = Empty(cx)
  <2>1. p[k] = Char(k - moved - 1, cx.bot - 1, Empty(cx))
      BY <1>4, <1>6
  <2>2. k - moved - 1 \in 0 .. COLS - 1 /\ cx.bot - 1 \in 0 .. ROWS - 1
      BY <1>1, <1>3, <1>6
  <2>3. /\ p[k] \in Push /\ p[k].x = k - moved - 1 /\ p[k].y = cx.bot - 1
        /\ p[k].from = -1 /\ p[k].g = Empty(cx)
      BY <2>1, <2>2, EmptyGlyph DEF Char, Push
  <2>4. Dest(p[k]) = (cx.bot - 1) * COLS + (k - moved - 1)
      BY <2>3 DEF Dest, At
  <2> QED
      BY <1>2, <1>3, <2>2, <2>3, <2>4
<1>7. p \in Seq(Push) /\ Len(p) = moved + COLS
  <2>1. moved + COLS \in Nat
      BY <1>3
  <2>2. p \in [1 .. moved + COLS -> Push]
      BY <1>4, <1>5, <1>6
  <2> QED
      BY <2>1, <2>2, FunctionSequence
<1>8. p \in Seq(Push) /\ Len(p) = e - a /\ moved = e - a - COLS
    BY <1>2, <1>3, <1>7 DEF moved
<1>9. ASSUME NEW k \in 1 .. e - a
      PROVE  /\ Dest(p[k]) = a + k - 1
             /\ k <= e - a - COLS => p[k].from = a + k - 1 + COLS
             /\ k > e - a - COLS => p[k].from = -1 /\ p[k].g = Empty(cx)
  <2>1. k \in 1 .. moved + COLS /\ (k <= e - a - COLS <=> k <= moved)
      BY <1>3, <1>8
  <2>2. k > e - a - COLS => ~(k <= moved)
      BY <1>2, <1>8
  <2> QED
      BY <1>5, <1>6, <2>1, <2>2
<1> QED
    BY <1>8, <1>9 DEF a, e, p

(* flanterm_fb_scroll scrolls the characters. *)
LEMMA ScrollFits ==
    ASSUME NEW cx \in Context, cx.top < cx.bot, grid \in [Cell -> Glyph], NEW b \in [Cell -> Glyph]
    PROVE  /\ ScrollPushes(cx) \in Seq(Push) /\ ScrollPushes(cx) # <<>>
           /\ Abstract!Scroll(ScreenOf(b, cx)).cell \in [Cell -> Glyph]
           /\ Fits(ScrollPushes(cx), Abstract!Scroll(ScreenOf(b, cx)).cell, b)
<1> DEFINE a == cx.top * COLS
           e == cx.bot * COLS
           p == ScrollPushes(cx)
           f == Abstract!Scroll(ScreenOf(b, cx)).cell
<1> USE FramebufferAssumption
<1>1. /\ a \in Nat /\ e \in Nat /\ a + COLS <= e /\ e <= ROWS * COLS
      /\ (cx.bot - 1) * COLS = e - COLS
    BY Region DEF Context
<1>2. f = [i \in Cell |-> IF i \in a .. (e - COLS) - 1 THEN b[i + COLS]
                          ELSE IF i \in e - COLS .. e - 1 THEN Empty(cx) ELSE b[i]]
    BY <1>1 DEF Abstract!Scroll, ScreenOf, Abstract!At, Abstract!Cell, Cell, Abstract!Empty, Empty
<1>3. /\ p \in Seq(Push) /\ Len(p) = e - a
      /\ \A k \in 1 .. e - a :
           /\ Dest(p[k]) = a + k - 1
           /\ k <= e - a - COLS => p[k].from = a + k - 1 + COLS
           /\ k > e - a - COLS => p[k].from = -1 /\ p[k].g = Empty(cx)
    BY ScrollShape
<1> HIDE DEF a, e, p, f
<1>4. f \in [Cell -> Glyph]
    BY <1>1, <1>2, EmptyGlyph DEF Cell
<1>5. ASSUME NEW i \in Cell, ~\E k \in 1 .. Len(p) : Dest(p[k]) = i
      PROVE  b[i] = f[i]
  <2>1. ~(i \in a .. e - 1)
    <3> SUFFICES ASSUME i \in a .. e - 1 PROVE FALSE
        OBVIOUS
    <3>1. (i - a) + 1 \in 1 .. e - a /\ a + ((i - a) + 1) - 1 = i
        BY <1>1 DEF Cell
    <3> QED
        BY <1>3, <1>5, <3>1
  <2> QED
      BY <1>1, <1>2, <2>1 DEF Cell
<1>6. ASSUME NEW k \in 1 .. Len(p), k <= e - a - COLS
      PROVE  /\ p[k].from # -1 /\ b[p[k].from] = f[Dest(p[k])]
             /\ \A j \in 1 .. k - 1 : Dest(p[j]) # p[k].from
  <2>1. Dest(p[k]) = a + k - 1 /\ p[k].from = a + k - 1 + COLS
      BY <1>3, <1>6
  <2>2. k \in Nat /\ 1 <= k
      BY <1>3
  <2>3. a + k - 1 \in Cell /\ a + k - 1 \in a .. (e - COLS) - 1
      BY <1>1, <1>6, <2>2, Size DEF Cell
  <2>4. b[p[k].from] = f[Dest(p[k])]
      BY <1>2, <2>1, <2>3
  <2>5. \A j \in 1 .. k - 1 : Dest(p[j]) = a + j - 1
      BY <1>1, <1>3
  <2> QED
      BY <1>1, <2>1, <2>2, <2>4, <2>5
<1>7. ASSUME NEW k \in 1 .. Len(p), ~(k <= e - a - COLS)
      PROVE  p[k].from = -1 /\ p[k].g = f[Dest(p[k])]
  <2>1. Dest(p[k]) = a + k - 1 /\ p[k].from = -1 /\ p[k].g = Empty(cx)
      BY <1>1, <1>3, <1>7
  <2>2. a + k - 1 \in Cell /\ a + k - 1 \in e - COLS .. e - 1
      BY <1>1, <1>3, <1>7, Size DEF Cell
  <2> QED
      BY <1>1, <1>2, <2>1, <2>2
<1>8. p # <<>>
    BY <1>1, <1>3
<1> QED
    BY <1>3, <1>4, <1>5, <1>6, <1>7, <1>8 DEF Fits, p, f

(* The pushes of flanterm_fb_revscroll write the region backwards, each    *)
(* cell from one line above, and then its first line.                      *)
LEMMA RevScrollShape ==
    ASSUME NEW cx \in Context, cx.top < cx.bot, grid \in [Cell -> Glyph]
    PROVE  LET a == cx.top * COLS
               e == cx.bot * COLS
               p == RevScrollPushes(cx)
           IN  /\ p \in Seq(Push) /\ Len(p) = e - a
               /\ \A k \in 1 .. e - a :
                    /\ k <= e - a - COLS => Dest(p[k]) = e - k /\ p[k].from = e - k - COLS
                    /\ k > e - a - COLS => /\ Dest(p[k]) = a + (k - (e - a - COLS) - 1)
                                           /\ p[k].from = -1 /\ p[k].g = Empty(cx)
<1> DEFINE a == cx.top * COLS
           e == cx.bot * COLS
           end == (cx.bot - 1) * COLS
           moved == end - a
           p == RevScrollPushes(cx)
<1> USE FramebufferAssumption
<1>1. cx.top \in 0 .. ROWS - 1 /\ cx.bot \in 1 .. ROWS
    BY DEF Context
<1>2. /\ a \in Nat /\ e \in Nat /\ a + COLS <= e /\ e <= ROWS * COLS /\ end = e - COLS
    BY <1>1, Region
<1>3. moved \in Nat /\ moved + COLS = e - a
    BY <1>2
<1>4. p = [k \in 1 .. moved + COLS |->
             IF k <= moved
             THEN Copy((end - k + COLS) % COLS, (end - k + COLS) \div COLS, end - k)
             ELSE Char(k - moved - 1, cx.top, Empty(cx))]
    BY DEF RevScrollPushes
<1>5. cx.top * COLS = a
    OBVIOUS
<1> HIDE DEF a, e, end, moved, p
<1>6. ASSUME NEW k \in 1 .. moved + COLS, k <= moved
      PROVE  p[k] \in Push /\ Dest(p[k]) = e - k /\ p[k].from = e - k - COLS
  <2> DEFINE n == end - k + COLS
  <2>1. n \in Cell /\ end - k \in Cell /\ n = e - k /\ end - k = e - k - COLS
      BY <1>2, <1>3, <1>6, Size DEF Cell
  <2>2. n % COLS \in 0 .. COLS - 1 /\ n \div COLS \in 0 .. ROWS - 1 /\ At(n % COLS, n \div COLS) = n
      BY <2>1, AtDivMod
  <2>3. p[k] = Copy(n % COLS, n \div COLS, end - k)
      BY <1>4, <1>6
  <2> HIDE DEF n
  <2>4. p[k] \in Push /\ p[k].x = n % COLS /\ p[k].y = n \div COLS /\ p[k].from = end - k
      BY <2>1, <2>2, <2>3 DEF Copy, Push
  <2> QED
      BY <2>1, <2>2, <2>4 DEF Dest
<1>7. ASSUME NEW k \in 1 .. moved + COLS, ~(k <= moved)
      PROVE  p[k] \in Push /\ Dest(p[k]) = a + (k - moved - 1) /\ p[k].from = -1 /\ p[k].g = Empty(cx)
  <2>1. p[k] = Char(k - moved - 1, cx.top, Empty(cx))
      BY <1>4, <1>7
  <2>2. k - moved - 1 \in 0 .. COLS - 1
      BY <1>1, <1>3, <1>7
  <2>3. /\ p[k] \in Push /\ p[k].x = k - moved - 1 /\ p[k].y = cx.top
        /\ p[k].from = -1 /\ p[k].g = Empty(cx)
      BY <1>1, <2>1, <2>2, EmptyGlyph DEF Char, Push
  <2> QED
      BY <1>5, <2>3 DEF Dest, At
<1>8. p \in Seq(Push) /\ Len(p) = moved + COLS
  <2>1. moved + COLS \in Nat
      BY <1>3
  <2>2. p \in [1 .. moved + COLS -> Push]
      BY <1>4, <1>6, <1>7
  <2> QED
      BY <2>1, <2>2, FunctionSequence
<1>9. moved = e - a - COLS
    BY <1>2 DEF moved
<1>10. p \in Seq(Push) /\ Len(p) = e - a
    BY <1>3, <1>8
<1>11. ASSUME NEW k \in 1 .. e - a
       PROVE  /\ k <= e - a - COLS => Dest(p[k]) = e - k /\ p[k].from = e - k - COLS
              /\ k > e - a - COLS => /\ Dest(p[k]) = a + (k - (e - a - COLS) - 1)
                                     /\ p[k].from = -1 /\ p[k].g = Empty(cx)
  <2>1. k \in 1 .. moved + COLS /\ (k <= e - a - COLS <=> k <= moved)
      BY <1>3, <1>9
  <2>2. k > e - a - COLS => ~(k <= moved)
      BY <1>2, <1>9
  <2> QED
      BY <1>6, <1>7, <1>9, <2>1, <2>2
<1> QED
    BY <1>10, <1>11 DEF a, e, p

(* flanterm_fb_revscroll scrolls the characters back. *)
LEMMA RevScrollFits ==
    ASSUME NEW cx \in Context, cx.top < cx.bot, grid \in [Cell -> Glyph], NEW b \in [Cell -> Glyph]
    PROVE  /\ RevScrollPushes(cx) \in Seq(Push) /\ RevScrollPushes(cx) # <<>>
           /\ Abstract!RevScroll(ScreenOf(b, cx)).cell \in [Cell -> Glyph]
           /\ Fits(RevScrollPushes(cx), Abstract!RevScroll(ScreenOf(b, cx)).cell, b)
<1> DEFINE a == cx.top * COLS
           e == cx.bot * COLS
           p == RevScrollPushes(cx)
           f == Abstract!RevScroll(ScreenOf(b, cx)).cell
<1> USE FramebufferAssumption
<1>1. /\ a \in Nat /\ e \in Nat /\ a + COLS <= e /\ e <= ROWS * COLS
      /\ (cx.top + 1) * COLS = a + COLS
    BY Region DEF Context
<1>2. f = [i \in Cell |-> IF i \in a + COLS .. e - 1 THEN b[i - COLS]
                          ELSE IF i \in a .. (a + COLS) - 1 THEN Empty(cx) ELSE b[i]]
    BY <1>1 DEF Abstract!RevScroll, ScreenOf, Abstract!At, Abstract!Cell, Cell, Abstract!Empty, Empty
<1>3. /\ p \in Seq(Push) /\ Len(p) = e - a
      /\ \A k \in 1 .. e - a :
           /\ k <= e - a - COLS => Dest(p[k]) = e - k /\ p[k].from = e - k - COLS
           /\ k > e - a - COLS => /\ Dest(p[k]) = a + (k - (e - a - COLS) - 1)
                                  /\ p[k].from = -1 /\ p[k].g = Empty(cx)
    BY RevScrollShape
<1> HIDE DEF a, e, p, f
<1>4. f \in [Cell -> Glyph]
    BY <1>1, <1>2, EmptyGlyph DEF Cell
<1>5. ASSUME NEW i \in Cell, ~\E k \in 1 .. Len(p) : Dest(p[k]) = i
      PROVE  b[i] = f[i]
  <2>1. i \in Int
      BY Size DEF Cell
  <2>2. ~(i \in a + COLS .. e - 1)
    <3> SUFFICES ASSUME i \in a + COLS .. e - 1 PROVE FALSE
        OBVIOUS
    <3>1. e - i \in 1 .. e - a /\ e - i <= e - a - COLS /\ e - (e - i) = i
        BY <1>1, <2>1
    <3> QED
        BY <1>3, <1>5, <3>1
  <2>3. ~(i \in a .. (a + COLS) - 1)
    <3> SUFFICES ASSUME i \in a .. (a + COLS) - 1 PROVE FALSE
        OBVIOUS
    <3> DEFINE k == (i - a) + (e - a - COLS) + 1
    <3>1. k \in 1 .. e - a /\ k > e - a - COLS /\ a + (k - (e - a - COLS) - 1) = i
        BY <1>1, <2>1
    <3> QED
        BY <1>3, <1>5, <3>1
  <2> QED
      BY <1>2, <2>2, <2>3
<1>6. ASSUME NEW k \in 1 .. Len(p), k <= e - a - COLS
      PROVE  /\ p[k].from # -1 /\ b[p[k].from] = f[Dest(p[k])]
             /\ \A j \in 1 .. k - 1 : Dest(p[j]) # p[k].from
  <2>1. Dest(p[k]) = e - k /\ p[k].from = e - k - COLS
      BY <1>3, <1>6
  <2>2. k \in Nat /\ 1 <= k
      BY <1>3
  <2>3. e - k \in Cell /\ e - k \in a + COLS .. e - 1
      BY <1>1, <1>6, <2>2, Size DEF Cell
  <2>4. b[p[k].from] = f[Dest(p[k])]
      BY <1>2, <2>1, <2>3
  <2>5. \A j \in 1 .. k - 1 : Dest(p[j]) = e - j
    <3> TAKE j \in 1 .. k - 1
    <3>1. j \in 1 .. e - a /\ j <= e - a - COLS
        BY <1>1, <1>6, <2>2
    <3> QED
        BY <1>3, <3>1
  <2> QED
      BY <1>1, <1>6, <2>1, <2>2, <2>4, <2>5
<1>7. ASSUME NEW k \in 1 .. Len(p), ~(k <= e - a - COLS)
      PROVE  p[k].from = -1 /\ p[k].g = f[Dest(p[k])]
  <2>1. k \in 1 .. e - a /\ k > e - a - COLS
      BY <1>1, <1>3, <1>7
  <2> DEFINE d == a + (k - (e - a - COLS) - 1)
  <2>2. Dest(p[k]) = d /\ p[k].from = -1 /\ p[k].g = Empty(cx)
      BY <1>3, <2>1
  <2>3. d \in Cell /\ d \in a .. (a + COLS) - 1
      BY <1>1, <2>1, Size DEF Cell
  <2>4. ~(d \in a + COLS .. e - 1)
      BY <1>1, <2>1
  <2> QED
      BY <1>2, <2>2, <2>3, <2>4
<1>8. p # <<>>
    BY <1>1, <1>3
<1> QED
    BY <1>3, <1>4, <1>5, <1>6, <1>7, <1>8 DEF Fits, p, f

(* flanterm_fb_clear makes every cell empty. *)
LEMMA ClearFits ==
    ASSUME NEW cx \in Context, NEW b \in [Cell -> Glyph],
           NEW p, p = [k \in 1 .. ROWS * COLS |-> Char((k - 1) % COLS, (k - 1) \div COLS, Empty(cx))]
    PROVE  p \in Seq(Push) /\ p # <<>> /\ Fits(p, [i \in Cell |-> Empty(cx)], b)
<1> DEFINE f == [i \in Cell |-> Empty(cx)]
<1>1. ASSUME NEW k \in 1 .. ROWS * COLS
      PROVE  /\ p[k] \in Push /\ p[k].from = -1 /\ p[k].g = Empty(cx)
             /\ Dest(p[k]) = k - 1 /\ k - 1 \in Cell
  <2> DEFINE n == k - 1
  <2>1. n \in Cell
      BY Size DEF Cell
  <2>2. n % COLS \in 0 .. COLS - 1 /\ n \div COLS \in 0 .. ROWS - 1 /\ At(n % COLS, n \div COLS) = n
      BY <2>1, AtDivMod
  <2>3. p[k] = Char(n % COLS, n \div COLS, Empty(cx))
      OBVIOUS
  <2> HIDE DEF n
  <2>4. /\ p[k] \in Push /\ p[k].x = n % COLS /\ p[k].y = n \div COLS
        /\ p[k].from = -1 /\ p[k].g = Empty(cx)
      BY <2>2, <2>3, EmptyGlyph DEF Char, Push
  <2>5. Dest(p[k]) = n
      BY <2>2, <2>4 DEF Dest
  <2> QED
      BY <2>1, <2>4, <2>5 DEF n
<1>2. p \in Seq(Push) /\ Len(p) = ROWS * COLS
  <2>1. p \in [1 .. ROWS * COLS -> Push]
      BY <1>1
  <2> QED
      BY <2>1, Size, FunctionSequence
<1>3. \A i \in Cell : i + 1 \in 1 .. Len(p) /\ Dest(p[i + 1]) = i
  <2> TAKE i \in Cell
  <2>1. i + 1 \in 1 .. ROWS * COLS /\ (i + 1) - 1 = i
      BY Size DEF Cell
  <2> QED
      BY <1>1, <1>2, <2>1
<1>4. \A k \in 1 .. Len(p) : p[k].from = -1 /\ p[k].g = f[Dest(p[k])]
    BY <1>1, <1>2
<1>5. p # <<>>
    BY <1>2, Size
<1> QED
    BY <1>2, <1>3, <1>4, <1>5 DEF Fits

-----------------------------------------------------------------------------
(* The inductive invariant. *)

\* The characters the screen will have, queued changes included.
Contents == [i \in Cell |-> Content(i)]

\* What the backend stands for, and one operation that is several pushes.
Scr == ScreenOf(before.cell, before.ctx)
Operation(s, t) ==
    \/ \E c \in Chars : t = Abstract!RawPutchar(s, c)
    \/ t = Abstract!Scroll(s)
    \/ t = Abstract!RevScroll(s)
    \/ \E move \in BOOLEAN : t = Abstract!Clear(s, move)
    \/ \E nx, ox \in 0 .. COLS, ny, oy \in 0 .. ROWS : t = Abstract!MoveChar(s, nx, ny, ox, oy)

\* Between operations before is the screen as it is; during one, the pushes
\* left lead from what is there to what the operation makes of before.
Progress ==
    /\ todo = <<>> => before = Screen(Contents, ctx)
    /\ todo # <<>> => \E f \in [Cell -> Glyph] :
                         Fits(todo, f, Contents) /\ Operation(Scr, ScreenOf(f, ctx))

Inv == Types /\ QueueExact /\ OneCursor /\ Progress

(* What the cells will show once the queue is flushed are characters. *)
LEMMA ContentsType ==
    ASSUME Types, QueueExact PROVE Contents \in [Cell -> Glyph]
    BY ContentGlyph DEF Contents

(* An operation that pushes begins. *)
LEMMA BeginPushes ==
    ASSUME Inv, NEW cx \in Context, cx.top < cx.bot,
           NEW p \in Seq(Push), p # <<>>, Begin(cx, p),
           NEW f \in [Cell -> Glyph], Fits(p, f, before.cell), Operation(Scr, ScreenOf(f, cx))
    PROVE  Inv' /\ UNCHANGED <<Scr, shown>>
<1>1. UNCHANGED <<grid, map, queue, old, shown, before>> /\ ctx' = cx /\ todo' = p
    BY DEF Begin
<1>2. todo = <<>> /\ ops' \in 0 .. MaxOps
    BY FramebufferAssumption DEF Begin, Inv, Types
<1>3. Types'
    BY <1>1, <1>2 DEF Inv, Types
<1>4. QueueExact' /\ OneCursor'
    BY <1>1 DEF Inv, QueueExact, OneCursor
<1>5. Contents' = Contents /\ Contents = before.cell
    BY <1>1, <1>2 DEF Inv, Progress, Screen, Contents, Content, Pending
<1>6. Scr' = Scr
    BY <1>1 DEF Scr
<1>7. Progress'
  <2>1. Fits(todo', f, Contents')
      BY <1>1, <1>5
  <2>2. Operation(Scr', ScreenOf(f, ctx'))
      BY <1>1, <1>6
  <2>3. Fits(todo, f, Contents)' /\ Operation(Scr, ScreenOf(f, ctx))'
      BY <1>1, <2>1, <2>2 DEF Fits, Operation, ScreenOf, Dest, At
  <2> QED
      BY <1>1, <2>3 DEF Progress
<1> QED
    BY <1>1, <1>3, <1>4, <1>6, <1>7 DEF Inv

(* An operation that only changes the context. *)
LEMMA BeginPlain ==
    ASSUME Inv, NEW cx \in Context, cx.top < cx.bot, Begin(cx, <<>>)
    PROVE  Inv' /\ Scr' = ScreenOf(before.cell, cx) /\ UNCHANGED shown /\ before.ctx = ctx
<1>1. /\ UNCHANGED <<grid, map, queue, old, shown>> /\ ctx' = cx /\ todo' = <<>> /\ todo = <<>>
      /\ before' = [before EXCEPT !.ctx = cx]
    BY DEF Begin
<1>2. ops' \in 0 .. MaxOps
    BY FramebufferAssumption DEF Begin, Inv, Types
<1>3. before = Screen(Contents, ctx)
    BY <1>1 DEF Inv, Progress
<1>4. before' = Screen(Contents, cx) /\ before'.cell = before.cell /\ before'.ctx = cx
    BY <1>1, <1>3 DEF Screen
<1>5. Types'
    BY <1>1, <1>2, <1>4 DEF Inv, Types
<1>6. QueueExact' /\ OneCursor'
    BY <1>1 DEF Inv, QueueExact, OneCursor
<1>7. Contents' = Contents
    BY <1>1 DEF Contents, Content, Pending
<1>8. Progress'
    BY <1>1, <1>4, <1>7 DEF Progress, Screen
<1> QED
    BY <1>1, <1>3, <1>4, <1>5, <1>6, <1>8 DEF Inv, Scr, Screen

(* The next push of an operation: the screen changes with the last one. *)
LEMMA StepInv ==
    ASSUME Inv, Step
    PROVE  Inv' /\ (Operation(Scr, Scr') \/ UNCHANGED Scr) /\ UNCHANGED shown
<1> DEFINE p == Head(todo)
<1>1. /\ todo # <<>> /\ push_to_queue(p) /\ todo' = Tail(todo)
      /\ UNCHANGED <<grid, ctx, old, shown, ops>>
    BY DEF Step
<1>2. /\ p \in Push /\ p = todo[1] /\ todo \in Seq(Push) /\ todo' \in Seq(Push)
      /\ Len(todo) \in Nat /\ Len(todo') = Len(todo) - 1
    BY <1>1 DEF Inv, Types
<1> HIDE DEF p
<1>3. /\ map' \in [Cell -> 0 .. ROWS * COLS]
      /\ queue' \in Seq(Item) /\ Len(queue') <= ROWS * COLS
      /\ QueueExact'
      /\ \A i \in Cell : Content(i)' = IF i = At(p.x, p.y) THEN Value(p) ELSE Content(i)
    BY <1>1, <1>2, PushExact DEF Inv
<1>4. PICK f \in [Cell -> Glyph] : Fits(todo, f, Contents) /\ Operation(Scr, ScreenOf(f, ctx))
    BY <1>1 DEF Inv, Progress
<1>5. \A i \in Cell : Contents'[i] = IF i # Dest(todo[1]) THEN Contents[i]
                                     ELSE IF todo[1].from = -1 THEN todo[1].g ELSE Contents[todo[1].from]
    BY <1>2, <1>3 DEF Contents, Dest, Value, Push
<1>6. Fits(todo', f, Contents')
    BY <1>1, <1>2, <1>4, <1>5, FitsTail
<1>7. CASE todo' # <<>>
  <2>1. before' = before
      BY <1>1, <1>7 DEF Step
  <2>2. Types'
      BY <1>1, <1>2, <1>3, <2>1 DEF Inv, Types
  <2>3. OneCursor'
      BY <1>1 DEF Inv, OneCursor
  <2>4. Scr' = Scr
      BY <2>1 DEF Scr
  <2>5. Progress'
    <3>1. Operation(Scr', ScreenOf(f, ctx'))
        BY <1>1, <1>4, <2>4
    <3>2. Fits(todo, f, Contents)' /\ Operation(Scr, ScreenOf(f, ctx))'
        BY <1>6, <3>1 DEF Fits, Operation, ScreenOf, Dest, At
    <3> QED
        BY <1>7, <3>2 DEF Progress
  <2> QED
      BY <1>1, <1>3, <2>2, <2>3, <2>4, <2>5 DEF Inv
<1>8. CASE todo' = <<>>
  <2>1. Contents' = f
    <3>1. Len(todo') = 0
        BY <1>8
    <3>2. \A i \in Cell : Contents'[i] = f[i]
        BY <1>6, <3>1 DEF Fits
    <3> QED
        BY <3>2 DEF Contents
  <2>2. before' = Screen(Contents', ctx)
      BY <1>1, <1>8 DEF Step, Contents, Content, Pending
  <2>3. before' = Screen(f, ctx)
      BY <2>1, <2>2
  <2>4. Types'
    <3>1. before' \in [cell : [Cell -> Glyph], ctx : Context] /\ before'.ctx = ctx
        BY <2>3 DEF Screen, Inv, Types
    <3> QED
        BY <1>1, <1>2, <1>3, <3>1 DEF Inv, Types
  <2>5. OneCursor'
      BY <1>1 DEF Inv, OneCursor
  <2>6. Progress'
      BY <1>1, <1>8, <2>2 DEF Progress, Screen
  <2>7. Scr' = ScreenOf(f, ctx)
      BY <2>3 DEF Scr, Screen, ScreenOf
  <2> QED
      BY <1>1, <1>3, <1>4, <2>4, <2>5, <2>6, <2>7 DEF Inv
<1> QED
    BY <1>7, <1>8

-----------------------------------------------------------------------------
(* Each operation keeps the invariant and is a step of the screen. *)

\* A step of the screen the backend stands for.
ScreenStep == [Abstract!ScreenNext]_<<Scr, shown>>

(* An operation of several pushes, and one that changes the context only,  *)
(* are steps of the screen, the first when the last push is made.          *)
LEMMA OperationStep ==
    ASSUME Operation(Scr, Scr') \/ UNCHANGED Scr, UNCHANGED shown
    PROVE  ScreenStep
    BY DEF ScreenStep, Operation, Abstract!ScreenNext, Abstract!Frontend, Scr, ScreenOf

(* flanterm_fb_scroll and flanterm_fb_revscroll. *)
LEMMA ScrollInv ==
    ASSUME Inv, scroll \/ revscroll PROVE Inv' /\ ScreenStep
<1> DEFINE b == before.cell
<1>1. todo = <<>> /\ before.ctx = ctx /\ ctx \in Context /\ ctx.top < ctx.bot
    BY DEF scroll, revscroll, Begin, Inv, Types, Progress, Screen
<1>2. b \in [Cell -> Glyph] /\ grid \in [Cell -> Glyph] /\ Scr = ScreenOf(b, ctx)
    BY <1>1 DEF Inv, Types, Scr
<1>3. CASE scroll
  <2> DEFINE f == Abstract!Scroll(Scr).cell
  <2>1. Abstract!Scroll(Scr) = ScreenOf(f, ctx)
      BY <1>2 DEF Abstract!Scroll, ScreenOf
  <2>2. ScrollPushes(ctx) \in Seq(Push) /\ ScrollPushes(ctx) # <<>> /\ f \in [Cell -> Glyph]
        /\ Fits(ScrollPushes(ctx), f, b)
      BY <1>1, <1>2, ScrollFits
  <2>3. Operation(Scr, ScreenOf(f, ctx)) /\ Begin(ctx, ScrollPushes(ctx))
      BY <1>3, <2>1 DEF Operation, scroll
  <2>4. Inv' /\ UNCHANGED <<Scr, shown>>
      BY <1>1, <2>2, <2>3, BeginPushes
  <2> QED
      BY <2>4 DEF ScreenStep
<1>4. CASE revscroll
  <2> DEFINE f == Abstract!RevScroll(Scr).cell
  <2>1. Abstract!RevScroll(Scr) = ScreenOf(f, ctx)
      BY <1>2 DEF Abstract!RevScroll, ScreenOf
  <2>2. RevScrollPushes(ctx) \in Seq(Push) /\ RevScrollPushes(ctx) # <<>> /\ f \in [Cell -> Glyph]
        /\ Fits(RevScrollPushes(ctx), f, b)
      BY <1>1, <1>2, RevScrollFits
  <2>3. Operation(Scr, ScreenOf(f, ctx)) /\ Begin(ctx, RevScrollPushes(ctx))
      BY <1>4, <2>1 DEF Operation, revscroll
  <2>4. Inv' /\ UNCHANGED <<Scr, shown>>
      BY <1>1, <2>2, <2>3, BeginPushes
  <2> QED
      BY <2>4 DEF ScreenStep
<1> QED
    BY <1>3, <1>4

\* A context whose cursor moved.
Moved(cx, u, v) == [cx EXCEPT !.x = u, !.y = v]

(* Moving the cursor changes nothing else of the context. *)
LEMMA MovedContext ==
    ASSUME NEW cx \in Context, NEW u \in 0 .. COLS, NEW v \in 0 .. ROWS - 1,
           NEW d, d = Moved(cx, u, v)
    PROVE  /\ d \in Context /\ d.x = u /\ d.y = v /\ d.fg = cx.fg /\ d.bg = cx.bg
           /\ d.save = cx.save /\ d.top = cx.top /\ d.bot = cx.bot /\ d.wrap = cx.wrap
           /\ d.scroll = cx.scroll /\ d.cursor = cx.cursor
    BY DEF Context, Moved

(* The same of the screen, whose characters stay. *)
LEMMA MovedScreen ==
    ASSUME NEW cx \in Context, NEW u \in 0 .. COLS, NEW v \in 0 .. ROWS - 1, NEW b
    PROVE  Moved(ScreenOf(b, cx), u, v) = ScreenOf(b, Moved(cx, u, v))
<1> DEFINE s == ScreenOf(b, cx)
           m == [cell |-> b, x |-> u, y |-> cx.y, fg |-> cx.fg, bg |-> cx.bg, save |-> cx.save,
                 top |-> cx.top, bot |-> cx.bot, wrap |-> cx.wrap, scroll |-> cx.scroll,
                 cursor |-> cx.cursor]
<1>1. [s EXCEPT !.x = u] = m
    BY DEF ScreenOf
<1>2. [m EXCEPT !.y = v] = ScreenOf(b, Moved(cx, u, v))
    BY MovedContext DEF ScreenOf
<1>3. Moved(s, u, v) = [[s EXCEPT !.x = u] EXCEPT !.y = v]
    BY DEF Moved
<1> HIDE DEF s, m
<1> QED
    BY <1>1, <1>2, <1>3 DEF s

(* flanterm_fb_clear. *)
LEMMA ClearInv ==
    ASSUME Inv, NEW move \in BOOLEAN, clear(move) PROVE Inv' /\ ScreenStep
<1> DEFINE b == before.cell
           p == [k \in 1 .. ROWS * COLS |-> Char((k - 1) % COLS, (k - 1) \div COLS, Empty(ctx))]
           u == IF move THEN 0 ELSE ctx.x
           v == IF move THEN 0 ELSE ctx.y
           cx == Moved(ctx, u, v)
           f == [i \in Cell |-> Empty(ctx)]
<1>1. todo = <<>> /\ before.ctx = ctx /\ ctx \in Context /\ ctx.top < ctx.bot
    BY DEF clear, Begin, Inv, Types, Progress, Screen
<1>2. b \in [Cell -> Glyph] /\ Scr = ScreenOf(b, ctx)
    BY <1>1 DEF Inv, Types, Scr
<1>3. Begin(cx, p)
    BY DEF clear, Moved
<1>4. /\ cx \in Context /\ cx.x = u /\ cx.y = v /\ cx.fg = ctx.fg /\ cx.bg = ctx.bg
      /\ cx.save = ctx.save /\ cx.top = ctx.top /\ cx.bot = ctx.bot /\ cx.wrap = ctx.wrap
      /\ cx.scroll = ctx.scroll /\ cx.cursor = ctx.cursor
  <2>1. u \in 0 .. COLS /\ v \in 0 .. ROWS - 1
      BY <1>1, FramebufferAssumption DEF Context
  <2> HIDE DEF u, v
  <2> QED
      BY <1>1, <2>1, MovedContext
<1>5. p \in Seq(Push) /\ p # <<>> /\ Fits(p, f, b)
    BY <1>1, <1>2, ClearFits
<1>6. f \in [Cell -> Glyph]
    BY <1>1, EmptyGlyph
<1>7. Abstract!Clear(Scr, move) = ScreenOf(f, cx)
  <2> DEFINE s == [Scr EXCEPT !.cell = f]
  <2>1. s = ScreenOf(f, ctx) /\ u \in 0 .. COLS /\ v \in 0 .. ROWS - 1
      BY <1>1, <1>2, FramebufferAssumption DEF ScreenOf, Context
  <2>2. Abstract!Clear(Scr, move) = [Scr EXCEPT !.cell = f, !.x = u, !.y = v]
      BY <1>2 DEF Abstract!Clear, ScreenOf, Abstract!Cell, Cell, Abstract!Empty, Empty
  <2> HIDE DEF u, v, f
  <2>3. [Scr EXCEPT !.cell = f, !.x = u, !.y = v] = Moved(s, u, v)
      BY DEF Moved
  <2> HIDE DEF s
  <2> QED
      BY <1>1, <2>1, <2>2, <2>3, MovedScreen
<1> HIDE DEF b, p, cx, f
<1>8. Operation(Scr, ScreenOf(f, cx))
    BY <1>7 DEF Operation
<1>9. Inv' /\ UNCHANGED <<Scr, shown>>
    BY <1>1, <1>3, <1>4, <1>5, <1>6, <1>8, BeginPushes DEF b
<1> QED
    BY <1>9 DEF ScreenStep

(* flanterm_fb_move_character. *)
LEMMA MoveInv ==
    ASSUME Inv, NEW nx \in 0 .. COLS, NEW ox \in 0 .. COLS, NEW ny \in 0 .. ROWS, NEW oy \in 0 .. ROWS,
           move_character(nx, ny, ox, oy)
    PROVE  Inv' /\ ScreenStep
<1> DEFINE b == before.cell
           z == Copy(nx, ny, At(ox, oy))
           f == [b EXCEPT ![At(nx, ny)] = b[At(ox, oy)]]
<1>1. todo = <<>> /\ before.ctx = ctx /\ ctx \in Context /\ ctx.top < ctx.bot
    BY DEF move_character, Begin, Inv, Types, Progress, Screen
<1>2. b \in [Cell -> Glyph] /\ grid \in [Cell -> Glyph] /\ Scr = ScreenOf(b, ctx)
    BY <1>1 DEF Inv, Types, Scr
<1>3. /\ nx \in 0 .. COLS - 1 /\ ox \in 0 .. COLS - 1 /\ ny \in 0 .. ROWS - 1 /\ oy \in 0 .. ROWS - 1
      /\ Begin(ctx, <<z>>)
    BY FramebufferAssumption DEF move_character
<1>4. At(nx, ny) \in Cell /\ At(ox, oy) \in Cell
    BY <1>3, AtCell
<1>5. z \in Push /\ Dest(z) = At(nx, ny) /\ z.from = At(ox, oy) /\ z.from # -1
    BY <1>2, <1>3, <1>4, Size DEF Copy, Push, Dest, Cell
<1>6. f \in [Cell -> Glyph]
    BY <1>2, <1>4
<1> HIDE DEF z
<1>7. <<z>> \in Seq(Push) /\ <<z>> # <<>> /\ Len(<<z>>) = 1 /\ <<z>>[1] = z
    BY <1>5
<1>8. Fits(<<z>>, f, b)
    BY <1>2, <1>4, <1>5, <1>7 DEF Fits
<1>9. Abstract!MoveChar(Scr, nx, ny, ox, oy) = ScreenOf(f, ctx)
    BY <1>2, <1>3, <1>4, FramebufferAssumption
       DEF Abstract!MoveChar, Abstract!Put, ScreenOf, Abstract!At, At
<1> HIDE DEF f, b
<1>10. Operation(Scr, ScreenOf(f, ctx))
    BY <1>9 DEF Operation
<1>11. Inv' /\ UNCHANGED <<Scr, shown>>
    BY <1>1, <1>3, <1>6, <1>7, <1>8, <1>10, BeginPushes DEF b
<1> QED
    BY <1>11 DEF ScreenStep

(* flanterm_fb_raw_putchar, with the wrap that was pending. *)
LEMMA PutcharInv ==
    ASSUME Inv, NEW c \in Chars, raw_putchar(c) PROVE Inv' /\ ScreenStep
<1> DEFINE b == before.cell
           full == ctx.x >= COLS
           wraps == full /\ ctx.wrap /\ (ctx.y < ctx.bot - 1 \/ ctx.scroll)
           scrolls == wraps /\ ctx.y + 1 = ctx.bot
           x == IF wraps THEN 0 ELSE IF full THEN COLS - 1 ELSE ctx.x
           y == PutRow(wraps, scrolls)
           g == [c |-> c, fg |-> ctx.fg, bg |-> ctx.bg]
           q == IF scrolls THEN ScrollPushes(ctx) ELSE <<>>
           e == IF scrolls THEN Abstract!Scroll(Scr).cell ELSE b
           f == [e EXCEPT ![At(x, y)] = g]
           w == Moved(ctx, x, y)
           cx == Moved(ctx, x + 1, y)
<1>1. todo = <<>> /\ before.ctx = ctx /\ ctx \in Context /\ ctx.top < ctx.bot
    BY DEF raw_putchar, Begin, Inv, Types, Progress, Screen
<1>2. b \in [Cell -> Glyph] /\ grid \in [Cell -> Glyph] /\ Scr = ScreenOf(b, ctx)
    BY <1>1 DEF Inv, Types, Scr
<1>3. Begin(cx, q \o <<Char(x, y, g)>>)
    BY DEF raw_putchar, Moved
<1>4. x \in 0 .. COLS - 1 /\ y \in 0 .. ROWS - 1 /\ g \in Glyph
    BY <1>1, FramebufferAssumption DEF Context, PutRow, Glyph
<1>5. At(x, y) \in Cell
    BY <1>4, AtCell
<1>6. Char(x, y, g) \in Push /\ Dest(Char(x, y, g)) = At(x, y) /\ Char(x, y, g).from = -1
      /\ Char(x, y, g).g = g
    BY <1>4 DEF Char, Push, Dest
<1>7. q \in Seq(Push) /\ e \in [Cell -> Glyph] /\ Fits(q, e, b)
  <2>1. CASE scrolls
      BY <1>1, <1>2, <2>1, ScrollFits
  <2>2. CASE ~scrolls
      BY <1>2, <2>2 DEF Fits
  <2> QED
      BY <2>1, <2>2
<1>8. /\ w \in Context /\ w.x = x /\ w.y = y /\ w.fg = ctx.fg /\ w.bg = ctx.bg
      /\ w.save = ctx.save /\ w.top = ctx.top /\ w.bot = ctx.bot /\ w.wrap = ctx.wrap
      /\ w.scroll = ctx.scroll /\ w.cursor = ctx.cursor
  <2> HIDE DEF x, y
  <2>1. x \in 0 .. COLS
      BY <1>4, FramebufferAssumption
  <2> QED
      BY <1>1, <1>4, <2>1, MovedContext
<1>9. /\ cx \in Context /\ cx.x = x + 1 /\ cx.y = y /\ cx.fg = ctx.fg /\ cx.bg = ctx.bg
      /\ cx.save = ctx.save /\ cx.top = ctx.top /\ cx.bot = ctx.bot /\ cx.wrap = ctx.wrap
      /\ cx.scroll = ctx.scroll /\ cx.cursor = ctx.cursor
  <2> HIDE DEF x, y
  <2>1. x + 1 \in 0 .. COLS
      BY <1>4, FramebufferAssumption
  <2> QED
      BY <1>1, <1>4, <2>1, MovedContext
<1>10. Abstract!Wrapped(Scr) = ScreenOf(e, w)
  <2> HIDE DEF w
  <2>1. CASE ~full
      BY <1>1, <1>2, <1>8, <2>1, FramebufferAssumption DEF Abstract!Wrapped, ScreenOf, Context, PutRow
  <2>2. CASE scrolls
    <3>1. [Scr EXCEPT !.x = 0] = ScreenOf(b, w)
      <4>1. w.x = 0 /\ w.y = ctx.y
          BY <1>8, <2>2 DEF PutRow
      <4> QED
          BY <1>2, <1>8, <4>1 DEF ScreenOf
    <3>2. Abstract!Scroll(ScreenOf(b, w)) = ScreenOf(Abstract!Scroll(ScreenOf(b, ctx)).cell, w)
        BY <1>8 DEF Abstract!Scroll, Abstract!Empty, ScreenOf
    <3>3. Scr.x >= COLS /\ Scr.wrap /\ (Scr.y < Scr.bot - 1 \/ Scr.scroll) /\ Scr.y + 1 = Scr.bot
        BY <1>2, <2>2 DEF ScreenOf
    <3>4. Scr.x \in Int
        BY <1>1, <1>2 DEF ScreenOf, Context
    <3> QED
        BY <1>2, <2>2, <3>1, <3>2, <3>3, <3>4, FramebufferAssumption DEF Abstract!Wrapped
  <2>3. CASE wraps /\ ~scrolls
    <3>1. y = Abstract!Clamp(ctx.y + 1, ROWS)
        BY <1>1, <2>3, FramebufferAssumption DEF Abstract!Clamp, PutRow, Context
    <3>2. [Scr EXCEPT !.x = 0, !.y = Abstract!Clamp(ctx.y + 1, ROWS)] = ScreenOf(b, w)
      <4>1. x = 0 /\ 0 \in 0 .. COLS
          BY <2>3, FramebufferAssumption
      <4>2. [Scr EXCEPT !.x = 0, !.y = Abstract!Clamp(ctx.y + 1, ROWS)] = Moved(Scr, x, y)
          BY <3>1, <4>1 DEF Moved
      <4> HIDE DEF x, y
      <4> QED
          BY <1>1, <1>2, <1>4, <4>1, <4>2, MovedScreen DEF w
    <3>3. Scr.x >= COLS /\ Scr.wrap /\ (Scr.y < Scr.bot - 1 \/ Scr.scroll) /\ Scr.y + 1 # Scr.bot
          /\ Scr.y = ctx.y
        BY <1>2, <2>3 DEF ScreenOf
    <3>4. Scr.x \in Int
        BY <1>1, <1>2 DEF ScreenOf, Context
    <3> QED
        BY <2>3, <3>2, <3>3, <3>4, FramebufferAssumption DEF Abstract!Wrapped
  <2>4. CASE full /\ ~wraps
      BY <1>1, <1>2, <1>8, <2>4, FramebufferAssumption, SMTT(60) DEF Abstract!Wrapped, ScreenOf, Context, PutRow
  <2> QED
      BY <2>1, <2>2, <2>3, <2>4
<1> HIDE DEF x, y, w, cx, e, q, b
<1>11. Abstract!RawPutchar(Scr, c) = ScreenOf(f, cx)
  <2>1. Abstract!Put(ScreenOf(e, w), x, y, g) = ScreenOf(f, w)
      BY <1>4, <1>5, <1>7, FramebufferAssumption, SMTT(60) DEF Abstract!Put, ScreenOf, Abstract!At, At
  <2>2. ScreenOf(e, w).x = x /\ ScreenOf(e, w).y = y
        /\ ScreenOf(e, w).fg = ctx.fg /\ ScreenOf(e, w).bg = ctx.bg
      BY <1>8 DEF ScreenOf
  <2>3. [ScreenOf(f, w) EXCEPT !.x = x + 1] = ScreenOf(f, cx)
      BY <1>8, <1>9 DEF ScreenOf
  <2> QED
      BY <1>10, <2>1, <2>2, <2>3 DEF Abstract!RawPutchar
<1>12. f \in [Cell -> Glyph] /\ \A i \in Cell : f[i] = IF i = At(x, y) THEN g ELSE e[i]
    BY <1>4, <1>5, <1>7
<1> HIDE DEF f, g
<1>13. /\ Append(q, Char(x, y, g)) \in Seq(Push) /\ Append(q, Char(x, y, g)) # <<>>
       /\ Fits(Append(q, Char(x, y, g)), f, b)
    BY <1>6, <1>7, <1>12, FitsAppend
<1>14. q \o <<Char(x, y, g)>> = Append(q, Char(x, y, g))
    BY <1>6, <1>7
<1>15. Operation(Scr, ScreenOf(f, cx))
    BY <1>11 DEF Operation
<1>16. Inv' /\ UNCHANGED <<Scr, shown>>
    BY <1>1, <1>3, <1>9, <1>12, <1>13, <1>14, <1>15, BeginPushes DEF b
<1> QED
    BY <1>16 DEF ScreenStep

\* Every abstract screen.
ScreenSet == [cell : [Cell -> Glyph], x : 0 .. COLS, y : 0 .. ROWS - 1, fg : Colours, bg : Colours,
              save : [fg : Colours, bg : Colours, x : 0 .. COLS, y : 0 .. ROWS - 1],
              top : 0 .. ROWS - 1, bot : 1 .. ROWS,
              wrap : BOOLEAN, scroll : BOOLEAN, cursor : BOOLEAN]

(* Two screens with the same characters and context are the same. *)
LEMMA SameScreen ==
    ASSUME NEW b \in [Cell -> Glyph], NEW cx \in Context, NEW t \in ScreenSet,
           t.cell = b, t.x = cx.x, t.y = cx.y, t.fg = cx.fg, t.bg = cx.bg, t.save = cx.save,
           t.top = cx.top, t.bot = cx.bot, t.wrap = cx.wrap, t.scroll = cx.scroll,
           t.cursor = cx.cursor
    PROVE  t = ScreenOf(b, cx)
    BY DEF ScreenSet, ScreenOf

(* An operation that only changes the context is a step of the screen.     *)
LEMMA PlainStep ==
    ASSUME Inv, NEW cx \in Context, cx.top < cx.bot, Begin(cx, <<>>),
           (Scr' = ScreenOf(before.cell, cx)) => Abstract!Frontend
    PROVE  Inv' /\ ScreenStep
<1>1. Inv' /\ Scr' = ScreenOf(before.cell, cx) /\ UNCHANGED shown
    BY BeginPlain
<1> QED
    BY <1>1 DEF ScreenStep, Abstract!ScreenNext

(* flanterm_fb_set_cursor_pos. *)
LEMMA SetCursorInv ==
    ASSUME Inv, NEW x \in -1 .. COLS, NEW y \in -1 .. ROWS, set_cursor_pos(x, y)
    PROVE  Inv' /\ ScreenStep
<1> DEFINE b == before.cell
           u == Clamp(x, COLS)
           v == Clamp(y, ROWS)
           cx == Moved(ctx, u, v)
<1>1. todo = <<>> /\ before.ctx = ctx /\ ctx \in Context /\ ctx.top < ctx.bot /\ Scr = ScreenOf(b, ctx)
    BY DEF set_cursor_pos, Begin, Inv, Types, Progress, Screen, Scr
<1>2. u \in 0 .. COLS /\ v \in 0 .. ROWS - 1
    BY FramebufferAssumption DEF Clamp
<1>3. Begin(cx, <<>>)
    BY DEF set_cursor_pos, Moved
<1>4. Abstract!SetCursor(Scr, x, y) = Moved(Scr, u, v)
    BY DEF Abstract!SetCursor, Abstract!Clamp, Clamp, Moved
<1> HIDE DEF b, u, v
<1>5. cx \in Context /\ cx.top < cx.bot
    BY <1>1, <1>2, MovedContext
<1>6. Abstract!SetCursor(Scr, x, y) = ScreenOf(b, cx)
    BY <1>1, <1>2, <1>4, MovedScreen
<1>7. (Scr' = ScreenOf(b, cx)) => Abstract!Frontend
    BY <1>6, ZenonT(60) DEF Abstract!Frontend, Scr, ScreenOf
<1> HIDE DEF cx
<1> QED
    BY <1>3, <1>5, <1>7, PlainStep DEF b

(* The colours: set_text_fg, set_text_bg and swap_palette. *)
LEMMA ColourInv ==
    ASSUME Inv, (\E col \in Colours : set_text_fg(col) \/ set_text_bg(col)) \/ swap_palette
    PROVE  Inv' /\ ScreenStep
<1> DEFINE b == before.cell
<1>1. /\ todo = <<>> /\ before.ctx = ctx /\ ctx \in Context /\ ctx.top < ctx.bot
      /\ Scr = ScreenOf(b, ctx) /\ b \in [Cell -> Glyph]
    BY DEF set_text_fg, set_text_bg, swap_palette, Begin, Inv, Types, Progress, Screen, Scr
<1>2. ASSUME NEW col \in Colours, set_text_fg(col) PROVE Inv' /\ ScreenStep
  <2> DEFINE cx == [ctx EXCEPT !.fg = col]
  <2>1. cx \in Context /\ cx.top < cx.bot
      BY <1>1 DEF Context
  <2>2. Abstract!SetFg(Scr, col) = ScreenOf(b, cx)
      BY <1>1 DEF Abstract!SetFg, ScreenOf, Context
  <2>3. (Scr' = ScreenOf(b, cx)) => Abstract!Frontend
      BY <2>2 DEF Abstract!Frontend, Scr, ScreenOf
  <2> QED
      BY <1>2, <2>1, <2>3, PlainStep DEF set_text_fg
<1>3. ASSUME NEW col \in Colours, set_text_bg(col) PROVE Inv' /\ ScreenStep
  <2> DEFINE cx == [ctx EXCEPT !.bg = col]
  <2>1. cx \in Context /\ cx.top < cx.bot
      BY <1>1 DEF Context
  <2>2. Abstract!SetBg(Scr, col) = ScreenOf(b, cx)
      BY <1>1 DEF Abstract!SetBg, ScreenOf, Context
  <2>3. (Scr' = ScreenOf(b, cx)) => Abstract!Frontend
      BY <2>2 DEF Abstract!Frontend, Scr, ScreenOf
  <2> QED
      BY <1>3, <2>1, <2>3, PlainStep DEF set_text_bg
<1>4. CASE swap_palette
  <2> DEFINE cx == [ctx EXCEPT !.fg = ctx.bg, !.bg = ctx.fg]
             t == Abstract!SwapPalette(Scr)
  <2>1. /\ cx \in Context /\ cx.x = ctx.x /\ cx.y = ctx.y /\ cx.fg = ctx.bg /\ cx.bg = ctx.fg
        /\ cx.save = ctx.save /\ cx.top = ctx.top /\ cx.bot = ctx.bot /\ cx.wrap = ctx.wrap
        /\ cx.scroll = ctx.scroll /\ cx.cursor = ctx.cursor
      BY <1>1 DEF Context
  <2>2. Scr \in ScreenSet
      BY <1>1 DEF ScreenOf, Context, ScreenSet
  <2>3. /\ t \in ScreenSet /\ t.cell = Scr.cell /\ t.x = Scr.x /\ t.y = Scr.y /\ t.fg = Scr.bg
        /\ t.bg = Scr.fg /\ t.save = Scr.save /\ t.top = Scr.top /\ t.bot = Scr.bot
        /\ t.wrap = Scr.wrap /\ t.scroll = Scr.scroll /\ t.cursor = Scr.cursor
      BY <2>2 DEF Abstract!SwapPalette, ScreenSet
  <2>4. Begin(cx, <<>>)
      BY <1>4 DEF swap_palette
  <2> HIDE DEF cx
  <2>5. t = ScreenOf(b, cx)
    <3> HIDE DEF t
    <3> QED
        BY <1>1, <2>1, <2>3, SameScreen DEF ScreenOf
  <2>6. (Scr' = ScreenOf(b, cx)) => Abstract!Frontend
      BY <2>5 DEF Abstract!Frontend, Scr, ScreenOf
  <2> QED
      BY <1>1, <2>1, <2>4, <2>6, PlainStep
<1> QED
    BY <1>2, <1>3, <1>4

(* flanterm_fb_save_state and flanterm_fb_restore_state. *)
LEMMA StateInv ==
    ASSUME Inv, save_state \/ restore_state PROVE Inv' /\ ScreenStep
<1> DEFINE b == before.cell
<1>1. /\ todo = <<>> /\ before.ctx = ctx /\ ctx \in Context /\ ctx.top < ctx.bot
      /\ Scr = ScreenOf(b, ctx) /\ b \in [Cell -> Glyph]
    BY DEF save_state, restore_state, Begin, Inv, Types, Progress, Screen, Scr
<1>2. CASE save_state
  <2> DEFINE cx == [ctx EXCEPT !.save = [fg |-> ctx.fg, bg |-> ctx.bg, x |-> ctx.x, y |-> ctx.y]]
  <2>1. cx \in Context /\ cx.top < cx.bot
      BY <1>1 DEF Context
  <2>2. Abstract!SaveState(Scr) = ScreenOf(b, cx)
      BY <1>1 DEF Abstract!SaveState, ScreenOf, Context
  <2>3. (Scr' = ScreenOf(b, cx)) => Abstract!Frontend
      BY <2>2 DEF Abstract!Frontend, Scr, ScreenOf
  <2> QED
      BY <1>2, <2>1, <2>3, PlainStep DEF save_state
<1>3. CASE restore_state
  <2> DEFINE cx == [ctx EXCEPT !.fg = ctx.save.fg, !.bg = ctx.save.bg,
                               !.x = ctx.save.x, !.y = ctx.save.y]
             t == Abstract!RestoreState(Scr)
  <2>1. /\ cx \in Context /\ cx.x = ctx.save.x /\ cx.y = ctx.save.y /\ cx.fg = ctx.save.fg
        /\ cx.bg = ctx.save.bg /\ cx.save = ctx.save /\ cx.top = ctx.top /\ cx.bot = ctx.bot
        /\ cx.wrap = ctx.wrap /\ cx.scroll = ctx.scroll /\ cx.cursor = ctx.cursor
      BY <1>1 DEF Context
  <2>2. Scr \in ScreenSet
      BY <1>1 DEF ScreenOf, Context, ScreenSet
  <2>3. /\ t \in ScreenSet /\ t.cell = Scr.cell /\ t.x = Scr.save.x /\ t.y = Scr.save.y
        /\ t.fg = Scr.save.fg /\ t.bg = Scr.save.bg /\ t.save = Scr.save /\ t.top = Scr.top
        /\ t.bot = Scr.bot /\ t.wrap = Scr.wrap /\ t.scroll = Scr.scroll /\ t.cursor = Scr.cursor
      BY <2>2 DEF Abstract!RestoreState, ScreenSet
  <2>4. Begin(cx, <<>>)
      BY <1>3 DEF restore_state
  <2> HIDE DEF cx
  <2>5. t = ScreenOf(b, cx)
    <3> HIDE DEF t
    <3> QED
        BY <1>1, <2>1, <2>3, SameScreen DEF ScreenOf
  <2>6. (Scr' = ScreenOf(b, cx)) => Abstract!Frontend
      BY <2>5 DEF Abstract!Frontend, Scr, ScreenOf
  <2> QED
      BY <1>1, <2>1, <2>4, <2>6, PlainStep
<1> QED
    BY <1>2, <1>3

(* The frontend changes the margins and modes it owns. *)
LEMMA ModesInv ==
    ASSUME Inv, Modes PROVE Inv' /\ ScreenStep
<1> DEFINE b == before.cell
<1>1. PICK m \in Margins, w \in BOOLEAN, r \in BOOLEAN, cu \in BOOLEAN :
         Begin([ctx EXCEPT !.top = m[1], !.bot = m[2], !.wrap = w, !.scroll = r, !.cursor = cu], <<>>)
    BY DEF Modes
<1> DEFINE cx == [ctx EXCEPT !.top = m[1], !.bot = m[2], !.wrap = w, !.scroll = r, !.cursor = cu]
           t == [Scr EXCEPT !.top = m[1], !.bot = m[2], !.wrap = w, !.scroll = r, !.cursor = cu]
<1>2. /\ todo = <<>> /\ before.ctx = ctx /\ ctx \in Context
      /\ Scr = ScreenOf(b, ctx) /\ b \in [Cell -> Glyph]
    BY <1>1 DEF Begin, Inv, Types, Progress, Screen, Scr
<1>3. m[1] \in 0 .. ROWS - 1 /\ m[2] \in 1 .. ROWS /\ m[1] < m[2]
    BY FramebufferAssumption
<1>4. /\ cx \in Context /\ cx.x = ctx.x /\ cx.y = ctx.y /\ cx.fg = ctx.fg /\ cx.bg = ctx.bg
      /\ cx.save = ctx.save /\ cx.top = m[1] /\ cx.bot = m[2] /\ cx.wrap = w
      /\ cx.scroll = r /\ cx.cursor = cu
    BY <1>2, <1>3 DEF Context
<1>5. Scr \in ScreenSet
    BY <1>2 DEF ScreenOf, Context, ScreenSet
<1>6. /\ t \in ScreenSet /\ t.cell = Scr.cell /\ t.x = Scr.x /\ t.y = Scr.y /\ t.fg = Scr.fg
      /\ t.bg = Scr.bg /\ t.save = Scr.save /\ t.top = m[1] /\ t.bot = m[2]
      /\ t.wrap = w /\ t.scroll = r /\ t.cursor = cu
    BY <1>3, <1>5 DEF ScreenSet
<1>7. Begin(cx, <<>>)
    BY <1>1
<1> HIDE DEF cx
<1>8. t = ScreenOf(b, cx)
  <2> HIDE DEF t
  <2> QED
      BY <1>2, <1>4, <1>6, SameScreen DEF ScreenOf
<1>9. m[1] \in 0 .. ROWS /\ m[2] \in 0 .. ROWS /\ m[1] < m[2]
    BY <1>3, FramebufferAssumption
<1>10. (Scr' = ScreenOf(b, cx)) => Abstract!Frontend
  <2> SUFFICES ASSUME Scr' = ScreenOf(b, cx) PROVE Abstract!Frontend
      OBVIOUS
  <2>1. \E u, v \in 0 .. ROWS, ww, rr, cc \in BOOLEAN :
           u < v /\ Scr' = [Scr EXCEPT !.top = u, !.bot = v, !.wrap = ww, !.scroll = rr, !.cursor = cc]
    <3>1. Scr' = t
        BY <1>8
    <3> QED
        BY <1>9, <3>1, ZenonT(60)
  <2> QED
      BY <2>1, Zenon DEF Abstract!Frontend, Scr, ScreenOf
<1> QED
    BY <1>3, <1>4, <1>7, <1>10, PlainStep

-----------------------------------------------------------------------------
(* The flush. *)

(* The place of the cursor is a cell when it is on the screen. *)
LEMMA CursorCells ==
    ASSUME Types
    PROVE  /\ CursorCell \subseteq Cell /\ CursorLeft \subseteq Cell
           /\ \A i \in CursorCell : i = At(ctx.x, ctx.y) /\ ctx.x < COLS
<1>1. ctx.x \in 0 .. COLS /\ ctx.y \in 0 .. ROWS - 1 /\ old[1] \in 0 .. COLS /\ old[2] \in 0 .. ROWS - 1
    BY DEF Types, Context
<1>2. ctx.x < COLS => At(ctx.x, ctx.y) \in Cell
    BY <1>1, AtCell, FramebufferAssumption
<1>3. old[1] < COLS => At(old[1], old[2]) \in Cell
    BY <1>1, AtCell, FramebufferAssumption
<1> QED
    BY <1>2, <1>3 DEF CursorCell, CursorLeft

(* double_buffer_flush plots what every cell should show, and empties the  *)
(* queue and the map.                                                      *)
LEMMA FlushExact ==
    ASSUME Inv, double_buffer_flush
    PROVE  /\ todo = <<>>
           /\ grid' = Contents /\ map' = [i \in Cell |-> 0] /\ queue' = <<>>
           /\ shown' = [i \in Cell |-> IF i \in CursorLeft THEN Contents[i]
                                       ELSE IF i \in CursorCell THEN Inverted(Contents[i])
                                       ELSE IF map[i] # 0 THEN Contents[i] ELSE shown[i]]
           /\ old' = <<ctx.x, ctx.y>>
           /\ UNCHANGED <<ctx, todo, before, ops>>
<1> DEFINE first(i) == CHOOSE k \in 1 .. Len(queue) :
                         queue[k].i = i /\ \A j \in 1 .. k - 1 : queue[j].i # i
           new(i) == IF i \in CursorCell THEN Content(i) ELSE queue[first(i)].g
           queued == {queue[k].i : k \in {k \in 1 .. Len(queue) : map[queue[k].i] # 0}}
<1>1. /\ todo = <<>>
      /\ grid' = [i \in Cell |-> IF i \in queued \cup CursorCell THEN new(i) ELSE grid[i]]
      /\ map' = [i \in Cell |-> IF i \in queued \cup CursorCell THEN 0 ELSE map[i]]
      /\ queue' = <<>>
      /\ shown' = [i \in Cell |->
            IF i \in CursorLeft THEN grid'[i]
            ELSE IF i \in CursorCell THEN Inverted(Content(i))
            ELSE IF i \in queued THEN new(i) ELSE shown[i]]
      /\ old' = <<ctx.x, ctx.y>>
      /\ UNCHANGED <<ctx, todo, before, ops>>
    BY DEF double_buffer_flush
<1>2. \A i \in Cell : i \in queued <=> map[i] # 0
    BY DEF Inv, QueueExact
<1>3. ASSUME NEW i \in Cell, map[i] # 0 PROVE queue[first(i)].g = Content(i)
  <2>1. map[i] \in 1 .. Len(queue) /\ queue[map[i]].i = i
      BY <1>3 DEF Inv, QueueExact
  <2>2. \A k \in 1 .. Len(queue) : queue[k].i = i => k = map[i]
      BY DEF Inv, QueueExact
  <2>3. \A j \in 1 .. map[i] - 1 : queue[j].i # i
      BY <2>1, <2>2
  <2>4. first(i) = map[i]
      BY <2>1, <2>2, <2>3
  <2> HIDE DEF first
  <2> QED
      BY <1>3, <2>4 DEF Content, Pending
<1> HIDE DEF first
<1>4. \A i \in Cell : i \in queued => new(i) = Content(i)
    BY <1>2, <1>3
<1>5. \A i \in Cell : i \in CursorCell => new(i) = Content(i)
    OBVIOUS
<1>6. \A i \in Cell : i \notin queued => Content(i) = grid[i]
    BY <1>2 DEF Content, Pending
<1> HIDE DEF new, queued
<1>7. grid' = Contents
    BY <1>1, <1>4, <1>5, <1>6 DEF Contents
<1>8. map' = [i \in Cell |-> 0]
    BY <1>1, <1>2
<1>9. shown' = [i \in Cell |-> IF i \in CursorLeft THEN Contents[i]
                               ELSE IF i \in CursorCell THEN Inverted(Contents[i])
                               ELSE IF map[i] # 0 THEN Contents[i] ELSE shown[i]]
    BY <1>1, <1>2, <1>4, <1>7 DEF Contents
<1> QED
    BY <1>1, <1>7, <1>8, <1>9

(* Once map and queue are empty and the grid holds the contents, these are *)
(* the same as before.                                                     *)
LEMMA PlottedContents ==
    ASSUME grid' = Contents, map' = [i \in Cell |-> 0]
    PROVE  Contents' = Contents
    BY DEF Contents, Content, Pending

(* After a flush the display shows the screen, with the cursor inverted.   *)
LEMMA FlushInv ==
    ASSUME Inv, double_buffer_flush PROVE Inv' /\ ScreenStep
<1>1. /\ todo = <<>>
      /\ grid' = Contents /\ map' = [i \in Cell |-> 0] /\ queue' = <<>>
      /\ shown' = [i \in Cell |-> IF i \in CursorLeft THEN Contents[i]
                                  ELSE IF i \in CursorCell THEN Inverted(Contents[i])
                                  ELSE IF map[i] # 0 THEN Contents[i] ELSE shown[i]]
      /\ old' = <<ctx.x, ctx.y>>
      /\ UNCHANGED <<ctx, todo, before, ops>>
    BY FlushExact
<1>2. Contents \in [Cell -> Glyph]
    BY ContentsType DEF Inv
<1>3. before = Screen(Contents, ctx)
    BY <1>1 DEF Inv, Progress
<1>4. Types'
  <2>1. shown' \in [Cell -> Glyph]
      BY <1>1, <1>2, InvertedGlyph DEF Inv, Types
  <2>2. old' \in (0 .. COLS) \X (0 .. ROWS - 1)
      BY <1>1 DEF Inv, Types, Context
  <2>3. map' \in [Cell -> 0 .. ROWS * COLS] /\ queue' \in Seq(Item) /\ Len(queue') <= ROWS * COLS
      BY <1>1, Size
  <2> QED
      BY <1>1, <1>2, <2>1, <2>2, <2>3 DEF Inv, Types
<1>5. QueueExact'
    BY <1>1 DEF QueueExact
<1>6. /\ CursorCell \subseteq Cell /\ CursorLeft \subseteq Cell
      /\ \A i \in CursorCell : i = At(ctx.x, ctx.y) /\ ctx.x < COLS
    BY CursorCells DEF Inv
<1>7. ASSUME NEW i \in Cell, i \notin CursorLeft, i \notin CursorCell, map[i] = 0
      PROVE  shown[i] = Contents[i]
  <2>1. Contents[i] = grid[i]
      BY <1>7 DEF Contents, Content, Pending
  <2>2. CASE shown[i] # grid[i]
    <3>1. i = At(old[1], old[2]) /\ old[1] < COLS /\ old[2] < ROWS
        BY <2>2, FramebufferAssumption DEF Inv, OneCursor, Types
    <3>2. old = <<ctx.x, ctx.y>> /\ ctx.cursor
        BY <1>7, <3>1 DEF CursorLeft
    <3> QED
        BY <1>7, <3>1, <3>2 DEF CursorCell
  <2> QED
      BY <2>1, <2>2
<1>8. \A i \in Cell : shown'[i] = IF i \in CursorLeft THEN Contents[i]
                                  ELSE IF i \in CursorCell THEN Inverted(Contents[i])
                                  ELSE Contents[i]
    BY <1>1, <1>7
<1>9. OneCursor'
    BY <1>1, <1>6, <1>8 DEF OneCursor, At
<1>10. CursorLeft \cap CursorCell = {}
  <2> SUFFICES ASSUME NEW i \in CursorLeft, i \in CursorCell PROVE FALSE
      OBVIOUS
  <2>1. /\ i = At(ctx.x, ctx.y) /\ ctx.x < COLS /\ ctx.y < ROWS /\ ctx.cursor
        /\ i = At(old[1], old[2]) /\ old[1] < COLS /\ old[2] < ROWS /\ old # <<ctx.x, ctx.y>>
      BY DEF CursorLeft, CursorCell
  <2>2. ctx.x \in 0 .. COLS - 1 /\ ctx.y \in Nat
    <3>1. ctx.x \in 0 .. COLS /\ ctx.y \in 0 .. ROWS - 1
        BY DEF Inv, Types, Context
    <3> QED
        BY <2>1, <3>1, FramebufferAssumption
  <2>3. PICK u \in 0 .. COLS, v \in 0 .. ROWS - 1 : old = <<u, v>>
      BY DEF Inv, Types
  <2>4. u \in 0 .. COLS - 1 /\ v \in Nat /\ At(u, v) = At(ctx.x, ctx.y)
      BY <2>1, <2>3, FramebufferAssumption
  <2>5. u = ctx.x /\ v = ctx.y
      BY <2>2, <2>4, AtInjective
  <2> QED
      BY <2>1, <2>3, <2>5
<1>11. shown' = Abstract!Rendered(Scr)
  <2>1. /\ Scr.cell = Contents /\ Scr.x = ctx.x /\ Scr.y = ctx.y /\ Scr.cursor = ctx.cursor
      BY <1>3 DEF Scr, ScreenOf, Screen
  <2>2. \A i \in Cell : shown'[i] = IF i \in CursorCell THEN Inverted(Contents[i]) ELSE Contents[i]
      BY <1>8, <1>10
  <2>3. shown' = [i \in Cell |-> shown'[i]]
      BY <1>1
  <2>4. Abstract!Rendered(Scr) = [i \in Cell |-> IF i \in CursorCell THEN Inverted(Contents[i])
                                                 ELSE Contents[i]]
      BY <2>1 DEF Abstract!Rendered, Abstract!Cell, Cell, CursorCell, Abstract!At, At,
                  Abstract!Inverted, Inverted
  <2> QED
      BY <2>2, <2>3, <2>4
<1>12. Contents' = Contents
    BY <1>1, PlottedContents
<1>13. Progress'
    BY <1>1, <1>3, <1>12 DEF Progress, Screen
<1>14. Scr' = Scr
    BY <1>1 DEF Scr
<1>15. ScreenStep
    BY <1>11, <1>14 DEF ScreenStep, Abstract!ScreenNext, Scr, ScreenOf
<1> QED
    BY <1>4, <1>5, <1>9, <1>13, <1>15 DEF Inv

(* full_refresh, with nothing queued and the cursor where it was drawn.    *)
LEMMA RefreshInv ==
    ASSUME Inv, full_refresh PROVE Inv' /\ ScreenStep
<1>1. /\ todo = <<>> /\ queue = <<>> /\ old = <<ctx.x, ctx.y>> /\ ops' \in 0 .. MaxOps
      /\ shown' = [i \in Cell |-> IF i \in CursorCell THEN Inverted(Content(i)) ELSE grid[i]]
      /\ grid' = [i \in Cell |-> IF i \in CursorCell THEN Content(i) ELSE grid[i]]
      /\ map' = [i \in Cell |-> IF i \in CursorCell THEN 0 ELSE map[i]]
      /\ UNCHANGED <<queue, ctx, old, todo, before>>
    BY FramebufferAssumption DEF full_refresh, Inv, Types
<1>2. \A i \in Cell : map[i] = 0 /\ Content(i) = grid[i]
    BY <1>1 DEF Inv, QueueExact, Content, Pending
<1>3. map' = [i \in Cell |-> 0] /\ grid' = Contents /\ Contents \in [Cell -> Glyph]
    BY <1>1, <1>2, ContentsType DEF Contents, Inv
<1>4. before = Screen(Contents, ctx)
    BY <1>1 DEF Inv, Progress
<1>5. \A i \in Cell : shown'[i] = IF i \in CursorCell THEN Inverted(Contents[i]) ELSE Contents[i]
    BY <1>1, <1>2 DEF Contents
<1>6. Types'
  <2>1. shown' \in [Cell -> Glyph]
      BY <1>1, <1>3, <1>5, InvertedGlyph
  <2>2. map' \in [Cell -> 0 .. ROWS * COLS] /\ queue' \in Seq(Item) /\ Len(queue') <= ROWS * COLS
      BY <1>1, <1>3, Size
  <2> QED
      BY <1>1, <1>3, <2>1, <2>2 DEF Inv, Types
<1>7. QueueExact'
    BY <1>1, <1>3 DEF QueueExact
<1>8. \A i \in CursorCell : i = At(ctx.x, ctx.y) /\ ctx.x < COLS
    BY CursorCells DEF Inv
<1>9. OneCursor'
    BY <1>1, <1>3, <1>5, <1>8 DEF OneCursor, At
<1>10. shown' = Abstract!Rendered(Scr)
  <2>1. /\ Scr.cell = Contents /\ Scr.x = ctx.x /\ Scr.y = ctx.y /\ Scr.cursor = ctx.cursor
      BY <1>4 DEF Scr, ScreenOf, Screen
  <2>2. shown' = [i \in Cell |-> shown'[i]]
      BY <1>1
  <2>3. Abstract!Rendered(Scr) = [i \in Cell |-> IF i \in CursorCell THEN Inverted(Contents[i])
                                                 ELSE Contents[i]]
      BY <2>1 DEF Abstract!Rendered, Abstract!Cell, Cell, CursorCell, Abstract!At, At,
                  Abstract!Inverted, Inverted
  <2> QED
      BY <1>5, <2>2, <2>3
<1>11. Contents' = Contents
    BY <1>3, PlottedContents
<1>12. Progress'
    BY <1>1, <1>4, <1>11 DEF Progress, Screen
<1>13. Scr' = Scr
    BY <1>1 DEF Scr
<1>14. ScreenStep
    BY <1>10, <1>13 DEF ScreenStep, Abstract!ScreenNext, Scr, ScreenOf
<1> QED
    BY <1>6, <1>7, <1>9, <1>12, <1>14 DEF Inv

-----------------------------------------------------------------------------
(* The backend as flanterm_fb_init leaves it satisfies the invariant, and  *)
(* stands for an empty screen on display.                                  *)
LEMMA InitInv ==
    ASSUME Init PROVE Inv /\ Abstract!ScreenInit
<1> DEFINE blank == [i \in Cell |-> [c |-> Space, fg |-> DefFg, bg |-> DefBg]]
           cx == [x |-> 0, y |-> 0, fg |-> DefFg, bg |-> DefBg,
                  save |-> [fg |-> DefFg, bg |-> DefBg, x |-> 0, y |-> 0],
                  top |-> 0, bot |-> ROWS, wrap |-> TRUE, scroll |-> TRUE, cursor |-> TRUE]
<1> USE FramebufferAssumption
<1>1. /\ grid = blank /\ map = [i \in Cell |-> 0] /\ queue = <<>>
      /\ ctx = cx /\ old = <<0, 0>> /\ todo = <<>> /\ ops = 0
      /\ before = [cell |-> blank, ctx |-> cx]
      /\ shown = [blank EXCEPT ![0] = Inverted(@)]
    BY DEF Init
<1>2. blank \in [Cell -> Glyph] /\ cx \in Context /\ cx.top < cx.bot
    BY DEF Glyph, Context
<1>3. shown \in [Cell -> Glyph] /\ \A i \in Cell : shown[i] = IF i = 0 THEN Inverted(blank[i]) ELSE blank[i]
    BY <1>1, <1>2, InvertedGlyph, Size
<1>4. cx.x = 0 /\ cx.y = 0 /\ cx.cursor = TRUE /\ At(0, 0) = 0
    BY DEF At
<1>5. Abstract!ScreenInit
  <2>1. ScreenOf(blank, cx) = Abstract!Blank
      BY DEF ScreenOf, Abstract!Blank, Abstract!Cell, Cell
  <2>2. Scr = Abstract!Blank
      BY <1>1, <2>1 DEF Scr
  <2>3. Abstract!Rendered(ScreenOf(blank, cx)) = [i \in Cell |-> IF i = 0 THEN Inverted(blank[i]) ELSE blank[i]]
      BY <1>4 DEF Abstract!Rendered, ScreenOf, Abstract!Cell, Cell, Abstract!At, At,
                  Abstract!Inverted, Inverted
  <2> HIDE DEF blank, cx
  <2>4. shown = Abstract!Rendered(Abstract!Blank)
      BY <1>3, <2>1, <2>3
  <2> QED
      BY <2>2, <2>4 DEF Abstract!ScreenInit, Scr, ScreenOf
<1> HIDE DEF blank, cx
<1>6. Types
  <2>1. map \in [Cell -> 0 .. ROWS * COLS] /\ queue \in Seq(Item) /\ Len(queue) <= ROWS * COLS
      BY <1>1, Size
  <2>2. old \in (0 .. COLS) \X (0 .. ROWS - 1) /\ todo \in Seq(Push) /\ ops \in 0 .. MaxOps
      BY <1>1
  <2>3. before \in [cell : [Cell -> Glyph], ctx : Context] /\ before.ctx = cx
      BY <1>1, <1>2
  <2> QED
      BY <1>1, <1>2, <1>3, <2>1, <2>2, <2>3 DEF Types
<1>7. QueueExact
    BY <1>1 DEF QueueExact
<1>8. OneCursor
    BY <1>1, <1>3, <1>4 DEF OneCursor
<1>9. Progress
    BY <1>1, <1>2 DEF Progress, Screen, Contents, Content, Pending
<1> QED
    BY <1>5, <1>6, <1>7, <1>8, <1>9 DEF Inv

(* Every step keeps the invariant and is a step of the screen. *)
LEMMA NextInv ==
    ASSUME Inv, [Next]_vars PROVE Inv' /\ ScreenStep
<1>1. CASE Step
    BY <1>1, StepInv, OperationStep
<1>2. CASE scroll \/ revscroll
    BY <1>2, ScrollInv
<1>3. CASE \E move \in BOOLEAN : clear(move)
    BY <1>3, ClearInv
<1>4. CASE \E c \in Chars : raw_putchar(c)
    BY <1>4, PutcharInv
<1>5. CASE \E nx, ox \in 0 .. COLS, ny, oy \in 0 .. ROWS : move_character(nx, ny, ox, oy)
    BY <1>5, MoveInv
<1>6. CASE \E x \in -1 .. COLS, y \in -1 .. ROWS : set_cursor_pos(x, y)
    BY <1>6, SetCursorInv
<1>7. CASE (\E col \in Colours : set_text_fg(col) \/ set_text_bg(col)) \/ swap_palette
    BY <1>7, ColourInv
<1>8. CASE save_state \/ restore_state
    BY <1>8, StateInv
<1>9. CASE Modes
    BY <1>9, ModesInv
<1>10. CASE double_buffer_flush
    BY <1>10, FlushInv
<1>11. CASE full_refresh
    BY <1>11, RefreshInv
<1>12. CASE UNCHANGED vars
  <2>1. UNCHANGED <<grid, map, queue, ctx, old, shown, todo, before, ops>>
      BY <1>12 DEF vars
  <2>2. Types' /\ QueueExact' /\ OneCursor'
      BY <2>1 DEF Inv, Types, QueueExact, OneCursor
  <2>3. Scr' = Scr /\ Contents' = Contents
      BY <2>1 DEF Scr, Contents, Content, Pending
  <2>4. Progress'
    <3>1. CASE todo = <<>>
        BY <2>1, <2>3, <3>1 DEF Inv, Progress, Screen
    <3>2. CASE todo # <<>>
      <4>1. PICK f \in [Cell -> Glyph] : Fits(todo, f, Contents) /\ Operation(Scr, ScreenOf(f, ctx))
          BY <3>2 DEF Inv, Progress
      <4>2. Fits(todo', f, Contents') /\ Operation(Scr', ScreenOf(f, ctx'))
          BY <2>1, <2>3, <4>1
      <4>3. Fits(todo, f, Contents)' /\ Operation(Scr, ScreenOf(f, ctx))'
          BY <4>2 DEF Fits, Operation, ScreenOf, Dest, At
      <4> QED
          BY <2>1, <3>2, <4>3 DEF Progress
    <3> QED
        BY <3>1, <3>2
  <2> QED
      BY <2>1, <2>2, <2>3, <2>4 DEF Inv, ScreenStep
<1> QED
    BY <1>1, <1>2, <1>3, <1>4, <1>5, <1>6, <1>7, <1>8, <1>9, <1>10, <1>11, <1>12 DEF Next

(* The invariant holds in every state of the backend. *)
THEOREM InvariantHolds ==
    Spec => []Inv
<1>1. Init => Inv
    BY InitInv
<1>2. Inv /\ [Next]_vars => Inv'
    BY NextInv
<1> QED
    BY <1>1, <1>2, PTL DEF Spec

(* Cursor, queue, map and display agree after every step, on a screen of   *)
(* any size: no cell has two items, the queue always has room, and no      *)
(* second cursor is left behind.                                           *)
THEOREM BackendIsSound ==
    Spec => []BackendSound
<1>1. ASSUME Inv PROVE BackendSound
  <2>1. /\ ctx.x \in 0 .. COLS /\ ctx.y \in 0 .. ROWS - 1
        /\ ctx.fg \in Colours /\ ctx.bg \in Colours
        /\ ctx.save \in [fg : Colours, bg : Colours, x : 0 .. COLS, y : 0 .. ROWS - 1]
        /\ ctx.top \in 0 .. ROWS - 1 /\ ctx.bot \in 1 .. ROWS
      BY <1>1 DEF Inv, Types, Context
  <2>2. ctx.top \in 0 .. ctx.bot - 1
      BY <1>1, <2>1, FramebufferAssumption DEF Inv, Types
  <2>3. TypeOK
      BY <1>1, <2>1, <2>2 DEF Inv, Types, TypeOK
  <2> QED
      BY <1>1, <2>3 DEF Inv, BackendSound
<1> QED
    BY <1>1, InvariantHolds, PTL

(* The backend implements the screen of Screen.tla, on a screen of any     *)
(* size: queueing, overwriting queued items, copying line by line in place *)
(* and plotting late make no difference to the characters or the display.  *)
THEOREM BackendIsAScreen ==
    Spec => ImplementsScreen
<1>1. Init => Abstract!ScreenInit
    BY InitInv
<1>2. ASSUME Inv, [Next]_vars
      PROVE  [Abstract!ScreenNext]_<<Scr, shown>>
    BY <1>2, NextInv DEF ScreenStep
<1>3. Spec => [][Abstract!ScreenNext]_<<Scr, shown>>
    BY <1>2, InvariantHolds, PTL DEF Spec
<1> QED
    BY <1>1, <1>3 DEF Spec, ImplementsScreen, Abstract!ScreenSpec, Scr, ScreenOf
=============================================================================
