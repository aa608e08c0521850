---------------------------- MODULE MCFramebuffer ----------------------------
(***************************************************************************)
(* The three models of the framebuffer backend, side by side: the queue of *)
(* cells (Framebuffer), the pixels of a cell (Plot), and the memory of its *)
(* contexts (FbInit), with a pool as large as the code's and with one too  *)
(* small for most screens.  One of them moves in each behaviour.           *)
(***************************************************************************)
EXTENDS Framebuffer

CONSTANT POOL, SmallPool

VARIABLES
    part,                                       \* the one that moves
    geo, glyphs, mem, plots,                    \* Plot
    ptr, based, instance, live, heap, nofree, inits, result     \* FbInit

pixVars == <<geo, glyphs, mem, plots>>
poolVars == <<ptr, based, instance, live, heap, nofree, inits, result>>

MCMargins == {<<0, ROWS>>, <<0, 1>>, <<1, ROWS>>}

\* All rotations; screens with and without room to spare, limited or not, in
\* one and in both directions; scales that differ; margins; padded lines.
MCSetups ==
    {s \in [w : {6, 7, 8}, h : {4, 5, 8}, pitch : {9}, limit : {4, 5, 7, 99},
            rotation : 0 .. 3, sx : {1, 2}, sy : {1, 2}, margin : {0, 1},
            canvas : BOOLEAN] :
       s.canvas => s.limit = 99}
MCGlyphs == {[dots |-> {<<0, 0>>}, line |-> FALSE],
             [dots |-> {<<1, 1>>}, line |-> TRUE]}

\* Common modes, the limits and one more and one less, and tiny screens.
MCScreens ==
    [w : {4, 90, 640, 1916, 1917, 1920, 1921, 2560, 7680},
     h : {8, 800, 1199, 1200, 1440, 4320}]

Pix == INSTANCE Plot WITH
    BYTE <- 2, FontHeight <- 2, Spacing <- 1, MaxPlots <- 2,
    Setups <- MCSetups, Glyphs <- MCGlyphs, grid <- glyphs
Pool == INSTANCE FbInit WITH
    WIDTH <- 1920, HEIGHT <- 1200, Misaligned <- 1, CTX <- 1112, CHAR <- 12,
    ITEM <- 32, PTR <- 8, FONTW <- 9, FONTH <- 16, GLYPHS <- 256,
    Screens <- MCScreens, MaxInits <- 3
Small == INSTANCE FbInit WITH
    POOL <- SmallPool,
    WIDTH <- 1920, HEIGHT <- 1200, Misaligned <- 1, CTX <- 1112, CHAR <- 12,
    ITEM <- 32, PTR <- 8, FONTW <- 9, FONTH <- 16, GLYPHS <- 64,
    Screens <- MCScreens, MaxInits <- 3

ASSUME Pix!PlotAssumption /\ Pool!FbInitAssumption /\ Small!FbInitAssumption

MCInit ==
    /\ Init /\ Pool!Init
    /\ \/ part = "pixels" /\ Pix!Init
       \/ /\ part \in {"cells", "pool", "small pool"}
          /\ geo = <<>> /\ glyphs = <<>> /\ mem = <<>> /\ plots = 0
MCNext ==
    /\ UNCHANGED part
    /\ \/ part = "cells" /\ Next /\ UNCHANGED <<pixVars, poolVars>>
       \/ part = "pixels" /\ Pix!Next /\ UNCHANGED <<vars, poolVars>>
       \/ part = "pool" /\ Pool!Next /\ UNCHANGED <<vars, pixVars>>
       \/ part = "small pool" /\ Small!Next /\ UNCHANGED <<vars, pixVars>>
MCSpec == MCInit /\ [][MCNext]_<<part, vars, pixVars, poolVars>>
-----------------------------------------------------------------------------
\* Plot: every pixel is written where it belongs, and nowhere else.
PixelsExact == part = "pixels" => Pix!PixelsExact

\* FbInit, with a pool that suffices and with one that often does not: the
\* pool's blocks are apart while a context has them and the whole pool is free
\* when none has; nothing of a caller's heap that can be freed is lost either.
PoolSound == /\ part = "pool" => Pool!PoolSound
             /\ part = "small pool" => Small!PoolSound

\* FbInit: the pool of the code's size is enough for every framebuffer.
PoolSuffices == [][part = "pool" => Pool!RefusedWhenTaken]_poolVars
=============================================================================
