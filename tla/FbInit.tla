------------------------------- MODULE FbInit -------------------------------
(***************************************************************************)
(* Contexts of the framebuffer backend (fb.c): flanterm_fb_init, with the  *)
(* caller's malloc or, for one context at a time, with the bump allocator  *)
(* of a fixed pool, and flanterm_fb_deinit.  Sizes are in bytes; colours,  *)
(* fonts and function pointers are left out (Plot has the geometry).       *)
(***************************************************************************)
EXTENDS Integers, Sequences, FiniteSets

CONSTANTS
    POOL,                   \* FLANTERM_FB_BUMP_ALLOC_POOL_SIZE
    WIDTH, HEIGHT,          \* the limits for the pool's context
    Misaligned,             \* address of the pool modulo 16
    CTX, CHAR, ITEM, PTR,   \* sizes of the context, a cell, a queue item, a pointer
    FONTW, FONTH, GLYPHS,   \* the font, its spacing included
    Screens,                \* framebuffers: [w, h]
    MaxInits                \* bound on the calls of flanterm_fb_init

FbInitAssumption ==
    /\ POOL \in Nat /\ POOL >= 16 /\ Misaligned \in 0 .. 15 /\ MaxInits \in Nat
    /\ WIDTH \in Nat /\ HEIGHT \in Nat
    /\ {CTX, CHAR, ITEM, PTR, GLYPHS} \subseteq Nat
    /\ FONTW \in Nat \ {0} /\ FONTH \in Nat \ {0}
    /\ \A s \in Screens : s = [w |-> s.w, h |-> s.h] /\ s.w \in Nat /\ s.h \in Nat

VARIABLES
    ptr, based,     \* bump_alloc_ptr, bump_alloc_base_offset_added
    instance,       \* bump_allocated_instance
    live,           \* contexts returned and not yet given back
    heap,           \* blocks of the caller's malloc not yet freed: <<call, nr>>
    nofree,         \* calls with a malloc but no free
    inits,          \* calls so far
    result          \* of the last: "pool", "malloc", "no pool", "no malloc", "no masks"

vars == <<ptr, based, instance, live, heap, nofree, inits, result>>

Min2(m, n) == IF m < n THEN m ELSE n
Round16(n) == IF n % 16 = 0 THEN n ELSE (n + 16) - ((n + 16) % 16)

\* The scale of the font when the caller leaves it open.
Scale(w, h) == IF w >= 5120 /\ h >= 2880 THEN 4
               ELSE IF w >= 2560 /\ h >= 1440 THEN 2 ELSE 1

\* The part of the framebuffer that the pool's context uses.
\* Mutant of Limited: only the width is limited.
LimitedWidth(s) == [s EXCEPT !.w = Min2(@, WIDTH)]
Limited(s) == [w |-> Min2(s.w, WIDTH), h |-> Min2(s.h, HEIGHT)]

\* The sizes of the blocks, in order: context, font_bits, font_bool, grid, queue
\* and map.  A canvas, which the pool's context never has, is a seventh.
Sizes(w, h, scale) ==
    LET n == (w \div (FONTW * scale)) * (h \div (FONTH * scale))
    IN  <<CTX, GLYPHS * FONTH, GLYPHS * FONTH * FONTW, n * CHAR, n * ITEM, n * PTR>>

\* bump_alloc for one block after another: the pointer before each, and after
\* the last that fitted.
BumpFrom == IF based THEN ptr ELSE ptr + ((16 - Misaligned) % 16)
Bumps(sizes) ==
    LET b[i \in 1 .. Len(sizes) + 1] ==
          IF i = 1 THEN BumpFrom ELSE b[i - 1] + Round16(sizes[i - 1])
    IN  b
-----------------------------------------------------------------------------
Init ==
    /\ ptr = 0 /\ based = FALSE /\ instance = FALSE /\ live = {} /\ heap = {}
    /\ nofree = {} /\ inits = 0 /\ result = "none"

\* A framebuffer whose colours are not of one width, 8 bits or more.
BadMasks ==
    /\ inits < MaxInits /\ inits' = inits + 1 /\ result' = "no masks"
    /\ UNCHANGED <<ptr, based, instance, live, heap, nofree>>

\* Without a malloc: the pool, unless it is taken.
PoolTaken == instance

\* The fail path for the pool: bump_alloc_ptr after block k did not fit.
\* Mutant of AfterFail: the pool is not reset.
AfterFailKept(at, k) == at[k]
AfterFail(at, k) == IF k = 1 THEN at[1] ELSE 0

InitFromPool(s) ==
    LET l == Limited(s)
        sizes == Sizes(l.w, l.h, Scale(s.w, s.h))
        at == Bumps(sizes)
        end == at[Len(sizes) + 1]
        blocks == [i \in 1 .. Len(sizes) |-> <<at[i], sizes[i]>>]
    IN  /\ inits < MaxInits /\ inits' = inits + 1 /\ UNCHANGED <<heap, nofree>>
        /\ \/ /\ PoolTaken /\ result' = "no pool"
              /\ UNCHANGED <<ptr, based, instance, live>>
           \/ /\ ~PoolTaken /\ end <= POOL
              /\ ptr' = end /\ based' = TRUE /\ instance' = TRUE
              /\ live' = live \cup {[id |-> inits, bump |-> TRUE, blocks |-> blocks]}
              /\ result' = "pool"
           \/ /\ ~PoolTaken /\ end > POOL     \* fail
              /\ LET k == CHOOSE i \in 1 .. Len(sizes) : at[i] <= POOL /\ at[i + 1] > POOL
                 IN  ptr' = AfterFail(at, k) /\ based' = (k = 1)
              /\ result' = "no pool" /\ UNCHANGED <<instance, live>>

\* The fail path: what was allocated before block k.
Freed(id, k) == {<<id, i>> : i \in 1 .. k - 1}

\* With the caller's malloc, and its free or none: block k is the first it cannot
\* give (0: all are given).  With no free what it gave is kept.
InitFromMalloc(canvas, k, frees) ==
    LET n == IF canvas THEN 7 ELSE 6
        got == {<<inits, i>> : i \in 1 .. (IF k = 0 THEN n ELSE k - 1)}
    IN  /\ inits < MaxInits /\ inits' = inits + 1 /\ k <= n
        /\ \/ /\ k = 0 /\ heap' = heap \cup got /\ result' = "malloc"
              /\ live' = live \cup {[id |-> inits, bump |-> FALSE,
                                    blocks |-> [i \in 1 .. n |-> <<inits, i>>]]}
           \/ /\ k # 0
              /\ heap' = (heap \cup got) \ (IF frees THEN Freed(inits, k) ELSE {})
              /\ result' = "no malloc" /\ UNCHANGED live
        /\ nofree' = IF frees THEN nofree ELSE nofree \cup {inits}
        /\ UNCHANGED <<ptr, based, instance>>

\* A context is given back, with the free that belongs to its malloc, or NULL for
\* the pool's.  One whose caller has no free is kept: NULL would free the pool.
flanterm_fb_deinit(c) ==
    /\ c \in live /\ c.id \notin nofree /\ live' = live \ {c}
    /\ IF c.bump
       THEN /\ ptr' = IF instance THEN 0 ELSE ptr
            /\ based' = (based /\ ~instance) /\ instance' = FALSE
            /\ UNCHANGED heap
       ELSE /\ heap' = heap \ {c.blocks[i] : i \in DOMAIN c.blocks}
            /\ UNCHANGED <<ptr, based, instance>>
    /\ UNCHANGED <<nofree, inits, result>>

Next ==
    \/ BadMasks
    \/ \E s \in Screens : InitFromPool(s)
    \/ \E canvas, frees \in BOOLEAN, k \in 0 .. 7 : InitFromMalloc(canvas, k, frees)
    \/ \E c \in live : flanterm_fb_deinit(c)

Spec == Init /\ [][Next]_vars
-----------------------------------------------------------------------------
\* The pool is large enough: a context is refused only while another one has
\* the pool, for every size of framebuffer, alignment of the pool and history
\* of earlier contexts.
RefusedWhenTaken ==
    inits' # inits /\ result' = "no pool" => \E c \in live : c.bump

\* When no context has the pool all of it is free again, whether the last one
\* was given back or could not be completed.
PoolRestored ==
    (\A c \in live : ~c.bump) => BumpFrom = (16 - Misaligned) % 16

\* The blocks of the contexts that are alive lie in the pool and never overlap.
PoolDisjoint ==
    \A c, e \in {x \in live : x.bump} : \A i, j \in 1 .. 6 :
       LET b == c.blocks[i]
           q == e.blocks[j]
       IN  /\ b[1] >= 0 /\ b[1] + b[2] <= POOL
           /\ (c = e /\ i = j) \/ b[1] + b[2] <= q[1] \/ q[1] + q[2] <= b[1]

\* No block of the caller's malloc is lost, and none is freed that a context
\* has: those that belong to no context come from calls that gave no free.
NoLeak ==
    LET used == UNION {{c.blocks[i] : i \in DOMAIN c.blocks} :
                         c \in {x \in live : ~x.bump}}
    IN  used \subseteq heap /\ \A b \in heap \ used : b[1] \in nofree

\* The pool's blocks are apart while a context has them and the whole pool is
\* free when none has; nothing of a caller's heap that can be freed is lost either.
PoolSound == PoolDisjoint /\ PoolRestored /\ NoLeak
=============================================================================
