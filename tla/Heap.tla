-------------------------------- MODULE Heap --------------------------------
(***************************************************************************)
(* The kernel heap, kernel/src/memory/heap.c: a first-fit allocator over   *)
(* blocks of one page each, split on allocation and never merged.          *)
(*                                                                         *)
(* Addresses are offsets from HEAP_START.  A block is its header's address *)
(* a; its payload is the size[a] bytes after the header.  The list through *)
(* the next words is the sequence free_list: the words lie in headers,     *)
(* which callers do not write.  kmalloc is a loop (search, expand, search  *)
(* again), so a call is several steps; the heap serves one call at a time, *)
(* as interrupt handlers do not allocate.                                  *)
(***************************************************************************)
EXTENDS Naturals, Sequences, FiniteSets

CONSTANTS
    PAGE,       \* 0x1000
    HDR,        \* sizeof(block_t)
    ALIGN,      \* 16: sizes are rounded to it, and no smaller rest is split off
    WORD,       \* 2^64, the modulus of size_t
    SIZES,      \* the sizes callers ask for
    FRAMES,     \* frames the frame allocator can still hand out
    NULL

ASSUME HeapAssumption ==
    /\ PAGE \in Nat /\ HDR \in Nat \ {0} /\ ALIGN \in Nat \ {0} /\ WORD \in Nat
    /\ HDR + ALIGN <= PAGE
    /\ 2 * PAGE <= WORD
    /\ \E m \in 0..WORD : WORD = m * ALIGN
    /\ SIZES \subseteq 0..WORD - 1
    /\ FRAMES \in Nat
    /\ NULL \notin Nat

VARIABLES
    free_list,  \* the free blocks, in list order
    size,       \* blk->size of every block there is
    heap_top,
    frames,     \* what the frame allocator has left
    used,       \* the blocks callers hold
    want,       \* how many bytes the holder of each used block asked for
    req,        \* the kmalloc in progress
    ret,        \* the block behind the last returned pointer, or NULL
    corrupt     \* the heap's bytes were overwritten: see Overruns, heap_expand

vars == <<free_list, size, heap_top, frames, used, want, req, ret, corrupt>>

Idle == [pc |-> "idle", want |-> 0, size |-> 0, old |-> NULL, pages |-> 0]

Init ==
    /\ free_list = <<>>
    /\ size = [a \in {} |-> 0]
    /\ heap_top = 0
    /\ frames = FRAMES
    /\ used = {}
    /\ want = [a \in {} |-> 0]
    /\ req = Idle
    /\ ret = NULL
    /\ corrupt = FALSE

\* (size + 15) & ~15, in size_t.
Round(s) == LET t == (s + (ALIGN - 1)) % WORD IN t - (t % ALIGN)

\* The first byte after block a.
End(a) == a + HDR + size[a]

---------------------------------------------------------------------------
(* kmalloc: search, split, expand. *)

\* Entering kmalloc with s # 0, for a caller or (old # NULL) for krealloc.
Search(s, w, old) ==
    req' = [pc |-> "search", want |-> w, size |-> Round(s), old |-> old, pages |-> 0]

kmalloc(s) ==
    /\ req = Idle /\ ~corrupt
    /\ IF s = 0
       THEN ret' = NULL /\ req' = req
       ELSE Search(s, s, NULL) /\ ret' = ret
    /\ UNCHANGED <<free_list, size, heap_top, frames, used, want, corrupt>>

Fits(a, s) == size[a] >= s

\* The rest of block a is worth a block of its own.
Splits(a) == size[a] >= req.size + HDR + ALIGN

\* Mutant of Finish: krealloc does not free the old block.
FinishLeaksOld(a, rest) ==
    /\ ret' = a
    /\ req' = Idle
    /\ free_list' = rest
    /\ used' = (used \ {req.old}) \cup {a}
    /\ want' = [b \in used' |-> IF b = a THEN req.want ELSE want[b]]

\* A block is returned; krealloc then copies the old block into it and frees
\* the old one.
Finish(a, rest) ==
    /\ ret' = a
    /\ req' = Idle
    /\ free_list' = IF req.old = NULL THEN rest ELSE <<req.old>> \o rest
    /\ used' = (used \ {req.old}) \cup {a}
    /\ want' = [b \in used' |-> IF b = a THEN req.want ELSE want[b]]

\* krealloc's memcpy copies blk->size bytes, the old block's whole payload,
\* whatever the new block's size: past its end the next block's header is
\* overwritten, and no more is said.
Overruns(a) == req.old # NULL /\ size[req.old] > size'[a]

\* The k-th free block is the first that fits: it is unlinked and returned,
\* after its end was split off if that is worth a block.
Take(k) ==
    LET cur    == free_list[k]
        split  == cur + HDR + req.size
        before == SubSeq(free_list, 1, k - 1)
        after  == SubSeq(free_list, k + 1, Len(free_list))
    IN  /\ req.pc = "search"
        /\ Fits(cur, req.size)
        /\ \A j \in 1..k - 1 : ~Fits(free_list[j], req.size)
        /\ \/ /\ Splits(cur)
              /\ size' = [b \in DOMAIN size \cup {split} |->
                             IF b = cur THEN req.size
                             ELSE IF b = split THEN size[cur] - req.size - HDR
                             ELSE size[b]]
              /\ Finish(cur, before \o <<split>> \o after)
           \/ /\ ~Splits(cur)
              /\ size' = size
              /\ Finish(cur, before \o after)
        /\ corrupt' = Overruns(cur)
        /\ UNCHANGED <<heap_top, frames>>

\* Mutant of NoFit: the division rounds down.
NoFitRoundsDown ==
    /\ req.pc = "search"
    /\ \A k \in DOMAIN free_list : ~Fits(free_list[k], req.size)
    /\ req' = [req EXCEPT !.pc = "expand", !.pages = (req.size + HDR) \div PAGE]
    /\ UNCHANGED <<free_list, size, heap_top, frames, used, want, ret, corrupt>>

\* Nothing fits: heap_expand is called for as many pages as would do if
\* they made one block.
NoFit ==
    /\ req.pc = "search"
    /\ \A k \in DOMAIN free_list : ~Fits(free_list[k], req.size)
    /\ req' = [req EXCEPT !.pc = "expand",
                          !.pages = ((req.size + HDR + PAGE - 1) % WORD) \div PAGE]
    /\ UNCHANGED <<free_list, size, heap_top, frames, used, want, ret, corrupt>>

\* The page at heap_top becomes a free block.
Grow ==
    /\ size' = [b \in DOMAIN size \cup {heap_top} |->
                   IF b = heap_top THEN PAGE - HDR ELSE size[b]]
    /\ free_list' = <<heap_top>> \o free_list
    /\ heap_top' = heap_top + PAGE

\* One iteration of heap_expand.  Nobody looks at what frame_alloc returned:
\* once it is 0 the heap's pages share physical page 0, and no more is said.
heap_expand ==
    /\ req.pc = "expand" /\ req.pages > 0 /\ ~corrupt
    /\ \/ /\ frames > 0
          /\ frames' = frames - 1
          /\ Grow
          /\ req' = [req EXCEPT !.pages = req.pages - 1]
          /\ corrupt' = corrupt
       \/ /\ frames = 0
          /\ corrupt' = TRUE
          /\ UNCHANGED <<frames, size, free_list, heap_top, req>>
    /\ UNCHANGED <<used, want, ret>>

\* The tail call kmalloc(size), with the size already rounded: 0 when the
\* rounding had wrapped.
Again ==
    /\ req.pc = "expand" /\ req.pages = 0
    /\ IF req.size = 0
       THEN ret' = NULL /\ req' = Idle
       ELSE Search(req.size, req.want, req.old) /\ ret' = ret
    /\ UNCHANGED <<free_list, size, heap_top, frames, used, want, corrupt>>

---------------------------------------------------------------------------
(* kfree and krealloc, by a caller that holds the block. *)

kfree(a) ==
    /\ req = Idle /\ ~corrupt
    /\ a \in used
    /\ free_list' = <<a>> \o free_list
    /\ used' = used \ {a}
    /\ want' = [b \in used' |-> want[b]]
    /\ UNCHANGED <<size, heap_top, frames, req, ret, corrupt>>

\* Mutant of krealloc: a block is moved also when it is large enough.
KreallocMoves(a, s) ==
    /\ req = Idle /\ ~corrupt
    /\ a \in used /\ s # 0
    /\ Search(s, s, a)
    /\ UNCHANGED <<free_list, size, heap_top, frames, used, want, ret, corrupt>>

\* krealloc of NULL is kmalloc, of size 0 is kfree.
krealloc(a, s) ==
    /\ req = Idle /\ ~corrupt
    /\ a \in used /\ s # 0
    /\ \/ /\ size[a] >= s
          /\ want' = [want EXCEPT ![a] = s]
          /\ ret' = a
          /\ req' = req
       \/ /\ size[a] < s
          /\ Search(s, s, a)
          /\ UNCHANGED <<want, ret>>
    /\ UNCHANGED <<free_list, size, heap_top, frames, used, corrupt>>

KernelStep == (\E k \in DOMAIN free_list : Take(k)) \/ NoFit \/ heap_expand \/ Again

Next ==
    \/ KernelStep
    \/ \E s \in SIZES : kmalloc(s)
    \/ \E a \in used : kfree(a) \/ \E s \in SIZES : krealloc(a, s)
    \/ corrupt /\ UNCHANGED vars

Spec == Init /\ [][Next]_vars

\* The kernel keeps executing the call it is in.
FairSpec == Spec /\ WF_vars(KernelStep)

---------------------------------------------------------------------------
(* Properties. *)

Listed == {free_list[k] : k \in DOMAIN free_list}
Blocks == DOMAIN size

(* The types of the heap's state: in particular no block's size, computed  *)
(* by subtraction in kmalloc's split, is ever negative.                    *)
TypeOK ==
    /\ free_list \in Seq(Nat)
    /\ Blocks \subseteq Nat
    /\ size \in [Blocks -> Nat]
    /\ heap_top \in Nat /\ frames \in Nat
    /\ want \in [used -> Nat]
    /\ req \in [pc : {"idle", "search", "expand"}, want : Nat, size : Nat,
                old : used \cup {NULL}, pages : Nat]
    /\ ret \in Nat \cup {NULL}
    /\ corrupt \in BOOLEAN

(* Every block is either on the free list, once, or held by a caller: no   *)
(* block is handed out twice, and none is lost when it is split, unlinked  *)
(* from the middle of the list or freed again.                             *)
EveryBlockOnce ==
    /\ Blocks = Listed \cup used
    /\ Listed \cap used = {}
    /\ \A j, k \in DOMAIN free_list : free_list[j] = free_list[k] => j = k

(* The blocks tile the heap: two blocks share no byte (a header written by *)
(* a split, or the payload of one caller, never lands in another block),   *)
(* and every block ends where the next one, or the unmapped rest, begins.  *)
Tiling ==
    /\ \A a, b \in Blocks : a < b => End(a) <= b
    /\ \A a \in Blocks : End(a) \in Blocks \cup {heap_top}
    /\ heap_top = 0 \/ 0 \in Blocks

\* The sizes whose rounding does not wrap to 0.
Roundable(s) == s + ALIGN - 1 < WORD

(* A caller that asked for s bytes can use s bytes, also after krealloc    *)
(* kept the block, unless s is so large that rounding it up wrapped.       *)
PayloadFits == \A a \in used : Roundable(want[a]) => want[a] <= size[a]

(* krealloc's memcpy, as long as the old block: it stays inside the new    *)
(* block if the size asked for does not wrap when it is rounded up.  If it *)
(* wraps, to 0, the new block is too short for any block but the smallest: *)
(* kmalloc splits it or it was not worth splitting.  So the copy of every  *)
(* block of HDR + ALIGN bytes runs into what follows, and only a wrapped   *)
(* size or exhausted memory ever corrupts the heap.                        *)
CopyFits ==
    [][/\ req.old # NULL /\ req' = Idle /\ ret' # NULL
         => \/ Roundable(req.want) /\ size[req.old] <= size'[ret']
            \/ ~Roundable(req.want) /\ size'[ret'] < HDR + ALIGN
       /\ corrupt' /\ ~corrupt
         => \/ frames = 0
            \/ ~Roundable(req.want) /\ size[req.old] > size'[ret']]_vars

(* A request that a fresh page can satisfy is answered: the tail recursion *)
(* of kmalloc ends, unless memory is exhausted or a copy overran.  (Larger *)
(* expands the heap until memory is exhausted: no block exceeds a page.)   *)
KmallocReturns ==
    req.pc # "idle" /\ req.size <= PAGE - HDR ~> req = Idle \/ corrupt

(* The heap is whole: every block is free once or held once, the blocks    *)
(* tile the heap, every payload is as large as was asked for, and no size  *)
(* is negative.                                                            *)
BlocksSound == TypeOK /\ EveryBlockOnce /\ Tiling /\ PayloadFits
=============================================================================
