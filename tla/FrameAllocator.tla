--------------------------- MODULE FrameAllocator ---------------------------
(***************************************************************************)
(* The physical frame allocator, kernel/src/memory/frame.c.                *)
(*                                                                         *)
(* A singly linked free list threaded through the free frames themselves:  *)
(* page_list is the head, the first word of a free frame is the address of *)
(* the next one, 0 ends the list.  Addresses are frame numbers (address /  *)
(* 4096).  The same first word belongs to whoever holds the frame once it  *)
(* is handed out, so the model lets the holder write anything there.       *)
(***************************************************************************)
EXTENDS Naturals, Sequences, FiniteSets

CONSTANTS
    Frame,      \* the frames of the machine's RAM
    Junk,       \* a word that is the address of no frame
    MemMap      \* limine_memmap_response: <<[base, length, usable], ...>>,
                \* base and length in frames

Word == Frame \cup {0, Junk}

\* The frames of the k-th entry of the memory map.
Entry(k) == {f \in Frame : MemMap[k].base <= f /\ f < MemMap[k].base + MemMap[k].length}

\* What the boot loader's protocol guarantees of its map: entries it reports
\* usable are RAM, do not overlap, and never contain frame 0.
ASSUME MemMapAssumption ==
    /\ Frame \subseteq Nat \ {0}
    /\ IsFiniteSet(Frame)
    /\ Junk \notin Frame \cup {0}
    /\ MemMap \in Seq([base : Nat, length : Nat, usable : BOOLEAN])
    /\ \A k \in DOMAIN MemMap : MemMap[k].usable =>
          \A d \in 0..MemMap[k].length - 1 : MemMap[k].base + d \in Frame
    /\ \A k, m \in DOMAIN MemMap :
          k # m /\ MemMap[k].usable /\ MemMap[m].usable => Entry(k) \cap Entry(m) = {}

VARIABLES
    page_list,  \* head of the free list, 0 when it is empty
    next,       \* the first word of every frame
    i, off,     \* frame_init: the entry it works on and j - entry->base
    held,       \* the frames handed out and not given back (the callers')
    ret         \* what the last frame_alloc returned

vars == <<page_list, next, i, off, held, ret>>

Init ==
    /\ page_list = 0
    /\ next \in [Frame -> Word]
    /\ i = 1
    /\ off = 0
    /\ held = {}
    /\ ret = 0

\* Mutant of Push: the head moves before the link word is stored.
PushHeadFirst(p) ==
    /\ next' = [next EXCEPT ![p] = p]
    /\ page_list' = p

\* frame_free's body: link the frame in front of the list.
Push(p) ==
    /\ next' = [next EXCEPT ![p] = page_list]
    /\ page_list' = p

---------------------------------------------------------------------------
(* frame_init: one frame, or one entry, at a time. *)

InitPush ==
    /\ i <= Len(MemMap)
    /\ MemMap[i].usable
    /\ off < MemMap[i].length
    /\ Push(MemMap[i].base + off)
    /\ off' = off + 1
    /\ UNCHANGED <<i, held, ret>>

InitSkip ==
    /\ i <= Len(MemMap)
    /\ MemMap[i].usable => off >= MemMap[i].length
    /\ i' = i + 1
    /\ off' = 0
    /\ UNCHANGED <<page_list, next, held, ret>>

Booted == i > Len(MemMap)

---------------------------------------------------------------------------
(* The operations, once frame_init has returned. *)

\* Mutant of frame_alloc: the end of the list is tested one link too early.
AllocLeavesLast ==
    /\ Booted
    /\ \/ /\ page_list = 0 \/ next[page_list] = 0
          /\ ret' = 0
          /\ UNCHANGED <<page_list, held>>
       \/ /\ page_list # 0 /\ next[page_list] # 0
          /\ page_list' = next[page_list]
          /\ ret' = page_list
          /\ held' = held \cup {page_list}
    /\ UNCHANGED <<next, i, off>>

frame_alloc ==
    /\ Booted
    /\ \/ /\ page_list = 0
          /\ ret' = 0
          /\ UNCHANGED <<page_list, held>>
       \/ /\ page_list # 0
          /\ page_list' = next[page_list]
          /\ ret' = page_list
          /\ held' = held \cup {page_list}
    /\ UNCHANGED <<next, i, off>>

\* Callers give back what they were handed, once: the code checks nothing.
frame_free(p) ==
    /\ Booted
    /\ p \in held
    /\ Push(p)
    /\ held' = held \ {p}
    /\ UNCHANGED <<i, off, ret>>

\* A holder stores something in the first word of its frame.
HolderWrites(p, w) ==
    /\ p \in held
    /\ next' = [next EXCEPT ![p] = w]
    /\ UNCHANGED <<page_list, i, off, held, ret>>

Next ==
    \/ InitPush
    \/ InitSkip
    \/ frame_alloc
    \/ \E p \in Frame : frame_free(p)
    \/ \E p \in Frame, w \in Word : HolderWrites(p, w)

Spec == Init /\ [][Next]_vars

---------------------------------------------------------------------------
(* Properties. *)

(* The types of the allocator's state: in particular page_list, which      *)
(* frame_alloc follows without a check, is always the address of a frame   *)
(* or 0, never a word some caller left in a frame.                         *)
TypeOK ==
    /\ page_list \in Frame \cup {0}
    /\ next \in [Frame -> Word]
    /\ i \in 1..Len(MemMap) + 1
    /\ off \in Nat
    /\ held \subseteq Frame
    /\ ret \in Frame \cup {0}

\* The frames frame_init has already pushed.
Seeded ==
    {f \in Frame : \E k \in DOMAIN MemMap :
        /\ MemMap[k].usable
        /\ f \in Entry(k)
        /\ k < i \/ (k = i /\ f < MemMap[k].base + off)}

\* The frames that must be on the list: seeded and not handed out.
Free == Seeded \ held

\* Following the link words nx from h gives s, the n frames of F, and ends.
Enumerates(s, n, h, nx, F) ==
    /\ \A f \in F : \E k \in 1..n : s[k] = f
    /\ \A k, m \in 1..n : s[k] = s[m] => k = m
    /\ h = IF n = 0 THEN 0 ELSE s[1]
    /\ \A k \in 1..n : nx[s[k]] = IF k = n THEN 0 ELSE s[k + 1]

IsListOf(h, nx, F) ==
    \E s \in [1..Cardinality(F) -> F] : Enumerates(s, Cardinality(F), h, nx, F)

(* The list threaded through the frames is exactly the free frames: it     *)
(* ends (no cycle), visits no frame twice, contains no frame a caller      *)
(* holds, whatever that caller wrote into it, and has lost none.           *)
FreeListExact == IsListOf(page_list, next, Free)

Pool == INSTANCE FramePool WITH free <- Free

(* The linked list behaves as the abstract pool of frames: every           *)
(* allocation returns a frame nobody holds, and 0 only when no usable      *)
(* frame is left.                                                          *)
ImplementsPool == Pool!Spec

=============================================================================
