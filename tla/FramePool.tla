----------------------------- MODULE FramePool -----------------------------
(***************************************************************************)
(* What the physical frame allocator promises, with no list and no link    *)
(* words: a pool of frames.  A frame is in the pool or held by somebody,   *)
(* never both; an allocation hands out some frame of the pool; it answers  *)
(* 0 only when the pool is empty.  FrameAllocator implements this.         *)
(***************************************************************************)
EXTENDS Naturals

CONSTANT Frame      \* frame numbers; 0 is not one of them

VARIABLES
    free,           \* the frames of the pool
    held,           \* the frames handed out and not given back
    ret             \* what the last allocation returned

vars == <<free, held, ret>>

Init ==
    /\ free = {}
    /\ held = {}
    /\ ret = 0

\* A frame the boot loader reports usable enters the pool.
Seed(f) ==
    /\ f \notin free \cup held
    /\ free' = free \cup {f}
    /\ UNCHANGED <<held, ret>>

Alloc(f) ==
    /\ f \in free
    /\ free' = free \ {f}
    /\ held' = held \cup {f}
    /\ ret' = f

AllocEmpty ==
    /\ free = {}
    /\ ret' = 0
    /\ UNCHANGED <<free, held>>

Release(f) ==
    /\ f \in held
    /\ free' = free \cup {f}
    /\ held' = held \ {f}
    /\ UNCHANGED ret

Next ==
    \/ \E f \in Frame : Seed(f) \/ Alloc(f) \/ Release(f)
    \/ AllocEmpty

Spec == Init /\ [][Next]_vars
=============================================================================
