------------------------------- MODULE Paging -------------------------------
(***************************************************************************)
(* Page tables and the TLB, kernel/src/memory/paging.c and tlb.c: mapping  *)
(* and unmapping ranges in an address space, creating address spaces that  *)
(* share the kernel half, and switching between them.                      *)
(*                                                                         *)
(* The processor walks the tables whenever it likes and caches what it     *)
(* finds, so every store into a table is a step of its own and TlbFill can *)
(* happen between any two.  Virtual pages are numbers; page v has index    *)
(* Index(v, level) in the table of each level, LEVELS (4 in the code) down *)
(* to 1.  An entry is NP (not present) or the frame it points to.          *)
(***************************************************************************)
EXTENDS Naturals, FiniteSets

CONSTANTS
    LEVELS, IDX,    \* levels of tables, entries per table (4 and 512)
    Frame,          \* the frames the frame allocator starts with
    Boot,           \* the boot loader's top-level table
    Page,           \* the virtual pages operations start at
    Phys,           \* the physical pages they map, as first page numbers
    LENGTHS,        \* the lengths of ranges, in pages
    BOOTPAGES,      \* pages paging_init maps (0x400000 / 0x1000)
    NP, Junk

PhysZero == 0       \* the frame frame_alloc's callers get when there is none
VPage == 0..IDX^LEVELS - 1
Idx == 0..IDX - 1
Tables == Frame \cup {Boot, PhysZero}
KernelIdx == IDX \div 2 .. IDX - 1

ASSUME PagingAssumption ==
    /\ LEVELS \in Nat \ {0, 1} /\ IDX \in Nat \ {0, 1}
    /\ Page \subseteq VPage /\ Phys \subseteq Nat \ {0} /\ LENGTHS \subseteq Nat
    /\ BOOTPAGES \in 0..IDX^LEVELS
    /\ Frame \cup {Boot} \subseteq Nat \ {0} /\ Boot \notin Frame
    /\ \A p \in Phys, n \in LENGTHS : (p..p + n - 1) \cap (Frame \cup {Boot}) = {}
    /\ NP \notin Nat \cup {Junk} /\ Junk \notin Nat

\* The laws of exponentiation the proofs use; TLAPS knows none.
ASSUME PowerAssumption ==
    IDX^0 = 1 /\ \A k \in 0..LEVELS - 1 : IDX^k \in Nat /\ IDX^(k + 1) = IDX * IDX^k

VARIABLES
    tab,        \* the contents of the frames used or usable as tables
    free,       \* what the frame allocator has left
    spaces,     \* the top-level tables of the address spaces
    cr3,        \* the current one
    tlb,        \* what the processor has cached
    op,         \* the range operation in progress
    short       \* frame_alloc has returned 0: physical page 0 becomes one
                \* table, then another, and the model says no more

vars == <<tab, free, spaces, cr3, tlb, op, short>>

Index(v, level) == (v \div IDX^(level - 1)) % IDX

\* The level-1 entry of page v, walking from table t at a level; NP if some
\* table on the way is missing.
Entry(t, v) ==
    LET walk[l \in 1..LEVELS] ==    \* the table of level l
            IF l = LEVELS THEN t
            ELSE LET up == walk[l + 1]
                 IN  IF up \in Tables THEN tab[up][Index(v, l + 1)] ELSE NP
    IN  IF walk[1] \in Tables THEN tab[walk[1]][Index(v, 1)] ELSE NP

NoTlb == [v \in VPage |-> NP]
NoOp == [kind |-> "none", root |-> Boot, v |-> 0, p |-> 0, n |-> 0, i |-> 0,
         level |-> LEVELS, table |-> Boot, new |-> NP]

\* At entry of paging_init: the boot loader's tables hold no mapping the
\* operations meet, free frames hold anything.
Init ==
    /\ tab = [t \in Tables |-> [j \in Idx |-> IF t = Boot THEN NP ELSE Junk]]
    /\ free = Frame
    /\ spaces = {Boot}
    /\ cr3 = Boot
    /\ tlb = NoTlb
    /\ op = [NoOp EXCEPT !.kind = "init", !.n = BOOTPAGES]
    /\ short = FALSE

\* frame_alloc: the head of the free list, or 0.  Nothing is freed here, so
\* the frames come in the fixed order of the list.
Alloc(f) ==
    \/ f \in free /\ (\A g \in free : f <= g) /\ free' = free \ {f} /\ short' = short
    \/ free = {} /\ f = PhysZero /\ free' = free /\ short' = TRUE

Zeros == [j \in Idx |-> NP]

---------------------------------------------------------------------------
(* map_page and unmap_page, one table access at a time. *)

Here == op.v + op.i                         \* the page being worked on
At == Index(Here, op.level)                 \* its index in op.table
Working == op.kind # "none" /\ op.i < op.n /\ ~short
Maps == op.kind \in {"map", "init"}

\* The next page of the range, from the top.
NextPage == [op EXCEPT !.i = op.i + 1, !.level = LEVELS, !.table = op.root, !.new = NP]

\* The entry is present: go down.
Descend ==
    /\ Working /\ op.level > 1 /\ op.new = NP
    /\ tab[op.table][At] # NP
    /\ op' = [op EXCEPT !.table = tab[op.table][At], !.level = op.level - 1]
    /\ UNCHANGED <<tab, free, spaces, cr3, tlb, short>>

\* map_page: the entry is missing, a frame is taken and cleared ...
NewTable(f) ==
    /\ Working /\ Maps /\ op.level > 1 /\ op.new = NP
    /\ tab[op.table][At] = NP
    /\ Alloc(f)
    /\ tab' = [tab EXCEPT ![f] = Zeros]
    /\ op' = [op EXCEPT !.new = f]
    /\ UNCHANGED <<spaces, cr3, tlb>>

\* ... and linked in.
LinkTable ==
    /\ op.new # NP /\ ~short
    /\ tab' = [tab EXCEPT ![op.table][At] = op.new]
    /\ op' = [op EXCEPT !.new = NP]
    /\ UNCHANGED <<free, spaces, cr3, tlb, short>>

\* unmap_page: a missing table ends the page's work.
NothingToUnmap ==
    /\ Working /\ ~Maps /\ op.level > 1
    /\ tab[op.table][At] = NP
    /\ op' = NextPage
    /\ UNCHANGED <<tab, free, spaces, cr3, tlb, short>>

\* Mutant of StoreEntry: the whole range is mapped to its first page.
StoreFirst ==
    /\ Working /\ op.level = 1
    /\ tab' = [tab EXCEPT ![op.table][At] = IF Maps THEN op.p ELSE NP]
    /\ op' = NextPage
    /\ UNCHANGED <<free, spaces, cr3, tlb, short>>

\* The last level: the entry is stored.
StoreEntry ==
    /\ Working /\ op.level = 1
    /\ tab' = [tab EXCEPT ![op.table][At] = IF Maps THEN op.p + op.i ELSE NP]
    /\ op' = NextPage
    /\ UNCHANGED <<free, spaces, cr3, tlb, short>>

---------------------------------------------------------------------------
(* The operations. *)

\* A page of the kernel half.
Kernel(v) == Index(v, LEVELS) \in KernelIdx

\* The range [v, v + n) lies in one half, and the kernel half is mapped
\* through kernel_pml4 or, as enable_apic does, through a space that already
\* shares the top-level entries.
Allowed(root, v, n) ==
    /\ v + n - 1 \in VPage
    /\ Kernel(v) <=> Kernel(v + n - 1)
    /\ root # Boot => \A k \in 0..n - 1 :
          Kernel(v + k) => tab[root][Index(v + k, LEVELS)] # NP

paging_map_page(root, v, p, n) ==
    /\ op = NoOp /\ ~short
    /\ root \in spaces /\ Allowed(root, v, n)
    /\ op' = [NoOp EXCEPT !.kind = "map", !.root = root, !.table = root,
                          !.v = v, !.p = p, !.n = n]
    /\ UNCHANGED <<tab, free, spaces, cr3, tlb, short>>

paging_unmap_page(root, v, n) ==
    /\ op = NoOp /\ ~short
    /\ root \in spaces /\ Allowed(root, v, n)
    /\ op' = [NoOp EXCEPT !.kind = "unmap", !.root = root, !.table = root, !.v = v, !.n = n]
    /\ UNCHANGED <<tab, free, spaces, cr3, tlb, short>>

\* Mutant of invalidate: the last page of the range is left out.
InvalidateShort ==
    /\ op.kind \in {"map", "unmap"} /\ op.i = op.n
    /\ tlb' = [v \in VPage |-> IF op.v <= v /\ v < op.v + op.n - 1 THEN NP ELSE tlb[v]]
    /\ op' = NoOp
    /\ UNCHANGED <<tab, free, spaces, cr3, short>>

\* The end of both: invlpg for every page of the range.
invalidate ==
    /\ op.kind \in {"map", "unmap"} /\ op.i = op.n
    /\ tlb' = [v \in VPage |-> IF op.v <= v /\ v < op.v + op.n THEN NP ELSE tlb[v]]
    /\ op' = NoOp
    /\ UNCHANGED <<tab, free, spaces, cr3, short>>

\* The end of paging_init: CR3 is reloaded.
ReloadCr3 ==
    /\ op.kind = "init" /\ op.i = op.n
    /\ tlb' = NoTlb
    /\ op' = NoOp
    /\ UNCHANGED <<tab, free, spaces, cr3, short>>

\* Mutant of paging_create_pml4: the lower half is copied as well.
CreateCopiesAll(f) ==
    /\ op = NoOp /\ ~short
    /\ Alloc(f)
    /\ tab' = [tab EXCEPT ![f] = tab[Boot]]
    /\ spaces' = spaces \cup {f}
    /\ UNCHANGED <<cr3, tlb, op>>

paging_create_pml4(f) ==
    /\ op = NoOp /\ ~short
    /\ Alloc(f)
    /\ tab' = [tab EXCEPT ![f] = [j \in Idx |-> IF j \in KernelIdx THEN tab[Boot][j] ELSE NP]]
    /\ spaces' = spaces \cup {f}
    /\ UNCHANGED <<cr3, tlb, op>>

\* vm_switch.
Switch(root) ==
    /\ op = NoOp /\ ~short
    /\ root \in spaces
    /\ cr3' = root
    /\ tlb' = NoTlb
    /\ UNCHANGED <<tab, free, spaces, op, short>>

\* The processor caches a translation it finds present (external).
TlbFill(v) ==
    /\ ~short
    /\ Entry(cr3, v) # NP
    /\ tlb' = [tlb EXCEPT ![v] = Entry(cr3, v)]
    /\ UNCHANGED <<tab, free, spaces, cr3, op, short>>

Next ==
    \/ Descend \/ LinkTable \/ NothingToUnmap \/ StoreEntry \/ invalidate \/ ReloadCr3
    \/ \E f \in Frame \cup {PhysZero} : NewTable(f) \/ paging_create_pml4(f)
    \/ \E root \in spaces : Switch(root)
    \/ \E root \in spaces, v \in Page, n \in LENGTHS :
          paging_unmap_page(root, v, n) \/ \E p \in Phys : paging_map_page(root, v, p, n)
    \/ \E v \in VPage : TlbFill(v)
    \/ short /\ UNCHANGED vars

Spec == Init /\ [][Next]_vars

---------------------------------------------------------------------------
(* Properties. *)

InRange(v) == op.v <= v /\ v < op.v + op.n

(* The types of the state: in particular map_page and unmap_page only ever *)
(* descend into tables, never into whatever a frame held before.           *)
TypeOK ==
    /\ tab \in [Tables -> [Idx -> Tables \cup Nat \cup {NP, Junk}]]
    /\ free \subseteq Frame
    /\ spaces \subseteq Tables /\ cr3 \in spaces
    /\ op.i \in 0..op.n /\ op.level \in 1..LEVELS
    /\ op.table \in Tables

(* The processor never uses a translation the tables do not hold, except   *)
(* for the pages of an operation that has not invalidated them yet; in     *)
(* particular it never sees a new table before that is cleared.            *)
TlbCoherent ==
    \A v \in VPage :
        tlb[v] # NP => tlb[v] = Entry(cr3, v) \/ (op.kind # "none" /\ InRange(v))

(* When an operation comes to its end, its range is mapped as asked: to    *)
(* consecutive physical pages, or to nothing.                              *)
RangeDone ==
    op.kind # "none" /\ op.i = op.n =>
        \A k \in 0..op.n - 1 :
            Entry(op.root, op.v + k) = IF Maps THEN op.p + k ELSE NP

(* No store into a table changes what any page outside the operation's     *)
(* range, or a page of another space's lower half, is mapped to.           *)
OthersUntouched ==
    [][\A r \in spaces, v \in VPage :
          Entry(r, v)' # Entry(r, v) =>
              op.kind # "none" /\ InRange(v) /\ (r = op.root \/ Kernel(v))]_vars

(* What an address space shows of the kernel half is what the kernel's own *)
(* tables say, also for pages mapped or unmapped after it was created.     *)
KernelHalfShared ==
    \A r \in spaces, v \in VPage :
        Kernel(v) /\ Entry(r, v) # NP => Entry(r, v) = Entry(Boot, v)

(* Tables are tables, a finished operation has mapped what was asked, and  *)
(* the kernel half is the same in all spaces.                              *)
TablesSound == TypeOK /\ RangeDone /\ KernelHalfShared
=============================================================================
