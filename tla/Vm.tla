--------------------------------- MODULE Vm ---------------------------------
(***************************************************************************)
(* Address spaces, kernel/src/memory/vm.c, and the MMIO mappings made in   *)
(* them, memory/mmio.c, over the frame allocator and the page tables.      *)
(*                                                                         *)
(* A space keeps a list of regions; each region's record lies in a frame   *)
(* of its own, or, for MMIO, inside the frame of its mmio_region.  Frames  *)
(* are even numbers; f + 1 is the address of the record inside an          *)
(* mmio_region at f, which is not page-aligned.  Virtual pages are         *)
(* numbered from heap_base.  The loops over pages and over the list are    *)
(* steps of their own.  The flags of a mapping are left out, and so are    *)
(* the levels of its tables (Paging has them).                             *)
(***************************************************************************)
EXTENDS Naturals, Sequences, FiniteSets

CONSTANTS
    FREE,       \* the frame allocator's list at the start, a sequence
    Dev,        \* pages of devices, physical memory the allocator never owned
    HEAP,       \* pages of a space's heap (heap_end - heap_base)
    VPAGES,     \* virtual pages; those from HEAP on serve vm_alloc_at, vm_map_at
    TPAGES,     \* pages that share their tables
    SIZES,      \* sizes of requests, rounded up to pages: at least one, and
                \* less than what would wrap round the address space
    MAXSPACES,
    NULL

RAM == {FREE[k] : k \in DOMAIN FREE}

ASSUME VmAssumption ==
    /\ FREE \in Seq(Nat)
    /\ \A j, k \in DOMAIN FREE : FREE[j] = FREE[k] => j = k
    /\ \A f \in RAM \cup Dev : f \in Nat /\ f % 2 = 0 /\ f >= VPAGES
    /\ SIZES \subseteq Nat \ {0}
    /\ \A p \in Dev, n \in SIZES : \A i \in 0..n - 1 : p + 2 * i \notin RAM
    /\ VPAGES \in Nat /\ HEAP \in 0..VPAGES /\ TPAGES \in Nat \ {0} /\ MAXSPACES \in Nat
    /\ NULL \notin Nat

VARIABLES
    page_list,  \* the frame allocator's list
    space,      \* the spaces, by the address of their record
    reg,        \* the region records on the spaces' lists, with the space and the
                \* virtual page their holder knows them by
    op,         \* the operation in progress
    panicked,   \* an assertion failed
    broken,     \* a frame was used that does not exist or is someone's record,
                \* or a device's page was freed: the model says no more
    released    \* the record of an MMIO mapping was given to the allocator

vars == <<page_list, space, reg, op, panicked, broken, released>>

Running == ~panicked /\ ~broken
Aligned(a) == a % 2 = 0
VPage == 0..VPAGES - 1
Idle == [kind |-> "idle"]

Init ==
    /\ page_list = FREE
    /\ space = [s \in {} |-> 0]
    /\ reg = [r \in {} |-> 0]
    /\ op = Idle
    /\ panicked = FALSE /\ broken = FALSE /\ released = FALSE

\* An mmio_region lies in frame a whose record is still on a list.
Listed(a) == Aligned(a) /\ a + 1 \in DOMAIN reg

\* frame_alloc, k times, gives frames fit for use as anything.
Fit(k) ==
    /\ Len(page_list) >= k
    /\ \A j \in 1..k : Aligned(page_list[j]) /\ ~Listed(page_list[j])

Taken(k) == SubSeq(page_list, k + 1, Len(page_list))

Break == broken' = TRUE /\ UNCHANGED <<page_list, space, reg, op, panicked, released>>
Panic == panicked' = TRUE /\ UNCHANGED <<page_list, space, reg, op, broken, released>>

vm_space_create ==
    /\ Running /\ op = Idle /\ Cardinality(DOMAIN space) < MAXSPACES
    /\ \/ /\ Fit(2)
          /\ page_list' = Taken(2)
          /\ space' = [s \in DOMAIN space \cup {page_list[1]} |->
                          IF s = page_list[1]
                          THEN [pml4 |-> page_list[2], next_free |-> 0, regions |-> NULL,
                                live |-> TRUE, tables |-> [t \in {} |-> 0], map |-> [v \in {} |-> 0]]
                          ELSE space[s]]
          /\ UNCHANGED <<reg, op, panicked, broken, released>>
       \/ ~Fit(2) /\ Break

---------------------------------------------------------------------------
(* Mapping: vm_alloc and vm_alloc_at take frames, the others map p.  r is  *)
(* the region mmio_init brings along.                                      *)

Begin(s, v, n, p, r, adv) ==
    op' = [kind |-> "map", s |-> s, v |-> v, n |-> n, i |-> 0, p |-> p, r |-> r,
           adv |-> adv]

\* At next_free, if the heap has room.
InHeap(s, n, p, r) ==
    IF space[s].next_free + n <= HEAP
    THEN Begin(s, space[s].next_free, n, p, r, TRUE) /\ panicked' = panicked
    ELSE panicked' = TRUE /\ op' = op

\* Callers choose addresses outside the heap and outside of every region.
Vacant(s, v, n) ==
    /\ v >= HEAP /\ v + n <= VPAGES
    /\ \A r \in DOMAIN reg : reg[r].s = s =>
          v + n <= reg[r].virt \/ reg[r].virt + reg[r].size <= v

vm_alloc(s, n) ==
    /\ Running /\ op = Idle
    /\ InHeap(s, n, NULL, NULL)
    /\ UNCHANGED <<page_list, space, reg, broken, released>>

vm_alloc_at(s, v, n) ==
    /\ Running /\ op = Idle /\ Vacant(s, v, n)
    /\ Begin(s, v, n, NULL, NULL, FALSE)
    /\ UNCHANGED <<page_list, space, reg, panicked, broken, released>>

vm_map(s, p, n) ==
    /\ Running /\ op = Idle
    /\ InHeap(s, n, p, NULL)
    /\ UNCHANGED <<page_list, space, reg, broken, released>>

vm_map_at(s, v, p, n) ==
    /\ Running /\ op = Idle /\ Vacant(s, v, n)
    /\ Begin(s, v, n, p, NULL, FALSE)
    /\ UNCHANGED <<page_list, space, reg, panicked, broken, released>>

\* A frame for the mmio_region, then vm_map_region with the region in it.
mmio_init(s, p, n) ==
    /\ Running /\ op = Idle
    /\ \/ /\ Fit(1)
          /\ page_list' = Taken(1)
          /\ InHeap(s, n, p, page_list[1] + 1)
          /\ UNCHANGED <<space, reg, broken, released>>
       \/ ~Fit(1) /\ Break

\* vm_alloc: one frame_alloc and paging_map_page; the others: one iteration
\* of paging_map_page.  A missing table takes another frame; one stands for the
\* three below the PML4, which map_page would take one after the other.
MapNext ==
    LET sp  == space[op.s]
        v   == op.v + op.i
        t   == v \div TPAGES
        own == IF op.p = NULL THEN 1 ELSE 0
        k   == IF t \in DOMAIN sp.tables THEN own ELSE own + 1
        a   == IF op.p = NULL THEN page_list[1] ELSE op.p + 2 * op.i
    IN  /\ Running /\ op.kind = "map" /\ op.i < op.n
        /\ \/ own = 1 /\ page_list # <<>> /\ ~Aligned(page_list[1]) /\ Panic
           \/ (own = 1 /\ page_list # <<>> => Aligned(page_list[1])) /\ ~Fit(k) /\ Break
           \/ /\ Fit(k)
              /\ page_list' = Taken(k)
              /\ space' = [space EXCEPT
                    ![op.s].map = [w \in DOMAIN sp.map \cup {v} |->
                                      IF w = v THEN a ELSE sp.map[w]],
                    ![op.s].tables = [u \in DOMAIN sp.tables \cup {t} |->
                                      IF u \in DOMAIN sp.tables THEN sp.tables[u]
                                      ELSE page_list[k]]]
              /\ op' = [op EXCEPT !.i = op.i + 1]
              /\ UNCHANGED <<reg, panicked, broken, released>>

\* Mutant of Inserted: the new region ends the list.
InsertedCuts(base) ==
    [base |-> base, size |-> op.n, next |-> NULL, s |-> op.s, virt |-> op.v]

\* The record as region_insert leaves it, in front of the list.
Inserted(base) ==
    [base |-> base, size |-> op.n, next |-> space[op.s].regions, s |-> op.s, virt |-> op.v]

\* The record r enters the list; next_free advances.
region_insert(r, base) ==
    /\ reg' = [q \in DOMAIN reg \cup {r} |-> IF q = r THEN Inserted(base) ELSE reg[q]]
    /\ space' = [space EXCEPT ![op.s].regions = r,
                              ![op.s].next_free = IF op.adv THEN @ + op.n ELSE @]

\* All pages are mapped: the region is recorded, under its virtual address
\* or, for MMIO, its physical one.
MapEnd ==
    /\ Running /\ op.kind = "map" /\ op.i = op.n
    /\ \/ /\ op.r # NULL
          /\ region_insert(op.r, op.p)
          /\ op' = Idle
          /\ UNCHANGED <<page_list, panicked, broken, released>>
       \/ /\ op.r = NULL /\ page_list # <<>> /\ ~Listed(page_list[1])
          /\ region_insert(page_list[1], op.v)
          /\ page_list' = Taken(1)
          /\ op' = Idle
          /\ UNCHANGED <<panicked, broken, released>>
       \/ /\ op.r = NULL /\ (page_list # <<>> => Listed(page_list[1]))
          /\ Break

---------------------------------------------------------------------------
(* Unmapping: vm_free, vm_space_destroy, mmio_destroy. *)

\* all: for vm_space_destroy, which goes on with the region rest.
BeginFree(s, v, n, all, rest) ==
    op' = [kind |-> "free", s |-> s, v |-> v, n |-> n, i |-> 0, all |-> all, rest |-> rest]

\* Callers free what they mapped, from its page k on; no region starts there
\* unless k is 0.
vm_free(r, k) ==
    /\ Running /\ op = Idle
    /\ r \in DOMAIN reg /\ reg[r].base = reg[r].virt
    /\ BeginFree(reg[r].s, reg[r].base + k, reg[r].size - k, FALSE, NULL)
    /\ UNCHANGED <<page_list, space, reg, panicked, broken, released>>

\* Nobody uses the space any more; its record and its tables stay taken.
vm_space_destroy(s) ==
    /\ Running /\ op = Idle
    /\ op' = [kind |-> "destroy", s |-> s, cur |-> space[s].regions]
    /\ space' = [space EXCEPT ![s].live = FALSE]
    /\ UNCHANGED <<page_list, reg, panicked, broken, released>>

\* One iteration of vm_space_destroy.
DestroyNext ==
    /\ Running /\ op.kind = "destroy"
    /\ IF op.cur = NULL THEN op' = Idle
       ELSE BeginFree(op.s, reg[op.cur].base, reg[op.cur].size, TRUE, reg[op.cur].next)
    /\ UNCHANGED <<page_list, space, reg, panicked, broken, released>>

\* vm_free's loop: every mapped page of the range goes to the allocator.  A
\* device's page does too: the list then runs through its registers, and the
\* model says no more.
FreeNext ==
    LET v == op.v + op.i
        map == space[op.s].map
    IN  /\ Running /\ op.kind = "free" /\ op.i < op.n
        /\ \/ v \in DOMAIN map /\ map[v] \notin RAM /\ Break
           \/ /\ v \in DOMAIN map => map[v] \in RAM
              /\ page_list' = IF v \in DOMAIN map THEN <<map[v]>> \o page_list ELSE page_list
              /\ op' = [op EXCEPT !.i = op.i + 1]
              /\ UNCHANGED <<space, reg, panicked, broken, released>>

\* The space without the pages [v, v + n).
Unmapped(s, v, n) ==
    [space EXCEPT ![s].map = [w \in {x \in DOMAIN space[s].map : x < v \/ x >= v + n} |->
                                 space[s].map[w]]]

\* paging_unmap_page, then region_remove starts at the head of the list.
FreeUnmap ==
    /\ Running /\ op.kind = "free" /\ op.i = op.n
    /\ space' = Unmapped(op.s, op.v, op.n)
    /\ op' = [kind |-> "walk", s |-> op.s, v |-> op.v, prev |-> NULL,
              cur |-> space[op.s].regions, all |-> op.all, rest |-> op.rest]
    /\ UNCHANGED <<page_list, reg, panicked, broken, released>>

\* After vm_free: back to the caller, or to vm_space_destroy's loop.
Continue ==
    op' = IF op.all THEN [kind |-> "destroy", s |-> op.s, cur |-> op.rest] ELSE Idle

\* Mutant of WalkNext: the walk does not advance.
WalkStuck ==
    /\ Running /\ op.kind = "walk"
    /\ op.cur # NULL /\ reg[op.cur].base # op.v
    /\ op' = [op EXCEPT !.prev = op.cur]
    /\ UNCHANGED <<page_list, space, reg, panicked, broken, released>>

WalkNext ==
    /\ Running /\ op.kind = "walk"
    /\ op.cur # NULL /\ reg[op.cur].base # op.v
    /\ op' = [op EXCEPT !.prev = op.cur, !.cur = reg[op.cur].next]
    /\ UNCHANGED <<page_list, space, reg, panicked, broken, released>>

\* Mutant of WalkFound: the record is freed without being unlinked.
WalkKeeps ==
    /\ Running /\ op.kind = "walk"
    /\ op.cur # NULL /\ reg[op.cur].base = op.v
    /\ page_list' = <<op.cur>> \o page_list
    /\ Continue
    /\ UNCHANGED <<space, reg, panicked, broken, released>>

\* Found: unlinked, and its address given to the allocator.
WalkFound ==
    /\ Running /\ op.kind = "walk"
    /\ op.cur # NULL /\ reg[op.cur].base = op.v
    /\ reg' = [q \in DOMAIN reg \ {op.cur} |->
                  IF q = op.prev THEN [reg[q] EXCEPT !.next = reg[op.cur].next] ELSE reg[q]]
    /\ space' = IF op.prev = NULL THEN [space EXCEPT ![op.s].regions = reg[op.cur].next]
                ELSE space
    /\ page_list' = <<op.cur>> \o page_list
    /\ released' = (released \/ ~Aligned(op.cur))
    /\ Continue
    /\ UNCHANGED <<panicked, broken>>

WalkEnd ==
    /\ Running /\ op.kind = "walk" /\ op.cur = NULL
    /\ Continue
    /\ UNCHANGED <<page_list, space, reg, panicked, broken, released>>

\* The mapping at virt_base goes; the frame too, with the region in it,
\* which stays on the list.
mmio_destroy(r) ==
    /\ Running /\ op = Idle
    /\ r \in DOMAIN reg /\ reg[r].base # reg[r].virt
    /\ reg[r].virt \in DOMAIN space[reg[r].s].map
    /\ space' = Unmapped(reg[r].s, reg[r].virt, reg[r].size)
    /\ page_list' = <<r - 1>> \o page_list
    /\ released' = TRUE
    /\ UNCHANGED <<reg, op, panicked, broken>>

---------------------------------------------------------------------------

KernelStep ==
    MapNext \/ MapEnd \/ DestroyNext \/ FreeNext \/ FreeUnmap \/ WalkNext \/ WalkFound \/ WalkEnd

Live == {s \in DOMAIN space : space[s].live}

\* The kernel has stopped, or the spaces there may be were all destroyed.
Over == ~Running \/ (op = Idle /\ Live = {} /\ Cardinality(DOMAIN space) = MAXSPACES)

Next ==
    \/ KernelStep
    \/ vm_space_create
    \/ \E s \in Live :
          \/ vm_space_destroy(s)
          \/ \E n \in SIZES :
                \/ vm_alloc(s, n)
                \/ \E v \in VPage : vm_alloc_at(s, v, n)
                \/ \E p \in Dev : vm_map(s, p, n) \/ \E v \in VPage : vm_map_at(s, v, p, n)
          \/ \E n \in SIZES, p \in Dev : mmio_init(s, p, n)
    \/ \E r \in DOMAIN reg : mmio_destroy(r) \/ \E k \in 0..reg[r].size - 1 : vm_free(r, k)
    \/ Over /\ UNCHANGED vars

Spec == Init /\ [][Next]_vars

\* The kernel keeps executing the call it is in.
FairSpec == Spec /\ WF_vars(KernelStep)

---------------------------------------------------------------------------
(* Properties. *)

Sound == Running /\ ~released

(* The types of the state: in particular every pointer of a list, and of a *)
(* walk over one, leads to a record that is on a list.                     *)
TypeOK ==
    /\ page_list \in Seq(Nat)
    /\ \A s \in DOMAIN space :
          /\ space[s].regions \in DOMAIN reg \cup {NULL}
          /\ space[s].next_free \in 0..HEAP
          /\ DOMAIN space[s].map \subseteq VPage
    /\ \A r \in DOMAIN reg :
          /\ reg[r].next \in DOMAIN reg \cup {NULL}
          /\ reg[r].s \in DOMAIN space
    /\ op.kind \in {"walk", "destroy"} => op.cur \in DOMAIN reg \cup {NULL}

\* How often address f is in use, and on the free list.
Uses(f) ==
    Cardinality({k \in DOMAIN page_list : page_list[k] = f})
    + Cardinality({x \in (DOMAIN space) \X VPage :
          /\ x[2] \in DOMAIN space[x[1]].map /\ space[x[1]].map[x[2]] = f
          /\ ~(op.kind = "free" /\ op.s = x[1] /\ op.v <= x[2] /\ x[2] < op.v + op.i)})
    + Cardinality({x \in (DOMAIN space) \X VPage :
          x[2] \in DOMAIN space[x[1]].tables /\ space[x[1]].tables[x[2]] = f})
    + Cardinality({s \in DOMAIN space : s = f}) + Cardinality({s \in DOMAIN space : space[s].pml4 = f})
    + Cardinality(DOMAIN reg \cap {f, f + 1})
    + (IF op.kind = "map" /\ op.r = f + 1 THEN 1 ELSE 0)

(* As long as no device page and no MMIO record was given to the           *)
(* allocator, every frame is in exactly one place: on the free list, or a  *)
(* page of one mapping, or a record or a table of one space.  Nothing that *)
(* vm_alloc, vm_free and vm_space_destroy do, in any order and in several  *)
(* spaces, frees a frame twice, frees one in use, or loses one.            *)
FramesOnce == Sound => \A f \in RAM : Uses(f) = 1

\* The regions of a space, following its list (at most N of them).
OnList(s) ==
    LET N == Cardinality(DOMAIN reg)
        at[k \in 0..N] == IF k = 0 THEN space[s].regions
                          ELSE IF at[k - 1] = NULL THEN NULL ELSE reg[at[k - 1]].next
    IN  {at[k] : k \in 0..N} \ {NULL}

(* Between calls, every page mapped in a space belongs to exactly one of   *)
(* the regions on its list, so that vm_space_destroy will find it.         *)
RegionsCover ==
    Sound /\ op = Idle => \A s \in DOMAIN space : \A v \in DOMAIN space[s].map :
        Cardinality({r \in OnList(s) :
            reg[r].virt <= v /\ v < reg[r].virt + reg[r].size}) = 1

(* When vm_space_destroy has come to the end of its list, nothing is left  *)
(* of the space but the space itself and its tables.                       *)
DestroyEmpties ==
    Sound /\ op.kind = "destroy" /\ op.cur = NULL =>
        space[op.s].regions = NULL /\ space[op.s].map = [v \in {} |-> 0]

(* Every operation ends: the walk along the regions never runs in circles. *)
OperationsEnd == op # Idle ~> op = Idle \/ ~Running \/ released

(* What paging_map_page asserts of paddr: the frames that vm_alloc hands   *)
(* it are page-aligned.                                                    *)
AlignedFrames ==
    op.kind = "map" /\ op.p = NULL /\ op.i < op.n /\ page_list # <<>> => Aligned(page_list[1])

(* The records of a space account for all it maps, before and after        *)
(* vm_space_destroy, and their lists lead nowhere else.                    *)
RegionsSound == TypeOK /\ RegionsCover /\ DestroyEmpties
===========================================================================
