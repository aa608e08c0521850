------------------------------ MODULE VmProofs ------------------------------
(***************************************************************************)
(* Proofs about Vm, for any number of frames, spaces, regions and pages:   *)
(* every frame is in exactly one place (FramesOnce), and the regions of a  *)
(* space account for all that it maps (RegionsSound).                      *)
(*                                                                         *)
(* The definitions have the state as parameters: pl for page_list, sp for  *)
(* space, rg for reg, o for op.                                            *)
(***************************************************************************)
EXTENDS Vm, FiniteSetTheorems, SequenceTheorems, WellFoundedInduction, TLAPS

-----------------------------------------------------------------------------
(* The inductive invariant. *)

Link == Nat \cup {NULL}

\* The record of a space.
SpaceOK(r) ==
    /\ DOMAIN r = {"pml4", "next_free", "regions", "live", "tables", "map"}
    /\ r.pml4 \in RAM /\ r.next_free \in 0..HEAP /\ r.regions \in Link
    /\ DOMAIN r.tables \subseteq VPage /\ \A t \in DOMAIN r.tables : r.tables[t] \in RAM
    /\ DOMAIN r.map \subseteq VPage /\ r.map = [v \in DOMAIN r.map |-> r.map[v]]
    /\ \A v \in DOMAIN r.map : r.map[v] \in Nat

\* The record of a region: a mapping of devices or of frames.
RegionOK(r, g) ==
    /\ DOMAIN g = {"base", "size", "next", "s", "virt"}
    /\ g.size \in Nat \ {0} /\ g.virt \in Nat /\ g.virt + g.size <= VPAGES
    /\ g.base = g.virt \/ (g.base \in Dev /\ ~Aligned(r))

Types(pl, sp, rg) ==
    /\ pl \in Seq(Nat)
    /\ IsFiniteSet(DOMAIN sp) /\ DOMAIN sp \subseteq RAM
    /\ \A s \in DOMAIN sp : SpaceOK(sp[s])
    /\ IsFiniteSet(DOMAIN rg) /\ DOMAIN rg \subseteq Nat
    /\ \A r \in DOMAIN rg : RegionOK(r, rg[r])

\* Two ranges of pages have none in common.
Apart(v, n, w, m) == v + n <= w \/ w + m <= v

\* Regions lie below next_free or outside of the heap, and never overlap.
Regions(sp, rg) ==
    /\ \A r \in DOMAIN rg :
          /\ rg[r].s \in DOMAIN sp
          /\ rg[r].virt + rg[r].size <= sp[rg[r].s].next_free \/ HEAP <= rg[r].virt
    /\ \A q, r \in DOMAIN rg : q # r /\ rg[q].s = rg[r].s =>
          Apart(rg[q].virt, rg[q].size, rg[r].virt, rg[r].size)

\* L is the list of the regions of s, from h on along the links.
Chain(L, s, h, rg) ==
    /\ L \in Seq(Nat)
    /\ \A j, k \in 1..Len(L) : L[j] = L[k] => j = k
    /\ \A r : (r \in DOMAIN rg /\ rg[r].s = s) <=> (\E k \in 1..Len(L) : L[k] = r)
    /\ h = IF Len(L) = 0 THEN NULL ELSE L[1]
    /\ \A k \in 1..Len(L) : rg[L[k]].next = IF k = Len(L) THEN NULL ELSE L[k + 1]

Lists(sp, rg) == \A s \in DOMAIN sp : \E L : Chain(L, s, sp[s].regions, rg)

\* The operation in progress: a range being mapped is vacant;
MapOK(sp, rg, o) ==
    /\ o.kind = "map"
    /\ DOMAIN o = {"kind", "s", "v", "n", "i", "p", "r", "adv"}
    /\ o.s \in DOMAIN sp /\ o.v \in Nat /\ o.n \in SIZES /\ o.i \in 0..o.n
    /\ o.p \in Dev \cup {NULL} /\ o.adv \in BOOLEAN
    /\ o.adv => o.v = sp[o.s].next_free /\ o.v + o.n <= HEAP
    /\ ~o.adv => HEAP <= o.v /\ o.v + o.n <= VPAGES
    /\ \A r \in DOMAIN rg : rg[r].s = o.s => Apart(o.v, o.n, rg[r].virt, rg[r].size)
    /\ o.r # NULL => o.r \in Nat /\ ~Aligned(o.r) /\ o.p \in Dev

\* one being freed is part of a region, or no page at all (the physical
\* addresses of a device), and the whole of a region that starts with it;
FreeOK(sp, rg, o) ==
    /\ o.kind = "free"
    /\ DOMAIN o = {"kind", "s", "v", "n", "i", "all", "rest"}
    /\ o.s \in DOMAIN sp /\ o.v \in Nat /\ o.n \in Nat /\ o.i \in 0..o.n /\ o.all \in BOOLEAN
    /\ \A q \in DOMAIN rg : rg[q].s = o.s /\ rg[q].base = o.v /\ rg[q].virt = o.v => rg[q].size = o.n
    /\ \/ VPAGES <= o.v
       \/ \E q \in DOMAIN rg : /\ rg[q].s = o.s /\ rg[q].base = rg[q].virt
                               /\ rg[q].virt <= o.v /\ o.v + o.n <= rg[q].virt + rg[q].size
    /\ o.all => /\ sp[o.s].regions \in DOMAIN rg
                /\ rg[sp[o.s].regions].base = o.v /\ rg[sp[o.s].regions].next = o.rest

\* the walk is on the list, one link apart, and the region it is looking for
\* has no page mapped; in vm_space_destroy that is the first of the list;
WalkOK(sp, rg, o) ==
    /\ o.kind = "walk"
    /\ DOMAIN o = {"kind", "s", "v", "prev", "cur", "all", "rest"}
    /\ o.s \in DOMAIN sp /\ o.all \in BOOLEAN
    /\ o.cur # NULL => o.cur \in DOMAIN rg /\ rg[o.cur].s = o.s
    /\ o.prev = NULL => o.cur = sp[o.s].regions
    /\ o.prev # NULL => o.prev \in DOMAIN rg /\ rg[o.prev].s = o.s /\ rg[o.prev].next = o.cur
    /\ o.all => o.prev = NULL /\ o.cur # NULL /\ rg[o.cur].base = o.v /\ rg[o.cur].next = o.rest
    /\ \A q \in DOMAIN rg : rg[q].s = o.s /\ rg[q].base = o.v /\ rg[q].virt = o.v =>
          \A v \in DOMAIN sp[o.s].map : ~(o.v <= v /\ v < o.v + rg[q].size)

\* and vm_space_destroy is always at the head of the list.
DestroyOK(sp, o) == o.kind = "destroy" /\ o.s \in DOMAIN sp /\ o.cur = sp[o.s].regions

OpOK(sp, rg, o) ==
    o = Idle \/ MapOK(sp, rg, o) \/ FreeOK(sp, rg, o) \/ WalkOK(sp, rg, o) \/ DestroyOK(sp, o)

\* What is mapped belongs to a region, or to one being mapped.
Covered(sp, rg, o) ==
    \A s \in DOMAIN sp : \A v \in DOMAIN sp[s].map :
        \/ \E r \in DOMAIN rg : rg[r].s = s /\ rg[r].virt <= v /\ v < rg[r].virt + rg[r].size
        \/ o.kind = "map" /\ o.s = s /\ o.v <= v /\ v < o.v + o.i

\* An address has one place: kd says of which kind, os of which space, ox under
\* which page or table there.
Kinds == {"none", "free", "page", "table", "space", "pml4", "record", "mmio", "new"}

Tagging(kd) ==
    /\ kd \in [Nat -> Kinds]
    /\ \A f \in Nat : kd[f] # "none" /\ Aligned(f) => f \in RAM
    /\ \A f \in Nat : ~Aligned(f) => kd[f] \in {"none", "free", "record", "new"}

\* The free list holds an address once; below the address of a record that is
\* not page-aligned, its frame is never ahead of it in the list, nor in use.
ListTags(kd, pl) ==
    /\ \A k \in 1..Len(pl) : kd[pl[k]] = "free"
    /\ \A j, k \in 1..Len(pl) : pl[j] = pl[k] => j = k
    /\ \A j, k \in 1..Len(pl) : j < k /\ Aligned(pl[j]) => pl[k] # pl[j] + 1
    /\ \A k \in 1..Len(pl) : ~Aligned(pl[k]) => kd[pl[k] - 1] \in {"free", "mmio"}

\* vm_free has given page v of space s to the allocator.
Freed(o, s, v) == o.kind = "free" /\ o.s = s /\ v \in Nat /\ o.v <= v /\ v < o.v + o.i

SpaceTags(kd, os, ox, sp, o) ==
    \A s \in DOMAIN sp :
        /\ kd[s] = "space"
        /\ kd[sp[s].pml4] = "pml4" /\ os[sp[s].pml4] = s
        /\ \A t \in DOMAIN sp[s].tables :
              /\ kd[sp[s].tables[t]] = "table"
              /\ os[sp[s].tables[t]] = s /\ ox[sp[s].tables[t]] = t
        /\ \A v \in DOMAIN sp[s].map :
              sp[s].map[v] \in RAM /\ ~Freed(o, s, v) =>
                  /\ kd[sp[s].map[v]] = "page"
                  /\ os[sp[s].map[v]] = s /\ ox[sp[s].map[v]] = v

\* An MMIO mapping holds the frame of its record until mmio_destroy.
RegTags(kd, sp, rg, o) ==
    /\ \A r \in DOMAIN rg :
          /\ kd[r] = "record"
          /\ ~Aligned(r) => kd[r - 1] \in {"free", "mmio"}
          /\ rg[r].base # rg[r].virt /\ rg[r].virt \in DOMAIN sp[rg[r].s].map => kd[r - 1] = "mmio"
    /\ o.kind = "map" /\ o.r # NULL => kd[o.r] = "new" /\ kd[o.r - 1] = "mmio"

Tags(kd, os, ox, pl, sp, rg, o) ==
    Tagging(kd) /\ ListTags(kd, pl) /\ SpaceTags(kd, os, ox, sp, o) /\ RegTags(kd, sp, rg, o)

\* Conversely, frame f is where its tag says.
Backed(f, kd, os, ox, pl, sp, rg, o) ==
    /\ kd[f] \notin {"none", "new"}
    /\ kd[f] = "free" => \E k \in 1..Len(pl) : pl[k] = f
    /\ kd[f] = "page" => /\ os[f] \in DOMAIN sp /\ ox[f] \in DOMAIN sp[os[f]].map
                         /\ sp[os[f]].map[ox[f]] = f /\ ~Freed(o, os[f], ox[f])
    /\ kd[f] = "table" => /\ os[f] \in DOMAIN sp /\ ox[f] \in DOMAIN sp[os[f]].tables
                          /\ sp[os[f]].tables[ox[f]] = f
    /\ kd[f] = "space" => f \in DOMAIN sp
    /\ kd[f] = "pml4" => os[f] \in DOMAIN sp /\ sp[os[f]].pml4 = f
    /\ kd[f] = "record" => f \in DOMAIN rg
    /\ kd[f] = "mmio" => f + 1 \in DOMAIN rg \/ (o.kind = "map" /\ o.r = f + 1)

\* (X: the frames a call has taken and not yet put to use).
Full(X, kd, os, ox, pl, sp, rg, o) ==
    /\ \A k \in 1..Len(pl) : Aligned(pl[k])
    /\ \A r \in DOMAIN rg : ~Aligned(r) => kd[r - 1] = "mmio"
    /\ \A f \in RAM \ X : Backed(f, kd, os, ox, pl, sp, rg, o)

Good(X, kd, os, ox, pl, sp, rg, o, ok) ==
    Tags(kd, os, ox, pl, sp, rg, o) /\ (ok => Full(X, kd, os, ox, pl, sp, rg, o))

Tagged(pl, sp, rg, o, ok) == \E kd, os, ox : Good({}, kd, os, ox, pl, sp, rg, o, ok)

VmInv ==
    /\ Types(page_list, space, reg)
    /\ Regions(space, reg) /\ Lists(space, reg) /\ OpOK(space, reg, op)
    /\ Tagged(page_list, space, reg, op, Sound)
    /\ Sound => Covered(space, reg, op)

-----------------------------------------------------------------------------
(* Numbers, addresses and the list of frames. *)

\* The number below an odd one is even, and conversely.
LEMMA Parity ==
    ASSUME NEW f \in Nat
    PROVE  /\ Aligned(f) => ~Aligned(f + 1)
           /\ ~Aligned(f) => f - 1 \in Nat /\ Aligned(f - 1) /\ (f - 1) + 1 = f
  BY DEF Aligned

\* What the assumptions say of the constants.
LEMMA Constants ==
    /\ \A f \in RAM : f \in Nat /\ Aligned(f) /\ f >= VPAGES /\ f + 1 \notin RAM
    /\ \A f \in Dev : f \in Nat /\ f >= VPAGES
    /\ \A p \in Dev, n \in SIZES : \A i \in 0..n - 1 : p + 2 * i \notin RAM
    /\ VPAGES \in Nat /\ HEAP \in Nat /\ HEAP <= VPAGES /\ TPAGES \in Nat \ {0}
    /\ SIZES \subseteq Nat \ {0} /\ NULL \notin Nat /\ VPage \subseteq Nat
    /\ FREE \in Seq(Nat) /\ RAM = {FREE[k] : k \in 1..Len(FREE)}
<1>1. /\ VPAGES \in Nat /\ HEAP \in Nat /\ HEAP <= VPAGES /\ TPAGES \in Nat \ {0}
      /\ SIZES \subseteq Nat \ {0} /\ NULL \notin Nat /\ VPage \subseteq Nat
  BY VmAssumption DEF VPage
<1>2. /\ \A p \in Dev, n \in SIZES : \A i \in 0..n - 1 : p + 2 * i \notin RAM
      /\ \A f \in Dev : f \in Nat /\ f >= VPAGES
  BY VmAssumption
<1>3. \A f \in RAM : f \in Nat /\ Aligned(f) /\ f >= VPAGES
  BY VmAssumption DEF Aligned
<1>4. \A f \in RAM : f + 1 \notin RAM
  BY <1>3, Parity
<1>5. FREE \in Seq(Nat) /\ RAM = {FREE[k] : k \in 1..Len(FREE)}
  BY VmAssumption DEF RAM
<1> QED BY <1>1, <1>2, <1>3, <1>4, <1>5

\* The list without its first k elements.
Rest(pl, k) == SubSeq(pl, k + 1, Len(pl))

\* Its length and its elements.
LEMMA RestIs ==
    ASSUME NEW pl \in Seq(Nat), NEW k \in 0..Len(pl)
    PROVE  /\ Rest(pl, k) \in Seq(Nat) /\ Len(Rest(pl, k)) = Len(pl) - k
           /\ \A j \in 1..Len(pl) - k : Rest(pl, k)[j] = pl[j + k]
<1>1. PICK m \in Nat, n \in Nat : m = k + 1 /\ n = Len(pl) /\ k <= n
  OBVIOUS
<1>2. \A i \in m..n : pl[i] \in Nat
  BY <1>1
<1>3. /\ SubSeq(pl, m, n) \in Seq(Nat)
      /\ Len(SubSeq(pl, m, n)) = IF m <= n THEN n - m + 1 ELSE 0
      /\ \A i \in 1..n - m + 1 : SubSeq(pl, m, n)[i] = pl[m + i - 1]
  BY <1>2, m \in Int, n \in Int, SubSeqProperties
<1>4. Rest(pl, k) = SubSeq(pl, m, n)
  BY <1>1 DEF Rest
<1>5. n - m + 1 = n - k /\ (IF m <= n THEN n - m + 1 ELSE 0) = n - k
  BY <1>1
<1>6. ASSUME NEW j \in 1..n - k PROVE SubSeq(pl, m, n)[j] = pl[j + k]
  <2>1. m + j - 1 = j + k /\ j \in 1..n - m + 1
    BY <1>1, <1>5
  <2> QED BY <1>3, <2>1
<1> QED BY <1>1, <1>3, <1>4, <1>5, <1>6

\* One element and then another, or two at once.
LEMMA RestTwice ==
    ASSUME NEW pl \in Seq(Nat), Len(pl) >= 2
    PROVE  Rest(Rest(pl, 1), 1) = Rest(pl, 2)
<1>1. PICK n \in Nat : n = Len(pl) /\ n >= 2 /\ 1 \in 0..n /\ 2 \in 0..n /\ 1 \in 0..n - 1
  OBVIOUS
<1>2. PICK q \in Seq(Nat) : q = Rest(pl, 1) /\ Len(q) = n - 1 /\ \A j \in 1..n - 1 : q[j] = pl[j + 1]
  BY <1>1, RestIs
<1>3. PICK u \in Seq(Nat) : /\ u = Rest(q, 1) /\ Len(u) = (n - 1) - 1
                            /\ \A j \in 1..(n - 1) - 1 : u[j] = q[j + 1]
  <2>1. 1 \in 0..Len(q)
    BY <1>1, <1>2
  <2>2. /\ Rest(q, 1) \in Seq(Nat) /\ Len(Rest(q, 1)) = Len(q) - 1
        /\ \A j \in 1..Len(q) - 1 : Rest(q, 1)[j] = q[j + 1]
    BY <2>1, RestIs, Zenon
  <2> QED BY <1>2, <2>2
<1>4. PICK w \in Seq(Nat) : w = Rest(pl, 2) /\ Len(w) = n - 2 /\ \A j \in 1..n - 2 : w[j] = pl[j + 2]
  BY <1>1, RestIs
<1>5. ASSUME NEW j \in 1..n - 2 PROVE u[j] = w[j]
  <2>1. j \in 1..(n - 1) - 1 /\ j + 1 \in 1..n - 1 /\ (j + 1) + 1 = j + 2
    BY <1>1
  <2>2. u[j] = pl[j + 2]
    BY <1>2, <1>3, <2>1
  <2> QED BY <1>4, <2>2
<1>6. Len(u) = Len(w) /\ Len(u) = n - 2
  BY <1>1, <1>3, <1>4
<1>7. u = w
  BY <1>5, <1>6, SeqEqual
<1> QED BY <1>2, <1>3, <1>4, <1>7

\* A frame at its front.
LEMMA FrontIs ==
    ASSUME NEW pl \in Seq(Nat), NEW f \in Nat
    PROVE  /\ <<f>> \o pl \in Seq(Nat) /\ Len(<<f>> \o pl) = Len(pl) + 1
           /\ (<<f>> \o pl)[1] = f
           /\ \A j \in 2..Len(pl) + 1 : (<<f>> \o pl)[j] = pl[j - 1]
  OBVIOUS

-----------------------------------------------------------------------------
(* One address moves to another place. *)

\* The tags h with x for f.
Put(h, f, x) == [g \in Nat |-> IF g = f THEN x ELSE h[g]]

\* kd2 differs from kd at f at most, and so do the others.
Moved(f, x, y) == \A g \in Nat : g # f => y[g] = x[g]

\* The first of the list leaves it.
LEMMA TakeList ==
    ASSUME NEW kd, NEW kd2, NEW pl \in Seq(Nat), ListTags(kd, pl), Len(pl) >= 1,
           NEW f, f = pl[1], Moved(f, kd, kd2)
    PROVE  ListTags(kd2, Rest(pl, 1))
<1>1. PICK n \in Nat : n = Len(pl) /\ 1 \in 0..n /\ 1 \in 1..n
  OBVIOUS
<1>2. PICK q \in Seq(Nat) : q = Rest(pl, 1) /\ Len(q) = n - 1 /\ \A j \in 1..n - 1 : q[j] = pl[j + 1]
  BY <1>1, RestIs
<1>3. \A j \in 1..n : pl[j] \in Nat
  BY <1>1
<1>4. ASSUME NEW j \in 1..n - 1
      PROVE  /\ j + 1 \in 1..n /\ 1 < j + 1 /\ q[j] = pl[j + 1] /\ q[j] \in Nat
             /\ q[j] # f /\ kd[q[j]] = "free" /\ kd2[q[j]] = "free"
             /\ ~Aligned(q[j]) => kd2[q[j] - 1] \in {"free", "mmio"}
  <2>1. j + 1 \in 1..n /\ 1 < j + 1 /\ q[j] = pl[j + 1] /\ q[j] \in Nat
    BY <1>1, <1>2, <1>3
  <2>2. q[j] # f /\ kd[q[j]] = "free"
    BY <1>1, <2>1 DEF ListTags
  <2>3. kd2[q[j]] = "free"
    BY <2>1, <2>2 DEF Moved
  <2>4. ASSUME ~Aligned(q[j]) PROVE kd2[q[j] - 1] \in {"free", "mmio"}
    <3>1. kd[q[j] - 1] \in {"free", "mmio"}
      BY <1>1, <2>1, <2>4 DEF ListTags
    <3>2. q[j] - 1 \in Nat /\ Aligned(q[j] - 1) /\ (q[j] - 1) + 1 = q[j]
      BY <2>1, <2>4, Parity
    <3>3. q[j] - 1 # f
      BY <1>1, <2>1, <3>2 DEF ListTags
    <3> QED BY <3>1, <3>2, <3>3 DEF Moved
  <2> QED BY <2>1, <2>2, <2>3, <2>4
<1>5. ASSUME NEW j \in 1..n - 1, NEW k \in 1..n - 1
      PROVE  /\ q[j] = q[k] => j = k
             /\ j < k /\ Aligned(q[j]) => q[k] # q[j] + 1
  <2>1. PICK u \in 1..n, w \in 1..n : u = j + 1 /\ w = k + 1 /\ q[j] = pl[u] /\ q[k] = pl[w]
    BY <1>4
  <2>2. (pl[u] = pl[w] => u = w) /\ (u < w /\ Aligned(pl[u]) => pl[w] # pl[u] + 1)
    BY <1>1 DEF ListTags
  <2> QED BY <2>1, <2>2
<1>6. 1..Len(q) = 1..n - 1
  BY <1>2
<1>7. ListTags(kd2, q)
  <2>1. \A k \in 1..Len(q) : kd2[q[k]] = "free" /\ (~Aligned(q[k]) => kd2[q[k] - 1] \in {"free", "mmio"})
    BY <1>4, <1>6
  <2>2. \A j, k \in 1..Len(q) : (q[j] = q[k] => j = k) /\ (j < k /\ Aligned(q[j]) => q[k] # q[j] + 1)
    BY <1>5, <1>6
  <2> QED BY <2>1, <2>2 DEF ListTags
<1> QED BY <1>2, <1>7

\* An address is put in front of it.
LEMMA PushList ==
    ASSUME NEW kd, NEW kd2, NEW pl \in Seq(Nat), ListTags(kd, pl), NEW f \in Nat,
           kd[f] # "free", kd2[f] = "free", Moved(f, kd, kd2),
           Aligned(f) => \A k \in 1..Len(pl) : pl[k] # f + 1,
           ~Aligned(f) => kd[f - 1] \in {"free", "mmio"}
    PROVE  ListTags(kd2, <<f>> \o pl)
<1>1. PICK n \in Nat : n = Len(pl)
  OBVIOUS
<1>2. PICK q \in Seq(Nat) : /\ q = <<f>> \o pl /\ Len(q) = n + 1 /\ q[1] = f
                            /\ \A j \in 2..n + 1 : q[j] = pl[j - 1]
  BY <1>1, FrontIs
<1>3. \A j \in 1..n : pl[j] \in Nat
  BY <1>1
<1>4. ASSUME NEW j \in 2..n + 1
      PROVE  /\ j - 1 \in 1..n /\ q[j] = pl[j - 1] /\ q[j] \in Nat
             /\ q[j] # f /\ kd2[q[j]] = "free"
             /\ ~Aligned(q[j]) => kd2[q[j] - 1] \in {"free", "mmio"}
  <2>1. j - 1 \in 1..n /\ q[j] = pl[j - 1] /\ q[j] \in Nat
    BY <1>1, <1>2, <1>3
  <2>a. kd[q[j]] = "free"
    BY <1>1, <2>1 DEF ListTags
  <2>2. q[j] # f /\ kd2[q[j]] = "free"
    BY <2>1, <2>a DEF Moved
  <2>3. ASSUME ~Aligned(q[j]) PROVE kd2[q[j] - 1] \in {"free", "mmio"}
    <3>1. kd[q[j] - 1] \in {"free", "mmio"}
      BY <1>1, <2>1, <2>3 DEF ListTags
    <3>2. q[j] - 1 \in Nat
      BY <2>1, <2>3, Parity
    <3> QED BY <3>1, <3>2 DEF Moved
  <2> QED BY <2>1, <2>2, <2>3
<1>5. ~Aligned(f) => kd2[f - 1] \in {"free", "mmio"}
  BY Parity DEF Moved
<1>6. ASSUME NEW j \in 1..n + 1, NEW k \in 1..n + 1
      PROVE  /\ q[j] = q[k] => j = k
             /\ j < k /\ Aligned(q[j]) => q[k] # q[j] + 1
  <2>1. CASE j # 1 /\ k # 1
    <3>1. PICK u \in 1..n, w \in 1..n : u = j - 1 /\ w = k - 1 /\ q[j] = pl[u] /\ q[k] = pl[w]
      BY <1>4, <2>1
    <3>2. (pl[u] = pl[w] => u = w) /\ (u < w /\ Aligned(pl[u]) => pl[w] # pl[u] + 1)
      BY <1>1 DEF ListTags
    <3> QED BY <2>1, <3>1, <3>2
  <2>2. CASE j = 1 /\ k # 1
    BY <1>1, <1>2, <1>4, <2>2
  <2>3. CASE j # 1 /\ k = 1
    BY <1>1, <1>2, <1>4, <2>3
  <2>4. CASE j = 1 /\ k = 1
    BY <2>4
  <2> QED BY <2>1, <2>2, <2>3, <2>4
<1>7. ASSUME NEW j \in 1..n + 1
      PROVE  kd2[q[j]] = "free" /\ (~Aligned(q[j]) => kd2[q[j] - 1] \in {"free", "mmio"})
  <2>1. CASE j = 1
    BY <1>2, <1>5, <2>1
  <2>2. CASE j # 1
    <3>1. j \in 2..n + 1
      BY <2>2
    <3> QED BY <1>4, <3>1
  <2> QED BY <2>1, <2>2
<1>8. 1..Len(q) = 1..n + 1
  BY <1>2
<1>9. ListTags(kd2, q)
  <2>1. \A k \in 1..Len(q) : kd2[q[k]] = "free" /\ (~Aligned(q[k]) => kd2[q[k] - 1] \in {"free", "mmio"})
    BY <1>7, <1>8
  <2>2. \A j, k \in 1..Len(q) : (q[j] = q[k] => j = k) /\ (j < k /\ Aligned(q[j]) => q[k] # q[j] + 1)
    BY <1>6, <1>8
  <2> QED BY <2>1, <2>2 DEF ListTags
<1> QED BY <1>2, <1>9

\* The places in spaces, and those of records, stay if f was none of them.
LEMMA SpacesStay ==
    ASSUME NEW kd, NEW os, NEW ox, NEW kd2, NEW os2, NEW ox2, NEW f, NEW sp, NEW o, NEW o2,
           SpaceTags(kd, os, ox, sp, o), Moved(f, kd, kd2), Moved(f, os, os2), Moved(f, ox, ox2),
           DOMAIN sp \subseteq RAM, \A s \in DOMAIN sp : SpaceOK(sp[s]),
           kd[f] \notin {"space", "pml4", "table", "page"},
           \A s, v : Freed(o, s, v) => Freed(o2, s, v)
    PROVE  SpaceTags(kd2, os2, ox2, sp, o2)
<1> SUFFICES ASSUME NEW s \in DOMAIN sp
             PROVE  /\ kd2[s] = "space"
                    /\ kd2[sp[s].pml4] = "pml4" /\ os2[sp[s].pml4] = s
                    /\ \A t \in DOMAIN sp[s].tables :
                          /\ kd2[sp[s].tables[t]] = "table"
                          /\ os2[sp[s].tables[t]] = s /\ ox2[sp[s].tables[t]] = t
                    /\ \A v \in DOMAIN sp[s].map :
                          sp[s].map[v] \in RAM /\ ~Freed(o2, s, v) =>
                              /\ kd2[sp[s].map[v]] = "page"
                              /\ os2[sp[s].map[v]] = s /\ ox2[sp[s].map[v]] = v
  BY DEF SpaceTags
<1>1. \A g \in Nat : kd[g] \in {"space", "pml4", "table", "page"} =>
          kd2[g] = kd[g] /\ os2[g] = os[g] /\ ox2[g] = ox[g]
  BY DEF Moved
<1>2. s \in Nat /\ sp[s].pml4 \in Nat /\ \A t \in DOMAIN sp[s].tables : sp[s].tables[t] \in Nat
  BY Constants DEF SpaceOK
<1>3. kd2[s] = "space" /\ kd2[sp[s].pml4] = "pml4" /\ os2[sp[s].pml4] = s
  BY <1>1, <1>2 DEF SpaceTags
<1>4. ASSUME NEW t \in DOMAIN sp[s].tables
      PROVE  /\ kd2[sp[s].tables[t]] = "table"
             /\ os2[sp[s].tables[t]] = s /\ ox2[sp[s].tables[t]] = t
  <2>1. /\ kd[sp[s].tables[t]] = "table"
        /\ os[sp[s].tables[t]] = s /\ ox[sp[s].tables[t]] = t
    BY DEF SpaceTags
  <2> QED BY <1>1, <1>2, <2>1
<1>5. ASSUME NEW v \in DOMAIN sp[s].map, sp[s].map[v] \in RAM, ~Freed(o2, s, v)
      PROVE  /\ kd2[sp[s].map[v]] = "page"
             /\ os2[sp[s].map[v]] = s /\ ox2[sp[s].map[v]] = v
  <2>1. /\ kd[sp[s].map[v]] = "page"
        /\ os[sp[s].map[v]] = s /\ ox[sp[s].map[v]] = v
    BY <1>5 DEF SpaceTags
  <2> QED BY <1>1, <1>5, <2>1, Constants
<1> QED BY <1>3, <1>4, <1>5

\* The same for the records.
LEMMA RecordsStay ==
    ASSUME NEW kd, NEW kd2, NEW f, NEW sp, NEW sp2, NEW rg, NEW o,
           RegTags(kd, sp, rg, o), Moved(f, kd, kd2), f \in Nat,
           DOMAIN rg \subseteq Nat, \A r \in DOMAIN rg : RegionOK(r, rg[r]),
           kd[f] \notin {"record", "mmio", "new"}, Aligned(f) => f + 1 \notin DOMAIN rg,
           o.kind = "map" /\ o.r # NULL => o.r \in Nat /\ ~Aligned(o.r),
           \A r \in DOMAIN rg :
              rg[r].base # rg[r].virt /\ rg[r].virt \in DOMAIN sp2[rg[r].s].map =>
                  rg[r].virt \in DOMAIN sp[rg[r].s].map
    PROVE  RegTags(kd2, sp2, rg, o)
<1>1. ASSUME NEW r \in DOMAIN rg
      PROVE  /\ kd2[r] = "record"
             /\ ~Aligned(r) => kd2[r - 1] \in {"free", "mmio"}
             /\ rg[r].base # rg[r].virt /\ rg[r].virt \in DOMAIN sp2[rg[r].s].map =>
                   kd2[r - 1] = "mmio"
  <2>1. r \in Nat /\ kd[r] = "record" /\ r # f
    BY DEF RegTags
  <2>2. kd2[r] = "record"
    BY <2>1 DEF Moved
  <2>3. ASSUME ~Aligned(r) PROVE r - 1 \in Nat /\ r - 1 # f /\ kd2[r - 1] = kd[r - 1]
    BY <2>1, <2>3, Parity DEF Moved
  <2>4. ASSUME rg[r].base # rg[r].virt PROVE ~Aligned(r)
    BY <2>4 DEF RegionOK
  <2> QED BY <2>2, <2>3, <2>4 DEF RegTags
<1>2. ASSUME o.kind = "map", o.r # NULL PROVE kd2[o.r] = "new" /\ kd2[o.r - 1] = "mmio"
  <2>1. kd[o.r] = "new" /\ kd[o.r - 1] = "mmio"
    BY <1>2 DEF RegTags
  <2>2. o.r \in Nat /\ o.r - 1 \in Nat
    BY <1>2, Parity
  <2> QED BY <2>1, <2>2 DEF Moved
<1> QED BY <1>1, <1>2 DEF RegTags

\* Put changes the tag of f and no other.
LEMMA PutIs ==
    ASSUME NEW h, NEW f \in Nat, NEW x
    PROVE  /\ Put(h, f, x)[f] = x /\ Moved(f, h, Put(h, f, x))
           /\ \A g \in Nat : g # f => Put(h, f, x)[g] = h[g]
  BY DEF Put, Moved

\* It is a tagging if x is fit for the address f.
LEMMA PutTag ==
    ASSUME NEW kd, Tagging(kd), NEW f \in Nat, NEW x \in Kinds,
           Aligned(f) => f \in RAM, ~Aligned(f) => x \in {"none", "free", "record", "new"}
    PROVE  Tagging(Put(kd, f, x))
  BY DEF Tagging, Put

\* The region that mmio_init brings along is in no frame of its own.
NewOK(o) == o.kind = "map" /\ o.r # NULL => o.r \in Nat /\ ~Aligned(o.r)

\* frame_alloc finds frame f fit for use.
Ready(X, kd, os, ox, pl, sp, rg, o, ok, f) ==
    /\ Types(pl, sp, rg) /\ NewOK(o) /\ Good(X, kd, os, ox, pl, sp, rg, o, ok)
    /\ Len(pl) >= 1 /\ f = pl[1] /\ (Aligned(f) => f + 1 \notin DOMAIN rg)

\* It leaves the list and gets the tags x, y and z.
LEMMA Take ==
    ASSUME NEW X, NEW kd, NEW os, NEW ox, NEW pl, NEW sp, NEW rg, NEW o, NEW ok, NEW f,
           Ready(X, kd, os, ox, pl, sp, rg, o, ok, f), NEW x \in Kinds, NEW y, NEW z,
           Aligned(f) \/ x = "record"
    PROVE  /\ f \in Nat /\ (Aligned(f) => f \in RAM) /\ kd[f] = "free"
           /\ Types(Rest(pl, 1), sp, rg)
           /\ Good(X \cup {f}, Put(kd, f, x), Put(os, f, y), Put(ox, f, z), Rest(pl, 1), sp, rg, o, ok)
<1>0. /\ Types(pl, sp, rg) /\ NewOK(o) /\ Good(X, kd, os, ox, pl, sp, rg, o, ok)
      /\ Len(pl) >= 1 /\ f = pl[1] /\ (Aligned(f) => f + 1 \notin DOMAIN rg)
  BY DEF Ready
<1>1. PICK n \in Nat : n = Len(pl) /\ 1 \in 0..n /\ 1 \in 1..n
  BY <1>0 DEF Types
<1>2. /\ pl \in Seq(Nat) /\ DOMAIN sp \subseteq RAM /\ \A s \in DOMAIN sp : SpaceOK(sp[s])
      /\ DOMAIN rg \subseteq Nat /\ \A r \in DOMAIN rg : RegionOK(r, rg[r])
  BY <1>0 DEF Types
<1>3. /\ Tagging(kd) /\ ListTags(kd, pl) /\ SpaceTags(kd, os, ox, sp, o) /\ RegTags(kd, sp, rg, o)
  BY <1>0 DEF Good, Tags
<1>4. f \in Nat /\ kd[f] = "free"
  BY <1>0, <1>1, <1>2, <1>3 DEF ListTags
<1>5. Aligned(f) => f \in RAM
  BY <1>3, <1>4 DEF Tagging
<1>6. PICK kd2, os2, ox2 : kd2 = Put(kd, f, x) /\ os2 = Put(os, f, y) /\ ox2 = Put(ox, f, z)
  OBVIOUS
<1>7. /\ Moved(f, kd, kd2) /\ Moved(f, os, os2) /\ Moved(f, ox, ox2) /\ kd2[f] = x
  <2>1. Moved(f, kd, kd2) /\ kd2[f] = x
    BY <1>4, <1>6, PutIs
  <2>2. Moved(f, os, os2)
    BY <1>4, <1>6, PutIs
  <2>3. Moved(f, ox, ox2)
    BY <1>4, <1>6, PutIs
  <2> QED BY <2>1, <2>2, <2>3
<1>8. PICK q \in Seq(Nat) : q = Rest(pl, 1) /\ Len(q) = n - 1 /\ \A j \in 1..n - 1 : q[j] = pl[j + 1]
  BY <1>1, <1>2, RestIs
<1>9. Tagging(kd2)
  BY <1>0, <1>3, <1>4, <1>5, <1>6, PutTag
<1>10. ListTags(kd2, q)
  BY <1>0, <1>2, <1>3, <1>7, <1>8, TakeList
<1>11. SpaceTags(kd2, os2, ox2, sp, o)
  BY <1>2, <1>3, <1>4, <1>7, SpacesStay
<1>12. RegTags(kd2, sp, rg, o)
  BY <1>0, <1>2, <1>3, <1>4, <1>7, RecordsStay DEF NewOK
<1>13. ASSUME ok PROVE Full(X \cup {f}, kd2, os2, ox2, q, sp, rg, o)
  <2>1. Full(X, kd, os, ox, pl, sp, rg, o)
    BY <1>0, <1>13 DEF Good
  <2>2. \A k \in 1..Len(q) : Aligned(q[k])
    <3>1. \A j \in 1..n - 1 : j + 1 \in 1..n
      BY <1>1
    <3> QED BY <1>1, <1>8, <2>1, <3>1 DEF Full
  <2>3. ASSUME NEW r \in DOMAIN rg, ~Aligned(r) PROVE kd2[r - 1] = "mmio"
    <3>1. r - 1 \in Nat /\ (r - 1) + 1 = r /\ Aligned(r - 1)
      BY <1>2, <2>3, Parity
    <3> QED BY <1>0, <1>7, <2>1, <2>3, <3>1 DEF Full, Moved
  <2>4. ASSUME NEW g \in RAM \ (X \cup {f}) PROVE Backed(g, kd2, os2, ox2, q, sp, rg, o)
    <3>1. g \in Nat /\ kd2[g] = kd[g] /\ os2[g] = os[g] /\ ox2[g] = ox[g]
      BY <1>7, Constants DEF Moved
    <3>2. Backed(g, kd, os, ox, pl, sp, rg, o)
      BY <2>1 DEF Full
    <3>3. ASSUME kd2[g] = "free" PROVE \E k \in 1..Len(q) : q[k] = g
      <4>1. PICK k \in 1..n : pl[k] = g
        BY <1>1, <3>1, <3>2, <3>3 DEF Backed
      <4>2. k - 1 \in 1..n - 1 /\ (k - 1) + 1 = k
        BY <1>0, <1>1, <4>1
      <4> QED BY <1>8, <4>1, <4>2
    <3> QED BY <3>1, <3>2, <3>3 DEF Backed
  <2> QED BY <2>2, <2>3, <2>4 DEF Full
<1>14. Types(q, sp, rg)
  BY <1>0, <1>8 DEF Types
<1> QED BY <1>4, <1>5, <1>6, <1>8, <1>9, <1>10, <1>11, <1>12, <1>13, <1>14 DEF Good, Tags

-----------------------------------------------------------------------------
(* Steps that leave every address in its place. *)

\* The spaces hold the same frames.
Same(sp, sp2) ==
    /\ DOMAIN sp2 = DOMAIN sp
    /\ \A s \in DOMAIN sp : /\ sp2[s].pml4 = sp[s].pml4 /\ sp2[s].tables = sp[s].tables
                             /\ sp2[s].map = sp[s].map

\* Then the tags of the spaces stay.
LEMMA SameTags ==
    ASSUME NEW kd, NEW os, NEW ox, NEW sp, NEW sp2, NEW o, NEW o2,
           SpaceTags(kd, os, ox, sp, o), Same(sp, sp2),
           \A s, v : Freed(o, s, v) => Freed(o2, s, v)
    PROVE  SpaceTags(kd, os, ox, sp2, o2)
  BY DEF SpaceTags, Same

\* A new operation keeps the tags if it has freed the same pages and brings no record.
LEMMA OpTags ==
    ASSUME NEW pl, NEW sp, NEW sp2, NEW rg, NEW o, NEW o2, NEW ok,
           Tagged(pl, sp, rg, o, ok), Same(sp, sp2), \A r \in DOMAIN rg : rg[r].s \in DOMAIN sp,
           \A s, v : Freed(o2, s, v) <=> Freed(o, s, v),
           o.kind = "map" => o.r = NULL, o2.kind = "map" => o2.r = NULL
    PROVE  Tagged(pl, sp2, rg, o2, ok)
<1>1. PICK kd, os, ox : Good({}, kd, os, ox, pl, sp, rg, o, ok)
  BY DEF Tagged
<1>2. Tagging(kd) /\ ListTags(kd, pl) /\ SpaceTags(kd, os, ox, sp, o) /\ RegTags(kd, sp, rg, o)
  BY <1>1 DEF Good, Tags
<1>3. SpaceTags(kd, os, ox, sp2, o2)
  BY <1>2, SameTags
<1>4. RegTags(kd, sp2, rg, o2)
  BY <1>2 DEF RegTags, Same
<1>5. ASSUME ok PROVE Full({}, kd, os, ox, pl, sp2, rg, o2)
  <2>1. Full({}, kd, os, ox, pl, sp, rg, o)
    BY <1>1, <1>5 DEF Good
  <2>2. ASSUME NEW g \in RAM \ {} PROVE Backed(g, kd, os, ox, pl, sp2, rg, o2)
    <3>1. Backed(g, kd, os, ox, pl, sp, rg, o)
      BY <2>1 DEF Full
    <3>2. kd[g] = "mmio" => g + 1 \in DOMAIN rg
      <4>1. g + 1 # NULL
        BY Constants
      <4> QED BY <3>1, <4>1 DEF Backed
    <3> QED BY <3>1, <3>2 DEF Backed, Same
  <2> QED BY <2>1, <2>2 DEF Full
<1> QED BY <1>2, <1>3, <1>4, <1>5 DEF Tagged, Good, Tags

\* Along a list.
LEMMA ChainHead ==
    ASSUME NEW sp, NEW rg, Lists(sp, rg), NEW s \in DOMAIN sp, sp[s].regions # NULL
    PROVE  sp[s].regions \in DOMAIN rg /\ rg[sp[s].regions].s = s
<1>1. PICK L : Chain(L, s, sp[s].regions, rg)
  BY DEF Lists
<1>2. PICK n \in Nat : n = Len(L)
  BY <1>1 DEF Chain
<1>3. n # 0 /\ sp[s].regions = L[1]
  BY <1>1, <1>2 DEF Chain
<1>4. 1 \in 1..n
  BY <1>3
<1> QED BY <1>1, <1>2, <1>3, <1>4 DEF Chain

\* The link of a region of s leads to another, or ends the list.
LEMMA ChainNext ==
    ASSUME NEW sp, NEW rg, Lists(sp, rg), NEW r \in DOMAIN rg, rg[r].s \in DOMAIN sp, rg[r].next # NULL
    PROVE  rg[r].next \in DOMAIN rg /\ rg[rg[r].next].s = rg[r].s
<1>1. PICK L : Chain(L, rg[r].s, sp[rg[r].s].regions, rg)
  BY DEF Lists
<1>2. PICK n \in Nat : n = Len(L)
  BY <1>1 DEF Chain
<1>3. PICK k \in 1..n : L[k] = r
  BY <1>1, <1>2 DEF Chain
<1>4. k # n /\ rg[r].next = L[k + 1]
  BY <1>1, <1>2, <1>3 DEF Chain
<1>5. k + 1 \in 1..n
  BY <1>4
<1> QED BY <1>1, <1>2, <1>4, <1>5 DEF Chain

\* It holds at the start.
LEMMA InitInv == Init => VmInv
<1> SUFFICES ASSUME Init PROVE VmInv
  OBVIOUS
<1>1. /\ page_list = FREE /\ DOMAIN space = {} /\ DOMAIN reg = {} /\ op = Idle
  BY DEF Init
<1>2. Types(page_list, space, reg)
  BY <1>1, Constants, FS_EmptySet DEF Types
<1>3. Regions(space, reg) /\ Lists(space, reg) /\ OpOK(space, reg, op) /\ Covered(space, reg, op)
  BY <1>1 DEF Regions, Lists, OpOK, Covered
<1>4. PICK n \in Nat : n = Len(FREE)
  BY Constants
<1>5. PICK kd : kd = [g \in Nat |-> IF g \in RAM THEN "free" ELSE "none"]
  OBVIOUS
<1>6. Tagging(kd)
  BY <1>5, Constants DEF Tagging, Kinds
<1>7. \A k \in 1..n : FREE[k] \in RAM /\ FREE[k] \in Nat /\ Aligned(FREE[k])
  BY <1>4, Constants
<1>8. ListTags(kd, FREE)
  <2>1. \A j, k \in 1..n : FREE[j] = FREE[k] => j = k
    BY <1>4, VmAssumption
  <2>2. \A j, k \in 1..n : FREE[k] # FREE[j] + 1
    BY <1>7, Constants
  <2> QED BY <1>4, <1>5, <1>7, <2>1, <2>2 DEF ListTags
<1>9. SpaceTags(kd, kd, kd, space, op) /\ RegTags(kd, space, reg, op)
  BY <1>1 DEF SpaceTags, RegTags, Idle
<1>10. Full({}, kd, kd, kd, FREE, space, reg, op)
  <2>1. \A f \in RAM : kd[f] = "free" /\ \E k \in 1..n : FREE[k] = f
    BY <1>4, <1>5, Constants
  <2> QED BY <1>1, <1>4, <1>7, <2>1 DEF Full, Backed
<1> QED BY <1>1, <1>2, <1>3, <1>6, <1>8, <1>9, <1>10 DEF VmInv, Tagged, Good, Tags

\* The kernel stops, or nothing happens.
LEMMA StopInv ==
    ASSUME VmInv, page_list' = page_list, space' = space, reg' = reg, op' = op, Sound' => Sound
    PROVE  VmInv'
<1>1. Tagged(page_list, space, reg, op, Sound')
  <2>1. PICK kd, os, ox : Good({}, kd, os, ox, page_list, space, reg, op, Sound)
    BY DEF VmInv, Tagged
  <2>2. Good({}, kd, os, ox, page_list, space, reg, op, Sound')
    BY <2>1 DEF Good
  <2> QED BY <2>2 DEF Tagged
<1> QED BY <1>1 DEF VmInv

\* A new operation, over the same spaces.
LEMMA OpInv ==
    ASSUME VmInv, page_list' = page_list, Same(space, space'), reg' = reg, Sound' => Sound,
           Types(page_list, space', reg), Regions(space', reg), Lists(space', reg),
           OpOK(space', reg, op'),
           op.kind # "map", op'.kind = "map" => op'.r = NULL,
           \A s, v : ~Freed(op, s, v), \A s, v : ~Freed(op', s, v)
    PROVE  VmInv'
<1>1. \A r \in DOMAIN reg : reg[r].s \in DOMAIN space
  BY DEF VmInv, Regions
<1>2. Tagged(page_list, space, reg, op, Sound')
  <2>1. PICK kd, os, ox : Good({}, kd, os, ox, page_list, space, reg, op, Sound)
    BY DEF VmInv, Tagged
  <2>2. Good({}, kd, os, ox, page_list, space, reg, op, Sound')
    BY <2>1 DEF Good
  <2> QED BY <2>2 DEF Tagged
<1>3. Tagged(page_list, space', reg, op', Sound')
  BY <1>1, <1>2, OpTags
<1>4. ASSUME Sound' PROVE Covered(space', reg, op')
  <2>1. Covered(space, reg, op)
    BY <1>4 DEF VmInv
  <2> QED BY <2>1 DEF Covered, Same
<1> QED BY <1>3, <1>4 DEF VmInv

\* The spaces may well stay as they are.
LEMMA SameSpace == Same(space, space)
  BY DEF Same

\* Where a mapping may start.
Placed(s, v, n, p, r, adv) ==
    /\ s \in DOMAIN space /\ v \in Nat /\ n \in SIZES /\ p \in Dev \cup {NULL} /\ adv \in BOOLEAN
    /\ r # NULL => r \in Nat /\ ~Aligned(r) /\ p \in Dev
    /\ adv => v = space[s].next_free /\ v + n <= HEAP
    /\ ~adv => /\ HEAP <= v /\ v + n <= VPAGES
               /\ \A q \in DOMAIN reg : reg[q].s = s => Apart(v, n, reg[q].virt, reg[q].size)

\* Then the new operation is sound.
LEMMA BeginOK ==
    ASSUME VmInv, NEW s, NEW v, NEW n, NEW p, NEW r, NEW adv,
           Placed(s, v, n, p, r, adv), Begin(s, v, n, p, r, adv), NEW o, o = op'
    PROVE  MapOK(space, reg, o) /\ o.kind = "map" /\ o.i = 0 /\ o.r = r
<1>1. /\ DOMAIN o = {"kind", "s", "v", "n", "i", "p", "r", "adv"}
      /\ o.kind = "map" /\ o.s = s /\ o.v = v /\ o.n = n /\ o.i = 0 /\ o.p = p /\ o.r = r
      /\ o.adv = adv
  BY DEF Begin
<1>2. v \in Nat /\ n \in Nat \ {0} /\ HEAP \in Nat
  BY Constants DEF Placed
<1>3. ASSUME NEW q \in DOMAIN reg, reg[q].s = s PROVE Apart(v, n, reg[q].virt, reg[q].size)
  <2>1. CASE adv
    <3>1. /\ reg[q].virt \in Nat /\ reg[q].size \in Nat
          /\ reg[q].virt + reg[q].size <= v \/ HEAP <= reg[q].virt
      BY <1>3, <2>1 DEF Placed, VmInv, Types, RegionOK, Regions
    <3> QED BY <1>2, <2>1, <3>1 DEF Apart, Placed
  <2>2. CASE ~adv
    BY <1>3, <2>2 DEF Placed
  <2> QED BY <2>1, <2>2
<1> QED BY <1>1, <1>2, <1>3 DEF MapOK, Placed

\* vm_alloc, vm_alloc_at, vm_map and vm_map_at.
LEMMA BeginInv ==
    ASSUME VmInv, page_list' = page_list, space' = space, reg' = reg, Sound' => Sound, op = Idle,
           NEW s, NEW v, NEW n, NEW p, NEW adv,
           Placed(s, v, n, p, NULL, adv), Begin(s, v, n, p, NULL, adv)
    PROVE  VmInv'
<1>1. PICK o : o = op'
  OBVIOUS
<1>2. MapOK(space, reg, o) /\ o.kind = "map" /\ o.r = NULL
  BY <1>1, BeginOK
<1>3. (\A t, w : ~Freed(o, t, w)) /\ (\A t, w : ~Freed(op, t, w)) /\ op.kind # "map"
  BY <1>2 DEF Freed, Idle
<1>4. /\ Types(page_list, space', reg) /\ Regions(space', reg) /\ Lists(space', reg)
      /\ OpOK(space', reg, op')
  BY <1>1, <1>2 DEF VmInv, OpOK
<1> QED BY <1>1, <1>2, <1>3, <1>4, SameSpace, OpInv

\* At next_free, or a panic if the heap is full.
LEMMA HeapInv ==
    ASSUME VmInv, page_list' = page_list, space' = space, reg' = reg, broken' = broken,
           released' = released, op = Idle,
           NEW s \in Live, NEW n \in SIZES, NEW p \in Dev \cup {NULL},
           InHeap(s, n, p, NULL)
    PROVE  VmInv'
<1>1. s \in DOMAIN space
  BY DEF Live
<1>2. CASE panicked' = TRUE /\ op' = op
  <2>1. ~Sound'
    BY <1>2 DEF Sound, Running
  <2> QED BY <1>2, <2>1, StopInv
<1>3. CASE /\ space[s].next_free + n <= HEAP
           /\ Begin(s, space[s].next_free, n, p, NULL, TRUE) /\ panicked' = panicked
  <2>1. Sound' => Sound
    BY <1>3 DEF Sound, Running
  <2>2. space[s].next_free \in Nat
    <3>1. SpaceOK(space[s])
      BY <1>1 DEF VmInv, Types
    <3> QED BY <3>1, Constants DEF SpaceOK
  <2>3. Placed(s, space[s].next_free, n, p, NULL, TRUE)
    BY <1>1, <1>3, <2>2 DEF Placed
  <2> QED BY <1>3, <2>1, <2>3, BeginInv
<1> QED BY <1>2, <1>3 DEF InHeap

\* At an address of the caller's choice.
LEMMA AtInv ==
    ASSUME VmInv, page_list' = page_list, space' = space, reg' = reg, panicked' = panicked,
           broken' = broken, released' = released, op = Idle,
           NEW s \in Live, NEW v \in VPage, NEW n \in SIZES, NEW p \in Dev \cup {NULL},
           Vacant(s, v, n), Begin(s, v, n, p, NULL, FALSE)
    PROVE  VmInv'
<1>1. s \in DOMAIN space /\ v \in Nat
  BY Constants DEF Live
<1>2. Sound' => Sound
  BY DEF Sound, Running
<1>3. /\ HEAP <= v /\ v + n <= VPAGES
      /\ \A r \in DOMAIN reg : reg[r].s = s => Apart(v, n, reg[r].virt, reg[r].size)
  <2>1. v >= HEAP => HEAP <= v
    BY <1>1, Constants
  <2> QED BY <2>1 DEF Vacant, Apart
<1>4. Placed(s, v, n, p, NULL, FALSE)
  BY <1>1, <1>3 DEF Placed
<1> QED BY <1>2, <1>4, BeginInv

\* vm_free begins.
LEMMA FreeInv ==
    ASSUME VmInv, NEW r \in DOMAIN reg, NEW k \in 0..reg[r].size - 1, vm_free(r, k)
    PROVE  VmInv'
<1>1. PICK o : o = op'
  OBVIOUS
<1>2. PICK v, n : v = reg[r].base + k /\ n = reg[r].size - k
  OBVIOUS
<1>3. /\ DOMAIN o = {"kind", "s", "v", "n", "i", "all", "rest"}
      /\ o.kind = "free" /\ o.s = reg[r].s /\ o.v = v /\ o.n = n /\ o.i = 0 /\ o.all = FALSE
  BY <1>1, <1>2 DEF vm_free, BeginFree
<1>4. /\ reg[r].base = reg[r].virt /\ reg[r].virt \in Nat /\ reg[r].size \in Nat \ {0}
      /\ reg[r].s \in DOMAIN space
  BY DEF vm_free, VmInv, Types, RegionOK, Regions
<1>5. v \in Nat /\ n \in Nat /\ reg[r].virt <= v /\ v + n <= reg[r].virt + reg[r].size
      /\ 0 \in 0..n
  BY <1>2, <1>4
<1>6. ASSUME NEW q \in DOMAIN reg, reg[q].s = reg[r].s, reg[q].virt = v PROVE reg[q].size = n
  <2>1. reg[q].size \in Nat \ {0}
    BY DEF VmInv, Types, RegionOK
  <2>2. CASE q = r
    BY <1>2, <1>4, <1>6, <2>2
  <2>3. CASE q # r
    <3>1. Apart(v, reg[q].size, reg[r].virt, reg[r].size)
      BY <1>6, <2>3 DEF VmInv, Regions
    <3> QED BY <1>2, <1>4, <2>1, <3>1 DEF Apart
  <2> QED BY <2>2, <2>3
<1>7. FreeOK(space, reg, o)
  BY <1>3, <1>4, <1>5, <1>6 DEF FreeOK
<1>8. (\A t, w : ~Freed(op, t, w)) /\ op.kind # "map"
  BY DEF vm_free, Freed, Idle
<1>9. ASSUME NEW t, NEW w, Freed(o, t, w) PROVE FALSE
  <2>1. w \in Nat /\ v <= w /\ w < v + 0
    BY <1>3, <1>9 DEF Freed
  <2> QED BY <1>5, <2>1
<1>10. /\ page_list' = page_list /\ space' = space /\ reg' = reg /\ (Sound' => Sound)
       /\ Types(page_list, space', reg) /\ Regions(space', reg) /\ Lists(space', reg)
       /\ OpOK(space', reg, op')
  BY <1>1, <1>7 DEF VmInv, OpOK, vm_free, Sound, Running
<1> QED BY <1>1, <1>3, <1>8, <1>9, <1>10, SameSpace, OpInv

\* vm_space_destroy begins.
LEMMA DestroyInv ==
    ASSUME VmInv, NEW s \in DOMAIN space, vm_space_destroy(s)
    PROVE  VmInv'
<1>1. PICK o, sp : o = op' /\ sp = space'
  OBVIOUS
<1>2. o.kind = "destroy" /\ o.s = s /\ o.cur = space[s].regions
  BY <1>1 DEF vm_space_destroy
<1>3. /\ DOMAIN sp = DOMAIN space
      /\ \A t \in DOMAIN space : t # s => sp[t] = space[t]
      /\ sp[s] = [space[s] EXCEPT !.live = FALSE]
  BY <1>1 DEF vm_space_destroy
<1>4. SpaceOK(space[s])
  BY DEF VmInv, Types
<1>5. /\ DOMAIN sp[s] = DOMAIN space[s] /\ sp[s].pml4 = space[s].pml4
      /\ sp[s].next_free = space[s].next_free /\ sp[s].regions = space[s].regions
      /\ sp[s].tables = space[s].tables /\ sp[s].map = space[s].map
  BY <1>3, <1>4 DEF SpaceOK
<1>6. SpaceOK(sp[s])
  BY <1>4, <1>5 DEF SpaceOK
<1>7. Same(space, sp)
  BY <1>3, <1>5 DEF Same
<1>8. Types(page_list, sp, reg)
  BY <1>3, <1>6 DEF VmInv, Types
<1>9. \A t \in DOMAIN space : sp[t].next_free = space[t].next_free /\ sp[t].regions = space[t].regions
  BY <1>3, <1>5
<1>10. Regions(sp, reg) /\ Lists(sp, reg)
  BY <1>3, <1>9 DEF VmInv, Regions, Lists
<1>11. OpOK(sp, reg, o)
  BY <1>2, <1>3, <1>9 DEF OpOK, DestroyOK
<1>12. /\ \A t, w : ~Freed(op, t, w)
       /\ \A t, w : ~Freed(o, t, w)
       /\ op.kind # "map" /\ o.kind # "map"
  BY <1>2 DEF vm_space_destroy, Freed, Idle
<1>13. page_list' = page_list /\ reg' = reg /\ (Sound' => Sound)
  BY DEF vm_space_destroy, Sound, Running
<1> QED BY <1>1, <1>7, <1>8, <1>10, <1>11, <1>12, <1>13, OpInv

\* The operation is the one its kind says.
LEMMA OpKind ==
    ASSUME NEW sp, NEW rg, NEW o, OpOK(sp, rg, o)
    PROVE  /\ o.kind = "map" => MapOK(sp, rg, o)
           /\ o.kind = "free" => FreeOK(sp, rg, o)
           /\ o.kind = "walk" => WalkOK(sp, rg, o)
           /\ o.kind = "destroy" => DestroyOK(sp, o)
  BY DEF OpOK, MapOK, FreeOK, WalkOK, DestroyOK, Idle

\* One iteration of its loop.
LEMMA DestroyNextInv ==
    ASSUME VmInv, DestroyNext
    PROVE  VmInv'
<1>1. PICK o : o = op'
  OBVIOUS
<1>2. DestroyOK(space, op)
  BY OpKind DEF VmInv, DestroyNext
<1>3. /\ page_list' = page_list /\ space' = space /\ reg' = reg /\ (Sound' => Sound)
      /\ op.kind = "destroy"
  BY DEF DestroyNext, Sound, Running
<1>4. \A t, w : ~Freed(op, t, w)
  BY <1>3 DEF Freed
<1>5. CASE op.cur = NULL
  <2>1. o = Idle
    BY <1>1, <1>5 DEF DestroyNext
  <2>2. \A t, w : ~Freed(o, t, w)
    BY <2>1 DEF Freed, Idle
  <2>3. OpOK(space', reg, op') /\ o.kind # "map"
    BY <1>1, <2>1 DEF OpOK, Idle
  <2>4. Types(page_list, space', reg) /\ Regions(space', reg) /\ Lists(space', reg)
    BY <1>3 DEF VmInv
  <2> QED BY <1>1, <1>3, <1>4, <2>2, <2>3, <2>4, SameSpace, OpInv
<1>6. CASE op.cur # NULL
  <2>1. PICK c : c = op.cur
    OBVIOUS
  <2>2. /\ DOMAIN o = {"kind", "s", "v", "n", "i", "all", "rest"}
        /\ o.kind = "free" /\ o.s = op.s /\ o.v = reg[c].base /\ o.n = reg[c].size /\ o.i = 0
        /\ o.all = TRUE /\ o.rest = reg[c].next
    BY <1>1, <1>6, <2>1 DEF DestroyNext, BeginFree
  <2>3. op.s \in DOMAIN space /\ c = space[op.s].regions /\ c \in DOMAIN reg /\ reg[c].s = op.s
    BY <1>2, <1>6, <2>1, ChainHead DEF DestroyOK, VmInv
  <2>4. RegionOK(c, reg[c])
    BY <2>3 DEF VmInv, Types
  <2>5. reg[c].base \in Nat /\ reg[c].size \in Nat \ {0}
    BY <2>4, Constants DEF RegionOK
  <2>6. ASSUME NEW q \in DOMAIN reg, reg[q].s = op.s, reg[q].base = o.v, reg[q].virt = o.v
        PROVE  reg[q].size = o.n
    <3>1. RegionOK(q, reg[q])
      BY DEF VmInv, Types
    <3>2. reg[c].base = reg[c].virt
      BY <2>2, <2>4, <2>5, <2>6, <3>1, Constants DEF RegionOK
    <3>3. CASE q = c
      BY <2>2, <3>3
    <3>4. CASE q # c
      <4>1. Apart(reg[q].virt, reg[q].size, reg[c].virt, reg[c].size)
        BY <2>3, <2>6, <3>4 DEF VmInv, Regions
      <4> QED BY <2>2, <2>4, <2>6, <3>1, <3>2, <4>1 DEF RegionOK, Apart
    <3> QED BY <3>3, <3>4
  <2>7. \/ VPAGES <= o.v
        \/ /\ reg[c].s = o.s /\ reg[c].base = reg[c].virt
           /\ reg[c].virt <= o.v /\ o.v + o.n <= reg[c].virt + reg[c].size
    <3>1. CASE reg[c].base = reg[c].virt
      BY <2>2, <2>3, <2>5, <3>1
    <3>2. CASE reg[c].base # reg[c].virt
      <4>1. reg[c].base \in Dev
        BY <2>4, <3>2 DEF RegionOK
      <4> QED BY <2>2, <4>1, Constants
    <3> QED BY <3>1, <3>2
  <2>8. FreeOK(space, reg, o)
    <3>1. \/ VPAGES <= o.v
          \/ \E q \in DOMAIN reg : /\ reg[q].s = o.s /\ reg[q].base = reg[q].virt
                                   /\ reg[q].virt <= o.v /\ o.v + o.n <= reg[q].virt + reg[q].size
      BY <2>3, <2>7
    <3>2. /\ space[o.s].regions \in DOMAIN reg /\ reg[space[o.s].regions].base = o.v
          /\ reg[space[o.s].regions].next = o.rest
      BY <2>2, <2>3
    <3>a. o.all \in BOOLEAN
      BY <2>2, Zenon
    <3>b. o.n \in Nat
      BY <2>2, <2>5
    <3>3. o.s \in DOMAIN space /\ o.v \in Nat /\ o.n \in Nat /\ o.i \in 0..o.n /\ o.all \in BOOLEAN
      BY <2>2, <2>3, <2>5, <3>a, <3>b
    <3>4. \A q \in DOMAIN reg :
              reg[q].s = o.s /\ reg[q].base = o.v /\ reg[q].virt = o.v => reg[q].size = o.n
      BY <2>2, <2>6
    <3> QED BY <2>2, <3>1, <3>2, <3>3, <3>4 DEF FreeOK
  <2>9. ASSUME NEW t, NEW w, Freed(o, t, w) PROVE FALSE
    <3>1. w \in Nat /\ reg[c].base <= w /\ w < reg[c].base + 0
      BY <2>2, <2>9 DEF Freed
    <3> QED BY <2>5, <3>1
  <2>10. /\ OpOK(space', reg, op')
         /\ Types(page_list, space', reg) /\ Regions(space', reg) /\ Lists(space', reg)
    BY <1>1, <1>3, <2>8 DEF OpOK, VmInv
  <2> QED BY <1>1, <1>3, <1>4, <2>2, <2>9, <2>10, SameSpace, OpInv
<1> QED BY <1>5, <1>6

\* region_remove goes on to the next region.
LEMMA WalkNextInv ==
    ASSUME VmInv, WalkNext
    PROVE  VmInv'
<1>1. PICK o : o = op'
  OBVIOUS
<1>2. WalkOK(space, reg, op)
  BY OpKind DEF VmInv, WalkNext
<1>3. /\ page_list' = page_list /\ space' = space /\ reg' = reg /\ (Sound' => Sound)
      /\ op.kind = "walk" /\ op.cur # NULL /\ reg[op.cur].base # op.v
  BY DEF WalkNext, Sound, Running
<1>4. o = [op EXCEPT !.prev = op.cur, !.cur = reg[op.cur].next]
  BY <1>1 DEF WalkNext
<1>5. /\ DOMAIN o = DOMAIN op /\ o.kind = "walk" /\ o.s = op.s /\ o.v = op.v /\ o.all = op.all
      /\ o.rest = op.rest /\ o.prev = op.cur /\ o.cur = reg[op.cur].next
  BY <1>2, <1>4 DEF WalkOK
<1>6. ~op.all /\ op.cur \in DOMAIN reg /\ reg[op.cur].s = op.s /\ op.s \in DOMAIN space
  BY <1>2, <1>3 DEF WalkOK
<1>7. o.cur # NULL => o.cur \in DOMAIN reg /\ reg[o.cur].s = o.s
  BY <1>5, <1>6, ChainNext DEF VmInv
<1>8. WalkOK(space, reg, o)
  BY <1>2, <1>3, <1>5, <1>6, <1>7 DEF WalkOK
<1>9. (\A t, w : ~Freed(op, t, w)) /\ (\A t, w : ~Freed(o, t, w))
  BY <1>3, <1>5 DEF Freed
<1>10. /\ OpOK(space', reg, op')
       /\ Types(page_list, space', reg) /\ Regions(space', reg) /\ Lists(space', reg)
  BY <1>1, <1>3, <1>8 DEF OpOK, VmInv
<1> QED BY <1>1, <1>3, <1>5, <1>9, <1>10, SameSpace, OpInv

\* It has come to the end of the list.
LEMMA WalkEndInv ==
    ASSUME VmInv, WalkEnd
    PROVE  VmInv'
<1>1. WalkOK(space, reg, op)
  BY OpKind DEF VmInv, WalkEnd
<1>2. /\ page_list' = page_list /\ space' = space /\ reg' = reg /\ (Sound' => Sound)
      /\ op.kind = "walk" /\ op.cur = NULL
  BY DEF WalkEnd, Sound, Running
<1>3. ~op.all
  BY <1>1, <1>2 DEF WalkOK
<1>4. op' = Idle
  BY <1>3 DEF WalkEnd, Continue
<1>5. (\A t, w : ~Freed(op, t, w)) /\ (\A t, w : ~Freed(op', t, w)) /\ op'.kind # "map"
  BY <1>2, <1>4 DEF Freed, Idle
<1>6. /\ OpOK(space', reg, op')
      /\ Types(page_list, space', reg) /\ Regions(space', reg) /\ Lists(space', reg)
  BY <1>2, <1>4 DEF OpOK, VmInv
<1> QED BY <1>2, <1>5, <1>6, SameSpace, OpInv

\* The next state, part by part.
LEMMA Assemble ==
    ASSUME NEW pl, NEW sp, NEW rg, NEW o, pl = page_list', sp = space', rg = reg', o = op',
           Types(pl, sp, rg), Regions(sp, rg), Lists(sp, rg), OpOK(sp, rg, o),
           NEW kd, NEW os, NEW ox, Tags(kd, os, ox, pl, sp, rg, o),
           Sound' => Full({}, kd, os, ox, pl, sp, rg, o), Sound' => Covered(sp, rg, o)
    PROVE  VmInv'
<1>1. Tagged(pl, sp, rg, o, Sound')
  BY DEF Tagged, Good
<1> QED BY <1>1 DEF VmInv

-----------------------------------------------------------------------------
(* Freeing. *)

\* The space without the pages of the range.
LEMMA UnmapIs ==
    ASSUME NEW pl, NEW rg, Types(pl, space, rg), NEW s \in DOMAIN space, NEW v \in Nat, NEW n \in Nat,
           NEW sp, sp = Unmapped(s, v, n)
    PROVE  /\ Types(pl, sp, rg)
           /\ DOMAIN sp = DOMAIN space
           /\ \A t \in DOMAIN space :
                 /\ sp[t].pml4 = space[t].pml4 /\ sp[t].tables = space[t].tables
                 /\ sp[t].next_free = space[t].next_free /\ sp[t].regions = space[t].regions
           /\ \A t \in DOMAIN space : t # s => sp[t].map = space[t].map
           /\ \A w : w \in DOMAIN sp[s].map <=> w \in DOMAIN space[s].map /\ ~(v <= w /\ w < v + n)
           /\ \A w \in DOMAIN sp[s].map : sp[s].map[w] = space[s].map[w]
<1>1. PICK m : m = [w \in {x \in DOMAIN space[s].map : x < v \/ x >= v + n} |-> space[s].map[w]]
  OBVIOUS
<1>2. SpaceOK(space[s])
  BY DEF Types
<1>3. /\ DOMAIN sp = DOMAIN space
      /\ \A t \in DOMAIN space : t # s => sp[t] = space[t]
      /\ sp[s] = [space[s] EXCEPT !.map = m]
  BY <1>1 DEF Unmapped
<1>4. /\ DOMAIN sp[s] = DOMAIN space[s] /\ sp[s].pml4 = space[s].pml4
      /\ sp[s].next_free = space[s].next_free /\ sp[s].regions = space[s].regions
      /\ sp[s].tables = space[s].tables /\ sp[s].map = m
  BY <1>2, <1>3 DEF SpaceOK
<1>5. DOMAIN space[s].map \subseteq Nat
  BY <1>2, Constants DEF SpaceOK
<1>6. \A w : w \in DOMAIN m <=> w \in DOMAIN space[s].map /\ ~(v <= w /\ w < v + n)
  <2>1. \A w \in Nat : (w < v \/ w >= v + n) <=> ~(v <= w /\ w < v + n)
    OBVIOUS
  <2>2. \A w : w \in DOMAIN m <=> w \in DOMAIN space[s].map /\ (w < v \/ w >= v + n)
    BY <1>1
  <2> QED BY <1>5, <2>1, <2>2
<1>7. \A w \in DOMAIN m : m[w] = space[s].map[w]
  BY <1>1
<1>8. m = [w \in DOMAIN m |-> m[w]]
  BY <1>1
<1>9. SpaceOK(sp[s])
  <2>1. \A w \in DOMAIN m : w \in DOMAIN space[s].map
    BY <1>6
  <2> QED BY <1>2, <1>4, <1>7, <1>8, <2>1 DEF SpaceOK
<1>10. Types(pl, sp, rg)
  BY <1>3, <1>9 DEF Types
<1> QED BY <1>3, <1>4, <1>6, <1>7, <1>10

\* The range is unmapped.
LEMMA FreeUnmapInv ==
    ASSUME VmInv, FreeUnmap
    PROVE  VmInv'
<1>1. PICK o, sp, s, v, n : o = op' /\ sp = space' /\ s = op.s /\ v = op.v /\ n = op.n
  OBVIOUS
<1>2. FreeOK(space, reg, op)
  BY OpKind DEF VmInv, FreeUnmap
<1>3. /\ page_list' = page_list /\ reg' = reg /\ (Sound' <=> Sound) /\ op.kind = "free" /\ op.i = n
      /\ sp = Unmapped(s, v, n)
  BY <1>1 DEF FreeUnmap, Sound, Running
<1>4. /\ DOMAIN o = {"kind", "s", "v", "prev", "cur", "all", "rest"}
      /\ o.kind = "walk" /\ o.s = s /\ o.v = v /\ o.prev = NULL
      /\ o.cur = space[s].regions /\ o.all = op.all /\ o.rest = op.rest
  BY <1>1 DEF FreeUnmap
<1>5. s \in DOMAIN space /\ v \in Nat /\ n \in Nat /\ op.all \in BOOLEAN
  BY <1>1, <1>2 DEF FreeOK
<1>6. /\ Types(page_list, sp, reg)
      /\ DOMAIN sp = DOMAIN space
      /\ \A t \in DOMAIN space :
            /\ sp[t].pml4 = space[t].pml4 /\ sp[t].tables = space[t].tables
            /\ sp[t].next_free = space[t].next_free /\ sp[t].regions = space[t].regions
      /\ \A t \in DOMAIN space : t # s => sp[t].map = space[t].map
      /\ \A w : w \in DOMAIN sp[s].map <=> w \in DOMAIN space[s].map /\ ~(v <= w /\ w < v + n)
      /\ \A w \in DOMAIN sp[s].map : sp[s].map[w] = space[s].map[w]
  BY <1>3, <1>5, UnmapIs DEF VmInv
<1>7. Regions(sp, reg) /\ Lists(sp, reg)
  BY <1>6 DEF VmInv, Regions, Lists
<1>8. WalkOK(sp, reg, o)
  <2>1. o.cur # NULL => o.cur \in DOMAIN reg /\ reg[o.cur].s = o.s
    BY <1>4, <1>5, ChainHead DEF VmInv
  <2>2. o.all => o.cur # NULL /\ reg[o.cur].base = o.v /\ reg[o.cur].next = o.rest
    <3>1. \A r \in DOMAIN reg : r # NULL
      BY Constants DEF VmInv, Types
    <3> QED BY <1>1, <1>2, <1>4, <3>1 DEF FreeOK
  <2>3. ASSUME NEW q \in DOMAIN reg, reg[q].s = s, reg[q].base = v, reg[q].virt = v
        PROVE  \A w \in DOMAIN sp[s].map : ~(v <= w /\ w < v + reg[q].size)
    <3>1. reg[q].size = n
      BY <1>1, <1>2, <2>3 DEF FreeOK
    <3> QED BY <1>6, <3>1
  <2> QED BY <1>4, <1>5, <1>6, <2>1, <2>2, <2>3 DEF WalkOK
<1>9. ASSUME NEW t \in DOMAIN space, NEW w \in DOMAIN sp[t].map
      PROVE  w \in DOMAIN space[t].map /\ sp[t].map[w] = space[t].map[w] /\ ~Freed(op, t, w)
  BY <1>1, <1>3, <1>6 DEF Freed
<1>10. Sound => Covered(sp, reg, o)
  <2>1. Sound => Covered(space, reg, op)
    BY DEF VmInv
  <2> QED BY <1>3, <1>6, <1>9, <2>1 DEF Covered
<1>11. PICK kd, os, ox : Good({}, kd, os, ox, page_list, space, reg, op, Sound)
  BY DEF VmInv, Tagged
<1>12. /\ Tagging(kd) /\ ListTags(kd, page_list) /\ SpaceTags(kd, os, ox, space, op)
       /\ RegTags(kd, space, reg, op)
  BY <1>11 DEF Good, Tags
<1>13. SpaceTags(kd, os, ox, sp, o)
  BY <1>6, <1>9, <1>12 DEF SpaceTags
<1>14. RegTags(kd, sp, reg, o)
  <2>1. \A r \in DOMAIN reg : reg[r].s \in DOMAIN space
    BY DEF VmInv, Regions
  <2> QED BY <1>4, <1>9, <1>12, <2>1 DEF RegTags
<1>15. ASSUME Sound PROVE Full({}, kd, os, ox, page_list, sp, reg, o)
  <2>1. Full({}, kd, os, ox, page_list, space, reg, op)
    BY <1>11, <1>15 DEF Good
  <2>2. ASSUME NEW g \in RAM \ {} PROVE Backed(g, kd, os, ox, page_list, sp, reg, o)
    <3>1. Backed(g, kd, os, ox, page_list, space, reg, op)
      BY <2>1 DEF Full
    <3>2. ASSUME kd[g] = "page"
          PROVE  /\ os[g] \in DOMAIN sp /\ ox[g] \in DOMAIN sp[os[g]].map
                 /\ sp[os[g]].map[ox[g]] = g
      <4>1. /\ os[g] \in DOMAIN space /\ ox[g] \in DOMAIN space[os[g]].map
            /\ space[os[g]].map[ox[g]] = g /\ ~Freed(op, os[g], ox[g])
        BY <3>1, <3>2 DEF Backed
      <4>2. ox[g] \in Nat
        <5>1. SpaceOK(space[os[g]])
          BY <4>1 DEF VmInv, Types
        <5> QED BY <4>1, <5>1, Constants DEF SpaceOK
      <4>3. CASE os[g] = s
        <5>1. ~(v <= ox[g] /\ ox[g] < v + n)
          BY <1>1, <1>3, <4>1, <4>2, <4>3 DEF Freed
        <5> QED BY <1>6, <4>1, <4>3, <5>1
      <4>4. CASE os[g] # s
        BY <1>6, <4>1, <4>4
      <4> QED BY <4>3, <4>4
    <3> QED BY <1>3, <1>4, <1>6, <3>1, <3>2 DEF Backed, Freed
  <2> QED BY <2>1, <2>2 DEF Full
<1>16. Tags(kd, os, ox, page_list, sp, reg, o) /\ OpOK(sp, reg, o)
  BY <1>8, <1>12, <1>13, <1>14 DEF Tags, OpOK
<1> QED BY <1>1, <1>3, <1>6, <1>7, <1>10, <1>15, <1>16, Assemble

\* One page of the range goes to the allocator.
LEMMA FreeNextInv ==
    ASSUME VmInv, FreeNext
    PROVE  VmInv'
<1>1. PICK o, pl, s, v : o = op' /\ pl = page_list' /\ s = op.s /\ v = op.v + op.i
  OBVIOUS
<1>2. FreeOK(space, reg, op) /\ op.kind = "free" /\ op.i < op.n
  BY OpKind DEF VmInv, FreeNext
<1>3. CASE v \in DOMAIN space[s].map /\ space[s].map[v] \notin RAM /\ Break
  <2>1. ~Sound'
    BY <1>3 DEF Break, Sound, Running
  <2> QED BY <1>3, <2>1, StopInv DEF Break
<1>4. CASE /\ v \in DOMAIN space[s].map => space[s].map[v] \in RAM
           /\ pl = IF v \in DOMAIN space[s].map THEN <<space[s].map[v]>> \o page_list ELSE page_list
           /\ o = [op EXCEPT !.i = op.i + 1]
           /\ UNCHANGED <<space, reg, panicked, broken, released>>
  <2>1. space' = space /\ reg' = reg /\ (Sound' <=> Sound)
    BY <1>4 DEF Sound, Running
  <2>2. /\ DOMAIN o = DOMAIN op /\ o.kind = "free" /\ o.s = s /\ o.v = op.v /\ o.n = op.n
        /\ o.i = op.i + 1 /\ o.all = op.all /\ o.rest = op.rest
    BY <1>1, <1>2, <1>4 DEF FreeOK
  <2>3. s \in DOMAIN space /\ op.v \in Nat /\ op.i \in Nat /\ op.n \in Nat /\ v \in Nat
    BY <1>1, <1>2 DEF FreeOK
  <2>4. o.i \in 0..o.n
    BY <1>2, <2>2, <2>3
  <2>5. OpOK(space, reg, o)
    <3>1. FreeOK(space, reg, o)
      BY <1>1, <1>2, <2>2, <2>4 DEF FreeOK
    <3> QED BY <3>1 DEF OpOK
  <2>6. \A t, w : Freed(o, t, w) <=> Freed(op, t, w) \/ (t = s /\ w = v)
    <3>1. \A w \in Nat : (op.v <= w /\ w < op.v + (op.i + 1)) <=>
                             (op.v <= w /\ w < op.v + op.i) \/ w = v
      BY <1>1, <2>3
    <3> QED BY <1>1, <1>2, <2>2, <2>3, <3>1 DEF Freed
  <2>7. ~Freed(op, s, v)
    BY <1>1, <2>3 DEF Freed
  <2>8. Sound => Covered(space, reg, o)
    BY <1>2, <2>2 DEF VmInv, Covered
  <2>9. PICK kd, os, ox : Good({}, kd, os, ox, page_list, space, reg, op, Sound)
    BY DEF VmInv, Tagged
  <2>10. /\ Tagging(kd) /\ ListTags(kd, page_list) /\ SpaceTags(kd, os, ox, space, op)
         /\ RegTags(kd, space, reg, op)
    BY <2>9 DEF Good, Tags
  <2>11. Types(page_list, space, reg) /\ Regions(space, reg) /\ Lists(space, reg)
    BY DEF VmInv
  <2>12. ASSUME Sound
         PROVE  Full({}, kd, os, ox, page_list, space, reg, op)
    BY <2>9, <2>12 DEF Good
  <2>13. CASE v \notin DOMAIN space[s].map
    <3>1. pl = page_list
      BY <1>4, <2>13
    <3>2. SpaceTags(kd, os, ox, space, o)
      <4>1. Same(space, space) /\ \A t, w : Freed(op, t, w) => Freed(o, t, w)
        BY <2>6, SameSpace
      <4> QED BY <2>10, <4>1, SameTags
    <3>3. RegTags(kd, space, reg, o)
      BY <2>2, <2>10 DEF RegTags
    <3>4. ASSUME Sound PROVE Full({}, kd, os, ox, page_list, space, reg, o)
      <4>1. ASSUME NEW g \in RAM \ {} PROVE Backed(g, kd, os, ox, page_list, space, reg, o)
        <5>1. Backed(g, kd, os, ox, page_list, space, reg, op)
          BY <2>12, <3>4 DEF Full
        <5> QED BY <1>2, <2>2, <2>6, <2>13, <5>1 DEF Backed
      <4> QED BY <2>12, <3>4, <4>1 DEF Full
    <3>5. Tags(kd, os, ox, page_list, space, reg, o)
      BY <2>10, <3>2, <3>3 DEF Tags
    <3> QED BY <1>1, <2>1, <2>5, <2>8, <2>11, <3>1, <3>4, <3>5, Assemble
  <2>14. CASE v \in DOMAIN space[s].map
    <3>1. PICK a : a = space[s].map[v] /\ a \in RAM /\ pl = <<a>> \o page_list
      BY <1>4, <2>14
    <3>2. kd[a] = "page" /\ os[a] = s /\ ox[a] = v /\ a \in Nat /\ Aligned(a)
      BY <2>3, <2>7, <2>10, <2>14, <3>1, Constants DEF SpaceTags
    <3>3. PICK kd2 : kd2 = Put(kd, a, "free")
      OBVIOUS
    <3>4. kd2[a] = "free" /\ Moved(a, kd, kd2) /\ \A g \in Nat : g # a => kd2[g] = kd[g]
      BY <3>2, <3>3, PutIs
    <3>5. Tagging(kd2)
      BY <2>10, <3>1, <3>2, <3>3, PutTag DEF Kinds
    <3>6. PICK n \in Nat : n = Len(page_list) /\ page_list \in Seq(Nat)
      BY <2>11 DEF Types
    <3>7. \A k \in 1..n : page_list[k] # a + 1
      <4>1. ~Aligned(a + 1) /\ (a + 1) - 1 = a
        BY <3>2, Parity
      <4> QED BY <2>10, <3>2, <3>6, <4>1 DEF ListTags
    <3>8. ListTags(kd2, pl)
      BY <2>10, <3>1, <3>2, <3>4, <3>6, <3>7, PushList
    <3>9. SpaceTags(kd2, os, ox, space, o)
      <4>1. ASSUME NEW t \in DOMAIN space
            PROVE  /\ kd2[t] = "space"
                   /\ kd2[space[t].pml4] = "pml4" /\ os[space[t].pml4] = t
                   /\ \A u \in DOMAIN space[t].tables :
                         /\ kd2[space[t].tables[u]] = "table"
                         /\ os[space[t].tables[u]] = t /\ ox[space[t].tables[u]] = u
        <5>1. /\ t \in Nat /\ space[t].pml4 \in Nat
              /\ \A u \in DOMAIN space[t].tables : space[t].tables[u] \in Nat
          BY <2>11, Constants DEF Types, SpaceOK
        <5> QED BY <2>10, <3>2, <3>4, <5>1 DEF SpaceTags
      <4>2. ASSUME NEW t \in DOMAIN space, NEW w \in DOMAIN space[t].map,
                   space[t].map[w] \in RAM, ~Freed(o, t, w)
            PROVE  /\ kd2[space[t].map[w]] = "page"
                   /\ os[space[t].map[w]] = t /\ ox[space[t].map[w]] = w
        <5>1. ~Freed(op, t, w) /\ ~(t = s /\ w = v)
          BY <2>6, <4>2
        <5>2. /\ kd[space[t].map[w]] = "page"
              /\ os[space[t].map[w]] = t /\ ox[space[t].map[w]] = w
          BY <2>10, <4>2, <5>1 DEF SpaceTags
        <5>3. space[t].map[w] # a /\ space[t].map[w] \in Nat
          BY <3>2, <4>2, <5>1, <5>2, Constants
        <5> QED BY <3>4, <5>2, <5>3
      <4> QED BY <4>1, <4>2 DEF SpaceTags
    <3>10. a + 1 \notin DOMAIN reg
      <4>1. ~Aligned(a + 1) /\ (a + 1) - 1 = a
        BY <3>2, Parity
      <4> QED BY <2>10, <3>2, <4>1 DEF RegTags
    <3>11. RegTags(kd2, space, reg, o)
      <4>1. RegTags(kd2, space, reg, op)
        BY <1>2, <2>10, <2>11, <3>2, <3>4, <3>10, RecordsStay DEF Types
      <4> QED BY <2>2, <4>1 DEF RegTags
    <3>12. ASSUME Sound PROVE Full({}, kd2, os, ox, pl, space, reg, o)
      <4>1. Full({}, kd, os, ox, page_list, space, reg, op)
        BY <2>12, <3>12
      <4>2. /\ Len(pl) = n + 1 /\ pl[1] = a
            /\ \A j \in 2..n + 1 : pl[j] = page_list[j - 1]
        BY <3>1, <3>2, <3>6, FrontIs
      <4>3. ASSUME NEW k \in 1..Len(pl) PROVE Aligned(pl[k])
        <5>1. CASE k = 1
          BY <3>2, <4>2, <5>1
        <5>2. CASE k # 1
          <6>1. k \in 2..n + 1 /\ k - 1 \in 1..n
            BY <4>2, <5>2
          <6> QED BY <3>6, <4>1, <4>2, <6>1 DEF Full
        <5> QED BY <5>1, <5>2
      <4>4. ASSUME NEW r \in DOMAIN reg, ~Aligned(r) PROVE kd2[r - 1] = "mmio"
        <5>1. r \in Nat /\ r - 1 \in Nat /\ (r - 1) + 1 = r
          BY <2>11, <4>4, Parity DEF Types
        <5> QED BY <3>4, <3>10, <4>1, <4>4, <5>1 DEF Full
      <4>5. ASSUME NEW g \in RAM \ {} PROVE Backed(g, kd2, os, ox, pl, space, reg, o)
        <5>1. Backed(g, kd, os, ox, page_list, space, reg, op) /\ g \in Nat
          BY <4>1, Constants DEF Full
        <5>2. CASE g = a
          <6>1. 1 \in 1..Len(pl)
            BY <4>2
          <6> QED BY <3>4, <4>2, <5>2, <6>1 DEF Backed
        <5>3. CASE g # a
          <6>1. kd2[g] = kd[g]
            BY <3>4, <5>1, <5>3
          <6>2. ASSUME kd[g] = "free" PROVE \E k \in 1..Len(pl) : pl[k] = g
            <7>1. PICK k \in 1..n : page_list[k] = g
              BY <3>6, <5>1, <6>2 DEF Backed
            <7>2. k + 1 \in 2..n + 1 /\ (k + 1) - 1 = k /\ k + 1 \in 1..Len(pl)
              BY <4>2
            <7> QED BY <4>2, <7>1, <7>2
          <6>3. ASSUME kd[g] = "page"
                PROVE  /\ os[g] \in DOMAIN space /\ ox[g] \in DOMAIN space[os[g]].map
                       /\ space[os[g]].map[ox[g]] = g /\ ~Freed(o, os[g], ox[g])
            BY <2>6, <3>1, <5>1, <5>3, <6>3 DEF Backed
          <6> QED BY <1>2, <2>2, <5>1, <6>1, <6>2, <6>3 DEF Backed
        <5> QED BY <5>2, <5>3
      <4> QED BY <4>3, <4>4, <4>5 DEF Full
    <3>13. Types(pl, space, reg)
      BY <2>11, <3>1, <3>2, <3>6, FrontIs DEF Types
    <3>14. Tags(kd2, os, ox, pl, space, reg, o)
      BY <3>5, <3>8, <3>9, <3>11 DEF Tags
    <3> QED BY <1>1, <2>1, <2>5, <2>8, <2>11, <3>12, <3>13, <3>14, Assemble
  <2> QED BY <2>13, <2>14
<1> QED BY <1>1, <1>3, <1>4 DEF FreeNext

\* A sequence by its elements.
LEMMA SeqOf ==
    ASSUME NEW m \in Nat, NEW L \in [1..m -> Nat]
    PROVE  L \in Seq(Nat) /\ Len(L) = m
<1>1. L \in Seq(Nat)
  BY SeqDef
<1>2. PICK n \in Nat : n = Len(L) /\ DOMAIN L = 1..n
  BY <1>1, LenProperties
<1>3. 1..n = 1..m
  BY <1>2
<1>4. n = m
  <2>1. n \in 1..n <=> n # 0
    BY <1>2
  <2>2. m \in 1..m <=> m # 0
    OBVIOUS
  <2>3. (n \in 1..m => n <= m) /\ (m \in 1..n => m <= n)
    BY <1>2
  <2>4. (n # 0 => n <= m) /\ (m # 0 => m <= n)
    BY <1>3, <2>1, <2>2, <2>3
  <2> QED BY <1>2, <2>4
<1> QED BY <1>1, <1>2, <1>4

\* The k-th region c of the list L from h on is unlinked.
Unlinked(L, k, c, h, rg, h2, rg2) ==
    /\ k \in 1..Len(L) /\ c = L[k]
    /\ DOMAIN rg2 = DOMAIN rg \ {c} /\ \A q \in DOMAIN rg2 : rg2[q].s = rg[q].s
    /\ \A q \in DOMAIN rg2 :
          rg2[q].next = IF k # 1 /\ q = L[k - 1] THEN rg[c].next ELSE rg[q].next
    /\ h2 = IF k = 1 THEN rg[c].next ELSE h

\* region_remove.
LEMMA ChainRemove ==
    ASSUME NEW L, NEW s, NEW h, NEW rg, NEW k, NEW c, NEW h2, NEW rg2,
           Chain(L, s, h, rg), Unlinked(L, k, c, h, rg, h2, rg2)
    PROVE  \E M : Chain(M, s, h2, rg2)
<1>0. /\ k \in 1..Len(L) /\ c = L[k]
      /\ DOMAIN rg2 = DOMAIN rg \ {c} /\ \A q \in DOMAIN rg2 : rg2[q].s = rg[q].s
      /\ \A q \in DOMAIN rg2 :
            rg2[q].next = IF k # 1 /\ q = L[k - 1] THEN rg[c].next ELSE rg[q].next
      /\ h2 = IF k = 1 THEN rg[c].next ELSE h
  BY DEF Unlinked
<1>1. PICK n \in Nat : n = Len(L) /\ n # 0 /\ k \in 1..n
  BY <1>0 DEF Chain
<1>2. /\ \A i \in 1..n : L[i] \in Nat
      /\ \A i, j \in 1..n : L[i] = L[j] => i = j
      /\ \A r : (r \in DOMAIN rg /\ rg[r].s = s) <=> (\E i \in 1..n : L[i] = r)
      /\ h = L[1]
      /\ \A i \in 1..n : rg[L[i]].next = IF i = n THEN NULL ELSE L[i + 1]
  BY <1>1 DEF Chain
<1> DEFINE ix(i) == IF i < k THEN i ELSE i + 1
           M == [i \in 1..n - 1 |-> L[ix(i)]]
<1>3. \A i \in 1..n - 1 : ix(i) \in 1..n /\ ix(i) # k /\ ix(i) \in Nat
  BY <1>1
<1>4. \A i, j \in 1..n - 1 : ix(i) = ix(j) => i = j
  BY <1>1
<1>5. \A i \in 1..n : i # k => \E j \in 1..n - 1 : ix(j) = i
  <2> SUFFICES ASSUME NEW i \in 1..n, i # k PROVE \E j \in 1..n - 1 : ix(j) = i
    OBVIOUS
  <2>1. CASE i < k
    <3>1. i \in 1..n - 1 /\ ix(i) = i
      BY <1>1, <2>1
    <3> QED BY <3>1
  <2>2. CASE ~(i < k)
    <3>1. i - 1 \in 1..n - 1 /\ ix(i - 1) = i
      BY <1>1, <2>2
    <3> QED BY <3>1
  <2> QED BY <2>1, <2>2
<1>6. n - 1 \in Nat /\ M \in [1..n - 1 -> Nat]
  BY <1>1, <1>2, <1>3
<1>7. M \in Seq(Nat) /\ Len(M) = n - 1
  BY <1>6, SeqOf
<1>8. \A i \in 1..n - 1 : M[i] = L[ix(i)]
  OBVIOUS
<1> HIDE DEF M
<1>9. \A i, j \in 1..n - 1 : M[i] = M[j] => i = j
  <2> SUFFICES ASSUME NEW i \in 1..n - 1, NEW j \in 1..n - 1, M[i] = M[j] PROVE i = j
    OBVIOUS
  <2>1. L[ix(i)] = L[ix(j)] /\ ix(i) \in 1..n /\ ix(j) \in 1..n
    BY <1>3, <1>8
  <2>2. ix(i) = ix(j)
    BY <1>2, <2>1
  <2> QED BY <1>4, <2>2
<1>10. ASSUME NEW r PROVE (r \in DOMAIN rg2 /\ rg2[r].s = s) <=> (\E i \in 1..n - 1 : M[i] = r)
  <2>1. ASSUME r \in DOMAIN rg2, rg2[r].s = s PROVE \E i \in 1..n - 1 : M[i] = r
    <3>1. PICK i \in 1..n : L[i] = r
      BY <1>0, <1>2, <2>1
    <3>2. i # k
      BY <1>0, <2>1, <3>1
    <3>3. PICK j \in 1..n - 1 : ix(j) = i
      BY <1>5, <3>2
    <3>4. M[j] = r
      BY <1>8, <3>1, <3>3
    <3> QED BY <3>4
  <2>2. ASSUME NEW i \in 1..n - 1, M[i] = r PROVE r \in DOMAIN rg2 /\ rg2[r].s = s
    <3>1. ix(i) \in 1..n /\ ix(i) # k /\ L[ix(i)] = r
      BY <1>3, <1>8, <2>2
    <3>2. r # c
      BY <1>0, <1>1, <1>2, <3>1
    <3>3. r \in DOMAIN rg /\ rg[r].s = s
      BY <1>2, <3>1
    <3> QED BY <1>0, <3>2, <3>3
  <2> QED BY <2>1, <2>2
<1>11. rg[c].next = IF k = n THEN NULL ELSE L[k + 1]
  BY <1>0, <1>1, <1>2
<1>12. h2 = IF n - 1 = 0 THEN NULL ELSE M[1]
  <2>1. CASE k = 1
    <3>1. CASE n = 1
      BY <1>0, <1>11, <2>1, <3>1
    <3>2. CASE n # 1
      <4>1. 1 \in 1..n - 1 /\ ix(1) = 1 + 1
        BY <1>1, <2>1, <3>2
      <4> QED BY <1>0, <1>8, <1>11, <2>1, <3>2, <4>1
    <3> QED BY <3>1, <3>2
  <2>2. CASE k # 1
    <3>1. 1 \in 1..n - 1 /\ ix(1) = 1 /\ n - 1 # 0
      BY <1>1, <2>2
    <3> QED BY <1>0, <1>2, <1>8, <2>2, <3>1
  <2> QED BY <2>1, <2>2
<1>13. ASSUME NEW i \in 1..n - 1
       PROVE  rg2[M[i]].next = IF i = n - 1 THEN NULL ELSE M[i + 1]
  <2>1. ix(i) \in 1..n /\ ix(i) # k /\ M[i] = L[ix(i)]
    BY <1>3, <1>8
  <2>2. M[i] \in DOMAIN rg2
    BY <1>10
  <2>3. CASE ix(i) = k - 1
    <3>1. k # 1 /\ M[i] = L[k - 1] /\ i = k - 1
      BY <1>1, <2>1, <2>3
    <3>2. rg2[M[i]].next = IF k = n THEN NULL ELSE L[k + 1]
      BY <1>0, <1>11, <2>2, <3>1
    <3>3. CASE k = n
      BY <3>1, <3>2, <3>3
    <3>4. CASE k # n
      <4>1. i + 1 = k /\ i + 1 \in 1..n - 1 /\ ix(i + 1) = k + 1 /\ i # n - 1
        BY <1>1, <3>1, <3>4
      <4>2. M[i + 1] = L[ix(i + 1)]
        BY <1>8, <4>1
      <4>3. M[i + 1] = L[k + 1]
        BY <4>1, <4>2
      <4> QED BY <3>2, <3>4, <4>1, <4>3
    <3> QED BY <3>3, <3>4
  <2>4. CASE ix(i) # k - 1
    <3>1. k # 1 => M[i] # L[k - 1]
      <4>1. k # 1 => k - 1 \in 1..n
        BY <1>1
      <4> QED BY <1>2, <2>1, <2>4, <4>1
    <3>2. rg2[M[i]].next = rg[M[i]].next
      BY <1>0, <2>2, <3>1
    <3>3. rg[M[i]].next = IF ix(i) = n THEN NULL ELSE L[ix(i) + 1]
      BY <1>2, <2>1
    <3>4. CASE ix(i) = n
      <4>1. i = n - 1
        BY <1>1, <2>1, <2>4, <3>4
      <4> QED BY <3>2, <3>3, <3>4, <4>1
    <3>5. CASE ix(i) # n
      <4>1. i # n - 1 /\ i + 1 \in 1..n - 1 /\ ix(i + 1) = ix(i) + 1
        BY <1>1, <2>1, <2>4, <3>5
      <4>2. M[i + 1] = L[ix(i) + 1]
        BY <1>8, <4>1
      <4> QED BY <3>2, <3>3, <3>5, <4>1, <4>2
    <3> QED BY <3>4, <3>5
  <2> QED BY <2>3, <2>4
<1>14. Chain(M, s, h2, rg2)
  BY <1>7, <1>9, <1>10, <1>12, <1>13 DEF Chain
<1> QED BY <1>14

\* The list of another space stays.
LEMMA ChainKeeps ==
    ASSUME NEW L, NEW t, NEW h, NEW rg, NEW rg2, Chain(L, t, h, rg),
           \A r : (r \in DOMAIN rg2 /\ rg2[r].s = t) <=> (r \in DOMAIN rg /\ rg[r].s = t),
           \A r \in DOMAIN rg : rg[r].s = t => rg2[r].next = rg[r].next
    PROVE  Chain(L, t, h, rg2)
<1>1. \A k \in 1..Len(L) : rg2[L[k]].next = rg[L[k]].next
  BY DEF Chain
<1> QED BY <1>1 DEF Chain

\* The region is found, unlinked and its address freed.
LEMMA WalkFoundInv ==
    ASSUME VmInv, WalkFound
    PROVE  VmInv'
<1>1. PICK o, pl, sp, rg, s, c :
         o = op' /\ pl = page_list' /\ sp = space' /\ rg = reg' /\ s = op.s /\ c = op.cur
  OBVIOUS
<1>2. /\ WalkOK(space, reg, op) /\ op.kind = "walk" /\ c # NULL /\ reg[c].base = op.v
  BY <1>1, OpKind DEF VmInv, WalkFound
<1>3. /\ rg = [q \in DOMAIN reg \ {c} |->
                  IF q = op.prev THEN [reg[q] EXCEPT !.next = reg[c].next] ELSE reg[q]]
      /\ sp = IF op.prev = NULL THEN [space EXCEPT ![s].regions = reg[c].next] ELSE space
      /\ pl = <<c>> \o page_list
      /\ released' = (released \/ ~Aligned(c)) /\ panicked' = panicked /\ broken' = broken
      /\ o = IF op.all THEN [kind |-> "destroy", s |-> s, cur |-> op.rest] ELSE Idle
  BY <1>1 DEF WalkFound, Continue
<1>4. Sound' => Sound /\ Aligned(c)
  BY <1>3 DEF Sound, Running
<1>5. s \in DOMAIN space /\ c \in DOMAIN reg /\ reg[c].s = s /\ c \in Nat
  BY <1>1, <1>2 DEF WalkOK, VmInv, Types
<1>6. Types(page_list, space, reg) /\ Regions(space, reg) /\ Lists(space, reg)
  BY DEF VmInv
<1>7. /\ DOMAIN rg = DOMAIN reg \ {c}
      /\ \A q \in DOMAIN rg : /\ DOMAIN rg[q] = DOMAIN reg[q]
                              /\ rg[q].base = reg[q].base /\ rg[q].size = reg[q].size
                              /\ rg[q].s = reg[q].s /\ rg[q].virt = reg[q].virt
                              /\ rg[q].next = IF q = op.prev THEN reg[c].next ELSE reg[q].next
  <2>1. DOMAIN rg = DOMAIN reg \ {c}
    BY <1>3
  <2>2. ASSUME NEW q \in DOMAIN rg
        PROVE  /\ DOMAIN rg[q] = DOMAIN reg[q]
               /\ rg[q].base = reg[q].base /\ rg[q].size = reg[q].size
               /\ rg[q].s = reg[q].s /\ rg[q].virt = reg[q].virt
               /\ rg[q].next = IF q = op.prev THEN reg[c].next ELSE reg[q].next
    <3>1. RegionOK(q, reg[q])
      BY <1>6, <2>1 DEF Types
    <3>2. rg[q] = IF q = op.prev THEN [reg[q] EXCEPT !.next = reg[c].next] ELSE reg[q]
      BY <1>3, <2>1
    <3> QED BY <3>1, <3>2 DEF RegionOK
  <2> QED BY <2>1, <2>2
<1>8. /\ DOMAIN sp = DOMAIN space
      /\ \A t \in DOMAIN space :
            /\ sp[t].pml4 = space[t].pml4 /\ sp[t].tables = space[t].tables
            /\ sp[t].map = space[t].map /\ sp[t].next_free = space[t].next_free
            /\ DOMAIN sp[t] = DOMAIN space[t]
            /\ sp[t].regions = IF t = s /\ op.prev = NULL THEN reg[c].next ELSE space[t].regions
  <2>1. SpaceOK(space[s])
    BY <1>5, <1>6 DEF Types
  <2>2. CASE op.prev = NULL
    BY <1>3, <1>5, <2>1, <2>2 DEF SpaceOK
  <2>3. CASE op.prev # NULL
    BY <1>3, <2>3
  <2> QED BY <2>2, <2>3
<1>9. reg[c].next \in Link
  <2>1. CASE reg[c].next = NULL
    BY <2>1 DEF Link
  <2>2. CASE reg[c].next # NULL
    <3>1. reg[c].next \in DOMAIN reg
      BY <1>5, <1>6, <2>2, ChainNext
    <3> QED BY <1>6, <3>1 DEF Types, Link
  <2> QED BY <2>1, <2>2
<1>10. Types(pl, sp, rg)
  <2>1. pl \in Seq(Nat)
    BY <1>3, <1>5, <1>6, FrontIs DEF Types
  <2>2. IsFiniteSet(DOMAIN rg) /\ DOMAIN rg \subseteq Nat
    BY <1>6, <1>7, FS_Subset DEF Types
  <2>3. \A r \in DOMAIN rg : RegionOK(r, rg[r])
    BY <1>6, <1>7 DEF Types, RegionOK
  <2>4. ASSUME NEW t \in DOMAIN sp PROVE SpaceOK(sp[t])
    <3>1. SpaceOK(space[t])
      BY <1>6, <1>8 DEF Types
    <3> QED BY <1>8, <1>9, <3>1 DEF SpaceOK
  <2> QED BY <1>6, <1>8, <2>1, <2>2, <2>3, <2>4 DEF Types
<1>11. Regions(sp, rg)
  <2>1. ASSUME NEW r \in DOMAIN rg
        PROVE  /\ rg[r].s \in DOMAIN sp
               /\ rg[r].virt + rg[r].size <= sp[rg[r].s].next_free \/ HEAP <= rg[r].virt
    BY <1>6, <1>7, <1>8 DEF Regions
  <2>2. ASSUME NEW q \in DOMAIN rg, NEW r \in DOMAIN rg, q # r, rg[q].s = rg[r].s
        PROVE  Apart(rg[q].virt, rg[q].size, rg[r].virt, rg[r].size)
    BY <1>6, <1>7, <2>2 DEF Regions
  <2> QED BY <2>1, <2>2 DEF Regions
<1>12. ASSUME NEW t \in DOMAIN sp PROVE \E L : Chain(L, t, sp[t].regions, rg)
  <2>1. PICK L : Chain(L, t, space[t].regions, reg)
    BY <1>6, <1>8 DEF Lists
  <2>2. CASE t # s
    <3>1. /\ \A r : (r \in DOMAIN rg /\ rg[r].s = t) <=> (r \in DOMAIN reg /\ reg[r].s = t)
      BY <1>5, <1>7, <2>2
    <3>2. ASSUME NEW r \in DOMAIN reg, reg[r].s = t PROVE rg[r].next = reg[r].next
      <4>1. r # op.prev
        <5>1. op.prev # NULL => reg[op.prev].s = s
          BY <1>1, <1>2 DEF WalkOK
        <5>2. r # NULL
          BY <1>6, Constants DEF Types
        <5> QED BY <2>2, <3>2, <5>1, <5>2
      <4> QED BY <1>5, <1>7, <2>2, <3>2, <4>1
    <3>3. Chain(L, t, space[t].regions, rg)
      BY <2>1, <3>1, <3>2, ChainKeeps
    <3>4. sp[t].regions = space[t].regions
      BY <1>8, <2>2
    <3> QED BY <3>3, <3>4
  <2>3. CASE t = s
    <3>1. PICK n \in Nat : n = Len(L)
      BY <2>1 DEF Chain
    <3>2. PICK k \in 1..n : L[k] = c
      BY <1>5, <2>1, <2>3, <3>1 DEF Chain
    <3>3. CASE op.prev = NULL
      <4>1. space[s].regions = c
        BY <1>1, <1>2, <3>3 DEF WalkOK
      <4>2. k = 1
        <5>1. n # 0 /\ 1 \in 1..n
          BY <3>2
        <5>2. L[1] = c
          BY <2>1, <2>3, <3>1, <4>1, <5>1 DEF Chain
        <5> QED BY <2>1, <3>1, <3>2, <5>1, <5>2 DEF Chain
      <4>3. \A q \in DOMAIN rg :
               rg[q].next = IF k # 1 /\ q = L[k - 1] THEN reg[c].next ELSE reg[q].next
        <5>1. \A q \in DOMAIN rg : q # NULL
          BY <1>10, Constants DEF Types
        <5> QED BY <1>7, <3>3, <4>2, <5>1
      <4>4. sp[t].regions = IF k = 1 THEN reg[c].next ELSE space[t].regions
        BY <1>5, <1>8, <2>3, <3>3, <4>2
      <4>7. /\ k \in 1..Len(L) /\ c = L[k] /\ DOMAIN rg = DOMAIN reg \ {c}
            /\ \A q \in DOMAIN rg : rg[q].s = reg[q].s
        BY <1>7, <3>1, <3>2
      <4>8. Unlinked(L, k, c, space[t].regions, reg, sp[t].regions, rg)
        BY <4>3, <4>4, <4>7, Zenon DEF Unlinked
      <4> QED BY <2>1, <4>8, ChainRemove
    <3>4. CASE op.prev # NULL
      <4>1. op.prev \in DOMAIN reg /\ reg[op.prev].s = s /\ reg[op.prev].next = c
        BY <1>1, <1>2, <3>4 DEF WalkOK
      <4>2. PICK j \in 1..n : L[j] = op.prev
        BY <2>1, <2>3, <3>1, <4>1 DEF Chain
      <4>3. j # n /\ L[j + 1] = c /\ j + 1 \in 1..n
        <5>1. c = IF j = n THEN NULL ELSE L[j + 1]
          BY <2>1, <3>1, <4>1, <4>2 DEF Chain
        <5> QED BY <1>2, <5>1
      <4>4. k = j + 1 /\ k # 1 /\ L[k - 1] = op.prev
        <5>1. k = j + 1
          BY <2>1, <3>1, <3>2, <4>3 DEF Chain
        <5>2. k # 1 /\ k - 1 = j
          BY <5>1
        <5> QED BY <4>2, <5>1, <5>2
      <4>5. \A q \in DOMAIN rg :
               rg[q].next = IF k # 1 /\ q = L[k - 1] THEN reg[c].next ELSE reg[q].next
        BY <1>7, <4>4
      <4>6. sp[t].regions = IF k = 1 THEN reg[c].next ELSE space[t].regions
        BY <1>5, <1>8, <2>3, <3>4, <4>4
      <4>7. /\ k \in 1..Len(L) /\ c = L[k] /\ DOMAIN rg = DOMAIN reg \ {c}
            /\ \A q \in DOMAIN rg : rg[q].s = reg[q].s
        BY <1>7, <3>1, <3>2
      <4>8. Unlinked(L, k, c, space[t].regions, reg, sp[t].regions, rg)
        BY <4>5, <4>6, <4>7, Zenon DEF Unlinked
      <4> QED BY <2>1, <4>8, ChainRemove
    <3> QED BY <3>3, <3>4
  <2> QED BY <2>2, <2>3
<1>13. OpOK(sp, rg, o) /\ o.kind # "map" /\ o.kind # "free"
  <2>1. CASE op.all
    <3>1. op.prev = NULL /\ reg[c].next = op.rest
      BY <1>1, <1>2, <2>1 DEF WalkOK
    <3>2. o.kind = "destroy" /\ o.s = s /\ o.cur = op.rest
      BY <1>3, <2>1
    <3>3. sp[s].regions = op.rest
      BY <1>5, <1>8, <3>1
    <3> QED BY <1>5, <1>8, <3>2, <3>3 DEF OpOK, DestroyOK
  <2>2. CASE ~op.all
    BY <1>3, <2>2 DEF OpOK, Idle
  <2> QED BY <2>1, <2>2
<1>14. ASSUME Sound' PROVE Covered(sp, rg, o)
  <2>1. Covered(space, reg, op)
    BY <1>4, <1>14 DEF VmInv
  <2>2. reg[c].virt = op.v
    BY <1>2, <1>4, <1>5, <1>6, <1>14 DEF Types, RegionOK
  <2>3. ASSUME NEW t \in DOMAIN sp, NEW v \in DOMAIN sp[t].map
        PROVE  \E r \in DOMAIN rg : rg[r].s = t /\ rg[r].virt <= v /\ v < rg[r].virt + rg[r].size
    <3>1. t \in DOMAIN space /\ v \in DOMAIN space[t].map
      BY <1>8
    <3>2. PICK r \in DOMAIN reg : reg[r].s = t /\ reg[r].virt <= v /\ v < reg[r].virt + reg[r].size
      BY <1>2, <2>1, <3>1 DEF Covered
    <3>3. r # c
      BY <1>1, <1>2, <1>5, <2>2, <3>1, <3>2 DEF WalkOK
    <3> QED BY <1>7, <3>2, <3>3
  <2> QED BY <2>3 DEF Covered
<1>15. PICK kd, os, ox : Good({}, kd, os, ox, page_list, space, reg, op, Sound)
  BY DEF VmInv, Tagged
<1>16. /\ Tagging(kd) /\ ListTags(kd, page_list) /\ SpaceTags(kd, os, ox, space, op)
       /\ RegTags(kd, space, reg, op)
  BY <1>15 DEF Good, Tags
<1>17. kd[c] = "record" /\ (Aligned(c) => c \in RAM) /\ (~Aligned(c) => kd[c - 1] \in {"free", "mmio"})
  BY <1>5, <1>16 DEF RegTags, Tagging
<1>18. PICK kd2 : kd2 = Put(kd, c, "free")
  OBVIOUS
<1>19. kd2[c] = "free" /\ Moved(c, kd, kd2) /\ \A g \in Nat : g # c => kd2[g] = kd[g]
  <2>a. c \in Nat
    BY <1>5
  <2>b. Put(kd, c, "free")[c] = "free" /\ Moved(c, kd, Put(kd, c, "free"))
    BY <2>a, PutIs
  <2>1. kd2[c] = "free" /\ Moved(c, kd, kd2)
    BY <1>18, <2>b
  <2> QED BY <2>1 DEF Moved
<1>20. Tagging(kd2)
  BY <1>5, <1>16, <1>17, <1>18, PutTag DEF Kinds
<1>21. PICK n \in Nat : n = Len(page_list) /\ page_list \in Seq(Nat)
  BY <1>6 DEF Types
<1>22. ListTags(kd2, pl)
  <2>1. ASSUME Aligned(c) PROVE \A k \in 1..n : page_list[k] # c + 1
    <3>1. ~Aligned(c + 1) /\ (c + 1) - 1 = c
      BY <1>5, <2>1, Parity
    <3> QED BY <1>16, <1>17, <1>21, <3>1 DEF ListTags
  <2> QED BY <1>3, <1>5, <1>16, <1>17, <1>19, <1>21, <2>1, PushList
<1>23. SpaceTags(kd2, os, ox, sp, o)
  <2>1. Moved(c, os, os) /\ Moved(c, ox, ox)
    BY DEF Moved
  <2>2. \A t, w : Freed(op, t, w) => Freed(o, t, w)
    BY <1>2 DEF Freed
  <2>3. SpaceTags(kd2, os, ox, space, o)
    BY <1>6, <1>16, <1>17, <1>19, <2>1, <2>2, SpacesStay DEF Types
  <2>4. Same(space, sp) /\ \A t, w : Freed(o, t, w) => Freed(o, t, w)
    BY <1>8 DEF Same
  <2> QED BY <2>3, <2>4, SameTags
<1>24. ASSUME NEW r \in DOMAIN rg, ~Aligned(r)
       PROVE  r - 1 \in Nat /\ r - 1 # c /\ kd2[r - 1] = kd[r - 1]
  <2>1. r - 1 \in Nat /\ kd[r - 1] \in {"free", "mmio"}
    BY <1>6, <1>7, <1>16, <1>24, Parity DEF RegTags, Types
  <2> QED BY <1>17, <1>19, <2>1
<1>25. RegTags(kd2, sp, rg, o)
  <2>1. ASSUME NEW r \in DOMAIN rg
        PROVE  /\ kd2[r] = "record"
               /\ ~Aligned(r) => kd2[r - 1] \in {"free", "mmio"}
               /\ rg[r].base # rg[r].virt /\ rg[r].virt \in DOMAIN sp[rg[r].s].map =>
                     kd2[r - 1] = "mmio"
    <3>1. r \in DOMAIN reg /\ r # c /\ r \in Nat /\ kd2[r] = kd[r] /\ reg[r].s \in DOMAIN space
      BY <1>6, <1>7, <1>19 DEF Types, Regions
    <3>2. rg[r].base # rg[r].virt => ~Aligned(r)
      BY <1>10 DEF Types, RegionOK
    <3>3. /\ kd[r] = "record"
          /\ ~Aligned(r) => kd[r - 1] \in {"free", "mmio"}
          /\ reg[r].base # reg[r].virt /\ reg[r].virt \in DOMAIN space[reg[r].s].map =>
                 kd[r - 1] = "mmio"
      BY <1>16, <3>1 DEF RegTags
    <3>4. sp[rg[r].s].map = space[reg[r].s].map /\ rg[r].base = reg[r].base /\ rg[r].virt = reg[r].virt
      BY <1>7, <1>8, <3>1
    <3> QED BY <1>24, <3>1, <3>2, <3>3, <3>4
  <2> QED BY <1>13, <2>1 DEF RegTags
<1>26. ASSUME Sound' PROVE Full({}, kd2, os, ox, pl, sp, rg, o)
  <2>1. Full({}, kd, os, ox, page_list, space, reg, op) /\ Aligned(c)
    BY <1>4, <1>15, <1>26 DEF Good
  <2>2. /\ Len(pl) = n + 1 /\ pl[1] = c
        /\ \A j \in 2..n + 1 : pl[j] = page_list[j - 1]
    BY <1>3, <1>5, <1>21, FrontIs
  <2>3. ASSUME NEW k \in 1..Len(pl) PROVE Aligned(pl[k])
    <3>1. CASE k = 1
      BY <2>1, <2>2, <3>1
    <3>2. CASE k # 1
      <4>1. k \in 2..n + 1 /\ k - 1 \in 1..n
        BY <2>2, <3>2
      <4> QED BY <1>21, <2>1, <2>2, <4>1 DEF Full
    <3> QED BY <3>1, <3>2
  <2>4. \A r \in DOMAIN rg : ~Aligned(r) => kd2[r - 1] = "mmio"
    BY <1>7, <1>24, <2>1 DEF Full
  <2>5. ASSUME NEW g \in RAM \ {} PROVE Backed(g, kd2, os, ox, pl, sp, rg, o)
    <3>1. Backed(g, kd, os, ox, page_list, space, reg, op) /\ g \in Nat /\ Aligned(g)
      BY <2>1, Constants DEF Full
    <3>2. CASE g = c
      <4>1. 1 \in 1..Len(pl)
        BY <2>2
      <4> QED BY <1>19, <2>2, <3>2, <4>1 DEF Backed
    <3>3. CASE g # c
      <4>1. kd2[g] = kd[g]
        BY <1>19, <3>1, <3>3
      <4>2. ASSUME kd[g] = "free" PROVE \E k \in 1..Len(pl) : pl[k] = g
        <5>1. PICK k \in 1..n : page_list[k] = g
          BY <1>21, <3>1, <4>2 DEF Backed
        <5>2. k + 1 \in 2..n + 1 /\ (k + 1) - 1 = k /\ k + 1 \in 1..Len(pl)
          BY <2>2
        <5> QED BY <2>2, <5>1, <5>2
      <4>3. g + 1 # c
        BY <2>1, <3>1, Parity
      <4>4. kd[g] = "mmio" => g + 1 \in DOMAIN rg
        BY <1>2, <1>7, <3>1, <4>3 DEF Backed
      <4>5. kd[g] = "record" => g \in DOMAIN rg
        BY <1>7, <3>1, <3>3 DEF Backed
      <4>6. kd[g] = "page" => /\ os[g] \in DOMAIN sp /\ ox[g] \in DOMAIN sp[os[g]].map
                              /\ sp[os[g]].map[ox[g]] = g /\ ~Freed(o, os[g], ox[g])
        BY <1>8, <1>13, <3>1 DEF Backed, Freed
      <4> QED BY <1>8, <3>1, <4>1, <4>2, <4>4, <4>5, <4>6 DEF Backed
    <3> QED BY <3>2, <3>3
  <2> QED BY <2>3, <2>4, <2>5 DEF Full
<1>27. Tags(kd2, os, ox, pl, sp, rg, o) /\ Lists(sp, rg)
  BY <1>12, <1>20, <1>22, <1>23, <1>25 DEF Tags, Lists
<1> QED BY <1>1, <1>10, <1>11, <1>13, <1>14, <1>26, <1>27, Assemble

\* mmio_destroy: the pages go, then the frame of the record.
LEMMA MmioDestroyInv ==
    ASSUME VmInv, NEW r \in DOMAIN reg, mmio_destroy(r)
    PROVE  VmInv'
<1>1. PICK pl, sp, s, v, n :
         pl = page_list' /\ sp = space' /\ s = reg[r].s /\ v = reg[r].virt /\ n = reg[r].size
  OBVIOUS
<1>2. /\ op = Idle /\ op' = op /\ reg' = reg /\ ~Sound'
      /\ reg[r].base # v /\ v \in DOMAIN space[s].map
      /\ sp = Unmapped(s, v, n) /\ pl = <<r - 1>> \o page_list
  BY <1>1 DEF mmio_destroy, Sound, Running
<1>3. Types(page_list, space, reg) /\ Regions(space, reg) /\ Lists(space, reg) /\ OpOK(space, reg, op)
  BY DEF VmInv
<1>4. r \in Nat /\ s \in DOMAIN space /\ v \in Nat /\ n \in Nat \ {0} /\ ~Aligned(r)
  BY <1>1, <1>2, <1>3 DEF Types, RegionOK, Regions
<1>5. PICK f : f = r - 1 /\ f \in Nat /\ Aligned(f) /\ f + 1 = r
  BY <1>4, Parity
<1>6. /\ Types(page_list, sp, reg)
      /\ DOMAIN sp = DOMAIN space
      /\ \A t \in DOMAIN space :
            /\ sp[t].pml4 = space[t].pml4 /\ sp[t].tables = space[t].tables
            /\ sp[t].next_free = space[t].next_free /\ sp[t].regions = space[t].regions
      /\ \A t \in DOMAIN space : t # s => sp[t].map = space[t].map
      /\ \A w : w \in DOMAIN sp[s].map <=> w \in DOMAIN space[s].map /\ ~(v <= w /\ w < v + n)
      /\ \A w \in DOMAIN sp[s].map : sp[s].map[w] = space[s].map[w]
  BY <1>2, <1>3, <1>4, UnmapIs
<1>7. Regions(sp, reg) /\ Lists(sp, reg) /\ OpOK(sp, reg, op)
  BY <1>2, <1>3, <1>6 DEF Regions, Lists, OpOK
<1>8. Types(pl, sp, reg)
  BY <1>2, <1>3, <1>5, <1>6, FrontIs DEF Types
<1>9. PICK kd, os, ox : Good({}, kd, os, ox, page_list, space, reg, op, Sound)
  BY DEF VmInv, Tagged
<1>10. /\ Tagging(kd) /\ ListTags(kd, page_list) /\ SpaceTags(kd, os, ox, space, op)
       /\ RegTags(kd, space, reg, op)
  BY <1>9 DEF Good, Tags
<1>11. kd[r] = "record" /\ kd[f] = "mmio"
  BY <1>1, <1>2, <1>5, <1>10 DEF RegTags
<1>12. f \in RAM
  BY <1>5, <1>10, <1>11 DEF Tagging
<1>13. PICK kd2 : kd2 = Put(kd, f, "free") /\ kd2[f] = "free" /\ Moved(f, kd, kd2)
  <2>1. Put(kd, f, "free")[f] = "free" /\ Moved(f, kd, Put(kd, f, "free"))
    BY <1>5 DEF Put, Moved
  <2> QED BY <2>1
<1>14. Tagging(kd2)
  BY <1>5, <1>10, <1>12, <1>13, PutTag DEF Kinds
<1>15. ListTags(kd2, pl)
  <2>1. page_list \in Seq(Nat) /\ pl = <<f>> \o page_list
    BY <1>2, <1>3, <1>5 DEF Types
  <2>2. \A k \in 1..Len(page_list) : page_list[k] # f + 1
    BY <1>5, <1>10, <1>11 DEF ListTags
  <2> QED BY <1>5, <1>10, <1>11, <1>13, <2>1, <2>2, PushList
<1>16. SpaceTags(kd2, os, ox, sp, op)
  <2>1. Moved(f, os, os) /\ Moved(f, ox, ox) /\ \A t, w : Freed(op, t, w) => Freed(op, t, w)
    BY DEF Moved
  <2>2. SpaceTags(kd2, os, ox, space, op)
    BY <1>3, <1>10, <1>11, <1>13, <2>1, SpacesStay DEF Types
  <2>3. ASSUME NEW t \in DOMAIN space, NEW w \in DOMAIN sp[t].map
        PROVE  w \in DOMAIN space[t].map /\ sp[t].map[w] = space[t].map[w]
    BY <1>6
  <2> QED BY <1>6, <2>2, <2>3 DEF SpaceTags
<1>17. ASSUME NEW q \in DOMAIN reg
       PROVE  /\ kd2[q] = "record"
              /\ ~Aligned(q) => kd2[q - 1] \in {"free", "mmio"}
              /\ reg[q].base # reg[q].virt /\ reg[q].virt \in DOMAIN sp[reg[q].s].map =>
                    kd2[q - 1] = "mmio"
  <2>1. /\ kd[q] = "record" /\ q \in Nat
        /\ ~Aligned(q) => kd[q - 1] \in {"free", "mmio"}
        /\ reg[q].base # reg[q].virt /\ reg[q].virt \in DOMAIN space[reg[q].s].map =>
               kd[q - 1] = "mmio"
    BY <1>3, <1>10 DEF RegTags, Types
  <2>2. kd2[q] = "record"
    BY <1>11, <1>13, <2>1 DEF Moved
  <2>3. CASE q = r
    <3>1. v \notin DOMAIN sp[s].map
      BY <1>4, <1>6
    <3> QED BY <1>1, <1>5, <1>13, <2>2, <2>3, <3>1
  <2>4. CASE q # r
    <3>1. ~Aligned(q) => q - 1 \in Nat /\ q - 1 # f
      BY <1>4, <1>5, <2>1, <2>4, Parity
    <3>2. ~Aligned(q) => kd2[q - 1] = kd[q - 1]
      BY <1>13, <3>1 DEF Moved
    <3>3. reg[q].base # reg[q].virt => ~Aligned(q)
      BY <1>3 DEF Types, RegionOK
    <3>4. reg[q].virt \in DOMAIN sp[reg[q].s].map => reg[q].virt \in DOMAIN space[reg[q].s].map
      BY <1>3, <1>6 DEF Regions
    <3> QED BY <2>1, <2>2, <3>2, <3>3, <3>4
  <2> QED BY <2>3, <2>4
<1>18. RegTags(kd2, sp, reg, op)
  BY <1>2, <1>17 DEF RegTags, Idle
<1>19. Tags(kd2, os, ox, pl, sp, reg, op)
  BY <1>14, <1>15, <1>16, <1>18 DEF Tags
<1> QED BY <1>1, <1>2, <1>7, <1>8, <1>19, Assemble

-----------------------------------------------------------------------------
(* Taking frames. *)

\* The record of an operation in progress.
LEMMA NewIs ==
    ASSUME VmInv
    PROVE  NewOK(op) /\ (op = Idle => op.kind = "idle")
  BY OpKind DEF VmInv, NewOK, MapOK, Idle

\* vm_space_create.
LEMMA CreateInv ==
    ASSUME VmInv, vm_space_create
    PROVE  VmInv'
<1>1. PICK pl, sp, f, m : pl = page_list' /\ sp = space' /\ f = page_list[1] /\ m = page_list[2]
  OBVIOUS
<1>2. CASE ~Fit(2) /\ Break
  <2>1. ~Sound'
    BY <1>2 DEF Break, Sound, Running
  <2> QED BY <1>2, <2>1, StopInv DEF Break
<1>3. CASE /\ Fit(2)
           /\ page_list' = Taken(2)
           /\ space' = [s \in DOMAIN space \cup {page_list[1]} |->
                          IF s = page_list[1]
                          THEN [pml4 |-> page_list[2], next_free |-> 0, regions |-> NULL,
                                live |-> TRUE, tables |-> [t \in {} |-> 0], map |-> [v \in {} |-> 0]]
                          ELSE space[s]]
           /\ UNCHANGED <<reg, op, panicked, broken, released>>
  <2>1. reg' = reg /\ op' = op /\ op = Idle /\ op.kind = "idle" /\ NewOK(op) /\ (Sound' <=> Sound)
    BY <1>3, NewIs DEF vm_space_create, Sound, Running
  <2>2. Types(page_list, space, reg) /\ Regions(space, reg) /\ Lists(space, reg)
    BY DEF VmInv
  <2>3. PICK kd, os, ox : Good({}, kd, os, ox, page_list, space, reg, op, Sound)
    BY DEF VmInv, Tagged
  <2>4. PICK n \in Nat : n = Len(page_list) /\ n >= 2 /\ n >= 1 /\ page_list \in Seq(Nat)
    BY <1>3, <2>2 DEF Fit, Types
  <2>5. f \in Nat /\ m \in Nat /\ Aligned(f) /\ Aligned(m) /\ f + 1 \notin DOMAIN reg /\ m + 1 \notin DOMAIN reg
    <3>1. 1 \in 1..2 /\ 2 \in 1..2 /\ 1 \in 1..n /\ 2 \in 1..n
      BY <2>4
    <3> QED BY <1>1, <1>3, <2>4, <3>1 DEF Fit, Listed
  <2>6. PICK q, kd1, os1, ox1 : /\ q = Rest(page_list, 1) /\ kd1 = Put(kd, f, "space")
                                /\ os1 = Put(os, f, 0) /\ ox1 = Put(ox, f, 0)
    OBVIOUS
  <2>7. /\ f \in RAM /\ kd[f] = "free" /\ Types(q, space, reg)
        /\ Good({} \cup {f}, kd1, os1, ox1, q, space, reg, op, Sound)
    <3>1. Ready({}, kd, os, ox, page_list, space, reg, op, Sound, f) /\ "space" \in Kinds
      BY <1>1, <2>1, <2>2, <2>3, <2>4, <2>5 DEF Ready, Kinds
    <3> QED BY <2>5, <2>6, <3>1, Take
  <2>8. Len(q) >= 1 /\ q[1] = m
    <3>1. 1 \in 0..Len(page_list) /\ 1 \in 1..n - 1
      BY <2>4
    <3>2. Len(q) = n - 1 /\ q[1] = page_list[1 + 1]
      BY <2>4, <2>6, <3>1, RestIs
    <3> QED BY <1>1, <2>4, <3>2
  <2>9. PICK kd2, os2, ox2 : /\ kd2 = Put(kd1, m, "pml4")
                             /\ os2 = Put(os1, m, f) /\ ox2 = Put(ox1, m, 0)
    OBVIOUS
  <2>10. /\ m \in RAM /\ kd1[m] = "free" /\ Types(pl, space, reg)
         /\ Good(({} \cup {f}) \cup {m}, kd2, os2, ox2, pl, space, reg, op, Sound)
    <3>1. pl = Rest(q, 1)
      BY <1>1, <1>3, <2>4, <2>6, RestTwice DEF Taken, Rest
    <3>2. Ready({} \cup {f}, kd1, os1, ox1, q, space, reg, op, Sound, m) /\ "pml4" \in Kinds
      BY <2>1, <2>5, <2>7, <2>8 DEF Ready, Kinds
    <3> QED BY <2>5, <2>9, <3>1, <3>2, Take
  <2>11. /\ kd1[f] = "space" /\ kd2[m] = "pml4" /\ os2[m] = f
         /\ m # f /\ kd2[f] = "space"
    <3>1. kd1[f] = "space"
      BY <2>5, <2>6 DEF Put
    <3>2. kd2[m] = "pml4" /\ os2[m] = f
      BY <2>5, <2>9 DEF Put
    <3>3. m # f
      BY <2>10, <3>1
    <3>4. kd2[f] = "space"
      BY <2>5, <2>9, <3>1, <3>3 DEF Put
    <3> QED BY <3>1, <3>2, <3>3, <3>4
  <2>12. f \notin DOMAIN space
    BY <2>3, <2>7 DEF Good, Tags, SpaceTags
  <2>13. /\ DOMAIN sp = DOMAIN space \cup {f}
         /\ \A t \in DOMAIN space : sp[t] = space[t]
         /\ sp[f] = [pml4 |-> m, next_free |-> 0, regions |-> NULL, live |-> TRUE,
                     tables |-> [t \in {} |-> 0], map |-> [v \in {} |-> 0]]
    BY <1>1, <1>3, <2>12
  <2>14. /\ sp[f].pml4 = m /\ sp[f].next_free = 0 /\ sp[f].regions = NULL
         /\ DOMAIN sp[f].tables = {} /\ DOMAIN sp[f].map = {}
    BY <2>13
  <2>15. SpaceOK(sp[f])
    BY <2>10, <2>13, Constants DEF SpaceOK, Link
  <2>16. Types(pl, sp, reg)
    <3>1. IsFiniteSet(DOMAIN sp)
      BY <2>2, <2>13, FS_AddElement DEF Types
    <3> QED BY <2>7, <2>10, <2>13, <2>15, <3>1 DEF Types
  <2>17. Regions(sp, reg)
    BY <2>2, <2>13 DEF Regions
  <2>18. ASSUME NEW t \in DOMAIN sp PROVE \E L : Chain(L, t, sp[t].regions, reg)
    <3>1. CASE t # f
      BY <2>2, <2>13, <3>1 DEF Lists
    <3>2. CASE t = f
      <4>1. \A r \in DOMAIN reg : reg[r].s # f
        BY <2>2, <2>12 DEF Regions
      <4>2. Chain(<<>>, f, NULL, reg)
        BY <4>1 DEF Chain
      <4> QED BY <2>14, <3>2, <4>2
    <3> QED BY <3>1, <3>2
  <2>19. /\ Tagging(kd2) /\ ListTags(kd2, pl) /\ SpaceTags(kd2, os2, ox2, space, op)
         /\ RegTags(kd2, space, reg, op)
    BY <2>10 DEF Good, Tags
  <2>20. SpaceTags(kd2, os2, ox2, sp, op)
    BY <2>11, <2>13, <2>14, <2>19 DEF SpaceTags
  <2>21. RegTags(kd2, sp, reg, op)
    BY <2>1, <2>2, <2>13, <2>19 DEF RegTags, Regions
  <2>22. ASSUME Sound PROVE Full({}, kd2, os2, ox2, pl, sp, reg, op)
    <3>1. Full(({} \cup {f}) \cup {m}, kd2, os2, ox2, pl, space, reg, op)
      BY <2>10, <2>22 DEF Good
    <3>2. ASSUME NEW g \in RAM \ {} PROVE Backed(g, kd2, os2, ox2, pl, sp, reg, op)
      <4>1. CASE g = f
        BY <2>11, <2>13, <4>1 DEF Backed
      <4>2. CASE g = m
        BY <2>11, <2>13, <2>14, <4>2 DEF Backed
      <4>3. CASE g # f /\ g # m
        <5>1. Backed(g, kd2, os2, ox2, pl, space, reg, op)
          BY <3>1, <4>3 DEF Full
        <5> QED BY <2>13, <5>1 DEF Backed
      <4> QED BY <4>1, <4>2, <4>3
    <3> QED BY <3>1, <3>2 DEF Full
  <2>23. Sound => Covered(sp, reg, op)
    <3>1. Sound => Covered(space, reg, op)
      BY DEF VmInv
    <3> QED BY <2>13, <2>14, <3>1 DEF Covered
  <2>24. Tags(kd2, os2, ox2, pl, sp, reg, op) /\ Lists(sp, reg) /\ OpOK(sp, reg, op)
    BY <2>1, <2>18, <2>19, <2>20, <2>21 DEF Tags, Lists, OpOK
  <2> QED BY <1>1, <2>1, <2>16, <2>17, <2>22, <2>23, <2>24, Assemble
<1> QED BY <1>2, <1>3 DEF vm_space_create

\* mmio_init takes the frame of its record and begins to map.
LEMMA MmioInitInv ==
    ASSUME VmInv, NEW s \in Live, NEW p \in Dev, NEW n \in SIZES, mmio_init(s, p, n)
    PROVE  VmInv'
<1>1. PICK pl, o, f : pl = page_list' /\ o = op' /\ f = page_list[1]
  OBVIOUS
<1>2. CASE ~Fit(1) /\ Break
  <2>1. ~Sound'
    BY <1>2 DEF Break, Sound, Running
  <2> QED BY <1>2, <2>1, StopInv DEF Break
<1>3. CASE /\ Fit(1)
           /\ page_list' = Taken(1)
           /\ InHeap(s, n, p, page_list[1] + 1)
           /\ UNCHANGED <<space, reg, broken, released>>
  <2>1. /\ reg' = reg /\ space' = space /\ op = Idle /\ op.kind = "idle" /\ NewOK(op)
        /\ s \in DOMAIN space
    BY <1>3, NewIs DEF mmio_init, Live
  <2>2. /\ Types(page_list, space, reg) /\ Regions(space, reg) /\ Lists(space, reg)
        /\ OpOK(space, reg, op)
    BY DEF VmInv
  <2>3. PICK kd, os, ox : Good({}, kd, os, ox, page_list, space, reg, op, Sound)
    BY DEF VmInv, Tagged
  <2>4. PICK m \in Nat : m = Len(page_list) /\ m >= 1 /\ page_list \in Seq(Nat)
    BY <1>3, <2>2 DEF Fit, Types
  <2>5. f \in Nat /\ Aligned(f) /\ f + 1 \notin DOMAIN reg
    <3>1. 1 \in 1..1 /\ 1 \in 1..m
      BY <2>4
    <3> QED BY <1>1, <1>3, <2>4, <3>1 DEF Fit, Listed
  <2>6. PICK kd1, os1, ox1 : kd1 = Put(kd, f, "mmio") /\ os1 = Put(os, f, 0) /\ ox1 = Put(ox, f, 0)
    OBVIOUS
  <2>7. /\ f \in RAM /\ Types(pl, space, reg)
        /\ Good({} \cup {f}, kd1, os1, ox1, pl, space, reg, op, Sound)
    <3>1. Ready({}, kd, os, ox, page_list, space, reg, op, Sound, f) /\ "mmio" \in Kinds
      BY <1>1, <2>1, <2>2, <2>3, <2>4, <2>5 DEF Ready, Kinds
    <3>2. pl = Rest(page_list, 1)
      BY <1>1, <1>3 DEF Taken, Rest
    <3> QED BY <2>5, <2>6, <3>1, <3>2, Take
  <2>8. /\ Tagging(kd1) /\ ListTags(kd1, pl) /\ SpaceTags(kd1, os1, ox1, space, op)
        /\ RegTags(kd1, space, reg, op)
    BY <2>7 DEF Good, Tags
  <2>9. CASE panicked' = TRUE /\ o = op
    <3>1. ~Sound'
      BY <2>9 DEF Sound, Running
    <3>2. Tags(kd1, os1, ox1, pl, space, reg, o)
      BY <2>8, <2>9 DEF Tags
    <3> QED BY <1>1, <2>1, <2>2, <2>7, <2>9, <3>1, <3>2, Assemble
  <2>10. CASE /\ space[s].next_free + n <= HEAP
              /\ Begin(s, space[s].next_free, n, p, f + 1, TRUE) /\ panicked' = panicked
    <3>1. PICK r : r = f + 1 /\ r \in Nat /\ ~Aligned(r) /\ r - 1 = f /\ r # NULL
      <4>1. f \in Nat /\ Aligned(f)
        BY <2>5
      <4>2. f + 1 \in Nat /\ (f + 1) - 1 = f
        BY <4>1
      <4>3. ~Aligned(f + 1)
        BY <4>1, Parity
      <4>4. f + 1 # NULL
        BY <4>2, Constants
      <4> QED BY <4>2, <4>3, <4>4, Zenon
    <3>2. Sound' <=> Sound
      BY <1>3, <2>10 DEF Sound, Running
    <3>3. MapOK(space, reg, o) /\ o.kind = "map" /\ o.i = 0 /\ o.r = r
      <4>1. space[s].next_free \in Nat
        <5>1. SpaceOK(space[s])
          BY <2>1, <2>2 DEF Types
        <5> QED BY <5>1, Constants DEF SpaceOK
      <4>2. Placed(s, space[s].next_free, n, p, r, TRUE)
        BY <2>1, <2>10, <3>1, <4>1 DEF Placed
      <4>3. Begin(s, space[s].next_free, n, p, r, TRUE)
        BY <2>10, <3>1
      <4> QED BY <1>1, <4>2, <4>3, BeginOK
    <3>4. PICK kd2 : kd2 = Put(kd1, r, "new") /\ kd2[r] = "new" /\ Moved(r, kd1, kd2)
      <4>1. Put(kd1, r, "new")[r] = "new" /\ Moved(r, kd1, Put(kd1, r, "new"))
        BY <3>1 DEF Put, Moved
      <4> QED BY <4>1
    <3>5. Tagging(kd2)
      BY <2>8, <3>1, <3>4, PutTag DEF Kinds
    <3>6. kd1[f] = "mmio" /\ kd2[f] = "mmio"
      <4>1. kd1[f] = "mmio"
        BY <2>5, <2>6 DEF Put
      <4>2. f # r
        BY <2>5, <3>1
      <4> QED BY <2>5, <3>4, <4>1, <4>2 DEF Moved
    <3>7. PICK k1 \in Nat : k1 = Len(pl) /\ (\A k \in 1..k1 : pl[k] \in Nat /\ pl[k] # r)
      <4>1. PICK k1 \in Nat : k1 = Len(pl) /\ \A k \in 1..k1 : pl[k] \in Nat
        BY <2>7 DEF Types
      <4>2. ASSUME NEW k \in 1..k1 PROVE pl[k] # r
        <5>1. 1 \in 0..Len(page_list) /\ pl = Rest(page_list, 1)
          BY <1>1, <1>3, <2>4 DEF Taken, Rest
        <5>2. k1 = m - 1 /\ pl[k] = page_list[k + 1]
          BY <2>4, <4>1, <5>1, RestIs
        <5>3. k + 1 \in 1..m /\ 1 \in 1..m /\ 1 < k + 1
          BY <2>4, <5>2
        <5>4. \A j, i \in 1..m : j < i /\ Aligned(page_list[j]) => page_list[i] # page_list[j] + 1
          BY <2>3, <2>4 DEF Good, Tags, ListTags
        <5> QED BY <1>1, <2>5, <3>1, <5>2, <5>3, <5>4
      <4> QED BY <4>1, <4>2
    <3>8. ListTags(kd2, pl)
      <4>1. ASSUME NEW k \in 1..k1 PROVE kd2[pl[k]] = kd1[pl[k]] /\ (~Aligned(pl[k]) => kd2[pl[k] - 1] = kd1[pl[k] - 1])
        <5>1. ~Aligned(pl[k]) => pl[k] - 1 \in Nat /\ pl[k] - 1 # r
          BY <3>1, <3>7, Parity
        <5> QED BY <3>4, <3>7, <5>1 DEF Moved
      <4> QED BY <2>8, <3>7, <4>1 DEF ListTags
    <3>9. SpaceTags(kd2, os1, ox1, space, o)
      <4>1. Moved(r, os1, os1) /\ Moved(r, ox1, ox1) /\ \A t, w : Freed(op, t, w) => Freed(o, t, w)
        BY <2>1 DEF Moved, Freed
      <4>2. kd1[r] \notin {"space", "pml4", "table", "page"}
        BY <2>8, <3>1 DEF Tagging
      <4> QED BY <2>2, <2>8, <3>4, <4>1, <4>2, SpacesStay DEF Types
    <3>10. ASSUME NEW q \in DOMAIN reg
           PROVE  q \in Nat /\ kd2[q] = kd1[q] /\ (~Aligned(q) => kd2[q - 1] = kd1[q - 1])
      <4>1. q \in Nat /\ q # r
        BY <2>2, <2>5, <3>1 DEF Types
      <4>2. ~Aligned(q) => q - 1 \in Nat /\ q - 1 # r
        BY <3>1, <4>1, Parity
      <4> QED BY <3>4, <4>1, <4>2 DEF Moved
    <3>11. RegTags(kd2, space, reg, o)
      <4>1. \A q \in DOMAIN reg : reg[q].base # reg[q].virt => ~Aligned(q)
        BY <2>2 DEF Types, RegionOK
      <4> QED BY <2>8, <3>1, <3>3, <3>4, <3>6, <3>10, <4>1 DEF RegTags
    <3>12. ASSUME Sound PROVE Full({}, kd2, os1, ox1, pl, space, reg, o)
      <4>1. Full({} \cup {f}, kd1, os1, ox1, pl, space, reg, op)
        BY <2>7, <3>12 DEF Good
      <4>2. ASSUME NEW g \in RAM \ {} PROVE Backed(g, kd2, os1, ox1, pl, space, reg, o)
        <5>1. g \in Nat /\ g # r
          BY <3>1, Constants
        <5>2. kd2[g] = kd1[g]
          BY <3>4, <5>1 DEF Moved
        <5>3. CASE g = f
          BY <3>1, <3>3, <3>6, <5>3 DEF Backed
        <5>4. CASE g # f
          <6>1. Backed(g, kd1, os1, ox1, pl, space, reg, op)
            BY <4>1, <5>4 DEF Full
          <6> QED BY <2>1, <3>3, <5>2, <6>1 DEF Backed, Freed
        <5> QED BY <5>3, <5>4
      <4> QED BY <3>10, <4>1, <4>2 DEF Full
    <3>13. Sound => Covered(space, reg, o)
      <4>1. Sound => Covered(space, reg, op)
        BY DEF VmInv
      <4> QED BY <2>1, <4>1 DEF Covered
    <3>14. Tags(kd2, os1, ox1, pl, space, reg, o) /\ OpOK(space, reg, o)
      BY <3>3, <3>5, <3>8, <3>9, <3>11 DEF Tags, OpOK
    <3> QED BY <1>1, <2>1, <2>2, <2>7, <3>2, <3>12, <3>13, <3>14, Assemble
  <2> QED BY <1>1, <1>3, <2>9, <2>10 DEF InHeap
<1> QED BY <1>2, <1>3 DEF mmio_init

\* The table of a page is numbered like a page.
LEMMA TableOf ==
    ASSUME NEW v \in VPage
    PROVE  v \div TPAGES \in VPage
<1>1. v \in Nat /\ v < VPAGES /\ TPAGES \in Nat \ {0} /\ VPAGES \in Nat
  BY Constants DEF VPage
<1>2. v \div TPAGES \in Nat /\ v \div TPAGES <= v
  BY <1>1
<1> QED BY <1>1, <1>2 DEF VPage

\* The frames of one page: a for the page itself if vm_alloc takes one, b for
\* its table if that is missing.
Given(X, kd, os, ox, a, b, own, tab, s, v, t) ==
    /\ own => a \in RAM /\ kd[a] = "page" /\ os[a] = s /\ ox[a] = v
    /\ tab => b \in RAM /\ kd[b] = "table" /\ os[b] = s /\ ox[b] = t
    /\ \A g \in X : (own /\ g = a) \/ (tab /\ g = b)

\* The frames that one page takes.
LEMMA MapTake ==
    ASSUME VmInv, NewOK(op), NEW own \in BOOLEAN, NEW tab \in BOOLEAN, NEW k, Fit(k),
           k = (IF own THEN 1 ELSE 0) + (IF tab THEN 1 ELSE 0),
           NEW a, own => a = page_list[1], NEW b, tab => b = page_list[k], NEW s, NEW v, NEW t
    PROVE  /\ Types(Rest(page_list, k), space, reg)
           /\ \E X, kd, os, ox : /\ Given(X, kd, os, ox, a, b, own, tab, s, v, t)
                                 /\ Good(X, kd, os, ox, Rest(page_list, k), space, reg, op, Sound)
<1>1. Types(page_list, space, reg) /\ page_list \in Seq(Nat)
  BY DEF VmInv, Types
<1>2. PICK kd, os, ox : Good({}, kd, os, ox, page_list, space, reg, op, Sound)
  BY DEF VmInv, Tagged
<1>3. PICK n \in Nat : n = Len(page_list) /\ n >= k
  BY <1>1 DEF Fit
<1>4. \A j \in 1..k : Aligned(page_list[j]) /\ page_list[j] + 1 \notin DOMAIN reg
  BY DEF Fit, Listed
<1>5. "page" \in Kinds /\ "table" \in Kinds
  BY DEF Kinds
<1>6. CASE ~own /\ ~tab
  <2>1. k = 0 /\ Rest(page_list, 0) = page_list
    <3>1. k = 0 /\ 0 \in 0..Len(page_list)
      BY <1>3, <1>6
    <3>2. /\ Rest(page_list, 0) \in Seq(Nat) /\ Len(Rest(page_list, 0)) = Len(page_list) - 0
          /\ \A j \in 1..Len(page_list) - 0 : Rest(page_list, 0)[j] = page_list[j + 0]
      BY <1>1, <3>1, RestIs
    <3>3. PICK q \in Seq(Nat) : q = Rest(page_list, 0) /\ Len(q) = n /\ \A j \in 1..n : q[j] = page_list[j]
      BY <1>3, <3>2
    <3>4. q = page_list
      BY <1>1, <1>3, <3>3, SeqEqual
    <3> QED BY <3>1, <3>3, <3>4
  <2>2. Given({}, kd, os, ox, a, b, own, tab, s, v, t)
    BY <1>6 DEF Given
  <2> QED BY <1>1, <1>2, <2>1, <2>2
<1>7. CASE own /\ ~tab
  <2>1. k = 1 /\ a = page_list[1] /\ Len(page_list) >= 1 /\ Aligned(a) /\ a + 1 \notin DOMAIN reg
    <3>1. k = 1 /\ 1 \in 1..k /\ n >= 1
      BY <1>3, <1>7
    <3> QED BY <1>3, <1>4, <1>7, <3>1
  <2>2. Ready({}, kd, os, ox, page_list, space, reg, op, Sound, a)
    BY <1>1, <1>2, <2>1 DEF Ready
  <2>3. PICK kd1, os1, ox1 : kd1 = Put(kd, a, "page") /\ os1 = Put(os, a, s) /\ ox1 = Put(ox, a, v)
    OBVIOUS
  <2>4. /\ a \in Nat /\ a \in RAM /\ Types(Rest(page_list, 1), space, reg)
        /\ Good({} \cup {a}, kd1, os1, ox1, Rest(page_list, 1), space, reg, op, Sound)
    BY <1>5, <2>1, <2>2, <2>3, Take
  <2>5. kd1[a] = "page" /\ os1[a] = s /\ ox1[a] = v
    BY <2>3, <2>4 DEF Put
  <2>6. Given({} \cup {a}, kd1, os1, ox1, a, b, own, tab, s, v, t)
    BY <1>7, <2>4, <2>5 DEF Given
  <2> QED BY <2>1, <2>4, <2>6
<1>8. CASE ~own /\ tab
  <2>1. k = 1 /\ b = page_list[1] /\ Len(page_list) >= 1 /\ Aligned(b) /\ b + 1 \notin DOMAIN reg
    <3>1. k = 1 /\ 1 \in 1..k /\ n >= 1
      BY <1>3, <1>8
    <3> QED BY <1>3, <1>4, <1>8, <3>1
  <2>2. Ready({}, kd, os, ox, page_list, space, reg, op, Sound, b)
    BY <1>1, <1>2, <2>1 DEF Ready
  <2>3. PICK kd1, os1, ox1 : kd1 = Put(kd, b, "table") /\ os1 = Put(os, b, s) /\ ox1 = Put(ox, b, t)
    OBVIOUS
  <2>4. /\ b \in Nat /\ b \in RAM /\ Types(Rest(page_list, 1), space, reg)
        /\ Good({} \cup {b}, kd1, os1, ox1, Rest(page_list, 1), space, reg, op, Sound)
    BY <1>5, <2>1, <2>2, <2>3, Take
  <2>5. kd1[b] = "table" /\ os1[b] = s /\ ox1[b] = t
    BY <2>3, <2>4 DEF Put
  <2>6. Given({} \cup {b}, kd1, os1, ox1, a, b, own, tab, s, v, t)
    BY <1>8, <2>4, <2>5 DEF Given
  <2> QED BY <2>1, <2>4, <2>6
<1>9. CASE own /\ tab
  <2>1. /\ k = 2 /\ a = page_list[1] /\ b = page_list[2] /\ Len(page_list) >= 1 /\ Len(page_list) >= 2
        /\ Aligned(a) /\ a + 1 \notin DOMAIN reg /\ Aligned(b) /\ b + 1 \notin DOMAIN reg
    <3>1. k = 2 /\ 1 \in 1..k /\ 2 \in 1..k /\ n >= 1 /\ n >= 2
      BY <1>3, <1>9
    <3> QED BY <1>3, <1>4, <1>9, <3>1
  <2>2. Ready({}, kd, os, ox, page_list, space, reg, op, Sound, a)
    BY <1>1, <1>2, <2>1 DEF Ready
  <2>3. PICK q, kd1, os1, ox1 : /\ q = Rest(page_list, 1) /\ kd1 = Put(kd, a, "page")
                                /\ os1 = Put(os, a, s) /\ ox1 = Put(ox, a, v)
    OBVIOUS
  <2>4. /\ a \in Nat /\ a \in RAM /\ Types(q, space, reg)
        /\ Good({} \cup {a}, kd1, os1, ox1, q, space, reg, op, Sound)
    BY <1>5, <2>1, <2>2, <2>3, Take
  <2>5. kd1[a] = "page" /\ os1[a] = s /\ ox1[a] = v
    BY <2>3, <2>4 DEF Put
  <2>6. Len(q) >= 1 /\ q[1] = b
    <3>1. 1 \in 0..Len(page_list) /\ 1 \in 1..n - 1
      BY <1>3, <2>1
    <3>2. Len(q) = n - 1 /\ q[1] = page_list[1 + 1]
      BY <1>1, <1>3, <2>3, <3>1, RestIs
    <3> QED BY <1>3, <2>1, <3>2
  <2>7. Ready({} \cup {a}, kd1, os1, ox1, q, space, reg, op, Sound, b)
    BY <2>1, <2>4, <2>6 DEF Ready
  <2>8. PICK kd2, os2, ox2 : kd2 = Put(kd1, b, "table") /\ os2 = Put(os1, b, s) /\ ox2 = Put(ox1, b, t)
    OBVIOUS
  <2>9. /\ b \in Nat /\ b \in RAM /\ kd1[b] = "free" /\ Types(Rest(q, 1), space, reg)
        /\ Good(({} \cup {a}) \cup {b}, kd2, os2, ox2, Rest(q, 1), space, reg, op, Sound)
    BY <1>5, <2>1, <2>7, <2>8, Take
  <2>10. kd2[b] = "table" /\ os2[b] = s /\ ox2[b] = t
    BY <2>8, <2>9 DEF Put
  <2>11. a # b /\ kd2[a] = "page" /\ os2[a] = s /\ ox2[a] = v
    BY <2>4, <2>5, <2>8, <2>9 DEF Put
  <2>12. Given(({} \cup {a}) \cup {b}, kd2, os2, ox2, a, b, own, tab, s, v, t)
    BY <2>4, <2>9, <2>10, <2>11, <1>9 DEF Given
  <2>13. Rest(q, 1) = Rest(page_list, k)
    BY <1>1, <2>1, <2>3, RestTwice
  <2> QED BY <2>9, <2>12, <2>13
<1> QED BY <1>6, <1>7, <1>8, <1>9

\* One page is mapped.
LEMMA MapNextInv ==
    ASSUME VmInv, MapNext
    PROVE  VmInv'
<1>a. PICK s, v, t, a, pl, sp, o :
         /\ s = op.s /\ v = op.v + op.i /\ t = v \div TPAGES
         /\ a = IF op.p = NULL THEN page_list[1] ELSE op.p + 2 * op.i
         /\ pl = page_list' /\ sp = space' /\ o = op'
  OBVIOUS
<1>b. PICK own \in BOOLEAN : own <=> (op.p = NULL)
  <2> SUFFICES \E own \in BOOLEAN : own <=> (op.p = NULL)
    OBVIOUS
  <2> WITNESS (op.p = NULL) \in BOOLEAN
  <2> QED OBVIOUS
<1>c. PICK tab \in BOOLEAN : tab <=> (t \notin DOMAIN space[s].tables)
  <2> SUFFICES \E tab \in BOOLEAN : tab <=> (t \notin DOMAIN space[s].tables)
    OBVIOUS
  <2> WITNESS (t \notin DOMAIN space[s].tables) \in BOOLEAN
  <2> QED OBVIOUS
<1>d. PICK k : k = (IF own THEN 1 ELSE 0) + (IF tab THEN 1 ELSE 0)
  OBVIOUS
<1>1. /\ s = op.s /\ v = op.v + op.i /\ t = v \div TPAGES
      /\ own <=> (op.p = NULL)
      /\ tab <=> (t \notin DOMAIN space[s].tables)
      /\ k = (IF own THEN 1 ELSE 0) + (IF tab THEN 1 ELSE 0)
      /\ a = IF op.p = NULL THEN page_list[1] ELSE op.p + 2 * op.i
      /\ pl = page_list' /\ sp = space' /\ o = op'
  BY <1>a, <1>b, <1>c, <1>d
<1>2. MapOK(space, reg, op) /\ op.kind = "map" /\ op.i < op.n
  BY OpKind DEF VmInv, MapNext
<1>3. CASE Panic \/ Break
  <2>1. ~Sound'
    BY <1>3 DEF Panic, Break, Sound, Running
  <2> QED BY <1>3, <2>1, StopInv DEF Panic, Break
<1>4. CASE /\ Fit(k)
           /\ page_list' = Taken(k)
           /\ space' = [space EXCEPT
                 ![op.s].map = [w \in DOMAIN space[s].map \cup {v} |->
                                   IF w = v THEN a ELSE space[s].map[w]],
                 ![op.s].tables = [u \in DOMAIN space[s].tables \cup {t} |->
                                   IF u \in DOMAIN space[s].tables THEN space[s].tables[u]
                                   ELSE page_list[k]]]
           /\ op' = [op EXCEPT !.i = op.i + 1]
           /\ UNCHANGED <<reg, panicked, broken, released>>
  <2>1. reg' = reg /\ (Sound' <=> Sound) /\ pl = Rest(page_list, k)
    BY <1>1, <1>4 DEF Sound, Running, Taken, Rest
  <2>2. Types(page_list, space, reg) /\ Regions(space, reg) /\ Lists(space, reg)
    BY DEF VmInv
  <2>3. /\ DOMAIN o = DOMAIN op /\ o.kind = "map" /\ o.s = s /\ o.v = op.v /\ o.n = op.n
        /\ o.i = op.i + 1 /\ o.p = op.p /\ o.r = op.r /\ o.adv = op.adv
    BY <1>1, <1>2, <1>4 DEF MapOK
  <2>4. /\ s \in DOMAIN space /\ op.v \in Nat /\ op.i \in Nat /\ op.n \in Nat \ {0} /\ op.n \in SIZES
        /\ op.v + op.n <= VPAGES /\ op.adv \in BOOLEAN
    <3>1. /\ s \in DOMAIN space /\ op.v \in Nat /\ op.n \in SIZES /\ op.adv \in BOOLEAN
      BY <1>1, <1>2 DEF MapOK
    <3>2. op.n \in Nat \ {0} /\ HEAP \in Nat /\ VPAGES \in Nat /\ HEAP <= VPAGES
      BY <3>1, Constants
    <3>3. op.v + op.n <= HEAP \/ op.v + op.n <= VPAGES
      BY <1>2 DEF MapOK
    <3>4. op.i \in Nat
      BY <1>2, <3>2 DEF MapOK
    <3> QED BY <3>1, <3>2, <3>3, <3>4
  <2>5. v \in Nat /\ v \in VPage /\ t \in VPage /\ op.v <= v /\ v < op.v + op.n
    <3>1. v \in Nat /\ op.v <= v /\ v < op.v + op.n
      BY <1>1, <1>2, <2>4
    <3>2. v \in VPage
      BY <2>4, <3>1, Constants DEF VPage
    <3> QED BY <1>1, <3>1, <3>2, TableOf
  <2>6. ~own => a \in Nat /\ a \notin RAM
    <3> SUFFICES ASSUME ~own PROVE a \in Nat /\ a \notin RAM
      OBVIOUS
    <3>1. op.p \in Dev /\ a = op.p + 2 * op.i
      BY <1>1, <1>2 DEF MapOK
    <3>2. op.i \in 0..op.n - 1
      BY <1>2, <2>4
    <3>3. op.p \in Nat /\ op.p + 2 * op.i \notin RAM
      BY <2>4, <3>1, <3>2, Constants
    <3> QED BY <2>4, <3>1, <3>3
  <2>7. PICK b : b = page_list[k]
    OBVIOUS
  <2>8. k = (IF own THEN 1 ELSE 0) + (IF tab THEN 1 ELSE 0)
    BY <1>1
  <2>9. own => a = page_list[1]
    BY <1>1
  <2>10. /\ Types(pl, space, reg)
         /\ \E X, kd, os, ox : /\ Given(X, kd, os, ox, a, b, own, tab, s, v, t)
                               /\ Good(X, kd, os, ox, pl, space, reg, op, Sound)
    <3>1. NewOK(op)
      BY NewIs
    <3>2. Fit(k) /\ (tab => b = page_list[k])
      BY <1>4, <2>7
    <3> QED BY <2>1, <2>8, <2>9, <3>1, <3>2, MapTake
  <2>11. PICK X, kd, os, ox : /\ Given(X, kd, os, ox, a, b, own, tab, s, v, t)
                              /\ Good(X, kd, os, ox, pl, space, reg, op, Sound)
    BY <2>10
  <2>12. /\ own => a \in RAM /\ kd[a] = "page" /\ os[a] = s /\ ox[a] = v
         /\ tab => b \in RAM /\ kd[b] = "table" /\ os[b] = s /\ ox[b] = t
         /\ \A g \in X : (own /\ g = a) \/ (tab /\ g = b)
    BY <2>11 DEF Given
  <2>13. a \in Nat
    BY <2>6, <2>8, <2>12, Constants
  <2>14. PICK M, T :
            /\ M = [w \in DOMAIN space[s].map \cup {v} |->
                       IF w = v THEN a ELSE space[s].map[w]]
            /\ T = [u \in DOMAIN space[s].tables \cup {t} |->
                       IF u \in DOMAIN space[s].tables THEN space[s].tables[u] ELSE b]
    OBVIOUS
  <2>15. /\ DOMAIN M = DOMAIN space[s].map \cup {v} /\ M[v] = a
         /\ \A w \in DOMAIN space[s].map : w # v => M[w] = space[s].map[w]
         /\ M = [w \in DOMAIN M |-> M[w]]
    BY <2>14
  <2>16. /\ DOMAIN T = DOMAIN space[s].tables \cup {t}
         /\ \A u \in DOMAIN space[s].tables : T[u] = space[s].tables[u]
         /\ tab => T[t] = b
    BY <1>1, <2>14
  <2>17. SpaceOK(space[s])
    BY <2>2, <2>4 DEF Types
  <2>18. /\ DOMAIN sp = DOMAIN space
         /\ \A u \in DOMAIN space : u # s => sp[u] = space[u]
         /\ DOMAIN sp[s] = DOMAIN space[s]
         /\ sp[s].pml4 = space[s].pml4 /\ sp[s].next_free = space[s].next_free
         /\ sp[s].regions = space[s].regions /\ sp[s].map = M /\ sp[s].tables = T
    BY <1>1, <1>4, <2>4, <2>7, <2>14, <2>17 DEF SpaceOK
  <2>19. SpaceOK(sp[s])
    <3>1. DOMAIN M \subseteq VPage /\ DOMAIN T \subseteq VPage
      BY <2>5, <2>15, <2>16, <2>17 DEF SpaceOK
    <3>2. \A w \in DOMAIN M : M[w] \in Nat
      BY <2>13, <2>15, <2>17 DEF SpaceOK
    <3>3. \A u \in DOMAIN T : T[u] \in RAM
      BY <1>1, <2>12, <2>16, <2>17 DEF SpaceOK
    <3> QED BY <2>15, <2>17, <2>18, <3>1, <3>2, <3>3 DEF SpaceOK
  <2>20. Types(pl, sp, reg)
    BY <2>10, <2>18, <2>19 DEF Types
  <2>21. \A u \in DOMAIN space : sp[u].next_free = space[u].next_free /\ sp[u].regions = space[u].regions
    BY <2>18
  <2>22. Regions(sp, reg) /\ Lists(sp, reg)
    BY <2>2, <2>18, <2>21 DEF Regions, Lists
  <2>23. MapOK(sp, reg, o)
    <3>1. o.i \in 0..o.n
      BY <1>2, <2>3, <2>4
    <3>2. o.adv => o.v = sp[o.s].next_free /\ o.v + o.n <= HEAP
      BY <1>1, <1>2, <2>3, <2>4, <2>21 DEF MapOK
    <3> QED BY <1>1, <1>2, <2>3, <2>18, <3>1, <3>2 DEF MapOK
  <2>24. \A q \in DOMAIN reg : reg[q].s = s => ~(reg[q].virt <= v /\ v < reg[q].virt + reg[q].size)
    <3> SUFFICES ASSUME NEW q \in DOMAIN reg, reg[q].s = s
                 PROVE  ~(reg[q].virt <= v /\ v < reg[q].virt + reg[q].size)
      OBVIOUS
    <3>1. Apart(op.v, op.n, reg[q].virt, reg[q].size)
      BY <1>1, <1>2 DEF MapOK
    <3>2. reg[q].virt \in Nat /\ reg[q].size \in Nat
      BY <2>2 DEF Types, RegionOK
    <3> QED BY <2>4, <2>5, <3>1, <3>2 DEF Apart
  <2>25. /\ Tagging(kd) /\ ListTags(kd, pl) /\ SpaceTags(kd, os, ox, space, op)
         /\ RegTags(kd, space, reg, op)
    BY <2>11 DEF Good, Tags
  <2>26. \A u, w : ~Freed(op, u, w) /\ ~Freed(o, u, w)
    BY <1>2, <2>3 DEF Freed
  <2>27. SpaceTags(kd, os, ox, sp, o)
    <3>1. ASSUME NEW u \in DOMAIN space, u # s
          PROVE  /\ kd[u] = "space"
                 /\ kd[sp[u].pml4] = "pml4" /\ os[sp[u].pml4] = u
                 /\ \A x \in DOMAIN sp[u].tables :
                       /\ kd[sp[u].tables[x]] = "table"
                       /\ os[sp[u].tables[x]] = u /\ ox[sp[u].tables[x]] = x
                 /\ \A w \in DOMAIN sp[u].map :
                       sp[u].map[w] \in RAM =>
                           /\ kd[sp[u].map[w]] = "page"
                           /\ os[sp[u].map[w]] = u /\ ox[sp[u].map[w]] = w
      BY <2>18, <2>25, <2>26, <3>1 DEF SpaceTags
    <3>2. /\ kd[s] = "space" /\ kd[sp[s].pml4] = "pml4" /\ os[sp[s].pml4] = s
      BY <2>4, <2>18, <2>25 DEF SpaceTags
    <3>3. ASSUME NEW x \in DOMAIN T
          PROVE  kd[T[x]] = "table" /\ os[T[x]] = s /\ ox[T[x]] = x
      <4>1. CASE x \in DOMAIN space[s].tables
        BY <2>4, <2>16, <2>25, <4>1 DEF SpaceTags
      <4>2. CASE x \notin DOMAIN space[s].tables
        BY <1>1, <2>12, <2>16, <4>2
      <4> QED BY <4>1, <4>2
    <3>4. ASSUME NEW w \in DOMAIN M, M[w] \in RAM
          PROVE  kd[M[w]] = "page" /\ os[M[w]] = s /\ ox[M[w]] = w
      <4>1. CASE w = v
        BY <2>6, <2>8, <2>12, <2>15, <3>4, <4>1
      <4>2. CASE w # v
        BY <2>4, <2>15, <2>25, <2>26, <3>4, <4>2 DEF SpaceTags
      <4> QED BY <4>1, <4>2
    <3> QED BY <2>18, <3>1, <3>2, <3>3, <3>4 DEF SpaceTags
  <2>28. RegTags(kd, sp, reg, o)
    <3>1. ASSUME NEW q \in DOMAIN reg, reg[q].virt \in DOMAIN sp[reg[q].s].map
          PROVE  reg[q].virt \in DOMAIN space[reg[q].s].map
      <4>1. reg[q].s \in DOMAIN space /\ reg[q].virt \in Nat /\ reg[q].size \in Nat \ {0}
        BY <2>2 DEF Regions, Types, RegionOK
      <4>2. CASE reg[q].s = s
        <5>1. reg[q].virt # v
          BY <2>24, <4>1, <4>2
        <5> QED BY <2>15, <2>18, <3>1, <4>2, <5>1
      <4>3. CASE reg[q].s # s
        BY <2>18, <3>1, <4>1, <4>3
      <4> QED BY <4>2, <4>3
    <3> QED BY <1>2, <2>3, <2>25, <3>1 DEF RegTags
  <2>29. ASSUME Sound PROVE v \notin DOMAIN space[s].map
    <3>1. Covered(space, reg, op)
      BY <2>29 DEF VmInv
    <3>2. ~(v < op.v + op.i)
      BY <1>1, <2>4
    <3> QED BY <2>4, <2>24, <3>1, <3>2 DEF Covered
  <2>30. ASSUME Sound PROVE Full({}, kd, os, ox, pl, sp, reg, o)
    <3>1. Full(X, kd, os, ox, pl, space, reg, op)
      BY <2>11, <2>30 DEF Good
    <3>2. ASSUME NEW g \in RAM \ {} PROVE Backed(g, kd, os, ox, pl, sp, reg, o)
      <4>1. CASE g \in X
        <5>1. CASE own /\ g = a
          BY <2>4, <2>12, <2>15, <2>18, <2>26, <5>1 DEF Backed
        <5>2. CASE tab /\ g = b
          BY <2>4, <2>12, <2>16, <2>18, <5>2 DEF Backed
        <5> QED BY <2>12, <4>1, <5>1, <5>2
      <4>2. CASE g \notin X
        <5>1. Backed(g, kd, os, ox, pl, space, reg, op)
          BY <3>1, <4>2 DEF Full
        <5>2. ASSUME kd[g] = "page"
              PROVE  /\ os[g] \in DOMAIN sp /\ ox[g] \in DOMAIN sp[os[g]].map
                     /\ sp[os[g]].map[ox[g]] = g
          <6>1. /\ os[g] \in DOMAIN space /\ ox[g] \in DOMAIN space[os[g]].map
                /\ space[os[g]].map[ox[g]] = g
            BY <5>1, <5>2 DEF Backed
          <6>2. CASE os[g] = s
            BY <2>15, <2>18, <2>29, <2>30, <6>1, <6>2
          <6>3. CASE os[g] # s
            BY <2>18, <6>1, <6>3
          <6> QED BY <6>2, <6>3
        <5>3. ASSUME kd[g] = "table"
              PROVE  /\ os[g] \in DOMAIN sp /\ ox[g] \in DOMAIN sp[os[g]].tables
                     /\ sp[os[g]].tables[ox[g]] = g
          <6>1. /\ os[g] \in DOMAIN space /\ ox[g] \in DOMAIN space[os[g]].tables
                /\ space[os[g]].tables[ox[g]] = g
            BY <5>1, <5>3 DEF Backed
          <6>2. CASE os[g] = s
            BY <2>16, <2>18, <6>1, <6>2
          <6>3. CASE os[g] # s
            BY <2>18, <6>1, <6>3
          <6> QED BY <6>2, <6>3
        <5>4. kd[g] = "pml4" => os[g] \in DOMAIN sp /\ sp[os[g]].pml4 = g
          BY <2>18, <5>1 DEF Backed
        <5>5. kd[g] = "mmio" => g + 1 \in DOMAIN reg \/ (o.kind = "map" /\ o.r = g + 1)
          BY <2>3, <5>1 DEF Backed
        <5> QED BY <2>18, <2>26, <5>1, <5>2, <5>3, <5>4, <5>5 DEF Backed
      <4> QED BY <4>1, <4>2
    <3> QED BY <3>1, <3>2 DEF Full
  <2>31. ASSUME Sound PROVE Covered(sp, reg, o)
    <3>1. Covered(space, reg, op)
      BY <2>31 DEF VmInv
    <3>2. ASSUME NEW u \in DOMAIN sp, NEW w \in DOMAIN sp[u].map
          PROVE  \/ \E r \in DOMAIN reg : reg[r].s = u /\ reg[r].virt <= w /\ w < reg[r].virt + reg[r].size
                 \/ o.kind = "map" /\ o.s = u /\ o.v <= w /\ w < o.v + o.i
      <4>1. CASE u = s /\ w = v
        <5>1. o.v <= v /\ v < o.v + o.i
          BY <1>1, <2>3, <2>4, <2>5
        <5> QED BY <2>3, <4>1, <5>1
      <4>2. CASE ~(u = s /\ w = v)
        <5>1. u \in DOMAIN space /\ w \in DOMAIN space[u].map
          BY <2>15, <2>18, <4>2
        <5>2. w \in Nat
          <6>1. SpaceOK(space[u])
            BY <2>2, <5>1 DEF Types
          <6> QED BY <5>1, <6>1, Constants DEF SpaceOK
        <5>3. op.v <= w /\ w < op.v + op.i => o.v <= w /\ w < o.v + o.i
          BY <2>3, <2>4, <5>2
        <5> QED BY <1>1, <2>3, <3>1, <5>1, <5>3 DEF Covered
      <4> QED BY <4>1, <4>2
    <3> QED BY <3>2 DEF Covered
  <2>32. Tags(kd, os, ox, pl, sp, reg, o) /\ OpOK(sp, reg, o)
    BY <2>23, <2>25, <2>27, <2>28 DEF Tags, OpOK
  <2> QED BY <1>1, <2>1, <2>20, <2>22, <2>30, <2>31, <2>32, Assemble
<1>5. \/ Panic \/ Break
      \/ /\ Fit(k)
         /\ page_list' = Taken(k)
         /\ space' = [space EXCEPT
               ![op.s].map = [w \in DOMAIN space[s].map \cup {v} |->
                                 IF w = v THEN a ELSE space[s].map[w]],
               ![op.s].tables = [u \in DOMAIN space[s].tables \cup {t} |->
                                 IF u \in DOMAIN space[s].tables THEN space[s].tables[u]
                                 ELSE page_list[k]]]
         /\ op' = [op EXCEPT !.i = op.i + 1]
         /\ UNCHANGED <<reg, panicked, broken, released>>
  <2>1. k = IF t \in DOMAIN space[s].tables THEN IF op.p = NULL THEN 1 ELSE 0
            ELSE (IF op.p = NULL THEN 1 ELSE 0) + 1
    BY <1>1
  <2> QED BY <1>1, <2>1, Zenon DEF MapNext
<1> QED BY <1>3, <1>4, <1>5

-----------------------------------------------------------------------------
(* The end of a mapping. *)

\* region_insert: a region enters a list at its head.
LEMMA ChainInsert ==
    ASSUME NEW L, NEW s, NEW h, NEW rg, Chain(L, s, h, rg), NEW r \in Nat, r \notin DOMAIN rg,
           NEW rg2, DOMAIN rg2 = DOMAIN rg \cup {r}, \A q \in DOMAIN rg : rg2[q] = rg[q],
           rg2[r].s = s, rg2[r].next = h
    PROVE  Chain(<<r>> \o L, s, r, rg2)
<1>1. PICK n \in Nat : n = Len(L) /\ L \in Seq(Nat)
  BY DEF Chain
<1>2. /\ \A i, j \in 1..n : L[i] = L[j] => i = j
      /\ \A q : (q \in DOMAIN rg /\ rg[q].s = s) <=> (\E i \in 1..n : L[i] = q)
      /\ h = IF n = 0 THEN NULL ELSE L[1]
      /\ \A i \in 1..n : rg[L[i]].next = IF i = n THEN NULL ELSE L[i + 1]
  BY <1>1 DEF Chain
<1>3. PICK M \in Seq(Nat) : /\ M = <<r>> \o L /\ Len(M) = n + 1 /\ M[1] = r
                            /\ \A j \in 2..n + 1 : M[j] = L[j - 1]
  BY <1>1, FrontIs
<1>4. ASSUME NEW j \in 1..n + 1, j # 1
      PROVE  j - 1 \in 1..n /\ M[j] = L[j - 1] /\ M[j] \in DOMAIN rg /\ rg[M[j]].s = s /\ M[j] # r
  <2>1. j - 1 \in 1..n /\ M[j] = L[j - 1]
    BY <1>3, <1>4
  <2> QED BY <1>2, <2>1
<1>5. ASSUME NEW i \in 1..n + 1, NEW j \in 1..n + 1, M[i] = M[j] PROVE i = j
  <2>1. CASE i # 1 /\ j # 1
    <3>1. L[i - 1] = L[j - 1] /\ i - 1 \in 1..n /\ j - 1 \in 1..n
      BY <1>4, <1>5, <2>1
    <3>2. i - 1 = j - 1
      BY <1>2, <3>1
    <3> QED BY <3>2
  <2>2. CASE i = 1 \/ j = 1
    BY <1>3, <1>4, <1>5, <2>2
  <2> QED BY <2>1, <2>2
<1>6. ASSUME NEW q PROVE (q \in DOMAIN rg2 /\ rg2[q].s = s) <=> (\E j \in 1..n + 1 : M[j] = q)
  <2>1. ASSUME q \in DOMAIN rg2, rg2[q].s = s PROVE \E j \in 1..n + 1 : M[j] = q
    <3>1. CASE q = r
      <4>1. 1 \in 1..n + 1
        BY <1>1
      <4> QED BY <1>3, <3>1, <4>1
    <3>2. CASE q # r
      <4>1. q \in DOMAIN rg /\ rg[q].s = s
        BY <2>1, <3>2
      <4>2. PICK i \in 1..n : L[i] = q
        BY <1>2, <4>1
      <4>3. i + 1 \in 2..n + 1 /\ i + 1 \in 1..n + 1 /\ (i + 1) - 1 = i
        BY <1>1
      <4> QED BY <1>3, <4>2, <4>3
    <3> QED BY <3>1, <3>2
  <2>2. ASSUME NEW j \in 1..n + 1, M[j] = q PROVE q \in DOMAIN rg2 /\ rg2[q].s = s
    BY <1>3, <1>4, <2>2
  <2> QED BY <2>1, <2>2
<1>7. ASSUME NEW j \in 1..n + 1 PROVE rg2[M[j]].next = IF j = n + 1 THEN NULL ELSE M[j + 1]
  <2>1. CASE j = 1
    <3>1. CASE n = 0
      BY <1>2, <1>3, <2>1, <3>1
    <3>2. CASE n # 0
      <4>1. j + 1 \in 2..n + 1 /\ (j + 1) - 1 = 1 /\ j # n + 1
        BY <2>1, <3>2
      <4>2. M[j + 1] = L[1]
        BY <1>3, <4>1
      <4> QED BY <1>2, <1>3, <2>1, <3>2, <4>1, <4>2
    <3> QED BY <3>1, <3>2
  <2>2. CASE j # 1
    <3>1. PICK i \in 1..n : i = j - 1 /\ M[j] = L[i] /\ M[j] \in DOMAIN rg
      BY <1>4, <2>2
    <3>2. rg2[M[j]].next = IF i = n THEN NULL ELSE L[i + 1]
      BY <1>2, <3>1
    <3>3. CASE i = n
      <4>1. j = n + 1
        BY <3>1, <3>3
      <4> QED BY <3>2, <3>3, <4>1
    <3>4. CASE i # n
      <4>1. j # n + 1 /\ j + 1 \in 2..n + 1 /\ (j + 1) - 1 = i + 1
        BY <3>1, <3>4
      <4>2. M[j + 1] = L[i + 1]
        BY <1>3, <4>1
      <4> QED BY <3>2, <3>4, <4>1, <4>2
    <3> QED BY <3>3, <3>4
  <2> QED BY <2>1, <2>2
<1>8. r = IF Len(M) = 0 THEN NULL ELSE M[1]
  BY <1>1, <1>3
<1>9. M \in Seq(Nat) /\ Len(M) = n + 1
  BY <1>3
<1>10. Chain(M, s, r, rg2)
  BY <1>5, <1>6, <1>7, <1>8, <1>9 DEF Chain
<1> QED BY <1>3, <1>10

\* The record r is ready to be inserted: all is in its place, as if between
\* calls, but for r and for the frame around it.
Insertable(r, base, X, kd, os, ox, pl) ==
    /\ r \in Nat /\ r \notin DOMAIN reg /\ Types(pl, space, reg)
    /\ Good(X, kd, os, ox, pl, space, reg, Idle, Sound)
    /\ kd[r] = "record"
    /\ ~Aligned(r) => kd[r - 1] \in {"free", "mmio"}
    /\ base = op.v \/ (base \in Dev /\ ~Aligned(r) /\ kd[r - 1] = "mmio")
    /\ Sound => Aligned(r) \/ kd[r - 1] = "mmio"
    /\ \A g \in X : g = r \/ (g \in Nat /\ g = r - 1 /\ kd[g] = "mmio")

\* region_insert.
LEMMA InsertInv ==
    ASSUME VmInv, op.kind = "map", op.i = op.n, NEW r, NEW base, NEW X, NEW kd, NEW os, NEW ox,
           NEW pl, pl = page_list', Insertable(r, base, X, kd, os, ox, pl),
           region_insert(r, base), op' = Idle, Sound' <=> Sound
    PROVE  VmInv'
<1>1. PICK s, v, n, sp, rg : s = op.s /\ v = op.v /\ n = op.n /\ sp = space' /\ rg = reg'
  OBVIOUS
<1>2. MapOK(space, reg, op)
  BY OpKind DEF VmInv
<1>3. Regions(space, reg) /\ Lists(space, reg) /\ Types(page_list, space, reg)
  BY DEF VmInv
<1>4. /\ s \in DOMAIN space /\ v \in Nat /\ n \in Nat \ {0} /\ op.adv \in BOOLEAN
      /\ op.adv => v = space[s].next_free /\ v + n <= HEAP
      /\ ~op.adv => HEAP <= v /\ v + n <= VPAGES
      /\ \A q \in DOMAIN reg : reg[q].s = s => Apart(v, n, reg[q].virt, reg[q].size)
  BY <1>1, <1>2, Constants DEF MapOK
<1>5. HEAP \in Nat /\ VPAGES \in Nat /\ HEAP <= VPAGES /\ v + n <= VPAGES
  BY <1>4, Constants
<1>6. /\ r \in Nat /\ r \notin DOMAIN reg /\ Types(pl, space, reg)
      /\ Good(X, kd, os, ox, pl, space, reg, Idle, Sound)
      /\ kd[r] = "record"
      /\ ~Aligned(r) => kd[r - 1] \in {"free", "mmio"}
      /\ base = v \/ (base \in Dev /\ ~Aligned(r) /\ kd[r - 1] = "mmio")
      /\ Sound => Aligned(r) \/ kd[r - 1] = "mmio"
      /\ \A g \in X : g = r \/ (g \in Nat /\ g = r - 1 /\ kd[g] = "mmio")
  BY <1>1 DEF Insertable
<1>7. /\ DOMAIN rg = DOMAIN reg \cup {r} /\ \A q \in DOMAIN reg : rg[q] = reg[q]
      /\ DOMAIN rg[r] = {"base", "size", "next", "s", "virt"}
      /\ rg[r].base = base /\ rg[r].size = n /\ rg[r].next = space[s].regions
      /\ rg[r].s = s /\ rg[r].virt = v
  BY <1>1, <1>6 DEF region_insert, Inserted
<1>8. SpaceOK(space[s])
  BY <1>3, <1>4 DEF Types
<1>9. /\ DOMAIN sp = DOMAIN space
      /\ \A t \in DOMAIN space : t # s => sp[t] = space[t]
      /\ DOMAIN sp[s] = DOMAIN space[s]
      /\ sp[s].pml4 = space[s].pml4 /\ sp[s].tables = space[s].tables /\ sp[s].map = space[s].map
      /\ sp[s].regions = r
      /\ sp[s].next_free = IF op.adv THEN space[s].next_free + n ELSE space[s].next_free
  BY <1>1, <1>4, <1>8 DEF region_insert, SpaceOK
<1>10. space[s].next_free \in Nat /\ sp[s].next_free \in 0..HEAP /\ space[s].next_free <= sp[s].next_free
  BY <1>4, <1>5, <1>8, <1>9 DEF SpaceOK
<1>11. Types(pl, sp, rg)
  <2>1. IsFiniteSet(DOMAIN rg) /\ DOMAIN rg \subseteq Nat
    BY <1>6, <1>7, FS_AddElement DEF Types
  <2>2. RegionOK(r, rg[r])
    BY <1>4, <1>5, <1>6, <1>7 DEF RegionOK
  <2>3. \A q \in DOMAIN rg : RegionOK(q, rg[q])
    BY <1>6, <1>7, <2>2 DEF Types
  <2>4. SpaceOK(sp[s])
    BY <1>6, <1>8, <1>9, <1>10 DEF SpaceOK, Link
  <2> QED BY <1>6, <1>9, <2>1, <2>3, <2>4 DEF Types
<1>12. ASSUME NEW q \in DOMAIN rg
       PROVE  /\ rg[q].s \in DOMAIN sp
              /\ rg[q].virt + rg[q].size <= sp[rg[q].s].next_free \/ HEAP <= rg[q].virt
  <2>1. CASE q = r
    <3>1. v + n <= sp[s].next_free \/ HEAP <= v
      BY <1>4, <1>9
    <3> QED BY <1>4, <1>7, <1>9, <2>1, <3>1
  <2>2. CASE q # r
    <3>1. /\ rg[q] = reg[q] /\ reg[q].s \in DOMAIN space
          /\ reg[q].virt + reg[q].size <= space[reg[q].s].next_free \/ HEAP <= reg[q].virt
          /\ reg[q].virt \in Nat /\ reg[q].size \in Nat
      BY <1>3, <1>7, <2>2 DEF Regions, Types, RegionOK
    <3>2. CASE reg[q].s = s
      <4>1. reg[q].virt + reg[q].size <= sp[s].next_free \/ HEAP <= reg[q].virt
        BY <1>5, <1>10, <3>1, <3>2
      <4> QED BY <1>9, <3>1, <3>2, <4>1
    <3>3. CASE reg[q].s # s
      BY <1>9, <3>1, <3>3
    <3> QED BY <3>2, <3>3
  <2> QED BY <2>1, <2>2
<1>13. ASSUME NEW q \in DOMAIN rg, NEW u \in DOMAIN rg, q # u, rg[q].s = rg[u].s
       PROVE  Apart(rg[q].virt, rg[q].size, rg[u].virt, rg[u].size)
  <2>1. CASE q # r /\ u # r
    BY <1>3, <1>7, <1>13, <2>1 DEF Regions
  <2>2. CASE q = r
    BY <1>4, <1>7, <1>13, <2>2
  <2>3. CASE u = r
    <3>1. Apart(v, n, reg[q].virt, reg[q].size) /\ rg[q] = reg[q]
      BY <1>4, <1>7, <1>13, <2>3
    <3> QED BY <1>7, <2>3, <3>1 DEF Apart
  <2> QED BY <2>1, <2>2, <2>3
<1>14. ASSUME NEW t \in DOMAIN sp PROVE \E L : Chain(L, t, sp[t].regions, rg)
  <2>1. PICK L : Chain(L, t, space[t].regions, reg)
    BY <1>3, <1>9 DEF Lists
  <2>2. CASE t # s
    <3>1. Chain(L, t, space[t].regions, rg)
      BY <1>6, <1>7, <2>1, <2>2, ChainKeeps
    <3> QED BY <1>9, <2>2, <3>1
  <2>3. CASE t = s
    <3>1. Chain(<<r>> \o L, s, r, rg)
      BY <1>6, <1>7, <2>1, <2>3, ChainInsert
    <3> QED BY <1>9, <2>3, <3>1
  <2> QED BY <2>2, <2>3
<1>15. ASSUME Sound PROVE Covered(sp, rg, Idle)
  <2>1. Covered(space, reg, op)
    BY <1>15 DEF VmInv
  <2>2. ASSUME NEW t \in DOMAIN sp, NEW w \in DOMAIN sp[t].map
        PROVE  \E q \in DOMAIN rg : rg[q].s = t /\ rg[q].virt <= w /\ w < rg[q].virt + rg[q].size
    <3>1. t \in DOMAIN space /\ w \in DOMAIN space[t].map
      BY <1>9
    <3>2. CASE \E q \in DOMAIN reg : reg[q].s = t /\ reg[q].virt <= w /\ w < reg[q].virt + reg[q].size
      BY <1>7, <3>2
    <3>3. CASE t = s /\ v <= w /\ w < v + n
      BY <1>7, <3>3
    <3> QED BY <1>1, <2>1, <3>1, <3>2, <3>3 DEF Covered
  <2> QED BY <2>2 DEF Covered
<1>16. /\ Tagging(kd) /\ ListTags(kd, pl) /\ SpaceTags(kd, os, ox, space, Idle)
       /\ RegTags(kd, space, reg, Idle)
  BY <1>6 DEF Good, Tags
<1>17. Same(space, sp)
  BY <1>9 DEF Same
<1>18. SpaceTags(kd, os, ox, sp, Idle)
  BY <1>16, <1>17, SameTags
<1>19. RegTags(kd, sp, rg, Idle)
  <2>1. ASSUME NEW q \in DOMAIN rg
        PROVE  /\ kd[q] = "record"
               /\ ~Aligned(q) => kd[q - 1] \in {"free", "mmio"}
               /\ rg[q].base # rg[q].virt /\ rg[q].virt \in DOMAIN sp[rg[q].s].map =>
                     kd[q - 1] = "mmio"
    <3>1. CASE q = r
      BY <1>6, <1>7, <3>1
    <3>2. CASE q # r
      <4>1. q \in DOMAIN reg /\ rg[q] = reg[q] /\ sp[reg[q].s].map = space[reg[q].s].map
        BY <1>3, <1>7, <1>17, <3>2 DEF Regions, Same
      <4> QED BY <1>16, <4>1 DEF RegTags
    <3> QED BY <3>1, <3>2
  <2> QED BY <2>1 DEF RegTags, Idle
<1>20. ASSUME Sound PROVE Full({}, kd, os, ox, pl, sp, rg, Idle)
  <2>1. Full(X, kd, os, ox, pl, space, reg, Idle)
    BY <1>6, <1>20 DEF Good
  <2>2. \A q \in DOMAIN rg : ~Aligned(q) => kd[q - 1] = "mmio"
    BY <1>6, <1>7, <1>20, <2>1 DEF Full
  <2>3. ASSUME NEW g \in RAM \ {} PROVE Backed(g, kd, os, ox, pl, sp, rg, Idle)
    <3>1. CASE g \in X
      <4>1. CASE g = r
        BY <1>6, <1>7, <4>1 DEF Backed
      <4>2. CASE g \in Nat /\ g = r - 1 /\ kd[g] = "mmio"
        <5>1. g + 1 = r
          BY <1>6, <4>2
        <5> QED BY <1>7, <4>2, <5>1 DEF Backed
      <4> QED BY <1>6, <3>1, <4>1, <4>2
    <3>2. CASE g \notin X
      <4>1. Backed(g, kd, os, ox, pl, space, reg, Idle)
        BY <2>1, <3>2 DEF Full
      <4> QED BY <1>7, <1>17, <4>1 DEF Backed, Same, Idle
    <3> QED BY <3>1, <3>2
  <2> QED BY <2>1, <2>2, <2>3 DEF Full
<1>21. /\ Tags(kd, os, ox, pl, sp, rg, Idle) /\ OpOK(sp, rg, Idle)
       /\ Regions(sp, rg) /\ Lists(sp, rg)
  BY <1>12, <1>13, <1>14, <1>16, <1>18, <1>19 DEF Tags, OpOK, Regions, Lists
<1> QED BY <1>1, <1>11, <1>15, <1>20, <1>21, Assemble

\* All pages are mapped: the region enters the list.
LEMMA MapEndInv ==
    ASSUME VmInv, MapEnd
    PROVE  VmInv'
<1>1. MapOK(space, reg, op) /\ op.kind = "map" /\ op.i = op.n
  BY OpKind DEF VmInv, MapEnd
<1>2. Regions(space, reg) /\ Lists(space, reg) /\ Types(page_list, space, reg) /\ page_list \in Seq(Nat)
  BY DEF VmInv, Types
<1>3. PICK kd, os, ox : Good({}, kd, os, ox, page_list, space, reg, op, Sound)
  BY DEF VmInv, Tagged
<1>4. /\ Tagging(kd) /\ ListTags(kd, page_list) /\ SpaceTags(kd, os, ox, space, op)
      /\ RegTags(kd, space, reg, op)
  BY <1>3 DEF Good, Tags
<1>5. PICK n \in Nat : n = Len(page_list)
  BY <1>2
<1>6. (\A t, w : ~Freed(op, t, w)) /\ (\A t, w : ~Freed(Idle, t, w)) /\ Idle.kind # "map"
  BY <1>1 DEF Freed, Idle
<1>7. CASE op.r = NULL /\ (page_list # <<>> => Listed(page_list[1])) /\ Break
  <2>1. ~Sound'
    BY <1>7 DEF Break, Sound, Running
  <2> QED BY <1>7, <2>1, StopInv DEF Break
<1>8. CASE /\ op.r # NULL
           /\ region_insert(op.r, op.p)
           /\ op' = Idle
           /\ UNCHANGED <<page_list, panicked, broken, released>>
  <2>1. page_list' = page_list /\ (Sound' <=> Sound)
    BY <1>8 DEF Sound, Running
  <2>2. PICK r \in Nat : r = op.r /\ ~Aligned(r) /\ op.p \in Dev /\ kd[r] = "new" /\ kd[r - 1] = "mmio"
    BY <1>1, <1>4, <1>8 DEF MapOK, RegTags
  <2>3. r - 1 \in Nat /\ Aligned(r - 1) /\ (r - 1) + 1 = r /\ r - 1 # r
    BY <2>2, Parity
  <2>4. PICK kd2 : kd2 = Put(kd, r, "record") /\ kd2[r] = "record" /\ Moved(r, kd, kd2)
    <3>1. Put(kd, r, "record")[r] = "record" /\ Moved(r, kd, Put(kd, r, "record"))
      BY DEF Put, Moved
    <3> QED BY <3>1
  <2>5. kd2[r - 1] = "mmio"
    BY <2>2, <2>3, <2>4 DEF Moved
  <2>6. Tagging(kd2)
    BY <1>4, <2>2, <2>4, PutTag DEF Kinds
  <2>7. ListTags(kd2, page_list)
    <3>1. ASSUME NEW k \in 1..n
          PROVE  /\ kd2[page_list[k]] = kd[page_list[k]]
                 /\ ~Aligned(page_list[k]) => kd2[page_list[k] - 1] = kd[page_list[k] - 1]
      <4>1. page_list[k] \in Nat /\ kd[page_list[k]] = "free"
        BY <1>2, <1>4, <1>5 DEF ListTags
      <4>2. ~Aligned(page_list[k]) => page_list[k] - 1 \in Nat /\ page_list[k] - 1 # r
        BY <2>2, <4>1, Parity
      <4> QED BY <2>2, <2>4, <4>1, <4>2 DEF Moved
    <3> QED BY <1>4, <1>5, <3>1 DEF ListTags
  <2>8. SpaceTags(kd2, os, ox, space, Idle)
    <3>1. Moved(r, os, os) /\ Moved(r, ox, ox) /\ \A t, w : Freed(op, t, w) => Freed(Idle, t, w)
      BY <1>6 DEF Moved
    <3> QED BY <1>2, <1>4, <2>2, <2>4, <3>1, SpacesStay DEF Types
  <2>9. ASSUME NEW q \in DOMAIN reg
        PROVE  /\ q \in Nat /\ q # r /\ kd2[q] = kd[q]
               /\ ~Aligned(q) => kd2[q - 1] = kd[q - 1]
    <3>1. q \in Nat /\ q # r
      BY <1>2, <1>4, <2>2 DEF Types, RegTags
    <3>2. ~Aligned(q) => q - 1 \in Nat /\ q - 1 # r
      BY <2>2, <3>1, Parity
    <3> QED BY <2>4, <3>1, <3>2 DEF Moved
  <2>10. RegTags(kd2, space, reg, Idle)
    <3>1. \A q \in DOMAIN reg : reg[q].base # reg[q].virt => ~Aligned(q)
      BY <1>2 DEF Types, RegionOK
    <3> QED BY <1>4, <1>6, <2>9, <3>1 DEF RegTags
  <2>11. ASSUME Sound PROVE Full({r - 1}, kd2, os, ox, page_list, space, reg, Idle)
    <3>1. Full({}, kd, os, ox, page_list, space, reg, op)
      BY <1>3, <2>11 DEF Good
    <3>2. ASSUME NEW g \in RAM \ {r - 1} PROVE Backed(g, kd2, os, ox, page_list, space, reg, Idle)
      <4>1. Backed(g, kd, os, ox, page_list, space, reg, op)
        BY <3>1 DEF Full
      <4>2. g \in Nat /\ g # r /\ g + 1 # r
        BY <2>2, <2>3, Constants
      <4>3. kd2[g] = kd[g]
        BY <2>4, <4>2 DEF Moved
      <4>4. kd[g] = "mmio" => g + 1 \in DOMAIN reg
        BY <2>2, <4>1, <4>2 DEF Backed
      <4> QED BY <1>6, <4>1, <4>3, <4>4 DEF Backed
    <3> QED BY <2>9, <3>1, <3>2 DEF Full
  <2>12. Good({r - 1}, kd2, os, ox, page_list, space, reg, Idle, Sound)
    BY <2>6, <2>7, <2>8, <2>10, <2>11 DEF Good, Tags
  <2>13. r \notin DOMAIN reg
    BY <2>9
  <2>14. Insertable(r, op.p, {r - 1}, kd2, os, ox, page_list)
    BY <1>2, <2>2, <2>3, <2>4, <2>5, <2>12, <2>13 DEF Insertable
  <2> QED BY <1>1, <1>8, <2>1, <2>2, <2>14, InsertInv
<1>9. CASE /\ op.r = NULL /\ page_list # <<>> /\ ~Listed(page_list[1])
           /\ region_insert(page_list[1], op.v)
           /\ page_list' = Taken(1)
           /\ op' = Idle
           /\ UNCHANGED <<panicked, broken, released>>
  <2>1. PICK f, q : f = page_list[1] /\ q = Rest(page_list, 1) /\ q = page_list'
    BY <1>9 DEF Taken, Rest
  <2>2. Sound' <=> Sound
    BY <1>9 DEF Sound, Running
  <2>3. n >= 1 /\ 1 \in 1..n /\ f \in Nat
    <3>1. n # 0
      BY <1>2, <1>5, <1>9, EmptySeq
    <3> QED BY <1>2, <1>5, <2>1, <3>1
  <2>4. Ready({}, kd, os, ox, page_list, space, reg, op, Sound, f)
    BY <1>2, <1>3, <1>5, <1>9, <2>1, <2>3, NewIs DEF Ready, Listed
  <2>5. PICK kd1, os1, ox1 : kd1 = Put(kd, f, "record") /\ os1 = Put(os, f, 0) /\ ox1 = Put(ox, f, 0)
    OBVIOUS
  <2>6. /\ kd[f] = "free" /\ Types(q, space, reg)
        /\ Good({} \cup {f}, kd1, os1, ox1, q, space, reg, op, Sound)
    <3>1. PICK x \in Kinds : x = "record"
      BY DEF Kinds
    <3>2. /\ kd[f] = "free" /\ Types(Rest(page_list, 1), space, reg)
          /\ Good({} \cup {f}, Put(kd, f, x), Put(os, f, 0), Put(ox, f, 0), Rest(page_list, 1),
                  space, reg, op, Sound)
      BY <2>4, <3>1, Take
    <3> QED BY <2>1, <2>5, <3>1, <3>2
  <2>7. kd1[f] = "record" /\ \A g \in Nat : g # f => kd1[g] = kd[g]
    BY <2>3, <2>5 DEF Put
  <2>8. f \notin DOMAIN reg
    BY <1>4, <2>6 DEF RegTags
  <2>9. ~Aligned(f) => kd1[f - 1] \in {"free", "mmio"}
    <3>1. ASSUME ~Aligned(f) PROVE kd[f - 1] \in {"free", "mmio"} /\ f - 1 \in Nat /\ f - 1 # f
      BY <1>4, <1>5, <2>1, <2>3, <3>1, Parity DEF ListTags
    <3> QED BY <2>7, <3>1
  <2>10. Sound => Aligned(f)
    BY <1>3, <1>5, <2>1, <2>3 DEF Good, Full
  <2>11. /\ Tagging(kd1) /\ ListTags(kd1, q) /\ SpaceTags(kd1, os1, ox1, space, op)
         /\ RegTags(kd1, space, reg, op)
    BY <2>6 DEF Good, Tags
  <2>12. SpaceTags(kd1, os1, ox1, space, Idle) /\ RegTags(kd1, space, reg, Idle)
    BY <1>6, <2>11 DEF SpaceTags, RegTags
  <2>13. ASSUME Sound PROVE Full({} \cup {f}, kd1, os1, ox1, q, space, reg, Idle)
    <3>1. Full({} \cup {f}, kd1, os1, ox1, q, space, reg, op)
      BY <2>6, <2>13 DEF Good
    <3>2. ASSUME NEW g \in RAM \ ({} \cup {f}) PROVE Backed(g, kd1, os1, ox1, q, space, reg, Idle)
      <4>1. Backed(g, kd1, os1, ox1, q, space, reg, op)
        BY <3>1 DEF Full
      <4>2. g + 1 # NULL
        BY Constants
      <4> QED BY <1>6, <1>9, <4>1, <4>2 DEF Backed
    <3> QED BY <3>1, <3>2 DEF Full
  <2>14. Good({} \cup {f}, kd1, os1, ox1, q, space, reg, Idle, Sound)
    BY <2>11, <2>12, <2>13 DEF Good, Tags
  <2>15. Insertable(f, op.v, {} \cup {f}, kd1, os1, ox1, q)
    BY <2>3, <2>6, <2>7, <2>8, <2>9, <2>10, <2>14 DEF Insertable
  <2> QED BY <1>1, <1>9, <2>1, <2>2, <2>15, InsertInv
<1> QED BY <1>7, <1>8, <1>9 DEF MapEnd

-----------------------------------------------------------------------------
(* The invariant. *)

\* Every step keeps it.
LEMMA NextInv ==
    ASSUME VmInv, [Next]_vars
    PROVE  VmInv'
<1>1. CASE KernelStep
  BY <1>1, MapNextInv, MapEndInv, DestroyNextInv, FreeNextInv, FreeUnmapInv, WalkNextInv,
     WalkFoundInv, WalkEndInv DEF KernelStep
<1>2. CASE vm_space_create
  BY <1>2, CreateInv
<1>3. ASSUME NEW s \in Live, vm_space_destroy(s) PROVE VmInv'
  BY <1>3, DestroyInv DEF Live
<1>4. ASSUME NEW s \in Live, NEW n \in SIZES, vm_alloc(s, n) PROVE VmInv'
  <2>1. NULL \in Dev \cup {NULL}
    OBVIOUS
  <2> QED BY <1>4, <2>1, HeapInv DEF vm_alloc
<1>5. ASSUME NEW s \in Live, NEW n \in SIZES, NEW v \in VPage, vm_alloc_at(s, v, n)
      PROVE  VmInv'
  <2>1. NULL \in Dev \cup {NULL}
    OBVIOUS
  <2> QED BY <1>5, <2>1, AtInv DEF vm_alloc_at
<1>6. ASSUME NEW s \in Live, NEW n \in SIZES, NEW p \in Dev, vm_map(s, p, n) PROVE VmInv'
  <2>1. p \in Dev \cup {NULL}
    OBVIOUS
  <2> QED BY <1>6, <2>1, HeapInv DEF vm_map
<1>7. ASSUME NEW s \in Live, NEW n \in SIZES, NEW p \in Dev, NEW v \in VPage,
             vm_map_at(s, v, p, n)
      PROVE  VmInv'
  <2>1. p \in Dev \cup {NULL}
    OBVIOUS
  <2> QED BY <1>7, <2>1, AtInv DEF vm_map_at
<1>8. ASSUME NEW s \in Live, NEW n \in SIZES, NEW p \in Dev, mmio_init(s, p, n) PROVE VmInv'
  BY <1>8, MmioInitInv
<1>9. ASSUME NEW r \in DOMAIN reg, mmio_destroy(r) PROVE VmInv'
  BY <1>9, MmioDestroyInv
<1>10. ASSUME NEW r \in DOMAIN reg, NEW k \in 0..reg[r].size - 1, vm_free(r, k) PROVE VmInv'
  BY <1>10, FreeInv
<1>11. CASE UNCHANGED vars
  <2>1. Sound' => Sound
    BY <1>11 DEF vars, Sound, Running
  <2> QED BY <1>11, <2>1, StopInv DEF vars
<1> QED BY <1>1, <1>2, <1>3, <1>4, <1>5, <1>6, <1>7, <1>8, <1>9, <1>10, <1>11 DEF Next

\* So it holds in every reachable state.
LEMMA Inductive == Spec => []VmInv
  BY InitInv, NextInv, PTL DEF Spec

-----------------------------------------------------------------------------
(* Every frame is in one place. *)

\* One count for each kind of place.
Parts(f, kd) ==
    /\ Cardinality({k \in DOMAIN page_list : page_list[k] = f}) = IF kd[f] = "free" THEN 1 ELSE 0
    /\ Cardinality({x \in (DOMAIN space) \X VPage :
          /\ x[2] \in DOMAIN space[x[1]].map /\ space[x[1]].map[x[2]] = f
          /\ ~(op.kind = "free" /\ op.s = x[1] /\ op.v <= x[2] /\ x[2] < op.v + op.i)})
       = IF kd[f] = "page" THEN 1 ELSE 0
    /\ Cardinality({x \in (DOMAIN space) \X VPage :
          x[2] \in DOMAIN space[x[1]].tables /\ space[x[1]].tables[x[2]] = f})
       = IF kd[f] = "table" THEN 1 ELSE 0
    /\ Cardinality({s \in DOMAIN space : s = f}) = IF kd[f] = "space" THEN 1 ELSE 0
    /\ Cardinality({s \in DOMAIN space : space[s].pml4 = f}) = IF kd[f] = "pml4" THEN 1 ELSE 0
    /\ Cardinality(DOMAIN reg \cap {f, f + 1})
       = IF kd[f] = "record" \/ (kd[f] = "mmio" /\ f + 1 \in DOMAIN reg) THEN 1 ELSE 0
    /\ (IF op.kind = "map" /\ op.r = f + 1 THEN 1 ELSE 0)
       = IF kd[f] = "mmio" /\ f + 1 \notin DOMAIN reg THEN 1 ELSE 0

\* The tags say how often each kind of place holds f.
LEMMA Counts ==
    ASSUME Types(page_list, space, reg), NEW kd, NEW os, NEW ox,
           Tags(kd, os, ox, page_list, space, reg, op),
           Full({}, kd, os, ox, page_list, space, reg, op), NEW f \in RAM
    PROVE  Parts(f, kd) /\ kd[f] \in Kinds \ {"none", "new"}
<1>0. /\ f \in Nat /\ Aligned(f) /\ f + 1 \in Nat /\ ~Aligned(f + 1) /\ f + 1 # NULL
      /\ f + 1 # f /\ (f + 1) - 1 = f
  BY Constants, Parity
<1>1. /\ Backed(f, kd, os, ox, page_list, space, reg, op)
      /\ kd[f] \in Kinds
  BY <1>0 DEF Full, Tags, Tagging
<1>2. PICK n \in Nat : n = Len(page_list) /\ DOMAIN page_list = 1..n
  BY DEF Types
<1>3. Cardinality({k \in DOMAIN page_list : page_list[k] = f}) = IF kd[f] = "free" THEN 1 ELSE 0
  <2>1. CASE kd[f] = "free"
    <3>1. PICK k \in 1..n : page_list[k] = f
      BY <1>1, <1>2, <2>1 DEF Backed
    <3>2. {j \in DOMAIN page_list : page_list[j] = f} = {k}
      BY <1>2, <3>1 DEF Tags, ListTags
    <3> QED BY <2>1, <3>2, FS_Singleton
  <2>2. CASE kd[f] # "free"
    <3>1. {j \in DOMAIN page_list : page_list[j] = f} = {}
      BY <1>2, <2>2 DEF Tags, ListTags
    <3> QED BY <2>2, <3>1, FS_EmptySet
  <2> QED BY <2>1, <2>2
<1>4. Cardinality({x \in (DOMAIN space) \X VPage :
          /\ x[2] \in DOMAIN space[x[1]].map /\ space[x[1]].map[x[2]] = f
          /\ ~(op.kind = "free" /\ op.s = x[1] /\ op.v <= x[2] /\ x[2] < op.v + op.i)})
       = IF kd[f] = "page" THEN 1 ELSE 0
  <2> DEFINE S == {x \in (DOMAIN space) \X VPage :
          /\ x[2] \in DOMAIN space[x[1]].map /\ space[x[1]].map[x[2]] = f
          /\ ~(op.kind = "free" /\ op.s = x[1] /\ op.v <= x[2] /\ x[2] < op.v + op.i)}
  <2>1. ASSUME NEW x \in S
        PROVE  kd[f] = "page" /\ x = <<os[f], ox[f]>>
    <3>1. /\ x[1] \in DOMAIN space /\ x[2] \in DOMAIN space[x[1]].map
          /\ x = <<x[1], x[2]>> /\ space[x[1]].map[x[2]] = f
          /\ ~Freed(op, x[1], x[2])
      BY DEF Freed
    <3>2. kd[f] = "page" /\ os[f] = x[1] /\ ox[f] = x[2]
      BY <3>1 DEF Tags, SpaceTags
    <3> QED BY <3>1, <3>2
  <2>2. CASE kd[f] = "page"
    <3>1. /\ os[f] \in DOMAIN space /\ ox[f] \in DOMAIN space[os[f]].map
          /\ space[os[f]].map[ox[f]] = f /\ ~Freed(op, os[f], ox[f])
      BY <1>1, <2>2 DEF Backed
    <3>2. ox[f] \in VPage /\ ox[f] \in Nat
      BY <3>1, Constants DEF Types, SpaceOK
    <3>3. <<os[f], ox[f]>> \in S
      BY <3>1, <3>2 DEF Freed
    <3>4. S = {<<os[f], ox[f]>>}
      BY <2>1, <3>3
    <3> QED BY <2>2, <3>4, FS_Singleton
  <2>3. CASE kd[f] # "page"
    <3>1. S = {}
      BY <2>1, <2>3
    <3> QED BY <2>3, <3>1, FS_EmptySet
  <2> QED BY <2>2, <2>3
<1>5. Cardinality({x \in (DOMAIN space) \X VPage :
          x[2] \in DOMAIN space[x[1]].tables /\ space[x[1]].tables[x[2]] = f})
       = IF kd[f] = "table" THEN 1 ELSE 0
  <2> DEFINE S == {x \in (DOMAIN space) \X VPage :
          x[2] \in DOMAIN space[x[1]].tables /\ space[x[1]].tables[x[2]] = f}
  <2>1. ASSUME NEW x \in S
        PROVE  kd[f] = "table" /\ x = <<os[f], ox[f]>>
    <3>1. /\ x[1] \in DOMAIN space /\ x[2] \in DOMAIN space[x[1]].tables
          /\ x = <<x[1], x[2]>> /\ space[x[1]].tables[x[2]] = f
      OBVIOUS
    <3>2. kd[f] = "table" /\ os[f] = x[1] /\ ox[f] = x[2]
      BY <3>1 DEF Tags, SpaceTags
    <3> QED BY <3>1, <3>2
  <2>2. CASE kd[f] = "table"
    <3>1. /\ os[f] \in DOMAIN space /\ ox[f] \in DOMAIN space[os[f]].tables
          /\ space[os[f]].tables[ox[f]] = f
      BY <1>1, <2>2 DEF Backed
    <3>2. ox[f] \in VPage
      BY <3>1 DEF Types, SpaceOK
    <3>3. <<os[f], ox[f]>> \in S
      BY <3>1, <3>2
    <3>4. S = {<<os[f], ox[f]>>}
      BY <2>1, <3>3
    <3> QED BY <2>2, <3>4, FS_Singleton
  <2>3. CASE kd[f] # "table"
    <3>1. S = {}
      BY <2>1, <2>3
    <3> QED BY <2>3, <3>1, FS_EmptySet
  <2> QED BY <2>2, <2>3
<1>6. Cardinality({s \in DOMAIN space : s = f}) = IF kd[f] = "space" THEN 1 ELSE 0
  <2>1. {s \in DOMAIN space : s = f} = IF kd[f] = "space" THEN {f} ELSE {}
    BY <1>1 DEF Backed, Tags, SpaceTags
  <2> QED BY <2>1, FS_EmptySet, FS_Singleton
<1>7. Cardinality({s \in DOMAIN space : space[s].pml4 = f}) = IF kd[f] = "pml4" THEN 1 ELSE 0
  <2>1. {s \in DOMAIN space : space[s].pml4 = f} = IF kd[f] = "pml4" THEN {os[f]} ELSE {}
    BY <1>1 DEF Backed, Tags, SpaceTags
  <2> QED BY <2>1, FS_EmptySet, FS_Singleton
<1>8. Cardinality(DOMAIN reg \cap {f, f + 1})
       = IF kd[f] = "record" \/ (kd[f] = "mmio" /\ f + 1 \in DOMAIN reg) THEN 1 ELSE 0
  <2>1. f \in DOMAIN reg <=> kd[f] = "record"
    BY <1>1 DEF Backed, Tags, RegTags
  <2>2. f + 1 \in DOMAIN reg => kd[f] = "mmio"
    BY <1>0 DEF Full
  <2>3. CASE kd[f] = "record"
    <3>1. DOMAIN reg \cap {f, f + 1} = {f}
      BY <2>1, <2>2, <2>3
    <3> QED BY <2>3, <3>1, FS_Singleton
  <2>4. CASE kd[f] = "mmio" /\ f + 1 \in DOMAIN reg
    <3>1. DOMAIN reg \cap {f, f + 1} = {f + 1}
      BY <2>1, <2>4
    <3> QED BY <2>4, <3>1, FS_Singleton
  <2>5. CASE kd[f] # "record" /\ ~(kd[f] = "mmio" /\ f + 1 \in DOMAIN reg)
    <3>1. DOMAIN reg \cap {f, f + 1} = {}
      BY <2>1, <2>2, <2>5
    <3> QED BY <2>5, <3>1, FS_EmptySet
  <2> QED BY <2>3, <2>4, <2>5
<1>9. (op.kind = "map" /\ op.r = f + 1) <=> (kd[f] = "mmio" /\ f + 1 \notin DOMAIN reg)
  <2>1. ASSUME op.kind = "map", op.r = f + 1 PROVE kd[f] = "mmio" /\ f + 1 \notin DOMAIN reg
    BY <1>0, <2>1 DEF Tags, RegTags
  <2> QED BY <1>1, <2>1 DEF Backed
<1>10. kd[f] \notin {"none", "new"}
  BY <1>1 DEF Backed
<1> QED BY <1>1, <1>3, <1>4, <1>5, <1>6, <1>7, <1>8, <1>9, <1>10 DEF Parts

\* One of the counts is 1, and the others are 0.
LEMMA OnceInv == VmInv => FramesOnce
<1> SUFFICES ASSUME VmInv, Sound, NEW f \in RAM PROVE Uses(f) = 1
  BY DEF FramesOnce
<1>1. PICK kd, os, ox : Good({}, kd, os, ox, page_list, space, reg, op, Sound)
  BY DEF VmInv, Tagged
<1>2. Parts(f, kd) /\ kd[f] \in Kinds \ {"none", "new"}
  BY <1>1, Counts DEF VmInv, Good
<1> QED BY <1>2 DEF Parts, Uses, Kinds

-----------------------------------------------------------------------------
(* The regions account for what is mapped. *)

\* A set of numbers has a least one.
LEMMA LeastNat ==
    ASSUME NEW S \in SUBSET Nat, S # {}
    PROVE  \E x \in S : \A y \in S : x <= y
<1>1. IsWellFoundedOn(OpToRel(<, Nat), Nat)
  BY NatLessThanWellFounded
<1>2. PICK x \in S : \A y \in S : ~(<<y, x>> \in OpToRel(<, Nat))
  BY <1>1, WFMin
<1>3. \A y \in S : ~(y < x)
  BY <1>2 DEF OpToRel
<1> QED BY <1>3

\* A list is no longer than there are records.
LEMMA ChainLen ==
    ASSUME NEW L, NEW s, NEW h, Chain(L, s, h, reg), IsFiniteSet(DOMAIN reg)
    PROVE  Len(L) <= Cardinality(DOMAIN reg)
<1>1. PICK n \in Nat : n = Len(L)
  BY DEF Chain
<1>2. Cardinality(DOMAIN reg) \in Nat
  BY FS_CardinalityType
<1>3. IsFiniteSet(1..n) /\ Cardinality(1..n) = n
  BY FS_Interval, 1 \in Int, n \in Int
<1>4. PICK g : g = [k \in 1..n |-> L[k]]
  OBVIOUS
<1>5. g \in [1..n -> DOMAIN reg] /\ \A j, k \in 1..n : g[j] = g[k] => j = k
  BY <1>1, <1>4 DEF Chain
<1>6. ASSUME Cardinality(DOMAIN reg) < n PROVE FALSE
  <2>1. Cardinality(DOMAIN reg) < Cardinality(1..n)
    BY <1>3, <1>6
  <2>2. \E x, y \in 1..n : x # y /\ g[x] = g[y]
    BY <1>3, <1>5, <2>1, FS_PigeonHole
  <2> QED BY <1>5, <2>2
<1> QED BY <1>1, <1>2, <1>6

\* OnList follows it from end to end.
LEMMA OnListIs ==
    ASSUME NEW L, NEW s, Chain(L, s, space[s].regions, reg), IsFiniteSet(DOMAIN reg)
    PROVE  OnList(s) = {r \in DOMAIN reg : reg[r].s = s}
<1>1. PICK n \in Nat : n = Len(L)
  BY DEF Chain
<1>2. PICK N \in Nat : N = Cardinality(DOMAIN reg) /\ n <= N
  BY <1>1, FS_CardinalityType, ChainLen
<1>3. PICK P : P = [k \in 0..N |-> IF k < n THEN L[k + 1] ELSE NULL]
  OBVIOUS
<1>4. NULL \notin Nat /\ \A k \in 1..n : L[k] \in Nat
  BY <1>1, Constants DEF Chain
<1>5. P[0] = space[s].regions
  BY <1>1, <1>3 DEF Chain
<1>6. ASSUME NEW k \in 1..N PROVE P[k] = IF P[k - 1] = NULL THEN NULL ELSE reg[P[k - 1]].next
  <2>1. k - 1 \in 0..N /\ (k - 1) + 1 = k /\ k \in 0..N
    OBVIOUS
  <2>2. CASE k - 1 < n
    <3>1. P[k - 1] = L[k] /\ k \in 1..n
      BY <1>3, <2>1, <2>2
    <3>2. reg[L[k]].next = IF k = n THEN NULL ELSE L[k + 1]
      BY <1>1, <3>1 DEF Chain
    <3>3. P[k] = IF k = n THEN NULL ELSE L[k + 1]
      BY <1>3, <2>1, <3>1
    <3> QED BY <1>4, <3>1, <3>2, <3>3
  <2>3. CASE ~(k - 1 < n)
    BY <1>3, <2>1, <2>3
  <2> QED BY <2>2, <2>3
<1> DEFINE Follows(g) == g = [k \in 0..N |-> IF k = 0 THEN space[s].regions
                                  ELSE IF g[k - 1] = NULL THEN NULL ELSE reg[g[k - 1]].next]
<1>7. Follows(P)
  <2>1. P = [k \in 0..N |-> P[k]]
    BY <1>3
  <2>2. \A k \in 0..N : P[k] = IF k = 0 THEN space[s].regions
                               ELSE IF P[k - 1] = NULL THEN NULL ELSE reg[P[k - 1]].next
    BY <1>5, <1>6
  <2> QED BY <2>1, <2>2
<1>8. ASSUME NEW g, Follows(g), NEW k \in 0..N PROVE g[k] = P[k]
  <2> DEFINE T == {j \in 0..N : g[j] # P[j]}
  <2> SUFFICES ASSUME k \in T PROVE FALSE
    OBVIOUS
  <2>1. PICK j \in T : \A i \in T : j <= i
    BY LeastNat, T \in SUBSET Nat
  <2>2. j # 0
    BY <1>5, <1>8
  <2>3. j - 1 \in 0..N /\ j \in 1..N /\ j - 1 \notin T
    BY <2>1, <2>2
  <2>4. g[j - 1] = P[j - 1]
    BY <2>3
  <2>5. g[j] = IF g[j - 1] = NULL THEN NULL ELSE reg[g[j - 1]].next
    BY <1>8, <2>3
  <2>6. P[j] = IF P[j - 1] = NULL THEN NULL ELSE reg[P[j - 1]].next
    BY <1>6, <2>3
  <2> QED BY <2>1, <2>4, <2>5, <2>6
<1>9. PICK g : g = CHOOSE b : Follows(b)
  OBVIOUS
<1>10. Follows(g)
  <2>1. \E b : Follows(b)
    BY <1>7
  <2> HIDE DEF Follows
  <2> QED BY <1>9, <2>1
<1>11. OnList(s) = {g[k] : k \in 0..N} \ {NULL}
  BY <1>2, <1>9 DEF OnList
<1>12. \A k \in 0..N : g[k] = P[k]
  BY <1>8, <1>10
<1>13. ASSUME NEW r PROVE r \in OnList(s) <=> \E k \in 1..n : L[k] = r
  <2>1. ASSUME r \in OnList(s) PROVE \E k \in 1..n : L[k] = r
    <3>1. PICK k \in 0..N : r = P[k] /\ r # NULL
      BY <1>11, <1>12, <2>1
    <3>2. k < n /\ r = L[k + 1] /\ k + 1 \in 1..n
      BY <1>3, <3>1
    <3> QED BY <3>2
  <2>2. ASSUME NEW k \in 1..n, L[k] = r PROVE r \in OnList(s)
    <3>1. k - 1 \in 0..N /\ (k - 1) + 1 = k /\ k - 1 < n
      BY <1>2
    <3>2. P[k - 1] = r /\ r # NULL
      BY <1>3, <1>4, <2>2, <3>1
    <3> QED BY <1>11, <1>12, <3>1, <3>2
  <2> QED BY <2>1, <2>2
<1>14. \A r : (r \in DOMAIN reg /\ reg[r].s = s) <=> (\E k \in 1..n : L[k] = r)
  BY <1>1 DEF Chain
<1> QED BY <1>13, <1>14

\* Links and walks lead to records.
LEMMA TypeInv == VmInv => TypeOK
<1> SUFFICES ASSUME VmInv PROVE TypeOK
  OBVIOUS
<1>1. page_list \in Seq(Nat) /\ IsFiniteSet(DOMAIN reg)
  BY DEF VmInv, Types
<1>2. ASSUME NEW s \in DOMAIN space
      PROVE  /\ space[s].regions \in DOMAIN reg \cup {NULL}
             /\ space[s].next_free \in 0..HEAP
             /\ DOMAIN space[s].map \subseteq VPage
             /\ \A r \in DOMAIN reg : reg[r].s = s => reg[r].next \in DOMAIN reg \cup {NULL}
  <2>1. SpaceOK(space[s])
    BY DEF VmInv, Types
  <2>2. PICK L : Chain(L, s, space[s].regions, reg)
    BY DEF VmInv, Lists
  <2>3. PICK n \in Nat : n = Len(L)
    BY <2>2 DEF Chain
  <2>4. \A k \in 1..n : L[k] \in DOMAIN reg
    BY <2>2, <2>3 DEF Chain
  <2>5. space[s].regions \in DOMAIN reg \cup {NULL}
    <3>1. n = 0 \/ 1 \in 1..n
      OBVIOUS
    <3> QED BY <2>2, <2>3, <2>4, <3>1 DEF Chain
  <2>6. ASSUME NEW r \in DOMAIN reg, reg[r].s = s PROVE reg[r].next \in DOMAIN reg \cup {NULL}
    <3>1. PICK k \in 1..n : L[k] = r
      BY <2>2, <2>3, <2>6 DEF Chain
    <3>2. k = n \/ k + 1 \in 1..n
      OBVIOUS
    <3>3. reg[r].next = IF k = n THEN NULL ELSE L[k + 1]
      BY <2>2, <2>3, <3>1 DEF Chain
    <3> QED BY <2>4, <3>2, <3>3
  <2> QED BY <2>1, <2>5, <2>6 DEF SpaceOK
<1>3. \A r \in DOMAIN reg : reg[r].s \in DOMAIN space
  BY DEF VmInv, Regions
<1>4. ASSUME op.kind \in {"walk", "destroy"} PROVE op.cur \in DOMAIN reg \cup {NULL}
  <2>1. WalkOK(space, reg, op) \/ DestroyOK(space, op)
    BY <1>4 DEF VmInv, OpOK, Idle, MapOK, FreeOK
  <2> QED BY <1>2, <2>1 DEF WalkOK, DestroyOK
<1> QED BY <1>1, <1>2, <1>3, <1>4 DEF TypeOK

\* Two regions that cover a page would overlap.
LEMMA CoverInv == VmInv => RegionsCover
<1> SUFFICES ASSUME VmInv, Sound, op = Idle, NEW s \in DOMAIN space, NEW v \in DOMAIN space[s].map
             PROVE  Cardinality({r \in OnList(s) :
                        reg[r].virt <= v /\ v < reg[r].virt + reg[r].size}) = 1
  BY DEF RegionsCover
<1>1. PICK L : Chain(L, s, space[s].regions, reg)
  BY DEF VmInv, Lists
<1>2. OnList(s) = {r \in DOMAIN reg : reg[r].s = s}
  BY <1>1, OnListIs DEF VmInv, Types
<1>3. v \in Nat
  BY Constants DEF VmInv, Types, SpaceOK
<1>4. op.kind # "map"
  BY DEF Idle
<1>5. PICK r \in DOMAIN reg : reg[r].s = s /\ reg[r].virt <= v /\ v < reg[r].virt + reg[r].size
  BY <1>4 DEF VmInv, Covered
<1>6. ASSUME NEW q \in DOMAIN reg, reg[q].s = s, reg[q].virt <= v, v < reg[q].virt + reg[q].size
      PROVE  q = r
  <2>1. reg[q].virt \in Nat /\ reg[q].size \in Nat /\ reg[r].virt \in Nat /\ reg[r].size \in Nat
    BY DEF VmInv, Types, RegionOK
  <2>2. ~Apart(reg[q].virt, reg[q].size, reg[r].virt, reg[r].size)
    BY <1>3, <1>5, <1>6, <2>1 DEF Apart
  <2> QED BY <1>5, <1>6, <2>2 DEF VmInv, Regions
<1>7. {q \in OnList(s) : reg[q].virt <= v /\ v < reg[q].virt + reg[q].size} = {r}
  BY <1>2, <1>5, <1>6
<1> QED BY <1>7, FS_Singleton

\* With no region left, no page is covered.
LEMMA EmptyInv == VmInv => DestroyEmpties
<1> SUFFICES ASSUME VmInv, Sound, op.kind = "destroy", op.cur = NULL
             PROVE  space[op.s].regions = NULL /\ space[op.s].map = [v \in {} |-> 0]
  BY DEF DestroyEmpties
<1>1. op.s \in DOMAIN space /\ space[op.s].regions = NULL
  BY DEF VmInv, OpOK, Idle, MapOK, FreeOK, WalkOK, DestroyOK
<1>2. PICK L : Chain(L, op.s, NULL, reg)
  BY <1>1 DEF VmInv, Lists
<1>3. PICK n \in Nat : n = Len(L)
  BY <1>2 DEF Chain
<1>4. n = 0
  <2> SUFFICES ASSUME n # 0 PROVE FALSE
    OBVIOUS
  <2>1. 1 \in 1..n
    OBVIOUS
  <2>2. L[1] \in Nat /\ L[1] = NULL
    BY <1>2, <1>3, <2>1 DEF Chain
  <2> QED BY <2>2, Constants
<1>5. \A r \in DOMAIN reg : reg[r].s # op.s
  BY <1>2, <1>3, <1>4 DEF Chain
<1>6. DOMAIN space[op.s].map = {}
  BY <1>1, <1>5 DEF VmInv, Covered
<1>7. space[op.s].map = [v \in DOMAIN space[op.s].map |-> space[op.s].map[v]]
  BY <1>1 DEF VmInv, Types, SpaceOK
<1> QED BY <1>1, <1>6, <1>7

\* The three together.
LEMMA RegionsInv == VmInv => RegionsSound
  BY TypeInv, CoverInv, EmptyInv DEF RegionsSound

-----------------------------------------------------------------------------
(* The theorems. *)

(* Every frame is in one place: whatever vm_space_create, vm_alloc,        *)
(* vm_alloc_at, vm_map, vm_map_at, vm_free, vm_space_destroy and the MMIO  *)
(* calls do, in any order and in any number of spaces, as long as no       *)
(* device page and no MMIO record was given to the allocator, no frame is  *)
(* freed twice, none that is in use is free, and none is lost.             *)
THEOREM FramesAreOnce == Spec => []FramesOnce
  BY Inductive, OnceInv, PTL

(* The list of a space leads to its regions and nowhere else, each page    *)
(* mapped between calls belongs to exactly one of them, and when           *)
(* vm_space_destroy comes to the end of the list nothing is mapped.        *)
THEOREM RegionsAreSound == Spec => []RegionsSound
  BY Inductive, RegionsInv, PTL
=============================================================================
