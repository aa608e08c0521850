----------------------------- MODULE HeapProofs -----------------------------
(***************************************************************************)
(* For every page size, header size, alignment and history of calls: every *)
(* block is free once or held once, the blocks tile the heap, and payloads *)
(* are as large as was asked for.                                          *)
(*                                                                         *)
(* At the end, the byte routines that krealloc and others copy with:       *)
(* memset, memcpy, memmove and memcmp are right for a memory of any size,  *)
(* every pair of areas and any sequence of calls.                          *)
(***************************************************************************)
EXTENDS Heap, ByteRoutines, TLAPS

RangeOf(s) == {s[k] : k \in DOMAIN s}
Distinct(s) == \A j, k \in DOMAIN s : s[j] = s[k] => j = k

(* What pushing a block in front of the list does to it.                   *)
LEMMA PushFront ==
    ASSUME NEW S, NEW s \in Seq(S), NEW x \in S
    PROVE  LET r == <<x>> \o s
           IN  /\ r \in Seq(S)
               /\ RangeOf(r) = RangeOf(s) \cup {x}
               /\ Distinct(s) /\ x \notin RangeOf(s) => Distinct(r)
<1> DEFINE r == <<x>> \o s
<1>1. r \in Seq(S) /\ Len(r) = Len(s) + 1 /\ Len(s) \in Nat
  OBVIOUS
<1>2. DOMAIN r = 1..Len(s) + 1 /\ DOMAIN s = 1..Len(s)
  BY <1>1
<1>3. \A k \in 1..Len(s) + 1 : r[k] = IF k = 1 THEN x ELSE s[k - 1]
  OBVIOUS
<1> HIDE DEF r
<1>4. \A k \in DOMAIN s : k + 1 \in DOMAIN r /\ r[k + 1] = s[k]
  BY <1>1, <1>2, <1>3
<1>5. 1 \in DOMAIN r /\ r[1] = x
  BY <1>1, <1>2, <1>3
<1>6. \A k \in DOMAIN r : k = 1 \/ (k - 1 \in DOMAIN s /\ r[k] = s[k - 1])
  BY <1>1, <1>2, <1>3
<1>7. RangeOf(r) = RangeOf(s) \cup {x}
  <2>1. ASSUME NEW y \in RangeOf(r)  PROVE y \in RangeOf(s) \cup {x}
    BY <1>5, <1>6 DEF RangeOf
  <2>2. ASSUME NEW y \in RangeOf(s) \cup {x}  PROVE y \in RangeOf(r)
    BY <1>4, <1>5 DEF RangeOf
  <2> QED
    BY <2>1, <2>2
<1>8. ASSUME Distinct(s), x \notin RangeOf(s)  PROVE Distinct(r)
  <2> SUFFICES ASSUME NEW j \in DOMAIN r, NEW k \in DOMAIN r, r[j] = r[k]
               PROVE  j = k
    BY DEF Distinct
  <2>1. CASE j = 1 \/ k = 1
    BY <1>5, <1>6, <1>8, <2>1 DEF RangeOf
  <2>2. CASE j # 1 /\ k # 1
    <3>1. j - 1 = k - 1
      BY <1>6, <1>8, <2>2 DEF Distinct
    <3> QED
      BY <1>2, <3>1
  <2> QED
    BY <2>1, <2>2
<1> QED
  BY <1>1, <1>7, <1>8 DEF r

LEMMA Concat ==
    ASSUME NEW S, NEW a \in Seq(S), NEW b \in Seq(S)
    PROVE  /\ a \o b \in Seq(S)
           /\ Len(a) \in Nat /\ Len(b) \in Nat
           /\ DOMAIN (a \o b) = 1..Len(a) + Len(b)
           /\ \A j \in 1..Len(a) + Len(b) :
                 (a \o b)[j] = IF j <= Len(a) THEN a[j] ELSE b[j - Len(a)]
OBVIOUS

(* Unlinking the k-th block of the list.                                   *)
LEMMA Unlink ==
    ASSUME NEW S, NEW s \in Seq(S), NEW k \in 1..Len(s), Distinct(s)
    PROVE  LET r == SubSeq(s, 1, k - 1) \o SubSeq(s, k + 1, Len(s))
           IN  /\ r \in Seq(S)
               /\ RangeOf(r) = RangeOf(s) \ {s[k]}
               /\ Distinct(r)
<1> DEFINE a == SubSeq(s, 1, k - 1)
           b == SubSeq(s, k + 1, Len(s))
           r == a \o b
           n == Len(s)
<1>1. n \in Nat /\ DOMAIN s = 1..n /\ k \in 1..n
  OBVIOUS
<1>2. a \in Seq(S) /\ Len(a) = k - 1 /\ \A j \in 1..k - 1 : a[j] = s[j]
  OBVIOUS
<1>3. b \in Seq(S) /\ Len(b) = n - k /\ \A j \in 1..n - k : b[j] = s[j + k]
  OBVIOUS
<1> HIDE DEF a, b, n
<1>0. /\ r \in Seq(S) /\ DOMAIN r = 1..Len(a) + Len(b)
      /\ \A j \in 1..Len(a) + Len(b) : r[j] = IF j <= Len(a) THEN a[j] ELSE b[j - Len(a)]
  BY <1>2, <1>3, Concat
<1> HIDE DEF r
<1>4. r \in Seq(S) /\ DOMAIN r = 1..n - 1
  BY <1>0, <1>1, <1>2, <1>3
<1>5. \A j \in 1..n - 1 : r[j] = IF j < k THEN s[j] ELSE s[j + 1]
  <2> SUFFICES ASSUME NEW j \in 1..n - 1
               PROVE  r[j] = IF j < k THEN s[j] ELSE s[j + 1]
    OBVIOUS
  <2>1. r[j] = IF j <= k - 1 THEN a[j] ELSE b[j - (k - 1)]
    BY <1>0, <1>1, <1>2, <1>3
  <2>2. CASE j < k
    BY <1>1, <1>2, <2>1, <2>2
  <2>3. CASE ~(j < k)
    <3>1. j - (k - 1) \in 1..n - k /\ (j - (k - 1)) + k = j + 1
      BY <1>1, <2>3
    <3>2. b[j - (k - 1)] = s[(j - (k - 1)) + k]
      BY <1>3, <3>1
    <3> QED
      BY <1>1, <2>1, <2>3, <3>1, <3>2
  <2> QED
    BY <2>2, <2>3
<1>6. RangeOf(r) = RangeOf(s) \ {s[k]}
  <2>1. ASSUME NEW j \in 1..n - 1  PROVE r[j] \in RangeOf(s) \ {s[k]}
    <3>1. CASE j < k
      BY <1>1, <1>5, <3>1 DEF RangeOf, Distinct
    <3>2. CASE ~(j < k)
      <4>1. j + 1 \in 1..n /\ j + 1 # k /\ r[j] = s[j + 1]
        BY <1>1, <1>5, <3>2
      <4> QED
        BY <1>1, <4>1 DEF RangeOf, Distinct
    <3> QED
      BY <3>1, <3>2
  <2>2. ASSUME NEW j \in 1..n, j # k  PROVE \E m \in 1..n - 1 : r[m] = s[j]
    <3>1. CASE j < k
      BY <1>1, <1>5, <3>1
    <3>2. CASE j > k
      <4>1. j - 1 \in 1..n - 1 /\ r[j - 1] = s[j]
        BY <1>1, <1>5, <3>2
      <4> QED
        BY <4>1
    <3> QED
      BY <1>1, <2>2, <3>1, <3>2
  <2>3. RangeOf(r) \subseteq RangeOf(s) \ {s[k]}
    BY <1>4, <2>1 DEF RangeOf
  <2>4. ASSUME NEW y \in RangeOf(s) \ {s[k]}  PROVE y \in RangeOf(r)
    <3>1. PICK j \in 1..n : s[j] = y
      BY <1>1 DEF RangeOf
    <3>2. PICK m \in 1..n - 1 : r[m] = s[j]
      BY <2>2, <3>1
    <3> QED
      BY <1>4, <3>1, <3>2 DEF RangeOf
  <2> QED
    BY <2>3, <2>4
<1>7. Distinct(r)
  <2> SUFFICES ASSUME NEW l \in 1..n - 1, NEW j \in 1..n - 1, r[l] = r[j]
               PROVE  l = j
    BY <1>4 DEF Distinct
  <2> DEFINE up(m) == IF m < k THEN m ELSE m + 1
  <2>1. up(l) \in 1..n /\ up(j) \in 1..n /\ r[l] = s[up(l)] /\ r[j] = s[up(j)]
    BY <1>1, <1>5
  <2>2. up(l) = up(j)
    <3> HIDE DEF up
    <3> QED
      BY <1>1, <2>1 DEF Distinct
  <2> QED
    BY <1>1, <2>2
<1> QED
  BY <1>4, <1>6, <1>7 DEF r, a, b

Relinked(s, k, x) == SubSeq(s, 1, k - 1) \o <<x>> \o SubSeq(s, k + 1, Len(s))

(* Putting block x in the place of the k-th block of the list.             *)
LEMMA Relink ==
    ASSUME NEW S, NEW s \in Seq(S), NEW k \in 1..Len(s), Distinct(s),
           NEW x \in S, x \notin RangeOf(s)
    PROVE  /\ Relinked(s, k, x) \in Seq(S)
           /\ RangeOf(Relinked(s, k, x)) = (RangeOf(s) \ {s[k]}) \cup {x}
           /\ Distinct(Relinked(s, k, x))
<1> DEFINE a == SubSeq(s, 1, k - 1)
           b == SubSeq(s, k + 1, Len(s))
           r == a \o <<x>> \o b
           n == Len(s)
<1>1. n \in Nat /\ DOMAIN s = 1..n /\ k \in 1..n
  OBVIOUS
<1>2. a \in Seq(S) /\ Len(a) = k - 1 /\ \A j \in 1..k - 1 : a[j] = s[j]
  OBVIOUS
<1>3. b \in Seq(S) /\ Len(b) = n - k /\ \A j \in 1..n - k : b[j] = s[j + k]
  OBVIOUS
<1> DEFINE c == a \o <<x>>
<1>4. c \in Seq(S) /\ Len(c) = k /\ \A j \in 1..k : c[j] = IF j < k THEN s[j] ELSE x
  BY <1>1, <1>2
<1> HIDE DEF a, b, c, n
<1>5. r = c \o b
  BY DEF c
<1>0. /\ r \in Seq(S) /\ DOMAIN r = 1..Len(c) + Len(b)
      /\ \A j \in 1..Len(c) + Len(b) : r[j] = IF j <= Len(c) THEN c[j] ELSE b[j - Len(c)]
  <2> HIDE DEF r
  <2>1. /\ c \o b \in Seq(S) /\ DOMAIN (c \o b) = 1..Len(c) + Len(b)
        /\ \A j \in 1..Len(c) + Len(b) :
              (c \o b)[j] = IF j <= Len(c) THEN c[j] ELSE b[j - Len(c)]
    BY <1>3, <1>4, Concat
  <2> QED
    BY <1>5, <2>1
<1> HIDE DEF r
<1>6. r \in Seq(S) /\ DOMAIN r = 1..n
  BY <1>0, <1>1, <1>3, <1>4
<1>7. \A j \in 1..n : r[j] = IF j = k THEN x ELSE s[j]
  <2> SUFFICES ASSUME NEW j \in 1..n  PROVE r[j] = IF j = k THEN x ELSE s[j]
    OBVIOUS
  <2>1. r[j] = IF j <= k THEN c[j] ELSE b[j - k]
    BY <1>0, <1>1, <1>3, <1>4
  <2>2. CASE j <= k
    BY <1>1, <1>4, <2>1, <2>2
  <2>3. CASE ~(j <= k)
    <3>1. j - k \in 1..n - k /\ (j - k) + k = j
      BY <1>1, <2>3
    <3> QED
      BY <1>1, <1>3, <2>1, <2>3, <3>1
  <2> QED
    BY <2>2, <2>3
<1>8. RangeOf(r) = (RangeOf(s) \ {s[k]}) \cup {x}
  <2>1. ASSUME NEW j \in 1..n  PROVE r[j] \in (RangeOf(s) \ {s[k]}) \cup {x}
    BY <1>1, <1>7 DEF RangeOf, Distinct
  <2>2. ASSUME NEW y \in RangeOf(s), y # s[k]  PROVE y \in RangeOf(r)
    <3>1. PICK j \in 1..n : s[j] = y
      BY <1>1 DEF RangeOf
    <3> QED
      BY <1>6, <1>7, <2>2, <3>1 DEF RangeOf
  <2>3. x \in RangeOf(r)
    BY <1>1, <1>6, <1>7 DEF RangeOf
  <2>4. RangeOf(r) \subseteq (RangeOf(s) \ {s[k]}) \cup {x}
    BY <1>6, <2>1 DEF RangeOf
  <2> QED
    BY <2>2, <2>3, <2>4
<1>9. Distinct(r)
  <2> SUFFICES ASSUME NEW l \in 1..n, NEW j \in 1..n, r[l] = r[j]
               PROVE  l = j
    BY <1>6 DEF Distinct
  <2>1. \A m \in 1..n : s[m] # x
    BY <1>1 DEF RangeOf
  <2> QED
    BY <1>1, <1>7, <2>1 DEF Distinct
<1> QED
  BY <1>6, <1>8, <1>9 DEF r, a, b, Relinked

---------------------------------------------------------------------------

(* Rounding up loses nothing, and rounding twice wraps only if rounding    *)
(* once does.                                                              *)
LEMMA Rounding ==
    ASSUME NEW s \in Nat
    PROVE  /\ Round(s) \in Nat
           /\ Roundable(s) => s <= Round(s) /\ Roundable(Round(s))
<1> DEFINE u == s + (ALIGN - 1)
           t == u % WORD
           d == t % ALIGN
<1>0. ALIGN \in Nat /\ ALIGN > 0 /\ WORD \in Nat /\ WORD > 0
  BY HeapAssumption
<1>1. u \in Nat
  BY <1>0
<1>2. t \in Nat /\ (u < WORD => t = u)
  <2> HIDE DEF u
  <2> QED
    BY <1>0, <1>1
<1>3. d \in 0..ALIGN - 1 /\ d <= t
  <2> HIDE DEF t
  <2> QED
    BY <1>0, <1>2
<1>4. Round(s) = t - d
  BY DEF Round
<1>5. \E q \in Nat : t - d = q * ALIGN
  <2>1. t = (t \div ALIGN) * ALIGN + d /\ t \div ALIGN \in Nat
    <3> HIDE DEF t
    <3> QED
      BY <1>0, <1>2
  <2> HIDE DEF t, d
  <2>2. (t \div ALIGN) * ALIGN \in Nat
    BY <1>0, <2>1
  <2> QED
    BY <1>0, <1>2, <1>3, <2>1, <2>2
<1> HIDE DEF t, d
<1>6. ASSUME Roundable(s)  PROVE s <= t - d /\ Roundable(t - d)
  <2>1. t = s + (ALIGN - 1)
    BY <1>0, <1>2, <1>6 DEF Roundable
  <2>2. s <= t - d
    BY <1>0, <1>3, <2>1
  <2>3. PICK q \in Nat : t - d = q * ALIGN
    BY <1>5
  <2>4. PICK m \in Nat : WORD = m * ALIGN
    BY HeapAssumption
  <2>5. q * ALIGN < m * ALIGN
    BY <1>0, <1>2, <1>3, <1>6, <2>1, <2>3, <2>4 DEF Roundable
  <2>6. q < m
    BY <1>0, <2>5
  <2>7. (q + 1) * ALIGN <= m * ALIGN
    BY <1>0, <2>6
  <2>8. q * ALIGN + ALIGN <= WORD
    BY <1>0, <2>4, <2>7
  <2> QED
    BY <1>0, <2>2, <2>3, <2>8 DEF Roundable
<1> QED
  BY <1>2, <1>3, <1>4, <1>6

---------------------------------------------------------------------------

\* No block reaches beyond the mapped part of the heap.
BelowTop == \A a \in Blocks : End(a) <= heap_top

\* The size kmalloc searches for is enough for what was asked.
ReqFits ==
    req.pc # "idle" /\ Roundable(req.want) => req.want <= req.size /\ Roundable(req.size)

(* The inductive invariant.                                                *)
IInv ==
    /\ TypeOK
    /\ EveryBlockOnce
    /\ Tiling
    /\ PayloadFits
    /\ BelowTop
    /\ ReqFits

LEMMA Initially == Init => IInv
<1> SUFFICES ASSUME Init  PROVE IInv
  OBVIOUS
<1>1. TypeOK
  <2>1. free_list \in Seq(Nat) /\ size \in [{} -> Nat] /\ want \in [used -> Nat]
    BY DEF Init
  <2>2. Blocks = {}
    BY DEF Init, Blocks
  <2>3. req \in [pc : {"idle", "search", "expand"}, want : Nat, size : Nat,
                 old : used \cup {NULL}, pages : Nat]
    BY DEF Init, Idle
  <2> QED
    BY <2>1, <2>2, <2>3, HeapAssumption DEF Init, TypeOK
<1>2. EveryBlockOnce /\ Tiling /\ PayloadFits /\ BelowTop
  BY DEF Init, EveryBlockOnce, Tiling, PayloadFits, BelowTop, Blocks, Listed
<1>3. ReqFits
  BY DEF Init, ReqFits, Idle
<1> QED
  BY <1>1, <1>2, <1>3 DEF IInv

\* Steps that touch neither the blocks, the list nor who holds what.
LEMMA SameHeap ==
    ASSUME IInv, UNCHANGED <<free_list, size, heap_top, used>>
    PROVE  EveryBlockOnce' /\ Tiling' /\ BelowTop'
BY DEF IInv, EveryBlockOnce, Tiling, BelowTop, Blocks, Listed, End

LEMMA KeepsCall ==
    ASSUME IInv, NEW s \in SIZES, kmalloc(s)
    PROVE  IInv'
<1> USE DEF IInv
<1>1. s \in Nat
  BY HeapAssumption
<1>2. EveryBlockOnce' /\ Tiling' /\ BelowTop' /\ PayloadFits'
  BY SameHeap DEF kmalloc, PayloadFits
<1>3. CASE s = 0
  BY <1>2, <1>3 DEF kmalloc, TypeOK, ReqFits, Blocks
<1>4. CASE s # 0
  <2>1. req' = [pc |-> "search", want |-> s, size |-> Round(s), old |-> NULL, pages |-> 0]
    BY <1>4 DEF kmalloc, Search
  <2>2. TypeOK'
    BY <1>1, <1>4, <2>1, Rounding DEF kmalloc, TypeOK, Blocks
  <2>3. ReqFits'
    BY <1>1, <2>1, Rounding DEF ReqFits
  <2> QED
    BY <1>2, <2>2, <2>3
<1> QED
  BY <1>3, <1>4

LEMMA KeepsNoFit == ASSUME IInv, NoFit  PROVE IInv'
<1> USE DEF IInv
<1>1. EveryBlockOnce' /\ Tiling' /\ BelowTop' /\ PayloadFits'
  BY SameHeap DEF NoFit, PayloadFits
<1> DEFINE pg == ((req.size + HDR + PAGE - 1) % WORD) \div PAGE
<1>2. pg \in Nat
  <2>1. PAGE \in Nat /\ PAGE > 0 /\ WORD \in Nat /\ WORD > 0 /\ HDR \in Nat
    BY HeapAssumption
  <2>2. req.size + HDR + PAGE - 1 \in Nat
    BY <2>1 DEF TypeOK
  <2> DEFINE v == req.size + HDR + PAGE - 1
  <2> HIDE DEF v
  <2>3. v % WORD \in Nat
    BY <2>1, <2>2 DEF v
  <2> DEFINE z == v % WORD
  <2> HIDE DEF z
  <2>4. z \div PAGE \in Nat
    BY <2>1, <2>3 DEF z
  <2> QED
    BY <2>4 DEF z, v
<1> HIDE DEF pg
<1>3. req' = [req EXCEPT !.pc = "expand", !.pages = pg]
  BY DEF NoFit, pg
<1>4. TypeOK'
  BY <1>2, <1>3 DEF NoFit, TypeOK, Blocks
<1>5. ReqFits'
  BY <1>3 DEF ReqFits, NoFit, TypeOK
<1> QED
  BY <1>1, <1>4, <1>5

LEMMA KeepsAgain == ASSUME IInv, Again  PROVE IInv'
<1> USE DEF IInv
<1>1. EveryBlockOnce' /\ Tiling' /\ BelowTop' /\ PayloadFits'
  BY SameHeap DEF Again, PayloadFits
<1>2. CASE req.size = 0
  BY <1>1, <1>2 DEF Again, TypeOK, ReqFits, Blocks, Idle
<1>3. CASE req.size # 0
  <2>1. /\ req' = [pc |-> "search", want |-> req.want, size |-> Round(req.size),
                   old |-> req.old, pages |-> 0]
        /\ req.size \in Nat /\ req.want \in Nat /\ req.pc # "idle"
    BY <1>3 DEF Again, Search, TypeOK
  <2>2. TypeOK'
    BY <1>3, <2>1, Rounding DEF Again, TypeOK, Blocks
  <2>3. ReqFits'
    <3>1. Round(req.size) \in Nat
          /\ (Roundable(req.size) => req.size <= Round(req.size) /\ Roundable(Round(req.size)))
      BY <2>1, Rounding
    <3> QED
      BY <2>1, <3>1 DEF ReqFits
  <2> QED
    BY <1>1, <2>2, <2>3
<1> QED
  BY <1>2, <1>3

LEMMA KeepsExpand == ASSUME IInv, heap_expand  PROVE IInv'
<1> USE DEF IInv
<1>0. PAGE \in Nat /\ HDR \in Nat /\ HDR > 0 /\ PAGE - HDR \in Nat /\ PAGE - HDR > 0
  BY HeapAssumption
<1>1. CASE frames = 0
  <2>1. EveryBlockOnce' /\ Tiling' /\ BelowTop' /\ PayloadFits'
    BY <1>1, SameHeap DEF heap_expand, PayloadFits, TypeOK
  <2>2. TypeOK'
    BY <1>1 DEF heap_expand, TypeOK, Blocks
  <2> QED
    BY <1>1, <2>1, <2>2 DEF heap_expand, ReqFits, TypeOK
<1>2. CASE frames > 0
  <2>1. /\ size' = [b \in Blocks \cup {heap_top} |->
                       IF b = heap_top THEN PAGE - HDR ELSE size[b]]
        /\ free_list' = <<heap_top>> \o free_list
        /\ heap_top' = heap_top + PAGE
        /\ frames' = frames - 1
        /\ req' = [req EXCEPT !.pages = req.pages - 1]
        /\ UNCHANGED <<used, want, ret, corrupt>>
        /\ req.pages > 0
    BY <1>2 DEF heap_expand, Grow, Blocks, TypeOK
  <2>2. heap_top \in Nat /\ free_list \in Seq(Nat) /\ size \in [Blocks -> Nat]
        /\ Blocks \subseteq Nat
    BY DEF TypeOK
  <2>3. \A a \in Blocks : a < heap_top /\ End(a) <= heap_top
    BY <1>0, <2>2 DEF BelowTop, End
  <2>4. Blocks' = Blocks \cup {heap_top} /\ heap_top \notin Blocks
    BY <2>1, <2>2, <2>3 DEF Blocks
  <2>5. /\ \A a \in Blocks : size'[a] = size[a] /\ End(a)' = End(a)
        /\ size'[heap_top] = PAGE - HDR
        /\ heap_top + HDR + size'[heap_top] = heap_top'
    BY <1>0, <2>1, <2>2, <2>4 DEF End
  <2>6. Listed = RangeOf(free_list) /\ Distinct(free_list)
    BY DEF EveryBlockOnce, Listed, RangeOf, Distinct
  <2>7. heap_top \notin Listed /\ heap_top \notin used
    BY <2>4 DEF EveryBlockOnce
  <2>8. /\ free_list' \in Seq(Nat) /\ RangeOf(free_list') = Listed \cup {heap_top}
        /\ Distinct(free_list')
    BY <2>1, <2>2, <2>6, <2>7, PushFront
  <2>9. EveryBlockOnce'
    <3>1. Listed' = Listed \cup {heap_top}
      BY <2>8 DEF Listed, RangeOf
    <3>2. Blocks' = Listed' \cup used' /\ Listed' \cap used' = {}
      <4>1. Blocks = Listed \cup used /\ Listed \cap used = {} /\ used' = used
        BY <2>1 DEF EveryBlockOnce
      <4> QED
        BY <2>4, <2>7, <3>1, <4>1
    <3>3. \A j, k \in DOMAIN free_list' : free_list'[j] = free_list'[k] => j = k
      BY <2>8 DEF Distinct
    <3> QED
      BY <3>2, <3>3 DEF EveryBlockOnce
  <2>10. Tiling'
    <3>1. ASSUME NEW a \in Blocks', NEW b \in Blocks', a < b  PROVE End(a)' <= b
      <4>1. a \in Blocks
        BY <2>2, <2>3, <2>4, <3>1
      <4>2. CASE b \in Blocks
        BY <2>5, <3>1, <4>1, <4>2 DEF Tiling
      <4>3. CASE b = heap_top
        BY <2>3, <2>5, <4>1, <4>3
      <4> QED
        BY <2>4, <4>2, <4>3
    <3>2. ASSUME NEW a \in Blocks'  PROVE End(a)' \in Blocks' \cup {heap_top'}
      <4>1. CASE a \in Blocks
        BY <2>4, <2>5, <4>1 DEF Tiling
      <4>2. CASE a = heap_top
        BY <2>5, <4>2 DEF End
      <4> QED
        BY <2>4, <4>1, <4>2
    <3>3. 0 \in Blocks'
      BY <2>4 DEF Tiling
    <3> QED
      BY <3>1, <3>2, <3>3 DEF Tiling
  <2>11. BelowTop'
    <3> SUFFICES ASSUME NEW a \in Blocks'  PROVE End(a)' <= heap_top'
      BY DEF BelowTop
    <3>1. CASE a \in Blocks
      <4>1. End(a) \in Nat
        BY <1>0, <2>2, <3>1 DEF End
      <4> QED
        BY <1>0, <2>1, <2>2, <2>3, <2>5, <3>1, <4>1
    <3>2. CASE a = heap_top
      BY <1>0, <2>1, <2>2, <2>5, <3>2 DEF End
    <3> QED
      BY <2>4, <3>1, <3>2
  <2>12. PayloadFits'
    <3>1. used \subseteq Blocks
      BY DEF EveryBlockOnce
    <3> QED
      BY <2>1, <2>5, <3>1 DEF PayloadFits, Roundable
  <2>13. TypeOK'
    <3>1. Blocks' \subseteq Nat /\ size' \in [Blocks' -> Nat]
      BY <1>0, <2>1, <2>2, <2>4
    <3>2. req.pages - 1 \in Nat /\ frames - 1 \in Nat /\ heap_top' \in Nat
      BY <1>0, <1>2, <2>1, <2>2, SMTT(60) DEF TypeOK
    <3>3. req' \in [pc : {"idle", "search", "expand"}, want : Nat, size : Nat,
                    old : used' \cup {NULL}, pages : Nat]
      BY <2>1, <3>2 DEF TypeOK
    <3> QED
      BY <2>1, <2>8, <3>1, <3>2, <3>3 DEF TypeOK
  <2>14. ReqFits'
    BY <2>1 DEF ReqFits, TypeOK
  <2> QED
    BY <2>9, <2>10, <2>11, <2>12, <2>13, <2>14
<1> QED
  BY <1>1, <1>2 DEF heap_expand

LEMMA KeepsFree == ASSUME IInv, NEW a \in used, kfree(a)  PROVE IInv'
<1> USE DEF IInv
<1>1. /\ free_list' = <<a>> \o free_list /\ used' = used \ {a}
      /\ want' = [b \in used' |-> want[b]]
      /\ UNCHANGED <<size, heap_top, frames, req, ret, corrupt>> /\ req = Idle
  BY DEF kfree
<1>2. a \in Nat /\ a \in Blocks /\ a \notin Listed
  BY DEF TypeOK, EveryBlockOnce
<1>3. Listed = RangeOf(free_list) /\ Distinct(free_list)
  BY DEF EveryBlockOnce, Listed, RangeOf, Distinct
<1>4. /\ free_list' \in Seq(Nat) /\ RangeOf(free_list') = Listed \cup {a}
      /\ Distinct(free_list')
  BY <1>1, <1>2, <1>3, PushFront DEF TypeOK
<1>5. EveryBlockOnce'
  <2>1. Listed' = Listed \cup {a}
    BY <1>4 DEF Listed, RangeOf
  <2>2. Blocks' = Blocks
    BY <1>1 DEF Blocks
  <2>3. Blocks' = Listed' \cup used' /\ Listed' \cap used' = {}
    BY <1>1, <1>2, <2>1, <2>2 DEF EveryBlockOnce
  <2> QED
    BY <1>4, <2>3 DEF EveryBlockOnce, Distinct
<1>6. Tiling' /\ BelowTop'
  BY <1>1 DEF Tiling, BelowTop, Blocks, End
<1>7. PayloadFits'
  BY <1>1 DEF PayloadFits, Roundable
<1>8. TypeOK'
  BY <1>1, <1>4 DEF TypeOK, Blocks, Idle
<1>9. ReqFits'
  BY <1>1 DEF ReqFits, Idle
<1> QED
  BY <1>5, <1>6, <1>7, <1>8, <1>9

LEMMA KeepsRealloc ==
    ASSUME IInv, NEW a \in used, NEW s \in SIZES, krealloc(a, s)
    PROVE  IInv'
<1> USE DEF IInv
<1>1. s \in Nat /\ a \in Nat
  BY HeapAssumption DEF TypeOK, EveryBlockOnce
<1>2. EveryBlockOnce' /\ Tiling' /\ BelowTop' /\ UNCHANGED <<free_list, size, heap_top,
         frames, used, corrupt>> /\ req = Idle
  BY SameHeap DEF krealloc
<1>3. CASE size[a] >= s
  <2>1. want' = [want EXCEPT ![a] = s] /\ ret' = a /\ req' = req
    BY <1>1, <1>3 DEF krealloc, TypeOK, EveryBlockOnce
  <2>2. TypeOK'
    BY <1>1, <1>2, <2>1 DEF TypeOK, Blocks
  <2>3. PayloadFits'
    BY <1>2, <1>3, <2>1 DEF PayloadFits, Roundable, TypeOK
  <2> QED
    BY <1>2, <2>1, <2>2, <2>3 DEF ReqFits, Idle
<1>4. CASE ~(size[a] >= s)
  <2>1. /\ req' = [pc |-> "search", want |-> s, size |-> Round(s), old |-> a, pages |-> 0]
        /\ want' = want /\ ret' = ret
    BY <1>4 DEF krealloc, Search
  <2>2. TypeOK'
    BY <1>1, <1>2, <2>1, Rounding DEF TypeOK, Blocks
  <2>3. ReqFits'
    BY <1>1, <2>1, Rounding DEF ReqFits
  <2> QED
    BY <1>2, <2>1, <2>2, <2>3 DEF PayloadFits
<1> QED
  BY <1>3, <1>4

(* What returning block c does to the list and the holders, once the       *)
(* blocks and the rest of the list are known to match.                     *)
LEMMA FinishOnce ==
    ASSUME IInv, NEW c \in Blocks', NEW rest \in Seq(Nat), Finish(c, rest),
           c \notin used, Distinct(rest), RangeOf(rest) \cap (used \cup {c}) = {},
           Blocks' = RangeOf(rest) \cup used \cup {c}, c \in Nat
    PROVE  /\ EveryBlockOnce' /\ ReqFits' /\ c \in used'
           /\ used' \subseteq used \cup {c}
           /\ free_list' \in Seq(Nat) /\ want' \in [used' -> Nat] /\ ret' = c /\ req' = Idle
           /\ \A b \in used' : want'[b] = IF b = c THEN req.want ELSE want[b]
<1> USE DEF IInv
<1>1. /\ ret' = c /\ req' = Idle /\ used' = (used \ {req.old}) \cup {c}
      /\ want' = [b \in used' |-> IF b = c THEN req.want ELSE want[b]]
  BY DEF Finish
<1>2. req.old \in used \cup {NULL} /\ req.want \in Nat /\ want \in [used -> Nat]
      /\ used \subseteq Nat /\ NULL \notin Nat
  BY HeapAssumption DEF TypeOK, EveryBlockOnce
<1>3. ReqFits'
  BY <1>1 DEF ReqFits, Idle
<1>4. want' \in [used' -> Nat]
  <2>1. \A b \in used' : b # c => b \in used
    BY <1>1
  <2> QED
    BY <1>1, <1>2, <2>1
<1>5. /\ free_list' \in Seq(Nat) /\ Distinct(free_list')
      /\ RangeOf(free_list') = RangeOf(rest) \cup (IF req.old = NULL THEN {} ELSE {req.old})
  <2>1. CASE req.old = NULL
    BY <2>1 DEF Finish
  <2>2. CASE req.old # NULL
    <3>1. free_list' = <<req.old>> \o rest /\ req.old \in Nat /\ req.old \notin RangeOf(rest)
      BY <1>2, <2>2 DEF Finish
    <3> QED
      BY <2>2, <3>1, PushFront
  <2> QED
    BY <2>1, <2>2
<1>6. EveryBlockOnce'
  <2>1. Listed' = RangeOf(free_list')
    BY DEF Listed, RangeOf
  <2>2. Blocks' = Listed' \cup used' /\ Listed' \cap used' = {}
    BY <1>1, <1>2, <1>5, <2>1
  <2> QED
    BY <1>5, <2>2 DEF EveryBlockOnce, Distinct
<1> QED
  BY <1>1, <1>3, <1>4, <1>5, <1>6

LEMMA KeepsTake ==
    ASSUME IInv, NEW k \in DOMAIN free_list, Take(k)
    PROVE  IInv'
<1> USE DEF IInv
<1>a. PICK cur : cur = free_list[k]
  OBVIOUS
<1>b. PICK split : split = cur + HDR + req.size
  OBVIOUS
<1> DEFINE before == SubSeq(free_list, 1, k - 1)
           after == SubSeq(free_list, k + 1, Len(free_list))
<1>0. HDR \in Nat /\ HDR > 0 /\ ALIGN \in Nat /\ ALIGN > 0
  BY HeapAssumption
<1>1. /\ req.pc = "search" /\ size[cur] >= req.size
      /\ UNCHANGED <<heap_top, frames>> /\ corrupt' \in BOOLEAN
  BY <1>a DEF Take, Fits, Overruns
<1>2. /\ free_list \in Seq(Nat) /\ k \in 1..Len(free_list) /\ Distinct(free_list)
      /\ Listed = RangeOf(free_list)
  BY DEF TypeOK, EveryBlockOnce, Distinct, Listed, RangeOf
<1>3. cur \in Listed /\ cur \in Blocks /\ cur \in Nat /\ cur \notin used
  BY <1>a DEF Listed, EveryBlockOnce, TypeOK
<1>4. size \in [Blocks -> Nat] /\ Blocks \subseteq Nat /\ req.size \in Nat /\ heap_top \in Nat
      /\ req.want \in Nat
  BY DEF TypeOK
<1>5. Roundable(req.want) => req.want <= req.size
  BY <1>1 DEF ReqFits
<1>6. used \subseteq Blocks /\ Blocks = Listed \cup used /\ Listed \cap used = {}
  BY DEF EveryBlockOnce
<1>7. CASE ~Splits(cur)
  <2>1. size' = size /\ Finish(cur, before \o after)
    BY <1>a, <1>7 DEF Take
  <2>2. Blocks' = Blocks
    BY <2>1 DEF Blocks
  <2>3. /\ before \o after \in Seq(Nat) /\ Distinct(before \o after)
        /\ RangeOf(before \o after) = Listed \ {cur}
    BY <1>2, <1>a, Unlink
  <2> DEFINE rest == before \o after
  <2> HIDE DEF rest
  <2>4. /\ EveryBlockOnce' /\ ReqFits' /\ cur \in used' /\ used' \subseteq used \cup {cur}
        /\ free_list' \in Seq(Nat) /\ want' \in [used' -> Nat] /\ ret' = cur /\ req' = Idle
        /\ \A b \in used' : want'[b] = IF b = cur THEN req.want ELSE want[b]
    <3>1. rest \in Seq(Nat) /\ Distinct(rest) /\ RangeOf(rest) = Listed \ {cur}
          /\ Finish(cur, rest)
      BY <2>1, <2>3 DEF rest
    <3>2. RangeOf(rest) \cap (used \cup {cur}) = {} /\ Blocks' = RangeOf(rest) \cup used \cup {cur}
      BY <1>3, <1>6, <2>2, <3>1
    <3> QED
      BY <1>3, <2>2, <3>1, <3>2, FinishOnce
  <2>5. Tiling' /\ BelowTop'
    BY <1>1, <2>1 DEF Tiling, BelowTop, Blocks, End
  <2>6. PayloadFits'
    <3> SUFFICES ASSUME NEW b \in used', Roundable(want'[b])  PROVE want'[b] <= size[b]
      BY <2>1 DEF PayloadFits, Roundable
    <3>1. CASE b = cur
      BY <1>1, <1>3, <1>4, <1>5, <2>4, <3>1
    <3>2. CASE b # cur
      BY <2>4, <3>2 DEF PayloadFits
    <3> QED
      BY <3>1, <3>2
  <2>7. TypeOK'
    BY <1>1, <1>3, <2>1, <2>2, <2>4 DEF TypeOK, Idle
  <2> QED
    BY <2>4, <2>5, <2>6, <2>7
<1>8. CASE Splits(cur)
  <2>1. /\ size' = [b \in Blocks \cup {split} |->
                       IF b = cur THEN req.size
                       ELSE IF b = split THEN size[cur] - req.size - HDR
                       ELSE size[b]]
        /\ Finish(cur, Relinked(free_list, k, split))
    BY <1>a, <1>b, <1>8 DEF Take, Blocks, Relinked
  <2>2. size[cur] >= req.size + HDR + ALIGN /\ size[cur] \in Nat
    BY <1>3, <1>4, <1>8 DEF Splits
  <2>3. split \in Nat /\ cur < split /\ split < End(cur) /\ End(cur) \in Nat
    BY <1>0, <1>b, <1>3, <1>4, <2>2 DEF End
  <2>4. split \notin Blocks /\ Blocks' = Blocks \cup {split}
    <3>1. split \notin Blocks
      BY <1>3, <1>4, <2>3 DEF Tiling
    <3> QED
      BY <2>1, <3>1 DEF Blocks
  <2>5. /\ size'[cur] = req.size
        /\ size'[split] = size[cur] - req.size - HDR /\ size'[split] \in Nat
        /\ \A b \in Blocks : b # cur => size'[b] = size[b]
    <3>1. split # cur
      BY <1>3, <2>3
    <3>2. size[cur] - req.size - HDR \in Nat
      BY <1>0, <1>4, <2>2
    <3> QED
      BY <1>3, <2>1, <2>4, <3>1, <3>2
  <2>6. split \notin RangeOf(free_list)
    BY <1>2, <1>6, <2>4
  <2>7. /\ Relinked(free_list, k, split) \in Seq(Nat)
        /\ Distinct(Relinked(free_list, k, split))
        /\ RangeOf(Relinked(free_list, k, split)) = (Listed \ {cur}) \cup {split}
    BY <1>a, <1>2, <2>3, <2>6, Relink
  <2>8. /\ End(cur)' = split /\ End(split)' = End(cur)
        /\ \A b \in Blocks : b # cur => End(b)' = End(b)
    BY <1>0, <1>b, <1>3, <1>4, <2>2, <2>5 DEF End
  <2> DEFINE rest == Relinked(free_list, k, split)
  <2> HIDE DEF rest
  <2>9. /\ EveryBlockOnce' /\ ReqFits' /\ cur \in used' /\ used' \subseteq used \cup {cur}
        /\ free_list' \in Seq(Nat) /\ want' \in [used' -> Nat] /\ ret' = cur /\ req' = Idle
        /\ \A b \in used' : want'[b] = IF b = cur THEN req.want ELSE want[b]
    <3>1. rest \in Seq(Nat) /\ Distinct(rest) /\ RangeOf(rest) = (Listed \ {cur}) \cup {split}
          /\ Finish(cur, rest)
      BY <2>1, <2>7 DEF rest
    <3>2. RangeOf(rest) \cap (used \cup {cur}) = {} /\ Blocks' = RangeOf(rest) \cup used \cup {cur}
      BY <1>3, <1>6, <2>4, <3>1
    <3> QED
      BY <1>3, <2>4, <3>1, <3>2, FinishOnce
  <2>10. \A b \in Blocks : End(b) \in Nat /\ b < End(b)
    BY <1>0, <1>4 DEF End
  <2>11. Tiling'
    <3>1. ASSUME NEW a \in Blocks', NEW b \in Blocks', a < b  PROVE End(a)' <= b
      <4>1. CASE a = cur
        <5>1. CASE b = split
          BY <2>3, <2>8, <4>1, <5>1
        <5>2. CASE b # split
          <6>1. b \in Blocks /\ End(cur) <= b /\ b \in Nat
            BY <1>3, <1>4, <2>4, <3>1, <4>1, <5>2 DEF Tiling
          <6> QED
            BY <2>3, <2>8, <4>1, <6>1
        <5> QED
          BY <5>1, <5>2
      <4>2. CASE a = split
        <5>1. b \in Blocks /\ b \in Nat /\ cur < b
          BY <1>3, <1>4, <2>3, <2>4, <3>1, <4>2
        <5> QED
          BY <1>3, <2>8, <4>2, <5>1 DEF Tiling
      <4>3. CASE a # cur /\ a # split
        <5>1. a \in Blocks /\ a \in Nat /\ End(a)' = End(a)
          BY <1>4, <2>4, <2>8, <4>3
        <5>2. CASE b = split
          <6>1. a < cur
            BY <1>3, <2>3, <2>10, <3>1, <4>3, <5>1, <5>2 DEF Tiling
          <6>2. End(a) <= cur /\ End(a) \in Nat
            BY <1>3, <2>10, <5>1, <6>1 DEF Tiling
          <6> QED
            BY <1>3, <2>3, <5>1, <5>2, <6>2
        <5>3. CASE b # split
          BY <2>4, <3>1, <5>1, <5>3 DEF Tiling
        <5> QED
          BY <5>2, <5>3
      <4> QED
        BY <4>1, <4>2, <4>3
    <3>2. ASSUME NEW a \in Blocks'  PROVE End(a)' \in Blocks' \cup {heap_top'}
      BY <1>1, <1>3, <2>4, <2>8 DEF Tiling
    <3>3. heap_top' = 0 \/ 0 \in Blocks'
      BY <1>1, <2>4 DEF Tiling
    <3> QED
      BY <3>1, <3>2, <3>3 DEF Tiling
  <2>12. BelowTop'
    <3> SUFFICES ASSUME NEW a \in Blocks'  PROVE End(a)' <= heap_top
      BY <1>1 DEF BelowTop
    <3>1. End(cur) <= heap_top
      BY <1>3 DEF BelowTop
    <3>2. CASE a = cur
      BY <1>4, <2>3, <2>8, <3>1, <3>2
    <3>3. CASE a = split
      BY <2>8, <3>1, <3>3
    <3>4. CASE a # cur /\ a # split
      BY <2>4, <2>8, <3>4 DEF BelowTop
    <3> QED
      BY <3>2, <3>3, <3>4
  <2>13. PayloadFits'
    <3> SUFFICES ASSUME NEW b \in used', Roundable(want'[b])  PROVE want'[b] <= size'[b]
      BY DEF PayloadFits, Roundable
    <3>1. CASE b = cur
      BY <1>5, <2>5, <2>9, <3>1
    <3>2. CASE b # cur
      BY <1>6, <2>5, <2>9, <3>2 DEF PayloadFits
    <3> QED
      BY <3>1, <3>2
  <2>14. TypeOK'
    <3>1. Blocks' \subseteq Nat /\ size' \in [Blocks' -> Nat]
      <4>1. size' = [b \in Blocks' |-> size'[b]]
        BY <2>1, <2>4
      <4>2. \A b \in Blocks' : size'[b] \in Nat
        BY <1>4, <2>4, <2>5
      <4> QED
        BY <1>4, <2>3, <2>4, <4>1, <4>2
    <3> QED
      BY <1>1, <1>3, <2>9, <3>1 DEF TypeOK, Idle
  <2> QED
    BY <2>9, <2>11, <2>12, <2>13, <2>14
<1> QED
  BY <1>7, <1>8

LEMMA Preservation == IInv /\ [Next]_vars => IInv'
<1> SUFFICES ASSUME IInv, [Next]_vars  PROVE IInv'
  OBVIOUS
<1>1. CASE UNCHANGED vars
  <2> USE <1>1 DEF vars, IInv
  <2>1. EveryBlockOnce' /\ Tiling' /\ BelowTop'
    BY SameHeap
  <2>2. TypeOK'
    BY DEF TypeOK, Blocks
  <2>3. PayloadFits' /\ ReqFits'
    BY DEF PayloadFits, ReqFits, Roundable
  <2> QED
    BY <2>1, <2>2, <2>3
<1> QED
  BY <1>1, KeepsTake, KeepsNoFit, KeepsExpand, KeepsAgain, KeepsCall, KeepsFree, KeepsRealloc
  DEF Next, KernelStep

LEMMA Invariance == Spec => []IInv
BY Initially, Preservation, PTL DEF Spec

(* Every block is on the free list once or held by one caller, in every    *)
(* history of kmalloc, kfree and krealloc calls.                           *)
THEOREM BlocksOnce == Spec => []EveryBlockOnce
BY Invariance, PTL DEF IInv

(* The blocks of the heap never overlap and leave no byte of it out,       *)
(* whatever the page, header and alignment sizes.                          *)
THEOREM HeapTiled == Spec => []Tiling
BY Invariance, PTL DEF IInv

(* A caller's payload is as large as it asked for, whatever the size,      *)
(* unless rounding it up wraps.                                            *)
THEOREM PayloadsFit == Spec => []PayloadFits
BY Invariance, PTL DEF IInv

(* The heap stays whole: the three together, for every page, header and    *)
(* alignment size and every sequence of calls.                             *)
THEOREM HeapSound == Spec => []BlocksSound
BY Invariance, PTL DEF IInv, BlocksSound

---------------------------------------------------------------------------

\* krealloc calls kmalloc only for more than the old block has, and the old
\* block keeps its size until kmalloc returns.
OldSmaller == req.old # NULL => req.old \in Blocks /\ size[req.old] < req.want

\* A block kmalloc returns has the size searched for, after a split too.
LEMMA TakenLarge ==
    ASSUME IInv, NEW k \in DOMAIN free_list, Take(k)
    PROVE  /\ ret' = free_list[k] /\ ret' \in Nat
           /\ size'[ret'] >= req.size /\ size'[ret'] \in Nat /\ req.size \in Nat
           /\ size'[ret'] < req.size + HDR + ALIGN
<1> DEFINE cur == free_list[k]
<1>0. HDR \in Nat /\ ALIGN \in Nat \ {0}
  BY HeapAssumption
<1>1. cur \in Blocks /\ cur \in Nat /\ size[cur] \in Nat /\ req.size \in Nat
  BY DEF IInv, TypeOK, EveryBlockOnce, Listed
<1>2. ret' = cur /\ size[cur] >= req.size
  BY DEF Take, Finish, Fits
<1>3. CASE size' = size /\ ~Splits(cur)
  BY <1>0, <1>1, <1>2, <1>3 DEF Splits
<1>4. CASE size' = [b \in DOMAIN size \cup {cur + HDR + req.size} |->
                       IF b = cur THEN req.size
                       ELSE IF b = cur + HDR + req.size THEN size[cur] - req.size - HDR
                       ELSE size[b]]
  BY <1>0, <1>1, <1>2, <1>4 DEF Blocks
<1> QED
  BY <1>3, <1>4 DEF Take

\* A size that wraps is rounded to 0.
LEMMA RoundWraps == ASSUME NEW s \in SIZES, ~Roundable(s)  PROVE Round(s) = 0
<1>1. s \in Nat /\ s < WORD /\ ALIGN \in Nat /\ ALIGN > 0 /\ WORD \in Nat /\ ALIGN <= WORD
  BY HeapAssumption
<1> DEFINE t == (s + (ALIGN - 1)) % WORD
<1>2. t = s + (ALIGN - 1) - WORD /\ t \in 0..ALIGN - 1
  BY <1>1 DEF Roundable
<1>3. t % ALIGN = t
  BY <1>1, <1>2
<1> QED
  BY <1>2, <1>3 DEF Round

\* kmalloc searches for 0 bytes when the size asked for wrapped.
WrapsToZero == req.pc # "idle" /\ ~Roundable(req.want) => req.size = 0

LEMMA KeepsWrap == IInv /\ WrapsToZero /\ [Next]_vars => WrapsToZero'
<1> SUFFICES ASSUME IInv, WrapsToZero, [Next]_vars  PROVE WrapsToZero'
  OBVIOUS
<1> USE DEF WrapsToZero, Roundable
<1>1. CASE UNCHANGED vars
  BY <1>1 DEF vars
<1>2. ASSUME NEW k \in DOMAIN free_list, Take(k)  PROVE WrapsToZero'
  BY <1>2 DEF Take, Finish, Idle
<1>3. CASE NoFit
  BY <1>3 DEF NoFit, IInv, TypeOK
<1>4. CASE heap_expand
  BY <1>4 DEF heap_expand, IInv, TypeOK
<1>5. CASE Again
  BY <1>5 DEF Again, Search, Idle
<1>6. ASSUME NEW s \in SIZES, kmalloc(s)  PROVE WrapsToZero'
  BY <1>6, RoundWraps DEF kmalloc, Search, Idle
<1>7. ASSUME NEW a \in used, kfree(a)  PROVE WrapsToZero'
  BY <1>7 DEF kfree, Idle
<1>8. ASSUME NEW a \in used, NEW s \in SIZES, krealloc(a, s)  PROVE WrapsToZero'
  BY <1>8, RoundWraps DEF krealloc, Search, Idle
<1> QED
  BY <1>1, <1>2, <1>3, <1>4, <1>5, <1>6, <1>7, <1>8 DEF Next, KernelStep

LEMMA KeepsOld == IInv /\ OldSmaller /\ [Next]_vars => OldSmaller'
<1> SUFFICES ASSUME IInv, OldSmaller, [Next]_vars  PROVE OldSmaller'
  OBVIOUS
<1>1. CASE UNCHANGED vars
  BY <1>1 DEF vars, OldSmaller, Blocks
<1>2. ASSUME NEW k \in DOMAIN free_list, Take(k)  PROVE OldSmaller'
  BY <1>2 DEF Take, Finish, Idle, OldSmaller
<1>3. CASE NoFit
  BY <1>3 DEF NoFit, OldSmaller, Blocks, IInv, TypeOK
<1>4. CASE heap_expand
  <2>1. req'.old = req.old /\ req'.want = req.want
    BY <1>4 DEF heap_expand, IInv, TypeOK
  <2>2. \A a \in Blocks : a # heap_top
    BY HeapAssumption DEF IInv, BelowTop, End, TypeOK
  <2>3. \A a \in Blocks : a \in Blocks' /\ size'[a] = size[a]
    BY <1>4, <2>2 DEF heap_expand, Grow, Blocks
  <2> QED
    BY <2>1, <2>3 DEF OldSmaller
<1>5. CASE Again
  BY <1>5 DEF Again, Search, Idle, OldSmaller, Blocks
<1>6. ASSUME NEW s \in SIZES, kmalloc(s)  PROVE OldSmaller'
  BY <1>6 DEF kmalloc, Search, Idle, OldSmaller, Blocks
<1>7. ASSUME NEW a \in used, kfree(a)  PROVE OldSmaller'
  BY <1>7 DEF kfree, Idle, OldSmaller
<1>8. ASSUME NEW a \in used, NEW s \in SIZES, krealloc(a, s)  PROVE OldSmaller'
  <2>1. a \in Blocks
    BY DEF IInv, EveryBlockOnce
  <2> QED
    BY <1>8, <2>1 DEF krealloc, Search, Idle, OldSmaller, Blocks
<1> QED
  BY <1>1, <1>2, <1>3, <1>4, <1>5, <1>6, <1>7, <1>8 DEF Next, KernelStep

LEMMA OldInvariance == Spec => [](IInv /\ OldSmaller /\ WrapsToZero)
<1>1. Init => OldSmaller /\ WrapsToZero
  BY DEF Init, Idle, OldSmaller, WrapsToZero
<1> QED
  BY <1>1, Initially, Preservation, KeepsOld, KeepsWrap, PTL DEF Spec

\* What a step that returns a block to krealloc leaves of the two sizes.
LEMMA TakenForOld ==
    ASSUME IInv, OldSmaller, WrapsToZero, NEW k \in DOMAIN free_list, Take(k), req.old # NULL
    PROVE  \/ Roundable(req.want) /\ size[req.old] <= size'[ret']
           \/ ~Roundable(req.want) /\ size'[ret'] < HDR + ALIGN
<1>1. /\ size'[ret'] >= req.size /\ size'[ret'] \in Nat /\ req.size \in Nat
      /\ size'[ret'] < req.size + HDR + ALIGN
  BY TakenLarge
<1>2. req.pc # "idle"
  BY DEF Take
<1>3. CASE Roundable(req.want)
  <2>1. req.want <= req.size /\ req.want \in Nat
    BY <1>2, <1>3 DEF IInv, ReqFits, TypeOK
  <2>2. size[req.old] < req.want /\ size[req.old] \in Nat
    BY DEF OldSmaller, IInv, TypeOK
  <2> QED
    BY <1>1, <1>3, <2>1, <2>2
<1>4. CASE ~Roundable(req.want)
  BY <1>1, <1>2, <1>4, HeapAssumption DEF WrapsToZero
<1> QED
  BY <1>3, <1>4

\* CopyFits, of one step.
CopyFitsStep ==
    /\ req.old # NULL /\ req' = Idle /\ ret' # NULL
         => \/ Roundable(req.want) /\ size[req.old] <= size'[ret']
            \/ ~Roundable(req.want) /\ size'[ret'] < HDR + ALIGN
    /\ corrupt' /\ ~corrupt
         => \/ frames = 0
            \/ ~Roundable(req.want) /\ size[req.old] > size'[ret']

(* For blocks and requests of all sizes: krealloc's copy of the old block  *)
(* stays inside the new one when rounding the size up does not wrap, the   *)
(* new block has less than HDR + ALIGN bytes when it does, and nothing but *)
(* that and exhausted memory corrupts the heap.                            *)
THEOREM CopiesFit == Spec => CopyFits
<1>1. ASSUME IInv, OldSmaller, WrapsToZero, [Next]_vars, ~UNCHANGED vars  PROVE CopyFitsStep
  <2>1. CASE \E k \in DOMAIN free_list : Take(k)
    <3>1. PICK k \in DOMAIN free_list : Take(k)
      BY <2>1
    <3>2. ASSUME req.old # NULL
          PROVE  \/ Roundable(req.want) /\ size[req.old] <= size'[ret']
                 \/ ~Roundable(req.want) /\ size'[ret'] < HDR + ALIGN
      BY <1>1, <3>1, <3>2, TakenForOld
    <3>3. corrupt' => req.old # NULL /\ size[req.old] > size'[ret']
      BY <3>1 DEF Take, Finish, Overruns
    <3>4. req.old # NULL => size[req.old] \in Nat /\ size'[ret'] \in Nat
      BY <1>1, <3>1, TakenLarge DEF OldSmaller, IInv, TypeOK
    <3> QED
      BY <3>2, <3>3, <3>4 DEF CopyFitsStep
  <2>2. ASSUME ~\E k \in DOMAIN free_list : Take(k), req.old # NULL, req' = Idle, ret' # NULL
        PROVE  FALSE
    <3>1. req # Idle
      BY <2>2 DEF Idle
    <3>2. ~NoFit
      BY <1>1, <2>2 DEF NoFit, Idle, IInv, TypeOK
    <3>3. ~heap_expand
      BY <1>1, <2>2, <3>1 DEF heap_expand, Idle, IInv, TypeOK
    <3>4. ~Again
      BY <2>2 DEF Again, Search, Idle
    <3> QED
      BY <1>1, <2>2, <3>1, <3>2, <3>3, <3>4 DEF Next, KernelStep, kmalloc, kfree, krealloc
  <2>3. ASSUME ~\E k \in DOMAIN free_list : Take(k), corrupt', ~corrupt  PROVE frames = 0
    BY <1>1, <2>3 DEF Next, KernelStep, NoFit, heap_expand, Again, kmalloc, kfree, krealloc
  <2> QED
    BY <2>1, <2>2, <2>3 DEF CopyFitsStep
<1>2. IInv /\ OldSmaller /\ WrapsToZero /\ [Next]_vars => [CopyFitsStep]_vars
  BY <1>1
<1>3. Spec => [][CopyFitsStep]_vars
  BY <1>2, OldInvariance, PTL DEF Spec
<1> QED
  BY <1>3 DEF CopyFits, CopyFitsStep

-----------------------------------------------------------------------------
(* ByteRoutines: how far a call has come. *)

CallType == [op : Ops, dest : 0..SIZE, src : 0..SIZE, count : 0..SIZE, ch : Byte]

\* The bytes a turn has already been about: the last ones going down, the
\* first ones going up.
DoneFrom == IF Backwards(call) THEN i ELSE 0
DoneTo == IF Backwards(call) THEN call.count ELSE i

\* What byte k of the destination is to become.
Target(k) == IF call.op = "memset" THEN call.ch ELSE old[call.src + k]

\* The bytes done have their value, all others are as before the call.
HalfMoved ==
    \A a \in Address :
        mem[a] = IF call.dest + DoneFrom <= a /\ a < call.dest + DoneTo
                 THEN Target(a - call.dest) ELSE old[a]

\* memcmp has met no difference so far.
HalfCompared == \A k \in 0..i - 1 : mem[call.dest + k] = mem[call.src + k]

\* The inductive invariant: how far the loop of the call has come.
BytesInv ==
    /\ mem \in [Address -> Byte] /\ old \in [Address -> Byte] /\ i \in Nat
    /\ result \in {-1, 0, 1}
    /\ call = None \/ (call \in CallType /\ Legal(call))
    /\ call = None => i = 0
    /\ call # None => /\ i <= call.count
                      /\ call.op # "memcmp" => HalfMoved
                      /\ call.op = "memcmp" => HalfCompared

LEMMA InitHolds == BytesInit => BytesInv
BY BytesAssumption DEF BytesInit, BytesInv, None

\* A call in progress is not None, whose operation is no operation.
LEMMA InCall == ASSUME BytesInv, call.op \in Ops
                PROVE  call # None /\ call \in CallType /\ Legal(call)
BY DEF BytesInv, None, Ops

LEMMA CallStep ==
    ASSUME BytesInv, NEW c \in CallType, Call(c)
    PROVE  BytesInv'
<1>1. /\ mem' = mem /\ old' = mem /\ result' = result /\ call' = c /\ Legal(c)
      /\ i' = IF Backwards(c) THEN c.count ELSE 0
  BY DEF Call
<1>2. c.count \in Nat /\ c.dest \in Nat /\ c.op \in Ops /\ c # None
  BY BytesAssumption DEF CallType, None, Ops
<1>3. i' \in Nat /\ i' <= c.count
  BY <1>1, <1>2
<1>4. HalfMoved'
  <2>1. DoneFrom' = DoneTo'
    BY <1>1 DEF DoneFrom, DoneTo, Backwards
  <2>2. DoneFrom' \in Nat
    BY <1>1, <1>2 DEF DoneFrom, Backwards
  <2> QED
    BY <1>1, <1>2, <2>1, <2>2, BytesAssumption DEF HalfMoved, Address
<1>5. c.op = "memcmp" => HalfCompared'
  BY <1>1, <1>2 DEF HalfCompared, Backwards
<1> QED
  BY <1>1, <1>2, <1>3, <1>4, <1>5 DEF BytesInv, Legal

\* Where a turn of memcpy or memmove reads, no earlier turn has written.
LEMMA SourceFresh ==
    ASSUME BytesInv, call.op \in {"memcpy", "memmove"}, ~Over
    PROVE  /\ Turn \in 0..call.count - 1
           /\ call.dest + Turn \in Address /\ call.src + Turn \in Address
           /\ mem[call.src + Turn] = old[call.src + Turn]
<1>1. /\ call \in CallType /\ Legal(call) /\ call # None
  BY InCall DEF Ops
<1>2. /\ call.dest \in Nat /\ call.src \in Nat /\ call.count \in Nat
      /\ SIZE \in Nat /\ i \in Nat /\ i <= call.count
  BY <1>1, BytesAssumption DEF CallType, BytesInv
<1>3. Turn \in 0..call.count - 1
  BY <1>1, <1>2 DEF Turn, Over
<1>4. call.dest + Turn \in Address /\ call.src + Turn \in Address
  BY <1>1, <1>2, <1>3 DEF Address, Legal
<1>5. ~(call.dest + DoneFrom <= call.src + Turn /\ call.src + Turn < call.dest + DoneTo)
  <2>1. CASE call.op = "memcpy"
    BY <1>1, <1>2, <1>3, <2>1 DEF Legal, Turn, DoneFrom, DoneTo, Backwards
  <2>2. CASE call.op = "memmove" /\ call.src < call.dest
    BY <1>2, <2>2 DEF Turn, DoneFrom, DoneTo, Backwards
  <2>3. CASE call.op = "memmove" /\ call.src > call.dest
    BY <1>2, <2>3 DEF Turn, DoneFrom, DoneTo, Backwards
  <2>4. CASE call.op = "memmove" /\ call.src = call.dest
    BY <1>1, <2>4 DEF Over, OntoItself
  <2> QED
    BY <1>2, <2>1, <2>2, <2>3, <2>4
<1>6. HalfMoved
  BY <1>1 DEF BytesInv
<1> QED
  BY <1>3, <1>4, <1>5, <1>6 DEF HalfMoved

\* One more byte done: what Copy and Set have in common.
LEMMA OneMore ==
    ASSUME BytesInv, call # None, call.op # "memcmp", ~Over, Turn \in 0..call.count - 1,
           call.dest + Turn \in Address, Target(Turn) \in Byte,
           mem' = [mem EXCEPT ![call.dest + Turn] = Target(Turn)],
           i' = IF Backwards(call) THEN i - 1 ELSE i + 1,
           UNCHANGED <<call, result, old>>
    PROVE  BytesInv'
<1>1. call \in CallType /\ Legal(call)
  BY DEF BytesInv
<1>2. /\ call.dest \in Nat /\ call.count \in Nat /\ SIZE \in Nat
      /\ i \in Nat /\ i <= call.count
  BY <1>1, BytesAssumption DEF CallType, BytesInv
<1>3. i' \in Nat /\ i' <= call.count /\ mem' \in [Address -> Byte]
  BY <1>2 DEF Turn, BytesInv
<1>4. \A k : Target(k)' = Target(k)
  BY DEF Target
<1>5. \A a \in Address :
         (call.dest + DoneFrom <= a /\ a < call.dest + DoneTo)'
           <=> \/ call.dest + DoneFrom <= a /\ a < call.dest + DoneTo
               \/ a = call.dest + Turn
  BY <1>2 DEF DoneFrom, DoneTo, Turn, Backwards, Address
<1>6. HalfMoved
  BY DEF BytesInv
<1>7. HalfMoved'
  <2> SUFFICES ASSUME NEW a \in Address
               PROVE  mem'[a] = IF (call.dest + DoneFrom <= a /\ a < call.dest + DoneTo)'
                                THEN Target(a - call.dest) ELSE old[a]
    BY <1>4 DEF HalfMoved, Address
  <2>1. CASE a = call.dest + Turn
    <3>1. a - call.dest = Turn
      BY <1>2, <2>1
    <3>2. mem'[a] = Target(Turn)
      BY <2>1 DEF BytesInv
    <3> QED
      BY <1>5, <2>1, <3>1, <3>2
  <2>2. CASE a # call.dest + Turn
    <3>1. mem'[a] = mem[a]
      BY <2>2 DEF BytesInv
    <3> QED
      BY <1>5, <1>6, <2>2, <3>1 DEF HalfMoved
  <2> QED
    BY <2>1, <2>2
<1> QED
  BY <1>1, <1>3, <1>7 DEF BytesInv, Legal

LEMMA CopyStep == ASSUME BytesInv, Copy PROVE BytesInv'
<1>1. call # None /\ call.op # "memcmp" /\ call.op # "memset"
  BY InCall DEF Copy, Ops
<1>2. /\ Turn \in 0..call.count - 1 /\ call.dest + Turn \in Address
      /\ call.src + Turn \in Address /\ mem[call.src + Turn] = old[call.src + Turn]
  BY SourceFresh DEF Copy
<1>3. Target(Turn) = mem[call.src + Turn] /\ Target(Turn) \in Byte
  BY <1>1, <1>2 DEF Target, BytesInv
<1> QED
  BY <1>1, <1>2, <1>3, OneMore DEF Copy

LEMMA SetStep == ASSUME BytesInv, Set PROVE BytesInv'
<1>1. call # None /\ call \in CallType /\ Legal(call) /\ ~Backwards(call)
  BY InCall DEF Set, Ops, Backwards
<1>2. /\ call.dest \in Nat /\ call.count \in Nat /\ SIZE \in Nat
      /\ i \in Nat /\ i <= call.count
  BY <1>1, BytesAssumption DEF CallType, BytesInv
<1>3. Turn = i /\ Turn \in 0..call.count - 1
  BY <1>1, <1>2 DEF Turn, Set, Over
<1>4. call.dest + Turn \in Address
  BY <1>1, <1>2, <1>3 DEF Legal, Address
<1>5. Target(Turn) = call.ch /\ Target(Turn) \in Byte
  BY <1>1 DEF Target, Set, CallType
<1> QED
  BY <1>1, <1>3, <1>4, <1>5, OneMore DEF Set

\* The two bytes a turn of memcmp looks at are in memory.
LEMMA CompareIn ==
    ASSUME BytesInv, Compare
    PROVE  /\ call # None /\ call \in CallType /\ Legal(call) /\ ~Backwards(call)
           /\ i \in 0..call.count - 1 /\ call.count \in Nat
           /\ call.dest + i \in Address /\ call.src + i \in Address
           /\ mem[call.dest + i] \in Nat /\ mem[call.src + i] \in Nat
<1>1. call # None /\ call \in CallType /\ Legal(call) /\ ~Backwards(call)
  BY InCall DEF Compare, Ops, Backwards
<1>2. /\ call.dest \in Nat /\ call.src \in Nat /\ call.count \in Nat /\ SIZE \in Nat
      /\ i \in Nat /\ i <= call.count
  BY <1>1, BytesAssumption DEF CallType, BytesInv
<1>3. i \in 0..call.count - 1
  BY <1>1, <1>2 DEF Compare, Over
<1>4. call.dest + i \in Address /\ call.src + i \in Address
  BY <1>1, <1>2, <1>3 DEF Legal, Address
<1> QED
  BY <1>1, <1>2, <1>3, <1>4, BytesAssumption DEF BytesInv

LEMMA CompareStep == ASSUME BytesInv, Compare PROVE BytesInv'
<1> DEFINE o == Order(mem[call.dest + i], mem[call.src + i])
<1>1. /\ call # None /\ call \in CallType /\ Legal(call) /\ call.op = "memcmp"
      /\ i \in 0..call.count - 1 /\ call.count \in Nat
      /\ mem[call.dest + i] \in Nat /\ mem[call.src + i] \in Nat
  BY CompareIn DEF Compare
<1>2. /\ i' = (IF o = 0 THEN i + 1 ELSE 0) /\ call' = (IF o = 0 THEN call ELSE None)
      /\ result' = o /\ mem' = mem /\ old' = old
  BY DEF Compare
<1>3. o \in {-1, 0, 1} /\ (o = 0 => mem[call.dest + i] = mem[call.src + i])
  BY <1>1 DEF Order
<1> HIDE DEF o
<1>4. CASE o = 0
  <2>1. HalfCompared
    BY <1>1 DEF BytesInv
  <2>2. call' = call /\ i' = i + 1
    BY <1>2, <1>4
  <2>3. HalfCompared'
    BY <1>1, <1>2, <1>3, <1>4, <2>1, <2>2 DEF HalfCompared
  <2> QED
    BY <1>1, <1>2, <1>3, <1>4, <2>2, <2>3 DEF BytesInv, Legal
<1>5. CASE o # 0
  BY <1>2, <1>3, <1>5 DEF BytesInv
<1> QED
  BY <1>4, <1>5

LEMMA ReturnStep == ASSUME BytesInv, Return PROVE BytesInv'
BY DEF Return, BytesInv

LEMMA BytesInductive == BytesInv /\ [BytesNext]_byteVars => BytesInv'
<1> SUFFICES ASSUME BytesInv, [BytesNext]_byteVars PROVE BytesInv'
  OBVIOUS
<1>1. CASE UNCHANGED byteVars
  BY <1>1 DEF byteVars, BytesInv, HalfMoved, HalfCompared, DoneFrom, DoneTo, Target, Legal, Backwards
<1>2. ASSUME NEW op \in Ops, NEW d \in 0..SIZE, NEW s \in 0..SIZE, NEW n \in 0..SIZE,
             NEW c \in Byte,
             Call([op |-> op, dest |-> d, src |-> s, count |-> n, ch |-> c])
      PROVE  BytesInv'
  <2>1. [op |-> op, dest |-> d, src |-> s, count |-> n, ch |-> c] \in CallType
    BY DEF CallType
  <2> QED
    BY <1>2, <2>1, CallStep
<1>3. CASE Copy
  BY <1>3, CopyStep
<1>4. CASE Set
  BY <1>4, SetStep
<1>5. CASE Compare
  BY <1>5, CompareStep
<1>6. CASE Return
  BY <1>6, ReturnStep
<1> QED
  BY <1>1, <1>2, <1>3, <1>4, <1>5, <1>6 DEF BytesNext

LEMMA BytesInvariant == BytesSpec => []BytesInv
BY InitHolds, BytesInductive, PTL DEF BytesSpec

\* In a memory of any size, memset, memcpy and memmove leave exactly the bytes
\* asked for, however source and destination overlap.
THEOREM Moves == BytesSpec => []MoveExact
<1>1. BytesInv => MoveExact
  <2> SUFFICES ASSUME BytesInv, Over, call.op # "memcmp"
               PROVE  mem = Moved(call, old)
    BY DEF MoveExact
  <2>1. call # None /\ call \in CallType /\ HalfMoved
    BY DEF Over, BytesInv
  <2>2. /\ call.dest \in Nat /\ call.src \in Nat /\ call.count \in Nat
        /\ SIZE \in Nat /\ i \in Nat
    BY <2>1, BytesAssumption DEF CallType, BytesInv
  <2>3. \A a \in Address : mem[a] = Moved(call, old)[a]
    <3>1. CASE OntoItself(call)
      <4>1. call.op # "memset" /\ call.src = call.dest
        BY <3>1 DEF OntoItself
      <4>2. \A a \in Address : call.src + (a - call.dest) = a
        BY <2>2, <4>1 DEF Address
      <4>3. \A a \in Address : mem[a] = old[a]
        BY <2>1, <4>1, <4>2 DEF HalfMoved, Target
      <4> QED
        BY <4>1, <4>2, <4>3 DEF Moved
    <3>2. CASE ~OntoItself(call)
      <4>1. DoneFrom = 0 /\ DoneTo = call.count
        BY <2>1, <3>2 DEF Over, DoneFrom, DoneTo
      <4>2. \A a \in Address : a \in call.dest..call.dest + call.count - 1
                                 <=> call.dest + 0 <= a /\ a < call.dest + call.count
        BY <2>2 DEF Address
      <4> QED
        BY <2>1, <4>1, <4>2 DEF HalfMoved, Moved, Target
    <3> QED
      BY <3>1, <3>2
  <2>4. mem \in [Address -> Byte] /\ DOMAIN Moved(call, old) = Address
    BY DEF BytesInv, Moved
  <2>5. mem = [a \in Address |-> mem[a]] /\ Moved(call, old) = [a \in Address |-> Moved(call, old)[a]]
    BY <2>4 DEF Moved
  <2> QED
    BY <2>3, <2>5
<1> QED
  BY <1>1, BytesInvariant, PTL

\* In a memory of any size, memcmp answers 0 exactly for equal areas, and by
\* the first byte that differs otherwise.
THEOREM Compares == BytesSpec => CompareExact
<1> DEFINE at(k) == <<mem[call.dest + k], mem[call.src + k]>>
           differ == {k \in 0..call.count - 1 : at(k)[1] # at(k)[2]}
           Answer == IF differ = {} THEN result' = 0
                     ELSE \E k \in differ : /\ \A m \in differ : k <= m
                                            /\ result' = IF at(k)[1] > at(k)[2] THEN -1 ELSE 1
<1>1. ASSUME BytesInv, BytesNext, call.op = "memcmp", call' = None
      PROVE  Answer
  <2>1. call # None /\ call \in CallType /\ HalfCompared
    BY <1>1, InCall DEF Ops, BytesInv
  <2>2. CASE Return
    <3>1. i = call.count /\ result' = 0
      BY <1>1, <2>2 DEF Return, Over, OntoItself, Backwards
    <3>2. differ = {}
      BY <2>1, <3>1 DEF HalfCompared
    <3> QED
      BY <3>1, <3>2
  <2>3. CASE Compare
    <3> DEFINE x == mem[call.dest + i]
               y == mem[call.src + i]
    <3>1. i \in 0..call.count - 1 /\ call.count \in Nat /\ x \in Nat /\ y \in Nat
      BY <1>1, <2>3, CompareIn
    <3>2. result' = Order(x, y) /\ Order(x, y) # 0
      BY <1>1, <2>1, <2>3 DEF Compare
    <3>3. x # y /\ result' = IF x > y THEN -1 ELSE 1
      BY <3>1, <3>2 DEF Order
    <3>4. i \in differ
      BY <3>1, <3>3
    <3>5. \A m \in differ : i <= m
      BY <2>1, <3>1 DEF HalfCompared
    <3> QED
      BY <3>3, <3>4, <3>5
  <2>4. CASE Copy \/ Set
    BY <1>1, <2>1, <2>4 DEF Copy, Set
  <2>5. ASSUME NEW c, Call(c)
        PROVE  FALSE
    BY <2>1, <2>5 DEF Call
  <2> QED
    BY <1>1, <2>2, <2>3, <2>4, <2>5 DEF BytesNext
<1>2. BytesInv /\ [BytesNext]_byteVars => [call.op = "memcmp" /\ call' = None => Answer]_byteVars
  BY <1>1 DEF byteVars
<1> QED
  BY <1>2, BytesInvariant, PTL DEF BytesSpec, CompareExact
=============================================================================
