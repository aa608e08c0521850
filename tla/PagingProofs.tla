---------------------------- MODULE PagingProofs ----------------------------
(***************************************************************************)
(* Proofs about Paging, for any number of levels, of entries per table, of *)
(* frames and for ranges of any length: TablesSound, TlbCoherent and       *)
(* OthersUntouched.                                                        *)
(*                                                                         *)
(* The invariant gives every frame a level: LEVELS for the top of an       *)
(* address space, 0 for a frame that is no table (yet).  A present entry   *)
(* of a table leads to a table one level below, and no two entries lead to *)
(* the same one, but for the top-level entries of the kernel half.  So two *)
(* walks that meet have met in the same entries all the way up, and a      *)
(* store changes only the page it was made for.                            *)
(***************************************************************************)
EXTENDS Paging, WellFoundedInduction, TLAPS

(***************************************************************************)
(* Induction over levels.                                                  *)
(***************************************************************************)

(* A non-empty set of numbers has a least element. *)
LEMMA LeastNumber ==
    ASSUME NEW S \in SUBSET Nat, S # {}
    PROVE  \E x \in S : \A y \in S : x <= y
<1>1. IsWellFoundedOn(OpToRel(<, Nat), Nat)
    BY NatLessThanWellFounded
<1>2. PICK x \in S : \A y \in S : ~(<<y, x>> \in OpToRel(<, Nat))
    BY <1>1, WFMin
<1>3. \A y \in S : ~(y < x)
    BY <1>2 DEF OpToRel
<1> QED
    BY <1>3

(* What holds at the top and is passed on to the level below holds down to *)
(* level a.                                                                *)
LEMMA Downward ==
    ASSUME NEW a \in Nat, NEW b \in Nat, a <= b, NEW S, b \in S,
           \A l \in a + 1 .. b : l \in S => l - 1 \in S
    PROVE  \A l \in a .. b : l \in S
<1> DEFINE T == {l \in a .. b : \A m \in l .. b : m \in S}
<1>1. T \in SUBSET Nat /\ b \in T
    OBVIOUS
<1>2. PICK x \in T : \A y \in T : x <= y
    BY <1>1, LeastNumber
<1>3. x = a
  <2> SUFFICES ASSUME x > a PROVE FALSE
      BY <1>2
  <2>1. x \in a + 1 .. b /\ x \in S
      BY <1>2
  <2>2. x - 1 \in S /\ x - 1 \in a .. b
      BY <2>1
  <2>3. \A m \in x - 1 .. b : m = x - 1 \/ m \in x .. b
      BY <2>1
  <2>4. x - 1 \in T
      BY <1>2, <2>2, <2>3
  <2> QED
      BY <1>2, <2>1, <2>4
<1> QED
    BY <1>2, <1>3

(* The same, down to level 1. *)
LEMMA DownToOne ==
    ASSUME NEW b \in Nat, 1 <= b, NEW S, b \in S, \A l \in 2..b : l \in S => l - 1 \in S
    PROVE  \A l \in 1..b : l \in S
<1>1. PICK a \in Nat : a = 1
    OBVIOUS
<1>2. \A l \in a + 1 .. b : l \in S => l - 1 \in S
    BY <1>1
<1>3. \A l \in a .. b : l \in S
    BY <1>1, <1>2, Downward
<1> QED
    BY <1>1, <1>3

(* The same upwards. *)
LEMMA Upward ==
    ASSUME NEW a \in Nat, NEW b \in Nat, a <= b, NEW S, a \in S,
           \A l \in a .. b - 1 : l \in S => l + 1 \in S
    PROVE  b \in S
<1> DEFINE T == {l \in a .. b : l \notin S}
<1> SUFFICES ASSUME b \notin S PROVE FALSE
    OBVIOUS
<1>1. T \in SUBSET Nat /\ b \in T
    OBVIOUS
<1>2. PICK x \in T : \A y \in T : x <= y
    BY <1>1, LeastNumber
<1>3. x \in a .. b /\ x \notin S /\ x # a
    BY <1>2
<1>4. x - 1 \in a .. b - 1 /\ x - 1 \notin T
    BY <1>2, <1>3
<1>5. x - 1 \in S
    BY <1>4
<1> QED
    BY <1>3, <1>4, <1>5

(***************************************************************************)
(* The indices of a page determine it.                                     *)
(***************************************************************************)

LEMMA Quotient ==
    ASSUME NEW a \in Nat, NEW n \in Nat \ {0}
    PROVE  /\ a \div n \in Nat
           /\ n * (a \div n) <= a /\ a < n * (a \div n) + n
    OBVIOUS

(* The quotient is the only such number. *)
LEMMA QuotientOnly ==
    ASSUME NEW a \in Nat, NEW n \in Nat \ {0}, NEW q \in Nat,
           n * q <= a, a < n * q + n
    PROVE  q = a \div n
<1>1. PICK p \in Nat : p = a \div n /\ n * p <= a /\ a < n * p + n
    BY Quotient
<1>2. n * q < n * (p + 1) /\ n * p < n * (q + 1)
    BY <1>1
<1>3. q < p + 1 /\ p < q + 1
    BY <1>2
<1> QED
    BY <1>1, <1>3

(* Dividing in two steps. *)
LEMMA QuotientTwice ==
    ASSUME NEW a \in Nat, NEW n \in Nat \ {0}, NEW m \in Nat \ {0}
    PROVE  (a \div n) \div m = a \div (m * n)
<1>1. PICK q \in Nat : q = a \div n /\ n * q <= a /\ a < n * q + n
    BY Quotient
<1>2. PICK r \in Nat : r = q \div m /\ m * r <= q /\ q < m * r + m
    BY Quotient
<1>3. PICK k \in Nat \ {0} : k = m * n
    OBVIOUS
<1>4. n * (m * r) <= n * q /\ n * (q + 1) <= n * (m * r + m)
    BY <1>2
<1>5. n * (m * r) = k * r /\ n * (m * r + m) = k * r + k
    BY <1>3
<1>6. k * r <= a /\ a < k * r + k
    BY <1>1, <1>4, <1>5
<1> QED
    BY <1>1, <1>2, <1>3, <1>6, QuotientOnly

(* The powers of IDX are positive. *)
LEMMA Powers ==
    /\ \A k \in 0..LEVELS : IDX^k \in Nat \ {0}
    /\ \A k \in 0..LEVELS - 1 : IDX^(k + 1) = IDX * IDX^k
<1> USE PagingAssumption, PowerAssumption
<1> DEFINE S == {k \in 0..LEVELS : IDX^k \in Nat \ {0}}
<1>1. 0 \in S
    OBVIOUS
<1>2. ASSUME NEW k \in 0..LEVELS - 1, k \in S PROVE k + 1 \in S
  <2>1. IDX^k \in Nat \ {0} /\ IDX^(k + 1) = IDX * IDX^k /\ k + 1 \in 0..LEVELS
      BY <1>2
  <2> QED
      BY <2>1
<1>3. ASSUME NEW n \in 0..LEVELS PROVE n \in S
  <2>1. \A k \in 0..n - 1 : k \in S => k + 1 \in S
      BY <1>2
  <2> HIDE DEF S
  <2> QED
      BY <1>1, <2>1, Upward
<1> QED
    BY <1>3

(* A page is determined by its indices at all levels. *)
LEMMA SameIndices ==
    ASSUME NEW v \in VPage, NEW w \in VPage, \A l \in 1..LEVELS : Index(v, l) = Index(w, l)
    PROVE  v = w
<1> USE PagingAssumption
<1> DEFINE S == {k \in 0..LEVELS : v \div IDX^k = w \div IDX^k}
<1>0. v \in Nat /\ w \in Nat /\ v < IDX^LEVELS /\ w < IDX^LEVELS /\ IDX^LEVELS \in Nat \ {0}
    BY Powers DEF VPage
<1>1. LEVELS \in S
  <2>1. PICK P \in Nat \ {0} : P = IDX^LEVELS
      BY <1>0
  <2>2. v \div P = 0 /\ w \div P = 0
      BY <1>0, <2>1
  <2> QED
      BY <2>1, <2>2
<1>2. ASSUME NEW l \in 1..LEVELS, l \in S PROVE l - 1 \in S
  <2>1. l - 1 \in 0..LEVELS - 1 /\ l - 1 + 1 = l
      OBVIOUS
  <2>2. IDX^(l - 1) \in Nat \ {0} /\ IDX^l = IDX * IDX^(l - 1)
      BY <2>1, Powers
  <2>3. PICK P \in Nat \ {0} : P = IDX^(l - 1)
      BY <2>2
  <2>4. PICK a \in Nat : a = v \div P
      BY <1>0, Quotient
  <2>5. PICK b \in Nat : b = w \div P
      BY <1>0, Quotient
  <2>6. a \div IDX = b \div IDX
      BY <1>0, <1>2, <2>2, <2>3, <2>4, <2>5, QuotientTwice
  <2>7. a % IDX = b % IDX
      BY <2>3, <2>4, <2>5 DEF Index
  <2>8. a = b
      BY <2>6, <2>7
  <2> QED
      BY <2>1, <2>3, <2>4, <2>5, <2>8
<1>3. 0 \in S
  <2>1. PICK a \in Nat : a = 0
      OBVIOUS
  <2>2. \A l \in a + 1 .. LEVELS : l \in S => l - 1 \in S
      BY <1>2, <2>1
  <2> HIDE DEF S
  <2>3. \A l \in a .. LEVELS : l \in S
    <3>1. LEVELS \in Nat /\ a <= LEVELS
        BY <2>1
    <3> QED
        BY <1>1, <2>2, <3>1, Downward, SMTT(40)
  <2> QED
      BY <2>1, <2>3
<1> QED
    BY <1>0, <1>3, PowerAssumption

(* An index is an index. *)
LEMMA IndexType ==
    ASSUME NEW v \in Nat, NEW l \in 1..LEVELS
    PROVE  Index(v, l) \in Idx
<1>1. l - 1 \in 0..LEVELS
    BY PagingAssumption
<1>2. PICK P \in Nat \ {0} : P = IDX^(l - 1)
    BY <1>1, Powers
<1>3. PICK a \in Nat : a = v \div P
    BY Quotient
<1>4. a % IDX \in 0..IDX - 1
    BY PagingAssumption
<1> QED
    BY <1>2, <1>3, <1>4 DEF Index, Idx

(***************************************************************************)
(* Walks, for any contents tb of the tables.                               *)
(***************************************************************************)

\* The table of the level below, or the entry, that entry j of table up is.
Below(tb, up, j) == IF up \in Tables THEN tb[up][j] ELSE NP

\* The walk of Entry, for contents tb.
WalkOf(tb, t, v) ==
    LET walk[l \in 1..LEVELS] ==
            IF l = LEVELS THEN t
            ELSE LET up == walk[l + 1]
                 IN  IF up \in Tables THEN tb[up][Index(v, l + 1)] ELSE NP
    IN  walk

EntryOf(tb, t, v) == Below(tb, WalkOf(tb, t, v)[1], Index(v, 1))

(* Entry and its value after a step. *)
LEMMA EntryIs ==
    ASSUME NEW t, NEW v
    PROVE  Entry(t, v) = EntryOf(tab, t, v) /\ Entry(t, v)' = EntryOf(tab', t, v)
    BY Zenon DEF Entry, EntryOf, WalkOf, Below

(* w is the walk of page v from table t. *)
Walk(w, tb, t, v) ==
    /\ w[LEVELS] = t
    /\ \A l \in 1..LEVELS - 1 : w[l] = Below(tb, w[l + 1], Index(v, l + 1))

(* The recursion of Entry defines a walk. *)
LEMMA WalkExists ==
    ASSUME NEW tb, NEW t, NEW v
    PROVE  Walk(WalkOf(tb, t, v), tb, t, v)
<1> USE PagingAssumption
<1> DEFINE Part(a, f) == f = [l \in a..LEVELS |-> IF l = LEVELS THEN t
                                                  ELSE Below(tb, f[l + 1], Index(v, l + 1))]
           S == {a \in 1..LEVELS : \E f : Part(a, f)}
<1>1. LEVELS \in S
  <2>1. Part(LEVELS, [l \in LEVELS..LEVELS |-> t])
      OBVIOUS
  <2>2. LEVELS \in 1..LEVELS
      OBVIOUS
  <2>3. \E f : Part(LEVELS, f)
      BY <2>1, Zenon
  <2> HIDE DEF Part
  <2> QED
      BY <2>2, <2>3
<1>2. ASSUME NEW a \in 2..LEVELS, a \in S PROVE a - 1 \in S
  <2>1. PICK f : Part(a, f)
      BY <1>2
  <2> DEFINE g == [l \in a - 1..LEVELS |-> IF l = a - 1 THEN Below(tb, f[a], Index(v, a)) ELSE f[l]]
  <2>2. ASSUME NEW l \in a - 1..LEVELS
        PROVE  g[l] = IF l = LEVELS THEN t ELSE Below(tb, g[l + 1], Index(v, l + 1))
    <3>1. CASE l = a - 1
      <4>1. l # LEVELS /\ l + 1 = a /\ a \in a - 1..LEVELS /\ a # a - 1
          BY <3>1
      <4>2. g[l] = Below(tb, f[a], Index(v, a)) /\ g[a] = f[a]
          BY <3>1, <4>1
      <4> QED
          BY <4>1, <4>2
    <3>2. CASE l # a - 1 /\ l # LEVELS
      <4>1. l \in a..LEVELS /\ l + 1 \in a - 1..LEVELS /\ l + 1 # a - 1
          BY <3>2
      <4>2. g[l] = f[l] /\ g[l + 1] = f[l + 1]
          BY <3>2, <4>1
      <4>3. f[l] = Below(tb, f[l + 1], Index(v, l + 1))
          BY <2>1, <3>2, <4>1
      <4> QED
          BY <3>2, <4>2, <4>3
    <3>3. CASE l = LEVELS /\ l # a - 1
      <4>1. l \in a..LEVELS /\ g[l] = f[l]
          BY <3>3
      <4>2. f[l] = t
          BY <2>1, <3>3, <4>1
      <4> QED
          BY <3>3, <4>1, <4>2
    <3> QED
        BY <3>1, <3>2, <3>3
  <2>3. g = [l \in a - 1..LEVELS |-> g[l]]
      OBVIOUS
  <2> HIDE DEF g
  <2>4. Part(a - 1, g)
      BY <2>2, <2>3, Zenon
  <2> QED
      BY <2>4
<1>3. 1 \in S
  <2>1. \A l \in 2..LEVELS : l \in S => l - 1 \in S
      BY <1>2
  <2> HIDE DEF S
  <2>2. \A l \in 1..LEVELS : l \in S
      BY <1>1, <2>1, DownToOne
  <2> QED
      BY <2>2
<1>4. PICK f : Part(1, f)
    BY <1>3
<1> DEFINE w == WalkOf(tb, t, v)
<1>5. w = CHOOSE g : Part(1, g)
    BY Zenon DEF WalkOf, Below
<1>6. Part(1, w)
  <2> HIDE DEF w, Part
  <2> QED
      BY <1>4, <1>5, Zenon
<1> HIDE DEF w
<1>7. w[LEVELS] = t
    BY <1>6
<1>8. ASSUME NEW l \in 1..LEVELS - 1 PROVE w[l] = Below(tb, w[l + 1], Index(v, l + 1))
  <2>1. l \in 1..LEVELS /\ l # LEVELS
      OBVIOUS
  <2> QED
      BY <1>6, <2>1
<1> QED
    BY <1>7, <1>8 DEF Walk, w

(* Two walks of one page that meet go on together. *)
LEMMA WalksJoin ==
    ASSUME NEW tb, NEW t, NEW u, NEW v, NEW w, NEW x, Walk(w, tb, t, v), Walk(x, tb, u, v),
           NEW m \in 1..LEVELS, w[m] = x[m]
    PROVE  w[1] = x[1]
<1> USE PagingAssumption
<1> DEFINE S == {l \in 1..m : w[l] = x[l]}
<1>1. ASSUME NEW l \in 2..m, l \in S PROVE l - 1 \in S
  <2>1. l - 1 \in 1..LEVELS - 1 /\ l - 1 + 1 = l /\ l - 1 \in 1..m
      OBVIOUS
  <2>2. w[l - 1] = Below(tb, w[l], Index(v, l)) /\ x[l - 1] = Below(tb, x[l], Index(v, l))
      BY <2>1 DEF Walk
  <2> QED
      BY <1>1, <2>1, <2>2
<1>2. m \in S
    OBVIOUS
<1> HIDE DEF S
<1>3. \A l \in 1..m : l \in S
    BY <1>1, <1>2, DownToOne
<1> QED
    BY <1>3 DEF S

(* A walk that meets no entry that changes stays the same. *)
LEMMA WalkStays ==
    ASSUME NEW tb, NEW tc, NEW t, NEW v, NEW w, NEW x, Walk(w, tb, t, v), Walk(x, tc, t, v),
           NEW a \in 1..LEVELS,
           \A l \in a + 1..LEVELS : w[l] \in Tables => tc[w[l]][Index(v, l)] = tb[w[l]][Index(v, l)]
    PROVE  \A l \in a..LEVELS : w[l] = x[l]
<1> USE PagingAssumption
<1> DEFINE S == {l \in a..LEVELS : w[l] = x[l]}
<1>1. ASSUME NEW l \in a + 1..LEVELS, l \in S PROVE l - 1 \in S
  <2>1. l - 1 \in 1..LEVELS - 1 /\ l - 1 + 1 = l /\ l - 1 \in a..LEVELS
      OBVIOUS
  <2>2. w[l - 1] = Below(tb, w[l], Index(v, l)) /\ x[l - 1] = Below(tc, w[l], Index(v, l))
      BY <1>1, <2>1 DEF Walk
  <2> QED
      BY <2>1, <2>2 DEF Below
<1>2. LEVELS \in S
    BY DEF Walk
<1> HIDE DEF S
<1>3. \A l \in a..LEVELS : l \in S
    BY <1>1, <1>2, Downward
<1> QED
    BY <1>3 DEF S

(* An entry behind a missing table is not present. *)
LEMMA WalkMisses ==
    ASSUME NEW tb, NEW t, NEW v, NEW w, Walk(w, tb, t, v), NEW m \in 1..LEVELS, w[m] \notin Tables
    PROVE  Below(tb, w[1], Index(v, 1)) = NP
<1> USE PagingAssumption
<1>0. NP \notin Tables
    BY DEF Tables, PhysZero
<1> DEFINE S == {l \in 1..m : w[l] \notin Tables}
<1>1. ASSUME NEW l \in 2..m, l \in S PROVE l - 1 \in S
  <2>1. l - 1 \in 1..LEVELS - 1 /\ l - 1 + 1 = l /\ l - 1 \in 1..m
      OBVIOUS
  <2>2. w[l - 1] = NP
      BY <1>1, <2>1 DEF Walk, Below
  <2> QED
      BY <1>0, <2>1, <2>2
<1>2. m \in S
    OBVIOUS
<1> HIDE DEF S
<1>3. \A l \in 1..m : l \in S
    BY <1>1, <1>2, DownToOne
<1>4. 1 \in S
    BY <1>3
<1> QED
    BY <1>4 DEF S, Below

(***************************************************************************)
(* The tables form a forest.                                               *)
(***************************************************************************)

\* A present entry of a table of level 2 or more leads one level down ...
Leads(lev, tb) ==
    \A t \in Tables, j \in Idx :
        lev[t] >= 2 /\ tb[t][j] # NP => tb[t][j] \in Tables /\ lev[tb[t][j]] = lev[t] - 1

\* ... and no other does, except in the kernel half of top-level tables.
Unique(lev, tb, sp) ==
    \A t, u \in Tables, j, k \in Idx :
        lev[t] >= 2 /\ lev[u] >= 2 /\ tb[t][j] # NP /\ tb[t][j] = tb[u][k] =>
            j = k /\ (t = u \/ (t \in sp /\ j \in KernelIdx))

\* The kernel half is shared as far as it is present.
Shared(tb, sp) ==
    \A r \in sp, j \in KernelIdx : tb[r][j] # NP => tb[r][j] = tb[Boot][j]

Forest(lev, tb, sp) ==
    /\ lev \in [Tables -> 0..LEVELS]
    /\ sp \subseteq Tables /\ Boot \in sp
    /\ \A t \in Tables : lev[t] = LEVELS <=> t \in sp
    /\ Leads(lev, tb) /\ Unique(lev, tb, sp) /\ Shared(tb, sp)

(* The constants of the kernel half and of frames. *)
LEMMA Constants ==
    /\ KernelIdx \subseteq Idx /\ NP \notin Tables /\ PhysZero \in Tables /\ Boot \in Tables
    /\ Frame \subseteq Tables /\ Tables \subseteq Nat /\ Boot # PhysZero /\ LEVELS \in 2..LEVELS
<1>1. IDX \div 2 \in Nat
    BY PagingAssumption
<1>2. KernelIdx \subseteq Idx
    BY <1>1, PagingAssumption DEF KernelIdx, Idx
<1> QED
    BY <1>2, PagingAssumption DEF Tables, PhysZero

(* A walk meets tables of its levels. *)
LEMMA WalkLevels ==
    ASSUME NEW lev, NEW tb, NEW sp, Forest(lev, tb, sp), NEW r \in sp, NEW v \in Nat,
           NEW w, Walk(w, tb, r, v)
    PROVE  \A l \in 1..LEVELS : w[l] # NP => w[l] \in Tables /\ lev[w[l]] = l
<1> USE PagingAssumption
<1> DEFINE S == {l \in 1..LEVELS : w[l] # NP => w[l] \in Tables /\ lev[w[l]] = l}
<1>1. ASSUME NEW l \in 2..LEVELS, l \in S PROVE l - 1 \in S
  <2>1. l - 1 \in 1..LEVELS - 1 /\ l - 1 + 1 = l /\ l - 1 \in 1..LEVELS /\ l >= 2 /\ l \in 1..LEVELS
      OBVIOUS
  <2>2. w[l - 1] = Below(tb, w[l], Index(v, l))
      BY <2>1 DEF Walk
  <2>3. CASE w[l - 1] # NP
    <3>1. w[l] \in Tables /\ w[l - 1] = tb[w[l]][Index(v, l)]
        BY <2>2, <2>3 DEF Below
    <3>2. lev[w[l]] = l
        BY <1>1, <3>1, Constants
    <3>3. Index(v, l) \in Idx
        BY <2>1, IndexType
    <3>4. w[l - 1] \in Tables /\ lev[w[l - 1]] = l - 1
        BY <2>1, <2>3, <3>1, <3>2, <3>3 DEF Forest, Leads
    <3> QED
        BY <2>1, <3>4
  <2> QED
      BY <2>1, <2>3
<1>2. LEVELS \in S
    BY DEF Walk, Forest
<1> HIDE DEF S
<1>3. \A l \in 1..LEVELS : l \in S
    BY <1>1, <1>2, DownToOne
<1> QED
    BY <1>3 DEF S

(* Two walks that meet in a table have taken the same entries to it; they  *)
(* started at the same table, or in the kernel half.                       *)
LEMMA WalksMeet ==
    ASSUME NEW lev, NEW tb, NEW sp, Forest(lev, tb, sp), NEW r \in sp, NEW q \in sp,
           NEW v \in Nat, NEW u \in Nat, NEW w, NEW x, Walk(w, tb, r, v), Walk(x, tb, q, u),
           NEW a \in 1..LEVELS, w[a] = x[a], w[a] # NP
    PROVE  /\ \A l \in a + 1..LEVELS : Index(v, l) = Index(u, l)
           /\ r = q \/ (a < LEVELS /\ Index(v, LEVELS) \in KernelIdx)
<1> USE PagingAssumption
<1> DEFINE Same(m) == \A l \in a + 1..m : Index(v, l) = Index(u, l)
           Joined(m) == w[m] = x[m] /\ w[m] # NP
           InKernel(m) == m = LEVELS /\ a < LEVELS /\ Index(v, LEVELS) \in KernelIdx
           S == {m \in a..LEVELS : Same(m) /\ (Joined(m) \/ InKernel(m))}
<1>1. a \in S
    OBVIOUS
<1>2. ASSUME NEW m \in a..LEVELS - 1, m \in S PROVE m + 1 \in S
  <2>1. m \in 1..LEVELS - 1 /\ m + 1 \in 1..LEVELS /\ m + 1 >= 2 /\ m # LEVELS /\ m + 1 \in a..LEVELS
      OBVIOUS
  <2>2. Joined(m) /\ Same(m)
      BY <1>2, <2>1
  <2>3. w[m] = Below(tb, w[m + 1], Index(v, m + 1)) /\ x[m] = Below(tb, x[m + 1], Index(u, m + 1))
      BY <2>1 DEF Walk
  <2>4. /\ w[m + 1] \in Tables /\ w[m] = tb[w[m + 1]][Index(v, m + 1)]
        /\ x[m + 1] \in Tables /\ x[m] = tb[x[m + 1]][Index(u, m + 1)]
      BY <2>2, <2>3 DEF Below
  <2>5. lev[w[m + 1]] = m + 1 /\ lev[x[m + 1]] = m + 1
      BY <2>1, <2>4, WalkLevels, Constants
  <2>6. Index(v, m + 1) \in Idx /\ Index(u, m + 1) \in Idx
      BY <2>1, IndexType
  <2>7. /\ Index(v, m + 1) = Index(u, m + 1)
        /\ w[m + 1] = x[m + 1] \/ (w[m + 1] \in sp /\ Index(v, m + 1) \in KernelIdx)
    <3>1. Unique(lev, tb, sp) /\ lev[w[m + 1]] >= 2 /\ lev[x[m + 1]] >= 2
        BY <2>1, <2>5 DEF Forest
    <3>2. tb[w[m + 1]][Index(v, m + 1)] # NP
          /\ tb[w[m + 1]][Index(v, m + 1)] = tb[x[m + 1]][Index(u, m + 1)]
        BY <2>2, <2>4
    <3> QED
        BY <2>4, <2>6, <3>1, <3>2, SMTT(40) DEF Unique
  <2>8. Same(m + 1)
    <3>1. \A l \in a + 1..m + 1 : l \in a + 1..m \/ l = m + 1
        BY <2>1
    <3> QED
        BY <2>2, <2>7, <3>1
  <2>9. CASE w[m + 1] = x[m + 1]
    <3>1. Joined(m + 1)
        BY <2>4, <2>9, Constants
    <3> QED
        BY <2>1, <2>8, <3>1
  <2>10. CASE w[m + 1] \in sp /\ Index(v, m + 1) \in KernelIdx
    <3>1. m + 1 = LEVELS /\ a < LEVELS
        BY <2>1, <2>4, <2>5, <2>10 DEF Forest
    <3>2. InKernel(m + 1)
        BY <2>10, <3>1
    <3> QED
        BY <2>1, <2>8, <3>2
  <2> QED
      BY <2>7, <2>9, <2>10
<1>3. LEVELS \in S
  <2> HIDE DEF S
  <2> QED
      BY <1>1, <1>2, Upward
<1>4. w[LEVELS] = r /\ x[LEVELS] = q
    BY DEF Walk
<1> QED
    BY <1>3, <1>4

(* What a space shows of the kernel half is what kernel_pml4's tables say. *)
LEMMA KernelAgrees ==
    ASSUME NEW lev, NEW tb, NEW sp, Forest(lev, tb, sp), NEW r \in sp, NEW v \in Nat,
           Kernel(v), EntryOf(tb, r, v) # NP
    PROVE  EntryOf(tb, r, v) = EntryOf(tb, Boot, v)
<1> USE PagingAssumption
<1>1. PICK w : w = WalkOf(tb, r, v)
    OBVIOUS
<1>2. PICK x : x = WalkOf(tb, Boot, v)
    OBVIOUS
<1>3. Walk(w, tb, r, v) /\ Walk(x, tb, Boot, v)
    BY <1>1, <1>2, WalkExists
<1>4. PICK j : j = Index(v, LEVELS) /\ j \in KernelIdx
    BY DEF Kernel
<1>5. LEVELS - 1 \in 1..LEVELS - 1 /\ LEVELS - 1 + 1 = LEVELS /\ LEVELS - 1 \in 1..LEVELS
    OBVIOUS
<1>6. w[LEVELS - 1] = tb[r][j] /\ x[LEVELS - 1] = tb[Boot][j]
  <2>1. r \in Tables /\ Boot \in Tables /\ w[LEVELS] = r /\ x[LEVELS] = Boot
      BY <1>3, Constants DEF Walk, Forest
  <2>2. /\ w[LEVELS - 1] = Below(tb, w[LEVELS], Index(v, LEVELS))
        /\ x[LEVELS - 1] = Below(tb, x[LEVELS], Index(v, LEVELS))
      BY <1>3, <1>5 DEF Walk
  <2> QED
      BY <1>4, <2>1, <2>2 DEF Below
<1>7. w[LEVELS - 1] # NP
  <2> SUFFICES ASSUME w[LEVELS - 1] = NP PROVE FALSE
      OBVIOUS
  <2>1. Below(tb, w[1], Index(v, 1)) = NP
      BY <1>3, <1>5, WalkMisses, Constants
  <2> QED
      BY <1>1, <2>1 DEF EntryOf
<1>8. w[LEVELS - 1] = x[LEVELS - 1]
    BY <1>4, <1>6, <1>7 DEF Forest, Shared
<1>9. w[1] = x[1]
    BY <1>3, <1>5, <1>8, WalksJoin
<1> QED
    BY <1>1, <1>2, <1>9 DEF EntryOf

(***************************************************************************)
(* What stores do to entries.                                              *)
(***************************************************************************)

(* Filling a frame that is no table changes no entry. *)
LEMMA FillKeeps ==
    ASSUME NEW lev, NEW tb, NEW tc, NEW sp, Forest(lev, tb, sp), NEW r \in sp, NEW v \in Nat,
           \A t \in Tables : lev[t] # 0 => tc[t] = tb[t]
    PROVE  /\ \A l \in 1..LEVELS : WalkOf(tc, r, v)[l] = WalkOf(tb, r, v)[l]
           /\ EntryOf(tc, r, v) = EntryOf(tb, r, v)
<1> USE PagingAssumption
<1>1. PICK w : w = WalkOf(tb, r, v)
    OBVIOUS
<1>2. PICK x : x = WalkOf(tc, r, v)
    OBVIOUS
<1>3. Walk(w, tb, r, v) /\ Walk(x, tc, r, v)
    BY <1>1, <1>2, WalkExists
<1>4. \A l \in 1..LEVELS : w[l] \in Tables => tc[w[l]] = tb[w[l]]
  <2>1. \A l \in 1..LEVELS : w[l] # NP => w[l] \in Tables /\ lev[w[l]] = l
      BY <1>3, WalkLevels, SMTT(40)
  <2>2. \A l \in 1..LEVELS : l # 0
      OBVIOUS
  <2> QED
      BY <2>1, <2>2, Constants, Zenon
<1>5. \A l \in 1..LEVELS : w[l] = x[l]
  <2>1. \A l \in 1 + 1..LEVELS : w[l] \in Tables => tc[w[l]][Index(v, l)] = tb[w[l]][Index(v, l)]
      BY <1>4
  <2>2. 1 \in 1..LEVELS
      OBVIOUS
  <2> QED
      BY <1>3, <2>1, <2>2, WalkStays
<1>6. Below(tc, x[1], Index(v, 1)) = Below(tb, w[1], Index(v, 1))
    BY <1>4, <1>5 DEF Below
<1> QED
    BY <1>1, <1>2, <1>5, <1>6 DEF EntryOf

(* Linking a cleared table in where none was changes no entry. *)
LEMMA LinkKeeps ==
    ASSUME NEW lev, NEW tb, NEW tc, NEW sp, Forest(lev, tb, sp), NEW r \in sp, NEW v \in Nat,
           NEW t \in Tables, NEW j \in Idx, lev[t] >= 2, tb[t][j] = NP,
           NEW f \in Tables, lev[f] = 0, tb[f] = Zeros,
           tc[t][j] = f, \A k \in Idx : k # j => tc[t][k] = tb[t][k],
           \A u \in Tables : u # t => tc[u] = tb[u]
    PROVE  /\ \A l \in lev[t]..LEVELS : WalkOf(tc, r, v)[l] = WalkOf(tb, r, v)[l]
           /\ EntryOf(tc, r, v) = EntryOf(tb, r, v)
<1> USE PagingAssumption
<1>1. PICK w : w = WalkOf(tb, r, v)
    OBVIOUS
<1>2. PICK x : x = WalkOf(tc, r, v)
    OBVIOUS
<1>3. Walk(w, tb, r, v) /\ Walk(x, tc, r, v)
    BY <1>1, <1>2, WalkExists
<1>4. \A l \in 1..LEVELS : w[l] # NP => w[l] \in Tables /\ lev[w[l]] = l
    BY <1>3, WalkLevels
<1>5. PICK m \in 2..LEVELS : m = lev[t]
    BY DEF Forest
<1>6. \A l \in 1..LEVELS : Index(v, l) \in Idx
    BY IndexType
<1>7. ASSUME NEW l \in 1..LEVELS, w[l] \in Tables, l # m \/ w[m] # t \/ Index(v, m) # j
      PROVE  tc[w[l]][Index(v, l)] = tb[w[l]][Index(v, l)]
  <2>1. lev[w[l]] = l
      BY <1>4, <1>7, Constants
  <2>2. CASE w[l] # t
      BY <1>7, <2>2
  <2>3. CASE w[l] = t
    <3>1. l = m /\ Index(v, l) # j
        BY <1>5, <1>7, <2>1, <2>3
    <3> QED
        BY <1>6, <2>3, <3>1
  <2> QED
      BY <2>2, <2>3
<1>8. \A l \in m..LEVELS : w[l] = x[l]
  <2>1. \A l \in m + 1..LEVELS : w[l] \in Tables => tc[w[l]][Index(v, l)] = tb[w[l]][Index(v, l)]
      BY <1>7
  <2> QED
      BY <1>3, <1>5, <2>1, WalkStays
<1>9. ASSUME w[m] # t \/ Index(v, m) # j PROVE EntryOf(tc, r, v) = EntryOf(tb, r, v)
  <2>1. \A l \in 1 + 1..LEVELS : w[l] \in Tables => tc[w[l]][Index(v, l)] = tb[w[l]][Index(v, l)]
      BY <1>7, <1>9
  <2>2. 1 \in 1..LEVELS
      OBVIOUS
  <2>3. w[1] = x[1]
      BY <1>3, <2>1, <2>2, WalkStays
  <2>4. Below(tc, x[1], Index(v, 1)) = Below(tb, w[1], Index(v, 1))
      BY <1>7, <1>9, <2>2, <2>3 DEF Below
  <2> QED
      BY <1>1, <1>2, <2>4 DEF EntryOf
<1>10. ASSUME w[m] = t, Index(v, m) = j PROVE EntryOf(tc, r, v) = EntryOf(tb, r, v)
  <2>3. x[m] = t
      BY <1>5, <1>8, <1>10
  <2>4. m - 1 \in 1..LEVELS - 1 /\ m - 1 + 1 = m /\ m - 1 \in 1..LEVELS
      BY <1>5
  <2>5. w[m - 1] = NP
      BY <1>3, <1>10, <2>4 DEF Walk, Below
  <2>6. x[m - 1] = f
      BY <1>3, <1>10, <2>3, <2>4 DEF Walk, Below
  <2>7. Below(tb, w[1], Index(v, 1)) = NP
      BY <1>3, <2>4, <2>5, WalkMisses, Constants
  <2>8. f # t /\ tc[f] = Zeros
      BY <1>5
  <2>9. Below(tc, x[1], Index(v, 1)) = NP
    <3>1. CASE m - 1 = 1
        BY <1>6, <2>4, <2>6, <2>8, <3>1 DEF Below, Zeros
    <3>2. CASE m - 1 # 1
      <4>1. m - 2 \in 1..LEVELS - 1 /\ m - 2 + 1 = m - 1 /\ m - 2 \in 1..LEVELS
          BY <1>5, <3>2
      <4>2. x[m - 2] = NP
          BY <1>3, <1>6, <2>4, <2>6, <2>8, <4>1 DEF Walk, Below, Zeros
      <4> QED
          BY <1>3, <4>1, <4>2, WalkMisses, Constants
    <3> QED
        BY <3>1, <3>2
  <2> QED
      BY <1>1, <1>2, <2>7, <2>9 DEF EntryOf
<1> QED
    BY <1>1, <1>2, <1>5, <1>8, <1>9, <1>10

(* Storing into the last-level entry of page h, met from table q, changes  *)
(* that page only: in q's space, and in the others if it is in the kernel  *)
(* half.                                                                   *)
LEMMA StoreChanges ==
    ASSUME NEW lev, NEW tb, NEW tc, NEW sp, Forest(lev, tb, sp), NEW r \in sp, NEW v \in VPage,
           NEW q \in sp, NEW h \in VPage, NEW t \in Tables, WalkOf(tb, q, h)[1] = t,
           \A k \in Idx : k # Index(h, 1) => tc[t][k] = tb[t][k],
           \A u \in Tables : u # t => tc[u] = tb[u]
    PROVE  /\ \A l \in 1..LEVELS : WalkOf(tc, r, v)[l] = WalkOf(tb, r, v)[l]
           /\ EntryOf(tc, r, v) # EntryOf(tb, r, v) => v = h /\ (r = q \/ Kernel(v))
           /\ EntryOf(tc, q, h) = tc[t][Index(h, 1)]
<1> USE PagingAssumption
<1>0. v \in Nat /\ h \in Nat
    BY Powers DEF VPage
<1>1. PICK w : w = WalkOf(tb, r, v)
    OBVIOUS
<1>2. PICK x : x = WalkOf(tb, q, h)
    OBVIOUS
<1>3. Walk(w, tb, r, v) /\ Walk(x, tb, q, h)
    BY <1>1, <1>2, WalkExists
<1>4. x[1] = t /\ t # NP /\ 1 \in 1..LEVELS
    BY <1>2, Constants
<1>5. lev[t] = 1
    BY <1>0, <1>3, <1>4, WalkLevels
<1>6. ASSUME NEW s \in sp, NEW z \in Nat
      PROVE  \A l \in 1..LEVELS : WalkOf(tc, s, z)[l] = WalkOf(tb, s, z)[l]
  <2>1. PICK y : y = WalkOf(tb, s, z) /\ Walk(y, tb, s, z)
      BY WalkExists
  <2>2. ASSUME NEW l \in 1 + 1..LEVELS, y[l] \in Tables PROVE tc[y[l]][Index(z, l)] = tb[y[l]][Index(z, l)]
    <3>1. lev[y[l]] = l
        BY <2>1, <2>2, WalkLevels, Constants
    <3>2. y[l] # t
        BY <1>5, <3>1
    <3> QED
        BY <2>2, <3>2
  <2>3. Walk(WalkOf(tc, s, z), tc, s, z)
      BY WalkExists
  <2> QED
      BY <1>4, <2>1, <2>2, <2>3, WalkStays
<1>7. EntryOf(tc, r, v) = Below(tc, w[1], Index(v, 1)) /\ EntryOf(tb, r, v) = Below(tb, w[1], Index(v, 1))
    BY <1>0, <1>1, <1>4, <1>6 DEF EntryOf
<1>8. ASSUME EntryOf(tc, r, v) # EntryOf(tb, r, v) PROVE v = h /\ (r = q \/ Kernel(v))
  <2>1. Index(v, 1) \in Idx
      BY <1>0, <1>4, IndexType
  <2>2. w[1] = t /\ Index(v, 1) = Index(h, 1)
      BY <1>7, <1>8, <2>1 DEF Below
  <2>3. /\ \A l \in 1 + 1..LEVELS : Index(v, l) = Index(h, l)
        /\ r = q \/ (1 < LEVELS /\ Index(v, LEVELS) \in KernelIdx)
      BY <1>0, <1>3, <1>4, <2>2, WalksMeet
  <2>4. \A l \in 1..LEVELS : Index(v, l) = Index(h, l)
      BY <2>2, <2>3
  <2> QED
      BY <2>3, <2>4, SameIndices DEF Kernel
<1>9. EntryOf(tc, q, h) = tc[t][Index(h, 1)]
    BY <1>0, <1>2, <1>4, <1>6 DEF EntryOf, Below
<1> QED
    BY <1>0, <1>6, <1>8, <1>9

(***************************************************************************)
(* The forest after a store.                                               *)
(***************************************************************************)

(* Frames that are no tables, and last-level tables, may hold anything. *)
LEMMA LeavesFree ==
    ASSUME NEW lev, NEW tb, NEW tc, NEW sp, Forest(lev, tb, sp),
           \A t \in Tables : lev[t] >= 2 => tc[t] = tb[t]
    PROVE  Forest(lev, tc, sp)
<1>1. \A r \in sp : r \in Tables /\ lev[r] >= 2 /\ tc[r] = tb[r]
    BY Constants DEF Forest
<1>2. Shared(tc, sp)
    BY <1>1 DEF Shared, Forest
<1>3. Leads(lev, tc)
    BY DEF Leads, Forest
<1>4. Unique(lev, tc, sp)
    BY DEF Unique, Forest
<1> QED
    BY <1>2, <1>3, <1>4 DEF Forest

(* A cleared frame becomes the table behind entry j of table t. *)
LEMMA LinkForest ==
    ASSUME NEW lev, NEW tb, NEW tc, NEW sp, Forest(lev, tb, sp),
           NEW t \in Tables, NEW j \in Idx, lev[t] >= 2, tb[t][j] = NP,
           t \in sp /\ j \in KernelIdx => t = Boot,
           NEW f \in Tables, lev[f] = 0, tb[f] = Zeros,
           tc[t][j] = f, \A k \in Idx : k # j => tc[t][k] = tb[t][k],
           \A u \in Tables : u # t => tc[u] = tb[u]
    PROVE  Forest([lev EXCEPT ![f] = lev[t] - 1], tc, sp)
<1> USE PagingAssumption
<1> DEFINE le == [lev EXCEPT ![f] = lev[t] - 1]
<1>1. lev \in [Tables -> 0..LEVELS] /\ f # t
    BY DEF Forest
<1>2. le \in [Tables -> 0..LEVELS] /\ le[f] = lev[t] - 1 /\ \A u \in Tables : u # f => le[u] = lev[u]
    BY <1>1
<1>3. \A k \in Idx : tc[f][k] = NP
    BY <1>1 DEF Zeros
<1> HIDE DEF le
<1>4. \A u \in Tables : le[u] = LEVELS <=> u \in sp
  <2>1. f \notin sp /\ le[f] # LEVELS
      BY <1>1, <1>2 DEF Forest
  <2> QED
      BY <1>2, <2>1 DEF Forest
<1>5. \A u \in Tables, k \in Idx : lev[u] >= 2 /\ tb[u][k] # NP => tb[u][k] \in Tables /\ tb[u][k] # f
                                                                /\ lev[tb[u][k]] = lev[u] - 1
    BY <1>1 DEF Forest, Leads
<1>6. Leads(le, tc)
  <2> SUFFICES ASSUME NEW u \in Tables, NEW k \in Idx, le[u] >= 2, tc[u][k] # NP
               PROVE  tc[u][k] \in Tables /\ le[tc[u][k]] = le[u] - 1
      BY DEF Leads
  <2>1. u # f /\ le[u] = lev[u]
      BY <1>2, <1>3
  <2>2. CASE u = t /\ k = j
      BY <1>1, <1>2, <2>2
  <2>3. CASE ~(u = t /\ k = j)
    <3>1. tc[u][k] = tb[u][k]
        BY <2>3
    <3> QED
        BY <1>2, <1>5, <2>1, <3>1
  <2> QED
      BY <2>2, <2>3
<1>7. Unique(le, tc, sp)
  <2> SUFFICES ASSUME NEW u \in Tables, NEW y \in Tables, NEW k \in Idx, NEW m \in Idx,
                      le[u] >= 2, le[y] >= 2, tc[u][k] # NP, tc[u][k] = tc[y][m]
               PROVE  k = m /\ (u = y \/ (u \in sp /\ k \in KernelIdx))
      BY DEF Unique
  <2>1. u # f /\ y # f /\ lev[u] >= 2 /\ lev[y] >= 2
      BY <1>2, <1>3
  <2>2. (u = t /\ k = j) \/ (tc[u][k] = tb[u][k] /\ tc[u][k] # f)
      BY <1>5, <2>1
  <2>3. (y = t /\ m = j) \/ (tc[y][m] = tb[y][m] /\ tc[y][m] # f)
      BY <1>5, <2>1
  <2>4. CASE (u = t /\ k = j) /\ (y = t /\ m = j)
      BY <2>4
  <2>5. CASE tc[u][k] = tb[u][k] /\ tc[y][m] = tb[y][m]
    <3>1. Unique(lev, tb, sp) /\ tb[u][k] # NP /\ tb[u][k] = tb[y][m]
        BY <2>5 DEF Forest
    <3> HIDE DEF le
    <3> QED
        BY <2>1, <3>1, SMTT(40) DEF Unique
  <2> QED
      BY <2>2, <2>3, <2>4, <2>5
<1>8. Shared(tc, sp)
  <2> SUFFICES ASSUME NEW r \in sp, NEW k \in KernelIdx, tc[r][k] # NP
               PROVE  tc[r][k] = tc[Boot][k]
      BY DEF Shared
  <2>0. k \in Idx /\ r \in Tables /\ Boot \in Tables
      BY Constants DEF Forest
  <2>1. CASE r = t /\ k = j
      BY <2>1
  <2>2. CASE ~(r = t /\ k = j)
    <3>1. tc[r][k] = tb[r][k]
        BY <2>0, <2>2
    <3>2. tb[r][k] = tb[Boot][k]
        BY <3>1 DEF Forest, Shared
    <3>3. ~(Boot = t /\ k = j)
        BY <3>1, <3>2
    <3> QED
        BY <2>0, <3>1, <3>2, <3>3
  <2> QED
      BY <2>1, <2>2
<1> QED
    BY <1>2, <1>4, <1>6, <1>7, <1>8 DEF Forest, le

(* A frame becomes the top of a new space that shares the kernel half. *)
LEMMA CreateForest ==
    ASSUME NEW lev, NEW tb, NEW tc, NEW sp, Forest(lev, tb, sp), NEW f \in Tables, lev[f] = 0,
           \A j \in Idx : tc[f][j] = IF j \in KernelIdx THEN tb[Boot][j] ELSE NP,
           \A u \in Tables : u # f => tc[u] = tb[u]
    PROVE  Forest([lev EXCEPT ![f] = LEVELS], tc, sp \cup {f})
<1> USE PagingAssumption
<1> DEFINE le == [lev EXCEPT ![f] = LEVELS]
<1>1. lev \in [Tables -> 0..LEVELS] /\ Boot \in sp /\ sp \subseteq Tables /\ f \notin sp
    BY DEF Forest
<1>2. le \in [Tables -> 0..LEVELS] /\ le[f] = LEVELS /\ \A u \in Tables : u # f => le[u] = lev[u]
    BY <1>1
<1> HIDE DEF le
<1>3. \A u \in Tables : le[u] = LEVELS <=> u \in sp \cup {f}
    BY <1>2 DEF Forest
<1>4. \A u \in Tables, k \in Idx : lev[u] >= 2 /\ tb[u][k] # NP => tb[u][k] \in Tables /\ tb[u][k] # f
                                                                /\ lev[tb[u][k]] = lev[u] - 1
    BY <1>1 DEF Forest, Leads
<1>5. lev[Boot] = LEVELS /\ Boot # f /\ Boot \in Tables
    BY <1>1, Constants DEF Forest
<1>6. \A j \in Idx : tc[f][j] # NP => j \in KernelIdx /\ tc[f][j] = tb[Boot][j]
    OBVIOUS
<1>7. Leads(le, tc)
  <2> SUFFICES ASSUME NEW u \in Tables, NEW k \in Idx, le[u] >= 2, tc[u][k] # NP
               PROVE  tc[u][k] \in Tables /\ le[tc[u][k]] = le[u] - 1
      BY DEF Leads
  <2>1. CASE u = f
    <3>1. tc[u][k] = tb[Boot][k]
        BY <1>6, <2>1
    <3>2. tb[Boot][k] \in Tables /\ tb[Boot][k] # f /\ lev[tb[Boot][k]] = LEVELS - 1
        BY <1>4, <1>5, <3>1
    <3> QED
        BY <1>2, <2>1, <3>1, <3>2
  <2>2. CASE u # f
      BY <1>2, <1>4, <2>2
  <2> QED
      BY <2>1, <2>2
<1>8. Unique(le, tc, sp \cup {f})
  <2> SUFFICES ASSUME NEW u \in Tables, NEW y \in Tables, NEW k \in Idx, NEW m \in Idx,
                      le[u] >= 2, le[y] >= 2, tc[u][k] # NP, tc[u][k] = tc[y][m]
               PROVE  k = m /\ (u = y \/ (u \in sp \cup {f} /\ k \in KernelIdx))
      BY DEF Unique
  <2>1. PICK a \in Tables : /\ lev[a] >= 2 /\ tc[u][k] = tb[a][k]
                            /\ (a = u /\ u # f) \/ (a = Boot /\ u = f /\ k \in KernelIdx)
      BY <1>2, <1>5, <1>6
  <2>2. PICK b \in Tables : /\ lev[b] >= 2 /\ tc[y][m] = tb[b][m]
                            /\ (b = y /\ y # f) \/ (b = Boot /\ y = f /\ m \in KernelIdx)
      BY <1>2, <1>5, <1>6
  <2>3. k = m /\ (a = b \/ (a \in sp /\ k \in KernelIdx))
    <3>1. Unique(lev, tb, sp) /\ tb[a][k] # NP /\ tb[a][k] = tb[b][m]
        BY <2>1, <2>2 DEF Forest
    <3> QED
        BY <2>1, <2>2, <3>1, SMTT(40) DEF Unique
  <2> QED
      BY <1>1, <2>1, <2>2, <2>3
<1>9. Shared(tc, sp \cup {f})
  <2> SUFFICES ASSUME NEW r \in sp \cup {f}, NEW k \in KernelIdx, tc[r][k] # NP
               PROVE  tc[r][k] = tc[Boot][k]
      BY DEF Shared
  <2>1. k \in Idx
      BY Constants
  <2>2. CASE r = f
      BY <1>5, <1>6, <2>1, <2>2
  <2>3. CASE r # f
      BY <1>1, <1>5, <2>3 DEF Forest, Shared
  <2> QED
      BY <2>2, <2>3
<1> QED
    BY <1>1, <1>2, <1>3, <1>7, <1>8, <1>9 DEF Forest, le

(***************************************************************************)
(* The inductive invariant: the forest, and what the operation in progress *)
(* has done and knows.                                                     *)
(***************************************************************************)

Content == [Idx -> Tables \cup Nat \cup {NP, Junk}]

Op == [kind : {"none", "init", "map", "unmap"}, root : Tables, v : Nat, p : Nat, n : Nat,
       i : Nat, level : 1..LEVELS, table : Tables, new : Tables \cup {NP}]

IsMap(o) == o.kind \in {"map", "init"}

\* The pages of the range exist; those of the kernel half are mapped through
\* kernel_pml4 or a table shared with it.
RangeOK(o, tb) ==
    \A k \in 0..o.n - 1 :
        /\ o.v + k \in VPage
        /\ o.root # Boot /\ Kernel(o.v + k) => tb[o.root][Index(o.v + k, LEVELS)] # NP

\* op.table is where the walk of the current page has come to.
WalkOK(o, tb) == o.i < o.n => o.table = WalkOf(tb, o.root, o.v + o.i)[o.level]

\* The table to be linked in is clear and nobody's, and its place is empty.
NewOK(o, tb, fr) ==
    o.new # NP =>
        /\ o.i < o.n /\ IsMap(o) /\ o.level > 1
        /\ tb[o.table][Index(o.v + o.i, o.level)] = NP
        /\ tb[o.new] = Zeros /\ o.new \notin fr

\* The pages before the current one are mapped as asked.
DoneOK(o, tb) ==
    \A k \in 0..o.i - 1 : EntryOf(tb, o.root, o.v + k) = IF IsMap(o) THEN o.p + k ELSE NP

OpSound(o, tb, fr, sp) ==
    /\ o \in Op /\ o.i <= o.n /\ o.root \in sp
    /\ o.kind = "none" => o = NoOp
    /\ RangeOK(o, tb) /\ WalkOK(o, tb) /\ NewOK(o, tb, fr) /\ DoneOK(o, tb)

\* A frame that is free, or PhysZero while it was not needed, or not linked
\* in yet, is no table.
Levels(lev, o, fr, sh) ==
    /\ \A f \in fr : lev[f] = 0
    /\ sh \/ (lev[PhysZero] = 0 /\ o.new # PhysZero)
    /\ o.new # NP => lev[o.new] = 0

TablesInv ==
    /\ tab \in [Tables -> Content] /\ free \subseteq Frame /\ cr3 \in spaces
    /\ short \in BOOLEAN
    /\ OpSound(op, tab, free, spaces)
    /\ \E lev : Forest(lev, tab, spaces) /\ Levels(lev, op, free, short)

(* No operation is in progress. *)
LEMMA NoOpSound ==
    ASSUME NEW tb, NEW fr, NEW sp, Boot \in sp
    PROVE  OpSound(NoOp, tb, fr, sp) /\ NoOp.new = NP
<1> USE PagingAssumption
<1>1. NoOp \in Op /\ NoOp.i = 0 /\ NoOp.n = 0 /\ NoOp.root = Boot /\ NoOp.new = NP
    BY Constants DEF NoOp, Op
<1> HIDE DEF NoOp
<1>2. RangeOK(NoOp, tb) /\ WalkOK(NoOp, tb) /\ DoneOK(NoOp, tb)
    BY <1>1 DEF RangeOK, WalkOK, DoneOK
<1> QED
    BY <1>1, <1>2 DEF OpSound, NewOK

(* The operation goes on with the next page. *)
LEMMA NextPageSound ==
    ASSUME NEW o, NEW tb, NEW tc, NEW fr, NEW sp, OpSound(o, tb, fr, sp), o.i < o.n,
           o.kind # "none", RangeOK(o, tc), DoneOK(o, tc),
           EntryOf(tc, o.root, o.v + o.i) = IF IsMap(o) THEN o.p + o.i ELSE NP,
           NEW q, q = [o EXCEPT !.i = o.i + 1, !.level = LEVELS, !.table = o.root, !.new = NP]
    PROVE  OpSound(q, tc, fr, sp) /\ q.new = NP
<1> USE PagingAssumption
<1>1. o \in Op
    BY DEF OpSound
<1>2. /\ q \in Op /\ q.kind = o.kind /\ q.root = o.root /\ q.v = o.v /\ q.p = o.p /\ q.n = o.n
      /\ q.i = o.i + 1 /\ q.level = LEVELS /\ q.table = o.root /\ q.new = NP
  <2>1. o.i + 1 \in Nat /\ o.root \in Tables /\ LEVELS \in 1..LEVELS
      BY <1>1 DEF Op
  <2>2. q \in Op
      BY <1>1, <2>1, Zenon DEF Op
  <2> QED
      BY <1>1, <2>2 DEF Op
<1>3. o.i \in Nat /\ o.n \in Nat
    BY <1>1 DEF Op
<1>4. RangeOK(q, tc)
    BY <1>2 DEF RangeOK
<1>5. WalkOK(q, tc)
    BY <1>2, WalkExists DEF WalkOK, Walk
<1>6. DoneOK(q, tc)
  <2>1. \A k \in 0..q.i - 1 : k \in 0..o.i - 1 \/ k = o.i
      BY <1>2, <1>3
  <2> QED
      BY <1>2, <2>1 DEF DoneOK, IsMap
<1> QED
    BY <1>2, <1>3, <1>4, <1>5, <1>6 DEF OpSound, NewOK

(* What TablesInv says of the current page and table. *)
LEMMA Current ==
    ASSUME TablesInv, op.i < op.n, NEW lev, Forest(lev, tab, spaces)
    PROVE  /\ Here \in VPage /\ Here \in Nat /\ At \in Idx
           /\ op.kind # "none" /\ op.root \in spaces /\ op.table \in Tables
           /\ op.level \in 1..LEVELS /\ lev[op.table] = op.level
           /\ op.i \in Nat /\ op.n \in Nat /\ op.v \in Nat
           /\ op.table = WalkOf(tab, op.root, Here)[op.level]
<1>1. /\ op \in Op /\ op.root \in spaces /\ (op.kind = "none" => op = NoOp)
      /\ RangeOK(op, tab) /\ WalkOK(op, tab)
    BY DEF TablesInv, OpSound
<1>2. op.i \in Nat /\ op.n \in Nat /\ op.v \in Nat /\ op.level \in 1..LEVELS /\ op.table \in Tables
    BY <1>1 DEF Op
<1>3. op.i \in 0..op.n - 1
    BY <1>2
<1>4. Here \in VPage
    BY <1>1, <1>3 DEF RangeOK, Here
<1>5. Here \in Nat
    BY <1>2 DEF Here
<1>6. At \in Idx
    BY <1>2, <1>5, IndexType DEF At
<1>7. op.kind # "none"
    BY <1>1, <1>2 DEF NoOp
<1>8. op.table = WalkOf(tab, op.root, Here)[op.level]
    BY <1>1 DEF WalkOK, Here
<1>9. lev[op.table] = op.level
    BY <1>1, <1>2, <1>5, <1>8, WalkExists, WalkLevels, Constants
<1> QED
    BY <1>1, <1>2, <1>4, <1>5, <1>6, <1>7, <1>8, <1>9

LEMMA InitTables == Init => TablesInv
<1> SUFFICES ASSUME Init PROVE TablesInv
    OBVIOUS
<1> USE PagingAssumption
<1>1. /\ tab = [t \in Tables |-> [j \in Idx |-> IF t = Boot THEN NP ELSE Junk]]
      /\ free = Frame /\ spaces = {Boot} /\ cr3 = Boot /\ short = FALSE
      /\ op = [NoOp EXCEPT !.kind = "init", !.n = BOOTPAGES]
    BY DEF Init
<1>2. tab \in [Tables -> Content]
    BY <1>1 DEF Content
<1>3. /\ op \in Op /\ op.kind = "init" /\ op.root = Boot /\ op.v = 0 /\ op.n = BOOTPAGES /\ op.i = 0
      /\ op.level = LEVELS /\ op.table = Boot /\ op.new = NP
  <2>1. BOOTPAGES \in Nat /\ LEVELS \in 1..LEVELS /\ 0 \in Nat /\ Boot \in Tables
      BY Powers, Constants
  <2>2. op \in Op
      BY <1>1, <2>1, Zenon DEF Op, NoOp
  <2> QED
      BY <1>1, <2>2 DEF NoOp, Op
<1>4. OpSound(op, tab, free, spaces)
  <2>1. RangeOK(op, tab)
      BY <1>3, Powers DEF RangeOK, VPage
  <2>2. WalkOK(op, tab)
      BY <1>3, WalkExists DEF WalkOK, Walk
  <2>3. DoneOK(op, tab)
      BY <1>3 DEF DoneOK
  <2>4. op.i <= op.n
      BY <1>3, Powers
  <2> QED
      BY <1>1, <1>3, <2>1, <2>2, <2>3, <2>4 DEF OpSound, NewOK
<1> DEFINE lev == [t \in Tables |-> IF t = Boot THEN LEVELS ELSE 0]
<1>5. Forest(lev, tab, spaces)
  <2>1. /\ lev \in [Tables -> 0..LEVELS] /\ spaces \subseteq Tables /\ Boot \in spaces
        /\ \A t \in Tables : lev[t] = LEVELS <=> t \in spaces
      BY <1>1, Constants
  <2>2. \A t \in Tables, j \in Idx : lev[t] >= 2 => tab[t][j] = NP
      BY <1>1
  <2>3. \A j \in KernelIdx : tab[Boot][j] = NP
      BY <1>1, Constants
  <2> HIDE DEF lev
  <2> QED
      BY <1>1, <2>1, <2>2, <2>3 DEF Forest, Leads, Unique, Shared
<1>6. Levels(lev, op, free, short)
    BY <1>1, <1>3, Constants DEF Levels
<1> QED
    BY <1>1, <1>2, <1>4, <1>5, <1>6 DEF TablesInv

(***************************************************************************)
(* Each action keeps the invariant and changes only the entries it may.    *)
(***************************************************************************)

\* OthersUntouched of one step.
OnlyRange ==
    \A r \in spaces, v \in VPage :
        EntryOf(tab', r, v) # EntryOf(tab, r, v) =>
            op.kind # "none" /\ InRange(v) /\ (r = op.root \/ Kernel(v))

(* frame_alloc gives a frame that is no table. *)
LEMMA AllocFacts ==
    ASSUME TablesInv, NEW f \in Frame \cup {PhysZero}, Alloc(f), ~short,
           NEW lev, Levels(lev, op, free, short)
    PROVE  /\ f \in Tables /\ lev[f] = 0 /\ free' \subseteq free /\ f \notin free'
           /\ short' \in BOOLEAN /\ (short' \/ f # PhysZero)
<1>1. free \subseteq Frame /\ PhysZero \notin Frame
    BY PagingAssumption DEF TablesInv, PhysZero
<1>2. CASE f \in free /\ free' = free \ {f} /\ short' = short
    BY <1>1, <1>2, Constants DEF Levels, TablesInv
<1>3. CASE free = {} /\ f = PhysZero /\ free' = free /\ short' = TRUE
    BY <1>3, Constants DEF Levels
<1> QED
    BY <1>2, <1>3 DEF Alloc

LEMMA StepDescend ==
    ASSUME TablesInv, Descend PROVE TablesInv' /\ OnlyRange
<1> USE PagingAssumption
<1>1. /\ op.i < op.n /\ op.level > 1 /\ op.new = NP /\ tab[op.table][At] # NP
      /\ op' = [op EXCEPT !.table = tab[op.table][At], !.level = op.level - 1]
      /\ UNCHANGED <<tab, free, spaces, cr3, short>>
    BY DEF Descend, Working
<1>2. PICK lev : Forest(lev, tab, spaces) /\ Levels(lev, op, free, short)
    BY DEF TablesInv
<1>3. /\ Here \in VPage /\ Here \in Nat /\ At \in Idx /\ op.kind # "none" /\ op.table \in Tables
      /\ op.level \in 1..LEVELS /\ lev[op.table] = op.level
      /\ op.table = WalkOf(tab, op.root, Here)[op.level]
    BY <1>1, <1>2, Current
<1>4. tab[op.table][At] \in Tables
    BY <1>1, <1>2, <1>3 DEF Forest, Leads
<1>5. OpSound(op, tab, free, spaces)
    BY DEF TablesInv
<1>6. /\ op' \in Op /\ op'.kind = op.kind /\ op'.root = op.root /\ op'.v = op.v /\ op'.p = op.p
      /\ op'.n = op.n /\ op'.i = op.i /\ op'.level = op.level - 1
      /\ op'.table = tab[op.table][At] /\ op'.new = NP
  <2>1. op \in Op
      BY <1>5 DEF OpSound
  <2>2. op.level - 1 \in 1..LEVELS
      BY <1>1, <1>3
  <2>3. op' \in Op
      BY <1>1, <1>4, <2>1, <2>2, Zenon DEF Op
  <2> QED
      BY <1>1, <2>1, <2>3 DEF Op
<1>7. tab[op.table][At] = WalkOf(tab, op.root, Here)[op.level - 1]
  <2>1. op.level - 1 \in 1..LEVELS - 1 /\ op.level - 1 + 1 = op.level
      BY <1>1, <1>3
  <2> QED
      BY <1>3, <2>1, WalkExists DEF Walk, Below, At
<1>8. OpSound(op', tab, free, spaces)
  <2>1. RangeOK(op', tab) /\ DoneOK(op', tab)
      BY <1>5, <1>6 DEF OpSound, RangeOK, DoneOK, IsMap
  <2>2. WalkOK(op', tab)
      BY <1>6, <1>7 DEF WalkOK, Here
  <2> QED
      BY <1>3, <1>5, <1>6, <2>1, <2>2 DEF OpSound, NewOK
<1>9. Levels(lev, op', free, short)
    BY <1>2, <1>6, Constants DEF Levels
<1>10. TablesInv'
    BY <1>1, <1>2, <1>8, <1>9 DEF TablesInv
<1> QED
    BY <1>1, <1>10 DEF OnlyRange

LEMMA StepNewTable ==
    ASSUME TablesInv, NEW f \in Frame \cup {PhysZero}, NewTable(f) PROVE TablesInv' /\ OnlyRange
<1> USE PagingAssumption
<1>1. /\ op.i < op.n /\ ~short /\ Maps /\ op.level > 1 /\ op.new = NP /\ tab[op.table][At] = NP
      /\ Alloc(f) /\ tab' = [tab EXCEPT ![f] = Zeros] /\ op' = [op EXCEPT !.new = f]
      /\ UNCHANGED <<spaces, cr3>>
    BY DEF NewTable, Working
<1>2. PICK lev : Forest(lev, tab, spaces) /\ Levels(lev, op, free, short)
    BY DEF TablesInv
<1>3. /\ Here \in VPage /\ Here \in Nat /\ At \in Idx /\ op.kind # "none" /\ op.table \in Tables
      /\ op.level \in 1..LEVELS /\ lev[op.table] = op.level /\ op.root \in spaces
    BY <1>1, <1>2, Current
<1>4. /\ f \in Tables /\ lev[f] = 0 /\ free' \subseteq free /\ f \notin free'
      /\ short' \in BOOLEAN /\ (short' \/ f # PhysZero)
    BY <1>1, <1>2, AllocFacts
<1>5. tab \in [Tables -> Content] /\ OpSound(op, tab, free, spaces)
    BY DEF TablesInv
<1>6. tab' \in [Tables -> Content] /\ tab'[f] = Zeros /\ \A t \in Tables : t # f => tab'[t] = tab[t]
  <2>1. Zeros \in Content
      BY DEF Zeros, Content
  <2> QED
      BY <1>1, <1>4, <1>5, <2>1
<1>7. \A r \in spaces, v \in Nat :
          /\ \A l \in 1..LEVELS : WalkOf(tab', r, v)[l] = WalkOf(tab, r, v)[l]
          /\ EntryOf(tab', r, v) = EntryOf(tab, r, v)
  <2>1. \A t \in Tables : lev[t] # 0 => tab'[t] = tab[t]
      BY <1>4, <1>6
  <2> QED
      BY <1>2, <2>1, FillKeeps
<1>8. Forest(lev, tab', spaces)
  <2>1. \A t \in Tables : lev[t] >= 2 => tab'[t] = tab[t]
      BY <1>4, <1>6
  <2> QED
      BY <1>2, <2>1, LeavesFree
<1>9. /\ op' \in Op /\ op'.kind = op.kind /\ op'.root = op.root /\ op'.v = op.v /\ op'.p = op.p
      /\ op'.n = op.n /\ op'.i = op.i /\ op'.level = op.level /\ op'.table = op.table /\ op'.new = f
    BY <1>1, <1>4, <1>5 DEF OpSound, Op
<1>10. op.v \in Nat /\ op.i \in Nat /\ op.n \in Nat
    BY <1>5 DEF OpSound, Op
<1>11. OpSound(op', tab', free', spaces)
  <2>1. tab'[op.root] = tab[op.root] /\ tab'[op.table] = tab[op.table]
      BY <1>1, <1>2, <1>3, <1>4, <1>6 DEF Forest
  <2>2. RangeOK(op', tab')
      BY <1>5, <1>9, <2>1 DEF OpSound, RangeOK
  <2>3. WalkOK(op', tab')
      BY <1>3, <1>5, <1>7, <1>9, <1>10 DEF OpSound, WalkOK
  <2>4. DoneOK(op', tab')
    <3>1. \A k \in 0..op.i - 1 : op.v + k \in Nat
        BY <1>10
    <3> QED
        BY <1>3, <1>5, <1>7, <1>9, <3>1 DEF OpSound, DoneOK, IsMap
  <2>5. NewOK(op', tab', free')
      BY <1>1, <1>4, <1>6, <1>9, <2>1 DEF NewOK, IsMap, Maps, At, Here
  <2> QED
      BY <1>3, <1>5, <1>9, <2>2, <2>3, <2>4, <2>5 DEF OpSound
<1>12. Levels(lev, op', free', short')
    BY <1>1, <1>2, <1>4, <1>9 DEF Levels
<1>13. TablesInv'
    BY <1>1, <1>4, <1>6, <1>8, <1>11, <1>12 DEF TablesInv
<1> QED
    BY <1>7, <1>13, Powers DEF OnlyRange, VPage

LEMMA StepLinkTable ==
    ASSUME TablesInv, LinkTable PROVE TablesInv' /\ OnlyRange
<1> USE PagingAssumption
<1>1. /\ op.new # NP /\ ~short /\ tab' = [tab EXCEPT ![op.table][At] = op.new]
      /\ op' = [op EXCEPT !.new = NP] /\ UNCHANGED <<free, spaces, cr3, short>>
    BY DEF LinkTable
<1>2. PICK lev : Forest(lev, tab, spaces) /\ Levels(lev, op, free, short)
    BY DEF TablesInv
<1>3. tab \in [Tables -> Content] /\ OpSound(op, tab, free, spaces)
    BY DEF TablesInv
<1>4. /\ op.i < op.n /\ op.level > 1 /\ tab[op.table][At] = NP /\ tab[op.new] = Zeros
      /\ op.new \notin free
    BY <1>1, <1>3 DEF OpSound, NewOK, At, Here
<1>5. /\ Here \in VPage /\ Here \in Nat /\ At \in Idx /\ op.kind # "none" /\ op.table \in Tables
      /\ op.level \in 1..LEVELS /\ lev[op.table] = op.level /\ op.root \in spaces
      /\ op.i \in Nat /\ op.n \in Nat /\ op.v \in Nat
      /\ op.table = WalkOf(tab, op.root, Here)[op.level]
    BY <1>2, <1>4, Current
<1>6. op.new \in Tables /\ lev[op.new] = 0
    BY <1>1, <1>2, <1>3 DEF OpSound, Op, Levels
<1>7. /\ tab' \in [Tables -> Content] /\ tab'[op.table][At] = op.new
      /\ \A k \in Idx : k # At => tab'[op.table][k] = tab[op.table][k]
      /\ \A u \in Tables : u # op.table => tab'[u] = tab[u]
    BY <1>1, <1>3, <1>5, <1>6 DEF Content
<1>8. \A r \in spaces, v \in Nat :
          /\ \A l \in op.level..LEVELS : WalkOf(tab', r, v)[l] = WalkOf(tab, r, v)[l]
          /\ EntryOf(tab', r, v) = EntryOf(tab, r, v)
  <2>1. lev[op.table] >= 2
      BY <1>4, <1>5
  <2>2. ASSUME NEW r \in spaces, NEW v \in Nat
        PROVE  /\ \A l \in lev[op.table]..LEVELS : WalkOf(tab', r, v)[l] = WalkOf(tab, r, v)[l]
               /\ EntryOf(tab', r, v) = EntryOf(tab, r, v)
    <3>1. PICK j \in Idx : j = At
        BY <1>5
    <3>2. PICK t \in Tables : t = op.table
        BY <1>5
    <3>3. PICK f \in Tables : f = op.new
        BY <1>6
    <3>4. PICK tc : tc = tab'
        OBVIOUS
    <3>5. /\ lev[t] >= 2 /\ tab[t][j] = NP /\ lev[f] = 0 /\ tab[f] = Zeros /\ tc[t][j] = f
          /\ \A k \in Idx : k # j => tc[t][k] = tab[t][k]
          /\ \A u \in Tables : u # t => tc[u] = tab[u]
        BY <1>4, <1>6, <1>7, <2>1, <3>1, <3>2, <3>3, <3>4
    <3>6. /\ \A l \in lev[t]..LEVELS : WalkOf(tc, r, v)[l] = WalkOf(tab, r, v)[l]
          /\ EntryOf(tc, r, v) = EntryOf(tab, r, v)
        BY <1>2, <3>5, LinkKeeps
    <3> QED
        BY <3>2, <3>4, <3>6
  <2> QED
      BY <1>5, <2>2
<1>9. op.table \in spaces /\ At \in KernelIdx => op.table = Boot
  <2> SUFFICES ASSUME op.table \in spaces, At \in KernelIdx, op.table # Boot PROVE FALSE
      OBVIOUS
  <2>1. op.level = LEVELS
      BY <1>2, <1>5 DEF Forest
  <2>2. op.table = op.root
      BY <1>5, <2>1, WalkExists DEF Walk
  <2>3. op.i \in 0..op.n - 1
      BY <1>4, <1>5
  <2>4. Kernel(op.v + op.i)
      BY <2>1 DEF Kernel, At, Here
  <2>5. tab[op.root][Index(op.v + op.i, LEVELS)] # NP
      BY <1>3, <2>2, <2>3, <2>4 DEF OpSound, RangeOK
  <2> QED
      BY <1>4, <2>1, <2>2, <2>5 DEF At, Here
<1> DEFINE le == [lev EXCEPT ![op.new] = lev[op.table] - 1]
<1>10. Forest(le, tab', spaces)
  <2>1. lev[op.table] >= 2
      BY <1>4, <1>5
  <2> QED
      BY <1>2, <1>4, <1>5, <1>6, <1>7, <1>9, <2>1, LinkForest
<1>11. /\ op' \in Op /\ op'.kind = op.kind /\ op'.root = op.root /\ op'.v = op.v /\ op'.p = op.p
       /\ op'.n = op.n /\ op'.i = op.i /\ op'.level = op.level /\ op'.table = op.table /\ op'.new = NP
    BY <1>1, <1>3 DEF OpSound, Op
<1>12. OpSound(op', tab', free, spaces)
  <2>1. \A j \in Idx : tab[op.root][j] # NP => tab'[op.root][j] # NP
      BY <1>1, <1>2, <1>5, <1>7 DEF Forest
  <2>2. RangeOK(op', tab')
    <3>1. \A k \in 0..op.n - 1 : op.v + k \in Nat
        BY <1>5
    <3>2. \A k \in 0..op.n - 1 : Index(op.v + k, LEVELS) \in Idx
        BY <3>1, IndexType
    <3> QED
        BY <1>3, <1>11, <2>1, <3>2 DEF OpSound, RangeOK
  <2>3. WalkOK(op', tab')
      BY <1>5, <1>8, <1>11 DEF WalkOK, Here
  <2>4. DoneOK(op', tab')
    <3>1. \A k \in 0..op.i - 1 : op.v + k \in Nat
        BY <1>5
    <3> QED
        BY <1>3, <1>5, <1>8, <1>11, <3>1 DEF OpSound, DoneOK, IsMap
  <2> QED
      BY <1>3, <1>5, <1>11, <2>2, <2>3, <2>4 DEF OpSound, NewOK
<1>13. Levels(le, op', free, short)
  <2>1. lev \in [Tables -> 0..LEVELS] /\ free \subseteq Tables
      BY <1>2, Constants DEF Forest, TablesInv
  <2>2. \A t \in Tables : t # op.new => le[t] = lev[t]
      BY <2>1
  <2>3. ~short => op.new # PhysZero
      BY <1>2 DEF Levels
  <2> QED
      BY <1>2, <1>4, <1>11, <2>1, <2>2, <2>3, Constants DEF Levels
<1>14. TablesInv'
    BY <1>1, <1>7, <1>10, <1>12, <1>13 DEF TablesInv
<1> QED
    BY <1>8, <1>14, Powers DEF OnlyRange, VPage

LEMMA StepNothingToUnmap ==
    ASSUME TablesInv, NothingToUnmap PROVE TablesInv' /\ OnlyRange
<1> USE PagingAssumption
<1>1. /\ op.i < op.n /\ ~Maps /\ op.level > 1 /\ tab[op.table][At] = NP /\ op' = NextPage
      /\ UNCHANGED <<tab, free, spaces, cr3, short>>
    BY DEF NothingToUnmap, Working
<1>2. PICK lev : Forest(lev, tab, spaces) /\ Levels(lev, op, free, short)
    BY DEF TablesInv
<1>3. /\ op.table \in Tables /\ op.level \in 1..LEVELS /\ op.kind # "none"
      /\ op.table = WalkOf(tab, op.root, Here)[op.level]
    BY <1>1, <1>2, Current
<1>4. OpSound(op, tab, free, spaces)
    BY DEF TablesInv
<1>5. EntryOf(tab, op.root, Here) = NP
  <2>1. PICK w : w = WalkOf(tab, op.root, Here) /\ Walk(w, tab, op.root, Here)
      BY WalkExists
  <2>2. op.level - 1 \in 1..LEVELS - 1 /\ op.level - 1 + 1 = op.level /\ op.level - 1 \in 1..LEVELS
      BY <1>1, <1>3
  <2>3. w[op.level - 1] = NP
      BY <1>1, <1>3, <2>1, <2>2 DEF Walk, Below, At
  <2> QED
      BY <2>1, <2>2, <2>3, WalkMisses, Constants DEF EntryOf
<1>6. OpSound(op', tab, free, spaces) /\ op'.new = NP
  <2>1. RangeOK(op, tab) /\ DoneOK(op, tab)
      BY <1>4 DEF OpSound
  <2>2. EntryOf(tab, op.root, op.v + op.i) = IF IsMap(op) THEN op.p + op.i ELSE NP
      BY <1>1, <1>5 DEF IsMap, Maps, Here
  <2>3. op' = [op EXCEPT !.i = op.i + 1, !.level = LEVELS, !.table = op.root, !.new = NP]
      BY <1>1 DEF NextPage
  <2> QED
      BY <1>1, <1>3, <1>4, <2>1, <2>2, <2>3, NextPageSound
<1>7. Levels(lev, op', free, short)
    BY <1>2, <1>6, Constants DEF Levels
<1>8. TablesInv'
    BY <1>1, <1>2, <1>6, <1>7 DEF TablesInv
<1> QED
    BY <1>1, <1>8 DEF OnlyRange

LEMMA StepStoreEntry ==
    ASSUME TablesInv, StoreEntry PROVE TablesInv' /\ OnlyRange
<1> USE PagingAssumption
<1>1. /\ op.i < op.n /\ op.level = 1 /\ op' = NextPage
      /\ tab' = [tab EXCEPT ![op.table][At] = IF Maps THEN op.p + op.i ELSE NP]
      /\ UNCHANGED <<free, spaces, cr3, short>>
    BY DEF StoreEntry, Working
<1>2. PICK lev : Forest(lev, tab, spaces) /\ Levels(lev, op, free, short)
    BY DEF TablesInv
<1>3. /\ Here \in VPage /\ Here \in Nat /\ At \in Idx /\ op.kind # "none" /\ op.table \in Tables
      /\ op.level \in 1..LEVELS /\ lev[op.table] = op.level /\ op.root \in spaces
      /\ op.i \in Nat /\ op.n \in Nat /\ op.v \in Nat
      /\ op.table = WalkOf(tab, op.root, Here)[op.level]
    BY <1>1, <1>2, Current
<1>4. tab \in [Tables -> Content] /\ OpSound(op, tab, free, spaces)
    BY DEF TablesInv
<1>5. PICK e \in Nat \cup {NP} : e = IF Maps THEN op.p + op.i ELSE NP
    BY <1>3, <1>4 DEF OpSound, Op
<1>6. /\ tab' \in [Tables -> Content] /\ tab'[op.table][At] = e
      /\ \A k \in Idx : k # At => tab'[op.table][k] = tab[op.table][k]
      /\ \A u \in Tables : u # op.table => tab'[u] = tab[u]
    BY <1>1, <1>3, <1>4, <1>5 DEF Content
<1>7. At = Index(Here, 1)
    BY <1>1 DEF At
<1>8. ASSUME NEW r \in spaces, NEW v \in VPage
      PROVE  /\ EntryOf(tab', r, v) # EntryOf(tab, r, v) => v = Here /\ (r = op.root \/ Kernel(v))
             /\ EntryOf(tab', op.root, Here) = e
  <2>1. WalkOf(tab, op.root, Here)[1] = op.table
      BY <1>1, <1>3
  <2> QED
      BY <1>2, <1>3, <1>6, <1>7, <2>1, StoreChanges
<1>9. Forest(lev, tab', spaces)
  <2>1. \A t \in Tables : lev[t] >= 2 => tab'[t] = tab[t]
      BY <1>1, <1>3, <1>6
  <2> QED
      BY <1>2, <2>1, LeavesFree
<1>10. OpSound(op', tab', free, spaces) /\ op'.new = NP
  <2>1. tab'[op.root] = tab[op.root]
      BY <1>1, <1>2, <1>3, <1>6 DEF Forest
  <2>2. RangeOK(op, tab')
      BY <1>4, <2>1 DEF OpSound, RangeOK
  <2>3. DoneOK(op, tab')
    <3>1. \A k \in 0..op.i - 1 : k \in 0..op.n - 1 /\ op.v + k # Here
        BY <1>1, <1>3 DEF Here
    <3>2. \A k \in 0..op.n - 1 : op.v + k \in VPage
        BY <1>4 DEF OpSound, RangeOK
    <3>3. \A k \in 0..op.i - 1 : EntryOf(tab', op.root, op.v + k) = EntryOf(tab, op.root, op.v + k)
        BY <1>3, <1>8, <3>1, <3>2
    <3> QED
        BY <1>4, <3>3 DEF OpSound, DoneOK
  <2>4. EntryOf(tab', op.root, op.v + op.i) = IF IsMap(op) THEN op.p + op.i ELSE NP
      BY <1>3, <1>5, <1>8 DEF IsMap, Maps, Here
  <2>5. op' = [op EXCEPT !.i = op.i + 1, !.level = LEVELS, !.table = op.root, !.new = NP]
      BY <1>1 DEF NextPage
  <2>6. PICK tc : tc = tab'
      OBVIOUS
  <2>7. PICK q : q = op'
      OBVIOUS
  <2>8. OpSound(q, tc, free, spaces) /\ q.new = NP
    <3>1. /\ RangeOK(op, tc) /\ DoneOK(op, tc)
          /\ EntryOf(tc, op.root, op.v + op.i) = IF IsMap(op) THEN op.p + op.i ELSE NP
          /\ q = [op EXCEPT !.i = op.i + 1, !.level = LEVELS, !.table = op.root, !.new = NP]
        BY <2>2, <2>3, <2>4, <2>5, <2>6, <2>7
    <3>2. op.i < op.n /\ op.kind # "none"
        BY <1>1, <1>3
    <3> QED
        BY <1>4, <3>1, <3>2, NextPageSound
  <2> QED
      BY <2>6, <2>7, <2>8
<1>11. Levels(lev, op', free, short)
    BY <1>2, <1>10, Constants DEF Levels
<1>12. TablesInv'
    BY <1>1, <1>6, <1>9, <1>10, <1>11 DEF TablesInv
<1>13. InRange(Here)
    BY <1>1, <1>3 DEF InRange, Here
<1> QED
    BY <1>3, <1>8, <1>12, <1>13 DEF OnlyRange

(* The beginning of paging_map_page and paging_unmap_page. *)
LEMMA StepBegin ==
    ASSUME TablesInv, NEW root \in spaces, NEW v \in Page, NEW n \in LENGTHS, Allowed(root, v, n),
           op' \in Op, op'.kind # "none", op'.root = root, op'.v = v, op'.n = n, op'.i = 0,
           op'.level = LEVELS, op'.table = root, op'.new = NP,
           UNCHANGED <<tab, free, spaces, cr3, short>>
    PROVE  TablesInv' /\ OnlyRange
<1> USE PagingAssumption
<1>1. PICK lev : Forest(lev, tab, spaces) /\ Levels(lev, op, free, short)
    BY DEF TablesInv
<1>2. root \in Tables /\ v \in Nat /\ n \in Nat
    BY <1>1, Powers DEF Forest, VPage
<1>3. RangeOK(op', tab)
  <2>1. \A k \in 0..n - 1 : v + k \in VPage
      BY <1>2, Powers DEF Allowed, VPage
  <2> QED
      BY <2>1 DEF RangeOK, Allowed
<1>4. WalkOK(op', tab)
    BY WalkExists DEF WalkOK, Walk
<1>5. DoneOK(op', tab)
    BY DEF DoneOK
<1>6. OpSound(op', tab, free, spaces)
    BY <1>2, <1>3, <1>4, <1>5 DEF OpSound, NewOK
<1>7. Levels(lev, op', free, short)
    BY <1>1, Constants DEF Levels
<1>8. TablesInv'
    BY <1>1, <1>6, <1>7 DEF TablesInv
<1> QED
    BY <1>8 DEF OnlyRange

(* The end of an operation. *)
LEMMA StepEnd ==
    ASSUME TablesInv, op' = NoOp, UNCHANGED <<tab, free, spaces, cr3, short>>
    PROVE  TablesInv' /\ OnlyRange
<1>1. PICK lev : Forest(lev, tab, spaces) /\ Levels(lev, op, free, short)
    BY DEF TablesInv
<1>2. OpSound(NoOp, tab, free, spaces) /\ NoOp.new = NP
    BY <1>1, NoOpSound DEF Forest
<1>3. Levels(lev, NoOp, free, short)
    BY <1>1, <1>2, Constants DEF Levels
<1>4. TablesInv'
    BY <1>1, <1>2, <1>3 DEF TablesInv
<1> QED
    BY <1>4 DEF OnlyRange

LEMMA StepCreate ==
    ASSUME TablesInv, NEW f \in Frame \cup {PhysZero}, paging_create_pml4(f)
    PROVE  TablesInv' /\ OnlyRange
<1> USE PagingAssumption
<1>1. /\ op = NoOp /\ ~short /\ Alloc(f) /\ spaces' = spaces \cup {f} /\ UNCHANGED <<cr3, op>>
      /\ tab' = [tab EXCEPT ![f] = [j \in Idx |-> IF j \in KernelIdx THEN tab[Boot][j] ELSE NP]]
    BY DEF paging_create_pml4
<1>2. PICK lev : Forest(lev, tab, spaces) /\ Levels(lev, op, free, short)
    BY DEF TablesInv
<1>3. /\ f \in Tables /\ lev[f] = 0 /\ free' \subseteq free /\ f \notin free'
      /\ short' \in BOOLEAN /\ (short' \/ f # PhysZero)
    BY <1>1, <1>2, AllocFacts
<1>4. tab \in [Tables -> Content]
    BY DEF TablesInv
<1>5. /\ tab' \in [Tables -> Content] /\ \A u \in Tables : u # f => tab'[u] = tab[u]
      /\ \A j \in Idx : tab'[f][j] = IF j \in KernelIdx THEN tab[Boot][j] ELSE NP
  <2>1. tab[Boot] \in Content
      BY <1>4, Constants
  <2>2. [j \in Idx |-> IF j \in KernelIdx THEN tab[Boot][j] ELSE NP] \in Content
      BY <2>1 DEF Content
  <2> QED
      BY <1>1, <1>3, <1>4, <2>2
<1> DEFINE le == [lev EXCEPT ![f] = LEVELS]
<1>6. Forest(le, tab', spaces')
    BY <1>1, <1>2, <1>3, <1>5, CreateForest
<1>7. \A r \in spaces, v \in Nat : EntryOf(tab', r, v) = EntryOf(tab, r, v)
  <2>1. \A t \in Tables : lev[t] # 0 => tab'[t] = tab[t]
      BY <1>3, <1>5
  <2> QED
      BY <1>2, <2>1, FillKeeps
<1>8. OpSound(NoOp, tab', free', spaces') /\ NoOp.new = NP
    BY <1>6, NoOpSound DEF Forest
<1>9. Levels(le, NoOp, free', short')
  <2>1. lev \in [Tables -> 0..LEVELS] /\ free' \subseteq Tables /\ PhysZero \in Tables /\ NP # PhysZero
      BY <1>2, <1>3, Constants DEF Forest, TablesInv
  <2>2. \A t \in Tables : t # f => le[t] = lev[t]
      BY <2>1
  <2> HIDE DEF le
  <2> QED
      BY <1>1, <1>2, <1>3, <1>8, <2>1, <2>2 DEF Levels
<1>10. TablesInv'
    BY <1>1, <1>3, <1>5, <1>6, <1>8, <1>9 DEF TablesInv
<1> QED
    BY <1>7, <1>10, Powers DEF OnlyRange, VPage

(***************************************************************************)
(* The invariant of the tables, and of the TLB.                            *)
(***************************************************************************)

LEMMA NextTables ==
    ASSUME TablesInv, [Next]_vars PROVE TablesInv' /\ OnlyRange
<1>0. /\ \A r \in spaces : r \in Tables
      /\ \A v \in Page : v \in Nat
      /\ \A n \in LENGTHS : n \in Nat
      /\ \A p \in Phys : p \in Nat
      /\ LEVELS \in 1..LEVELS /\ 0 \in Nat /\ Boot \in Tables
    BY PagingAssumption, Powers, Constants DEF TablesInv, Forest, VPage
<1>1. CASE Descend
    BY <1>1, StepDescend
<1>2. CASE LinkTable
    BY <1>2, StepLinkTable
<1>3. CASE NothingToUnmap
    BY <1>3, StepNothingToUnmap
<1>4. CASE StoreEntry
    BY <1>4, StepStoreEntry
<1>5. CASE invalidate
    BY <1>5, StepEnd DEF invalidate
<1>6. CASE ReloadCr3
    BY <1>6, StepEnd DEF ReloadCr3
<1>7. ASSUME NEW f \in Frame \cup {PhysZero}, NewTable(f) PROVE TablesInv' /\ OnlyRange
    BY <1>7, StepNewTable
<1>8. ASSUME NEW f \in Frame \cup {PhysZero}, paging_create_pml4(f) PROVE TablesInv' /\ OnlyRange
    BY <1>8, StepCreate
<1>9. ASSUME NEW root \in spaces, Switch(root) PROVE TablesInv' /\ OnlyRange
  <2>1. cr3' \in spaces /\ UNCHANGED <<tab, free, spaces, op, short>>
      BY <1>9 DEF Switch
  <2> QED
      BY <2>1 DEF TablesInv, OnlyRange
<1>10. ASSUME NEW root \in spaces, NEW v \in Page, NEW n \in LENGTHS, paging_unmap_page(root, v, n)
       PROVE  TablesInv' /\ OnlyRange
  <2>1. /\ op' = [NoOp EXCEPT !.kind = "unmap", !.root = root, !.table = root, !.v = v, !.n = n]
        /\ Allowed(root, v, n) /\ UNCHANGED <<tab, free, spaces, cr3, short>>
      BY <1>10 DEF paging_unmap_page
  <2>2. op' \in Op
      BY <1>0, <2>1, Zenon DEF Op, NoOp
  <2>3. /\ op'.kind = "unmap" /\ op'.root = root /\ op'.v = v /\ op'.n = n /\ op'.i = 0
        /\ op'.level = LEVELS /\ op'.table = root /\ op'.new = NP
      BY <2>1 DEF NoOp
  <2> QED
      BY <2>1, <2>2, <2>3, StepBegin
<1>11. ASSUME NEW root \in spaces, NEW v \in Page, NEW n \in LENGTHS, NEW p \in Phys,
              paging_map_page(root, v, p, n)
       PROVE  TablesInv' /\ OnlyRange
  <2>1. /\ op' = [NoOp EXCEPT !.kind = "map", !.root = root, !.table = root, !.v = v, !.p = p, !.n = n]
        /\ Allowed(root, v, n) /\ UNCHANGED <<tab, free, spaces, cr3, short>>
      BY <1>11 DEF paging_map_page
  <2>2. op' \in Op
      BY <1>0, <2>1, Zenon DEF Op, NoOp
  <2>3. /\ op'.kind = "map" /\ op'.root = root /\ op'.v = v /\ op'.n = n /\ op'.i = 0
        /\ op'.level = LEVELS /\ op'.table = root /\ op'.new = NP
      BY <2>1 DEF NoOp
  <2> QED
      BY <2>1, <2>2, <2>3, StepBegin
<1>12. CASE UNCHANGED <<tab, free, spaces, cr3, op, short>>
    BY <1>12 DEF TablesInv, OnlyRange
<1>13. ASSUME NEW v \in VPage, TlbFill(v) PROVE TablesInv' /\ OnlyRange
    BY <1>12, <1>13 DEF TlbFill
<1> QED
    BY <1>1, <1>2, <1>3, <1>4, <1>5, <1>6, <1>7, <1>8, <1>9, <1>10, <1>11, <1>12, <1>13 DEF Next, vars

\* TlbCoherent, for given values of the variables.
Coherent(tl, tb, c, o) ==
    \A v \in VPage :
        tl[v] # NP => tl[v] = EntryOf(tb, c, v) \/ (o.kind # "none" /\ o.v <= v /\ v < o.v + o.n)

TlbInv == tlb \in [VPage -> Nat \cup {NP, Junk}] /\ Coherent(tlb, tab, cr3, op)

LEMMA CoherentIs ==
    TlbCoherent <=> Coherent(tlb, tab, cr3, op)
    BY Zenon DEF TlbCoherent, Coherent, InRange, Entry, EntryOf, WalkOf, Below

(* Whatever a step does to the tables, what is cached stays right outside  *)
(* the range of the operation.                                             *)
LEMMA CacheStays ==
    ASSUME TablesInv, TlbInv, OnlyRange, UNCHANGED <<tlb, cr3>>,
           op.kind = "none" \/ (op'.kind = op.kind /\ op'.v = op.v /\ op'.n = op.n)
    PROVE  TlbInv'
<1>1. cr3 \in spaces
    BY DEF TablesInv
<1>2. ASSUME NEW v \in VPage, tlb[v] # NP
      PROVE  tlb[v] = EntryOf(tab', cr3, v) \/ (op'.kind # "none" /\ op'.v <= v /\ v < op'.v + op'.n)
  <2>1. tlb[v] = EntryOf(tab, cr3, v) \/ (op.kind # "none" /\ op.v <= v /\ v < op.v + op.n)
      BY <1>2 DEF TlbInv, Coherent
  <2>2. \/ EntryOf(tab', cr3, v) = EntryOf(tab, cr3, v)
        \/ op.kind # "none" /\ op.v <= v /\ v < op.v + op.n
      BY <1>1 DEF OnlyRange, InRange
  <2> QED
      BY <2>1, <2>2
<1> QED
    BY <1>2 DEF TlbInv, Coherent

(* The walk of a page ends in an entry of a table. *)
LEMMA EntryType ==
    ASSUME TablesInv, NEW v \in VPage PROVE EntryOf(tab, cr3, v) \in Nat \cup {NP, Junk}
<1>1. v \in Nat /\ 1 \in 1..LEVELS
    BY PagingAssumption, Powers DEF VPage
<1>2. Index(v, 1) \in Idx
    BY <1>1, IndexType
<1>3. tab \in [Tables -> [Idx -> Nat \cup {NP, Junk}]]
    BY Constants DEF TablesInv, Content
<1> QED
    BY <1>2, <1>3 DEF EntryOf, Below

LEMMA NextTlb ==
    ASSUME TablesInv, TlbInv, OnlyRange, [Next]_vars PROVE TlbInv'
<1>0. op \in Op /\ (op = NoOp => op.kind = "none")
    BY DEF TablesInv, OpSound, NoOp
<1>1. CASE Descend
    BY <1>0, <1>1, CacheStays DEF Descend, Op
<1>2. CASE LinkTable
    BY <1>0, <1>2, CacheStays DEF LinkTable, Op
<1>3. CASE NothingToUnmap
    BY <1>0, <1>3, CacheStays DEF NothingToUnmap, NextPage, Op
<1>4. CASE StoreEntry
    BY <1>0, <1>4, CacheStays DEF StoreEntry, NextPage, Op
<1>5. CASE invalidate
  <2>1. /\ tlb' = [v \in VPage |-> IF op.v <= v /\ v < op.v + op.n THEN NP ELSE tlb[v]]
        /\ UNCHANGED <<tab, cr3>>
      BY <1>5 DEF invalidate
  <2>2. tlb' \in [VPage -> Nat \cup {NP, Junk}]
      BY <2>1 DEF TlbInv
  <2>3. ASSUME NEW v \in VPage, tlb'[v] # NP PROVE tlb'[v] = EntryOf(tab, cr3, v)
      BY <2>1, <2>3 DEF TlbInv, Coherent
  <2> QED
      BY <2>1, <2>2, <2>3 DEF TlbInv, Coherent
<1>6. CASE tlb' = NoTlb
  <2>1. tlb' \in [VPage -> Nat \cup {NP, Junk}] /\ \A v \in VPage : tlb'[v] = NP
      BY <1>6 DEF NoTlb
  <2> QED
      BY <2>1 DEF TlbInv, Coherent
<1>7. ASSUME NEW f \in Frame \cup {PhysZero}, NewTable(f) PROVE TlbInv'
    BY <1>0, <1>7, CacheStays DEF NewTable, Op
<1>8. ASSUME NEW f \in Frame \cup {PhysZero}, paging_create_pml4(f) PROVE TlbInv'
    BY <1>0, <1>8, CacheStays DEF paging_create_pml4
<1>9. ASSUME NEW root \in spaces, NEW v \in Page, NEW n \in LENGTHS, paging_unmap_page(root, v, n)
      PROVE  TlbInv'
    BY <1>0, <1>9, CacheStays DEF paging_unmap_page
<1>10. ASSUME NEW root \in spaces, NEW v \in Page, NEW n \in LENGTHS, NEW p \in Phys,
              paging_map_page(root, v, p, n)
       PROVE  TlbInv'
    BY <1>0, <1>10, CacheStays DEF paging_map_page
<1>11. CASE UNCHANGED vars
    BY <1>11, CacheStays DEF vars
<1>12. ASSUME NEW u \in VPage, TlbFill(u) PROVE TlbInv'
  <2>1. tlb' = [tlb EXCEPT ![u] = EntryOf(tab, cr3, u)] /\ UNCHANGED <<tab, cr3, op>>
      BY <1>12, Zenon DEF TlbFill, Entry, EntryOf, WalkOf, Below
  <2>2. PICK e \in Nat \cup {NP, Junk} : e = EntryOf(tab, cr3, u)
      BY EntryType
  <2>3. /\ tlb' \in [VPage -> Nat \cup {NP, Junk}] /\ tlb'[u] = EntryOf(tab, cr3, u)
        /\ \A v \in VPage : v # u => tlb'[v] = tlb[v]
      BY <2>1, <2>2 DEF TlbInv
  <2> QED
      BY <2>1, <2>3 DEF TlbInv, Coherent
<1>13. ReloadCr3 \/ (\E root \in spaces : Switch(root)) => tlb' = NoTlb
    BY DEF ReloadCr3, Switch
<1> QED
    BY <1>1, <1>2, <1>3, <1>4, <1>5, <1>6, <1>7, <1>8, <1>9, <1>10, <1>11, <1>12, <1>13 DEF Next

LEMMA InitTlb == Init => TlbInv
<1> SUFFICES ASSUME Init PROVE TlbInv
    OBVIOUS
<1>1. tlb \in [VPage -> Nat \cup {NP, Junk}] /\ \A v \in VPage : tlb[v] = NP
    BY DEF Init, NoTlb
<1> QED
    BY <1>1 DEF TlbInv, Coherent

(* The invariant holds, and every step changes only the entries it may. *)
LEMMA Invariant == Spec => [](TablesInv /\ TlbInv)
<1>1. Init => TablesInv /\ TlbInv
    BY InitTables, InitTlb
<1>2. TablesInv /\ TlbInv /\ [Next]_vars => TablesInv' /\ TlbInv'
    BY NextTables, NextTlb
<1> QED
    BY <1>1, <1>2, PTL DEF Spec

LEMMA TablesAreSound == TablesInv => TablesSound
<1> SUFFICES ASSUME TablesInv PROVE TablesSound
    OBVIOUS
<1>1. PICK lev : Forest(lev, tab, spaces)
    BY DEF TablesInv
<1>2. OpSound(op, tab, free, spaces)
    BY DEF TablesInv
<1>3. TypeOK
  <2>1. op \in Op /\ op.i <= op.n
      BY <1>2 DEF OpSound
  <2>2. op.i \in 0..op.n /\ op.level \in 1..LEVELS /\ op.table \in Tables
      BY <2>1 DEF Op
  <2> QED
      BY <1>1, <2>2 DEF TypeOK, TablesInv, Content, Forest
<1>4. RangeDone
  <2> SUFFICES ASSUME op.i = op.n, NEW k \in 0..op.n - 1
               PROVE  Entry(op.root, op.v + k) = IF Maps THEN op.p + k ELSE NP
      BY DEF RangeDone
  <2>1. EntryOf(tab, op.root, op.v + k) = IF Maps THEN op.p + k ELSE NP
      BY <1>2 DEF OpSound, DoneOK, IsMap, Maps
  <2> QED
      BY <2>1, Zenon DEF Entry, EntryOf, WalkOf, Below
<1>5. KernelHalfShared
  <2> SUFFICES ASSUME NEW r \in spaces, NEW v \in VPage, Kernel(v), Entry(r, v) # NP
               PROVE  Entry(r, v) = Entry(Boot, v)
      BY DEF KernelHalfShared
  <2>1. Entry(r, v) = EntryOf(tab, r, v) /\ Entry(Boot, v) = EntryOf(tab, Boot, v)
      BY EntryIs
  <2>2. v \in Nat
      BY Powers, PagingAssumption DEF VPage
  <2> QED
      BY <1>1, <2>1, <2>2, KernelAgrees
<1> QED
    BY <1>3, <1>4, <1>5 DEF TablesSound

(* map_page and unmap_page only ever descend into tables; a finished       *)
(* operation has mapped its range as asked; every space that shows a page  *)
(* of the kernel half shows what kernel_pml4 does.                         *)
THEOREM PageTablesSound == Spec => []TablesSound
    BY Invariant, TablesAreSound, PTL

(* The processor never uses a translation that the tables do not hold,     *)
(* except in the range of an operation that has not invalidated it yet,    *)
(* whatever it caches between two stores.                                  *)
THEOREM TlbIsCoherent == Spec => []TlbCoherent
<1>1. TlbInv => TlbCoherent
    BY CoherentIs DEF TlbInv
<1> QED
    BY <1>1, Invariant, PTL

(* No store into a table changes what a page outside the operation's range *)
(* is mapped to, nor a page of another space's lower half.                 *)
THEOREM OthersAreUntouched == Spec => OthersUntouched
<1>1. ASSUME TablesInv, [Next]_vars
      PROVE  [\A r \in spaces, v \in VPage :
                 Entry(r, v)' # Entry(r, v) =>
                     op.kind # "none" /\ InRange(v) /\ (r = op.root \/ Kernel(v))]_vars
  <2>1. OnlyRange
      BY <1>1, NextTables
  <2>2. \A r \in spaces, v \in VPage : Entry(r, v) = EntryOf(tab, r, v) /\ Entry(r, v)' = EntryOf(tab', r, v)
      BY EntryIs
  <2> QED
      BY <2>1, <2>2 DEF OnlyRange
<1> QED
    BY <1>1, Invariant, PTL DEF Spec, OthersUntouched

=============================================================================
