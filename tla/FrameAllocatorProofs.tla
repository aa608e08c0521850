------------------------ MODULE FrameAllocatorProofs ------------------------
(***************************************************************************)
(* For every machine and every memory map: the free list is exactly the    *)
(* set of free frames, and the allocator implements the abstract pool.     *)
(*                                                                         *)
(* Three lemmas say what pushing, popping and writing outside the list do  *)
(* to IsListOf; the invariant proof then only tracks which set of frames   *)
(* the list enumerates.                                                    *)
(***************************************************************************)
EXTENDS FrameAllocator, FiniteSetTheorems, TLAPS

(* An empty list enumerates no frame, and only no frame.                   *)
LEMMA EmptyList ==
    ASSUME NEW nx, NEW F, IsFiniteSet(F), 0 \notin F
    PROVE  /\ IsListOf(0, nx, {})
           /\ IsListOf(0, nx, F) => F = {}
<1>1. IsListOf(0, nx, {})
  <2>1. Cardinality({}) = 0
    BY FS_EmptySet
  <2>2. [k \in 1..0 |-> 0] \in [1..0 -> {}]
    OBVIOUS
  <2> QED
    BY <2>1, <2>2 DEF IsListOf, Enumerates
<1>2. ASSUME IsListOf(0, nx, F)  PROVE F = {}
  <2>1. Cardinality(F) \in Nat
    BY FS_CardinalityType
  <2>2. Cardinality(F) = 0
    BY <1>2, <2>1 DEF IsListOf, Enumerates
  <2> QED
    BY <2>2, FS_EmptySet
<1> QED
  BY <1>1, <1>2

(* frame_free's two stores put p in front of the list.                     *)
LEMMA PushList ==
    ASSUME NEW nx \in [Frame -> Word], NEW F \in SUBSET Frame, IsFiniteSet(F),
           NEW p \in Frame \ F, NEW h, IsListOf(h, nx, F)
    PROVE  IsListOf(p, [nx EXCEPT ![p] = h], F \cup {p})
<1> DEFINE n == Cardinality(F)
           G == F \cup {p}
           ny == [nx EXCEPT ![p] = h]
<1>1. n \in Nat
  BY FS_CardinalityType
<1>2. Cardinality(G) = n + 1
  BY FS_AddElement
<1>3. PICK s \in [1..n -> F] : Enumerates(s, n, h, nx, F)
  BY DEF IsListOf
<1> DEFINE t == [k \in 1..n + 1 |-> IF k = 1 THEN p ELSE s[k - 1]]
<1> HIDE DEF n
<1> USE DEF Enumerates
<1>4. t \in [1..n + 1 -> G]
  BY <1>1, <1>3
<1>5. \A f \in G : \E k \in 1..n + 1 : t[k] = f
  <2>1. ASSUME NEW f \in F  PROVE \E k \in 1..n + 1 : t[k] = f
    <3>1. PICK k \in 1..n : s[k] = f
      BY <1>3
    <3>2. k + 1 \in 1..n + 1 /\ t[k + 1] = f
      BY <1>1, <3>1
    <3> QED
      BY <3>2
  <2>2. t[1] = p /\ 1 \in 1..n + 1
    BY <1>1
  <2> QED
    BY <2>1, <2>2
<1>6. \A k, m \in 1..n + 1 : t[k] = t[m] => k = m
  <2> SUFFICES ASSUME NEW k \in 1..n + 1, NEW m \in 1..n + 1, t[k] = t[m]
               PROVE  k = m
    OBVIOUS
  <2>1. CASE k = 1 \/ m = 1
    BY <1>1, <1>3, <2>1
  <2>2. CASE k # 1 /\ m # 1
    <3>1. k - 1 \in 1..n /\ m - 1 \in 1..n /\ s[k - 1] = s[m - 1]
      BY <1>1, <2>2
    <3> QED
      BY <1>1, <1>3, <3>1
  <2> QED
    BY <2>1, <2>2
<1>7. p = IF n + 1 = 0 THEN 0 ELSE t[1]
  BY <1>1
<1>8. \A k \in 1..n + 1 : ny[t[k]] = IF k = n + 1 THEN 0 ELSE t[k + 1]
  <2> SUFFICES ASSUME NEW k \in 1..n + 1
               PROVE  ny[t[k]] = IF k = n + 1 THEN 0 ELSE t[k + 1]
    OBVIOUS
  <2>1. CASE k = 1
    <3>1. ny[t[k]] = h
      BY <1>1, <2>1
    <3>2. CASE n = 0
      BY <1>1, <1>3, <2>1, <3>1, <3>2
    <3>3. CASE n # 0
      BY <1>1, <1>3, <2>1, <3>1, <3>3
    <3> QED
      BY <3>2, <3>3
  <2>2. CASE k # 1
    <3>1. k - 1 \in 1..n /\ t[k] = s[k - 1] /\ s[k - 1] \in F
      BY <1>1, <1>3, <2>2
    <3>2. ny[t[k]] = nx[s[k - 1]]
      BY <3>1
    <3>3. nx[s[k - 1]] = IF k - 1 = n THEN 0 ELSE s[(k - 1) + 1]
      BY <1>3, <3>1
    <3> QED
      BY <1>1, <2>2, <3>2, <3>3
  <2> QED
    BY <2>1, <2>2
<1>9. Enumerates(t, n + 1, p, ny, G)
  BY <1>5, <1>6, <1>7, <1>8
<1> HIDE DEF Enumerates, t, G, ny
<1>10. IsListOf(p, ny, G)
  BY <1>2, <1>4, <1>9 DEF IsListOf
<1> QED
  BY <1>10 DEF G, ny

(* frame_alloc's load takes the head off the list and leaves the rest.     *)
LEMMA PopList ==
    ASSUME NEW nx, NEW F, IsFiniteSet(F), NEW h, h # 0, IsListOf(h, nx, F)
    PROVE  h \in F /\ IsListOf(nx[h], nx, F \ {h})
<1> DEFINE n == Cardinality(F)
           G == F \ {h}
<1>1. n \in Nat
  BY FS_CardinalityType
<1>2. PICK s \in [1..n -> F] : Enumerates(s, n, h, nx, F)
  BY DEF IsListOf
<1>3. n # 0 /\ h = s[1] /\ h \in F
  BY <1>1, <1>2 DEF Enumerates
<1>4. Cardinality(G) = n - 1
  BY <1>3, FS_RemoveElement
<1> DEFINE t == [k \in 1..n - 1 |-> s[k + 1]]
<1> HIDE DEF n
<1> USE DEF Enumerates
<1>5. t \in [1..n - 1 -> G]
  <2> SUFFICES ASSUME NEW k \in 1..n - 1  PROVE s[k + 1] \in F /\ s[k + 1] # s[1]
    BY <1>3
  <2>1. k + 1 \in 1..n /\ 1 \in 1..n /\ k + 1 # 1
    BY <1>1, <1>3
  <2> QED
    BY <1>2, <2>1
<1>6. \A f \in G : \E k \in 1..n - 1 : t[k] = f
  <2> SUFFICES ASSUME NEW f \in G  PROVE \E k \in 1..n - 1 : t[k] = f
    OBVIOUS
  <2>1. PICK k \in 1..n : s[k] = f
    BY <1>2
  <2>2. k # 1
    BY <1>3, <2>1
  <2>3. k - 1 \in 1..n - 1 /\ t[k - 1] = f
    BY <1>1, <2>1, <2>2
  <2> QED
    BY <2>3
<1>7. \A k, m \in 1..n - 1 : t[k] = t[m] => k = m
  <2> SUFFICES ASSUME NEW k \in 1..n - 1, NEW m \in 1..n - 1, t[k] = t[m]
               PROVE  k = m
    OBVIOUS
  <2>1. k + 1 \in 1..n /\ m + 1 \in 1..n /\ s[k + 1] = s[m + 1]
    BY <1>1
  <2> QED
    BY <1>1, <1>2, <2>1
<1>8. nx[h] = IF n - 1 = 0 THEN 0 ELSE t[1]
  <2>1. 1 \in 1..n /\ nx[s[1]] = IF 1 = n THEN 0 ELSE s[1 + 1]
    BY <1>1, <1>2, <1>3
  <2> QED
    BY <1>1, <1>3, <2>1
<1>9. \A k \in 1..n - 1 : nx[t[k]] = IF k = n - 1 THEN 0 ELSE t[k + 1]
  <2> SUFFICES ASSUME NEW k \in 1..n - 1
               PROVE  nx[t[k]] = IF k = n - 1 THEN 0 ELSE t[k + 1]
    OBVIOUS
  <2>1. k + 1 \in 1..n /\ nx[s[k + 1]] = IF k + 1 = n THEN 0 ELSE s[(k + 1) + 1]
    BY <1>1, <1>2
  <2> QED
    BY <1>1, <2>1
<1>10. Enumerates(t, n - 1, nx[h], nx, G)
  BY <1>6, <1>7, <1>8, <1>9
<1> HIDE DEF Enumerates, t, G
<1>11. IsListOf(nx[h], nx, G)
  BY <1>4, <1>5, <1>10 DEF IsListOf
<1> QED
  BY <1>3, <1>11 DEF G

(* A store into a frame that is not on the list does not change the list.  *)
LEMMA WriteList ==
    ASSUME NEW nx \in [Frame -> Word], NEW F \in SUBSET Frame, NEW p \in Frame \ F,
           NEW w, NEW h, IsListOf(h, nx, F)
    PROVE  IsListOf(h, [nx EXCEPT ![p] = w], F)
<1> DEFINE n == Cardinality(F)
<1>1. PICK s \in [1..n -> F] : Enumerates(s, n, h, nx, F)
  BY DEF IsListOf
<1>2. \A k \in 1..n : [nx EXCEPT ![p] = w][s[k]] = nx[s[k]]
  BY <1>1
<1>3. Enumerates(s, n, h, [nx EXCEPT ![p] = w], F)
  BY <1>1, <1>2 DEF Enumerates
<1> HIDE DEF n
<1> QED
  BY <1>1, <1>3 DEF IsListOf, n

---------------------------------------------------------------------------

(* The inductive invariant: the list is exact, and the callers hold only   *)
(* frames frame_init has already put on it.                                *)
IInv ==
    /\ TypeOK
    /\ held \subseteq Seeded
    /\ FreeListExact

LEMMA MapTypes ==
    /\ Len(MemMap) \in Nat
    /\ DOMAIN MemMap = 1..Len(MemMap)
    /\ \A k \in DOMAIN MemMap : MemMap[k].base \in Nat /\ MemMap[k].length \in Nat
    /\ \A f \in Frame : f \in Nat
<1>1. MemMap \in Seq([base : Nat, length : Nat, usable : BOOLEAN]) /\ Frame \subseteq Nat
  BY MemMapAssumption
<1>2. \A k \in DOMAIN MemMap : MemMap[k] \in [base : Nat, length : Nat, usable : BOOLEAN]
  <2> DEFINE R == [base : Nat, length : Nat, usable : BOOLEAN]
  <2>1. MemMap \in Seq(R)
    BY <1>1
  <2> HIDE DEF R
  <2>2. \A k \in DOMAIN MemMap : MemMap[k] \in R
    BY <2>1
  <2> QED
    BY <2>2 DEF R
<1>3. Len(MemMap) \in Nat /\ DOMAIN MemMap = 1..Len(MemMap)
  BY <1>1
<1>4. \A k \in DOMAIN MemMap : MemMap[k].base \in Nat /\ MemMap[k].length \in Nat
  BY <1>2
<1> QED
  BY <1>1, <1>3, <1>4

(* One frame_free of frame_init adds a frame that was on no entry before.  *)
LEMMA SeedOne ==
    ASSUME TypeOK, InitPush
    PROVE  LET f == MemMap[i].base + off
           IN  f \in Frame \ Seeded /\ Seeded' = Seeded \cup {f}
<1> DEFINE f == MemMap[i].base + off
<1>1. /\ i \in DOMAIN MemMap /\ i \in Nat /\ MemMap[i].usable /\ off \in Nat
      /\ MemMap[i].base \in Nat /\ MemMap[i].length \in Nat /\ off < MemMap[i].length
      /\ i' = i /\ off' = off + 1
  BY MapTypes DEF TypeOK, InitPush
<1>2. off \in 0..MemMap[i].length - 1
  BY <1>1
<1>3. f \in Frame /\ f \in Nat
  BY <1>1, <1>2, MemMapAssumption
<1>4. f \in Entry(i)
  BY <1>1, <1>3 DEF Entry
<1>5. f \notin Seeded
  <2> SUFFICES ASSUME NEW k \in DOMAIN MemMap, MemMap[k].usable, f \in Entry(k),
                      k < i \/ (k = i /\ f < MemMap[k].base + off)
               PROVE  FALSE
    BY DEF Seeded
  <2>1. k = i
    BY <1>1, <1>4, MemMapAssumption
  <2> QED
    BY <1>1, <1>3, <2>1
<1>6. ASSUME NEW g \in Frame
      PROVE  g \in Seeded' <=> g \in Seeded \/ g = f
  <2>1. g < MemMap[i].base + (off + 1) <=> g < MemMap[i].base + off \/ g = f
    BY <1>1, MapTypes
  <2>2. g \in Seeded' <=> \E k \in DOMAIN MemMap :
            /\ MemMap[k].usable
            /\ g \in Entry(k)
            /\ k < i \/ (k = i /\ g < MemMap[k].base + (off + 1))
    BY <1>1 DEF Seeded
  <2>3. g \in Seeded <=> \E k \in DOMAIN MemMap :
            /\ MemMap[k].usable
            /\ g \in Entry(k)
            /\ k < i \/ (k = i /\ g < MemMap[k].base + off)
    BY DEF Seeded
  <2> HIDE DEF f
  <2> QED
    BY <1>1, <1>4, <2>1, <2>2, <2>3
<1>7. Seeded \subseteq Frame /\ Seeded' \subseteq Frame
  BY DEF Seeded
<1> HIDE DEF f
<1>8. Seeded' = Seeded \cup {f}
  BY <1>3, <1>6, <1>7
<1> QED
  BY <1>3, <1>5, <1>8 DEF f

(* Going to the next entry neither adds nor loses a frame.                 *)
LEMMA SeedNone ==
    ASSUME TypeOK, InitSkip
    PROVE  Seeded' = Seeded
<1>1. /\ i \in DOMAIN MemMap /\ off \in Nat /\ i \in Nat
      /\ MemMap[i].base \in Nat /\ MemMap[i].length \in Nat
      /\ MemMap[i].usable => off >= MemMap[i].length
      /\ i' = i + 1 /\ off' = 0
  BY MapTypes DEF TypeOK, InitSkip
<1>2. ASSUME NEW g \in Frame, NEW k \in DOMAIN MemMap, MemMap[k].usable, g \in Entry(k)
      PROVE  (k < i' \/ (k = i' /\ g < MemMap[k].base + off'))
             <=> (k < i \/ (k = i /\ g < MemMap[k].base + off))
  <2>1. MemMap[k].base \in Nat /\ MemMap[k].length \in Nat /\ g \in Nat /\ k \in Nat
    BY MapTypes
  <2>2. MemMap[k].base <= g /\ g < MemMap[k].base + MemMap[k].length
    BY <1>2 DEF Entry
  <2>3. CASE k = i
    BY <1>1, <1>2, <2>1, <2>2, <2>3
  <2>4. CASE k # i
    BY <1>1, <2>1, <2>2, <2>4
  <2> QED
    BY <2>3, <2>4
<1> QED
  BY <1>2 DEF Seeded

LEMMA SeededSame ==
    ASSUME UNCHANGED <<i, off>>
    PROVE  Seeded' = Seeded
BY DEF Seeded

LEMMA FreeFinite == Free \subseteq Frame /\ IsFiniteSet(Free) /\ 0 \notin Free
BY MemMapAssumption, FS_Subset DEF Free, Seeded

(* Every step of the allocator and of its callers keeps IInv.              *)
LEMMA Preservation ==
    ASSUME IInv, [Next]_vars
    PROVE  IInv'
<1> USE DEF IInv
<1> DEFINE Typ == /\ page_list \in Frame \cup {0} /\ next \in [Frame -> Word]
                  /\ held \subseteq Frame /\ Frame \subseteq Nat \ {0}
<1>0. Typ
  BY MemMapAssumption DEF TypeOK
<1>1. CASE InitPush
  <2> DEFINE f == MemMap[i].base + off
  <2>1. f \in Frame \ Seeded /\ Seeded' = Seeded \cup {f}
    BY <1>1, SeedOne
  <2>2. f \in Frame \ Free /\ Free' = Free \cup {f} /\ held' = held
    BY <1>1, <2>1 DEF InitPush, Free
  <2>3. page_list' = f /\ next' = [next EXCEPT ![f] = page_list]
    BY <1>1 DEF InitPush, Push
  <2> HIDE DEF f
  <2>4. FreeListExact'
    <3>1. IsListOf(f, [next EXCEPT ![f] = page_list], Free \cup {f})
      BY <1>0, <2>2, FreeFinite, PushList DEF FreeListExact
    <3> QED
      BY <2>2, <2>3, <3>1 DEF FreeListExact
  <2>5. TypeOK'
    BY <1>1, <2>1, <2>3 DEF TypeOK, InitPush, Word
  <2> QED
    BY <2>1, <2>2, <2>4, <2>5
<1>2. CASE InitSkip
  <2>1. Seeded' = Seeded /\ Free' = Free
    BY <1>2, SeedNone DEF Free, InitSkip
  <2>2. TypeOK'
    BY <1>2, MapTypes DEF TypeOK, InitSkip
  <2> QED
    BY <1>2, <2>1, <2>2 DEF InitSkip, FreeListExact
<1>3. CASE frame_alloc
  <2>1. Seeded' = Seeded /\ next' = next
    BY <1>3, SeededSame DEF frame_alloc
  <2>2. CASE page_list = 0
    <3>1. page_list' = page_list /\ held' = held /\ Free' = Free
      BY <1>3, <2>1, <2>2 DEF frame_alloc, Free
    <3>2. TypeOK'
      BY <1>3, <2>2 DEF TypeOK, frame_alloc
    <3> QED
      BY <2>1, <3>1, <3>2 DEF FreeListExact
  <2>3. CASE page_list # 0
    <3>1. page_list \in Free /\ IsListOf(next[page_list], next, Free \ {page_list})
      BY <2>3, FreeFinite, PopList DEF FreeListExact
    <3>2. page_list' = next[page_list] /\ held' = held \cup {page_list}
      BY <1>3, <2>3 DEF frame_alloc
    <3>3. Free' = Free \ {page_list} /\ held' \subseteq Seeded'
      BY <2>1, <3>1, <3>2 DEF Free
    <3>4. FreeListExact'
      BY <2>1, <3>1, <3>2, <3>3 DEF FreeListExact
    <3>5. next[page_list] \in Free \cup {0}
      <4>1. IsFiniteSet(Free \ {page_list})
        BY FreeFinite, FS_Subset
      <4>2. CASE next[page_list] # 0
        BY <3>1, <4>1, <4>2, PopList
      <4> QED
        BY <4>2
    <3>6. TypeOK'
      BY <1>3, <2>3, <3>1, <3>5, FreeFinite DEF TypeOK, frame_alloc
    <3> QED
      BY <3>3, <3>4, <3>6
  <2> QED
    BY <2>2, <2>3
<1>4. ASSUME NEW p \in Frame, frame_free(p)  PROVE IInv'
  <2>1. Seeded' = Seeded /\ p \in held /\ held' = held \ {p}
    BY <1>4, SeededSame DEF frame_free
  <2>2. p \in Frame \ Free /\ Free' = Free \cup {p}
    BY <2>1 DEF Free
  <2>3. page_list' = p /\ next' = [next EXCEPT ![p] = page_list]
    BY <1>4 DEF frame_free, Push
  <2>4. FreeListExact'
    <3>1. IsListOf(p, [next EXCEPT ![p] = page_list], Free \cup {p})
      BY <1>0, <2>2, FreeFinite, PushList DEF FreeListExact
    <3> QED
      BY <2>2, <2>3, <3>1 DEF FreeListExact
  <2>5. TypeOK'
    BY <1>4, <2>1, <2>3 DEF TypeOK, frame_free, Word
  <2> QED
    BY <2>1, <2>4, <2>5
<1>5. ASSUME NEW p \in Frame, NEW w \in Word, HolderWrites(p, w)  PROVE IInv'
  <2>1. Seeded' = Seeded /\ Free' = Free /\ p \in Frame \ Free /\ held' = held
    BY <1>5, SeededSame DEF HolderWrites, Free
  <2>2. page_list' = page_list /\ next' = [next EXCEPT ![p] = w]
    BY <1>5 DEF HolderWrites
  <2>3. IsListOf(page_list, [next EXCEPT ![p] = w], Free)
    BY <1>0, <2>1, FreeFinite, WriteList DEF FreeListExact
  <2>4. FreeListExact'
    BY <2>1, <2>2, <2>3 DEF FreeListExact
  <2>5. TypeOK'
    BY <1>5, <2>2 DEF TypeOK, HolderWrites
  <2> QED
    BY <2>1, <2>4, <2>5
<1>6. CASE UNCHANGED vars
  BY <1>6, SeededSame DEF vars, TypeOK, FreeListExact, Free
<1> QED
  BY <1>1, <1>2, <1>3, <1>4, <1>5, <1>6 DEF Next

LEMMA NothingSeeded == Init => Seeded = {}
<1> SUFFICES ASSUME Init, NEW f \in Frame, NEW k \in DOMAIN MemMap, f \in Entry(k),
                    k < i \/ (k = i /\ f < MemMap[k].base + off)
             PROVE  FALSE
  BY DEF Seeded
<1> QED
  BY MapTypes DEF Init, Entry

LEMMA Initially == Init => IInv
<1> SUFFICES ASSUME Init  PROVE IInv
  OBVIOUS
<1>1. TypeOK
  BY MapTypes DEF Init, TypeOK
<1>2. Seeded = {}
  BY NothingSeeded
<1>3. FreeListExact
  <2>1. Free = {} /\ page_list = 0
    BY <1>2 DEF Init, Free
  <2>2. IsListOf(0, next, {})
    BY FS_EmptySet, EmptyList
  <2> QED
    BY <2>1, <2>2 DEF FreeListExact
<1> QED
  BY <1>1, <1>2, <1>3 DEF Init, IInv

LEMMA Invariance == Spec => []IInv
BY Initially, Preservation, PTL DEF Spec

(* The allocator's words stay frame addresses or 0, whatever its callers   *)
(* store in the frames they hold.                                          *)
THEOREM TypeCorrect == Spec => []TypeOK
BY Invariance, PTL DEF IInv

(* The free list never contains a cycle, a frame in use, or fewer frames   *)
(* than are free, for every memory map and every history of calls.         *)
THEOREM ListExact == Spec => []FreeListExact
BY Invariance, PTL DEF IInv

(* The linked list implements the abstract pool: no frame is ever handed   *)
(* out twice, and 0 is returned only when every usable frame is in use.    *)
THEOREM Refinement == Spec => ImplementsPool
<1>1. Init => Pool!Init
  <2> SUFFICES ASSUME Init  PROVE Pool!Init
    OBVIOUS
  <2>1. Seeded = {}
    BY NothingSeeded
  <2> QED
    BY <2>1 DEF Init, Pool!Init, Free
<1>2. IInv /\ [Next]_vars => [Pool!Next]_Pool!vars
  <2> SUFFICES ASSUME IInv, [Next]_vars  PROVE [Pool!Next]_Pool!vars
    OBVIOUS
  <2> USE DEF IInv
  <2>1. CASE InitPush
    <3> DEFINE f == MemMap[i].base + off
    <3>1. f \in Frame \ Seeded /\ Seeded' = Seeded \cup {f}
      BY <2>1, SeedOne
    <3>2. f \in Frame /\ f \notin Free \cup held /\ Free' = Free \cup {f}
          /\ held' = held /\ ret' = ret
      BY <2>1, <3>1 DEF InitPush, Free
    <3> HIDE DEF f
    <3> QED
      BY <3>2 DEF Pool!Next, Pool!Seed
  <2>2. CASE InitSkip
    <3>1. Free' = Free /\ held' = held /\ ret' = ret
      BY <2>2, SeedNone DEF Free, InitSkip
    <3> QED
      BY <3>1 DEF Pool!vars
  <2>3. CASE frame_alloc
    <3>1. Seeded' = Seeded
      BY <2>3, SeededSame DEF frame_alloc
    <3>2. CASE page_list = 0
      <4>1. Free = {}
        BY <3>2, FreeFinite, EmptyList DEF FreeListExact
      <4>2. Free' = Free /\ held' = held /\ ret' = 0
        BY <2>3, <3>1, <3>2 DEF frame_alloc, Free
      <4> QED
        BY <4>1, <4>2 DEF Pool!Next, Pool!AllocEmpty
    <3>3. CASE page_list # 0
      <4>1. page_list \in Free
        BY <3>3, FreeFinite, PopList DEF FreeListExact
      <4>2. held' = held \cup {page_list} /\ ret' = page_list
        BY <2>3, <3>3 DEF frame_alloc
      <4>3. Free' = Free \ {page_list}
        BY <3>1, <4>2 DEF Free
      <4> QED
        BY <4>1, <4>2, <4>3, FreeFinite DEF Pool!Next, Pool!Alloc
    <3> QED
      BY <3>2, <3>3
  <2>4. ASSUME NEW p \in Frame, frame_free(p)  PROVE Pool!Next
    <3>1. Seeded' = Seeded /\ p \in held /\ held' = held \ {p} /\ ret' = ret
      BY <2>4, SeededSame DEF frame_free
    <3>2. Free' = Free \cup {p}
      BY <3>1 DEF Free
    <3> QED
      BY <3>1, <3>2 DEF Pool!Next, Pool!Release
  <2>5. ASSUME NEW p \in Frame, NEW w \in Word, HolderWrites(p, w)
        PROVE  UNCHANGED Pool!vars
    BY <2>5, SeededSame DEF HolderWrites, Free, Pool!vars
  <2>6. CASE UNCHANGED vars
    BY <2>6, SeededSame DEF vars, Free, Pool!vars
  <2> QED
    BY <2>1, <2>2, <2>3, <2>4, <2>5, <2>6 DEF Next
<1> QED
  BY <1>1, <1>2, Invariance, PTL DEF Spec, ImplementsPool, Pool!Spec
=============================================================================
