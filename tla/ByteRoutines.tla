---------------------------- MODULE ByteRoutines ----------------------------
(***************************************************************************)
(* memset, memcpy, memmove and memcmp (memory.c), a byte at a time, over   *)
(* one memory in which source and destination may overlap.  The scrolling  *)
(* of the log and the copies of the file system rest on them.              *)
(***************************************************************************)
EXTENDS Integers

CONSTANTS SIZE,  \* bytes of memory
          Byte   \* values of a byte

ASSUME BytesAssumption == SIZE \in Nat /\ Byte \subseteq Nat

VARIABLES mem,
          call,   \* [op, dest, src, count, ch] of the call that runs
          i,      \* its loop counter
          result, \* of memcmp
          old     \* ghost: memory when the call began

byteVars == <<mem, call, i, result, old>>

Address == 0..SIZE - 1
Ops == {"memset", "memcpy", "memmove", "memcmp"}
None == [op |-> "none", dest |-> 0, src |-> 0, count |-> 0, ch |-> 0]

\* Callers stay in memory; memcpy is called on areas that do not overlap.
Legal(c) ==
    /\ c.dest + c.count <= SIZE /\ c.src + c.count <= SIZE
    /\ c.op = "memcpy" => c.dest + c.count <= c.src \/ c.src + c.count <= c.dest

\* Mutant of Backwards: the areas are compared the wrong way round.
BackwardsSwapped(c) == c.op = "memmove" /\ c.src > c.dest

\* memmove copies from the end when the destination lies above the source.
Backwards(c) == c.op = "memmove" /\ c.src < c.dest

\* memmove of an area onto itself returns at once.
OntoItself(c) == c.op = "memmove" /\ c.src = c.dest

Call(c) ==
    /\ call = None /\ Legal(c)
    /\ call' = c /\ old' = mem
    /\ i' = IF Backwards(c) THEN c.count ELSE 0
    /\ UNCHANGED <<mem, result>>

\* The loop has run: i has reached its end.
Over == call # None /\ (OntoItself(call) \/ i = IF Backwards(call) THEN 0 ELSE call.count)

\* The byte a turn of the loop is about.
Turn == IF Backwards(call) THEN i - 1 ELSE i

Copy ==
    /\ call.op \in {"memcpy", "memmove"} /\ ~Over
    /\ mem' = [mem EXCEPT ![call.dest + Turn] = mem[call.src + Turn]]
    /\ i' = IF Backwards(call) THEN i - 1 ELSE i + 1
    /\ UNCHANGED <<call, result, old>>

Set ==
    /\ call.op = "memset" /\ ~Over
    /\ mem' = [mem EXCEPT ![call.dest + i] = call.ch]
    /\ i' = i + 1
    /\ UNCHANGED <<call, result, old>>

\* Mutant of Order: a smaller byte on the left goes unnoticed.
OrderOneSided(x, y) == IF x > y THEN -1 ELSE 0

\* memcmp's answer for two bytes: -1 when the left one is the greater.
Order(x, y) == IF x > y THEN -1 ELSE IF x < y THEN 1 ELSE 0

\* A difference ends the call, the loop otherwise goes on.
Compare ==
    /\ call.op = "memcmp" /\ ~Over
    /\ LET o == Order(mem[call.dest + i], mem[call.src + i]) IN
       /\ i' = IF o = 0 THEN i + 1 ELSE 0
       /\ call' = IF o = 0 THEN call ELSE None
       /\ result' = o
    /\ UNCHANGED <<mem, old>>

Return ==
    /\ Over
    /\ call' = None /\ i' = 0
    /\ result' = IF call.op = "memcmp" THEN 0 ELSE result
    /\ UNCHANGED <<mem, old>>

BytesInit ==
    /\ mem \in [Address -> Byte] /\ old = mem
    /\ call = None /\ i = 0 /\ result = 0

BytesNext ==
    \/ \E op \in Ops, d, s \in 0..SIZE, n \in 0..SIZE, c \in Byte :
          Call([op |-> op, dest |-> d, src |-> s, count |-> n, ch |-> c])
    \/ Copy \/ Set \/ Compare \/ Return

BytesSpec == BytesInit /\ [][BytesNext]_byteVars

-----------------------------------------------------------------------------
\* Bytes stay bytes, the loops stay in the areas they were given, and memcmp
\* answers -1, 0 or 1.
BytesTypeOK ==
    /\ mem \in [Address -> Byte] /\ old \in [Address -> Byte]
    /\ i \in 0..SIZE /\ result \in {-1, 0, 1}
    /\ call = None \/ (call.op \in Ops /\ Legal(call))

\* What the area at the destination must hold in the end, and the bytes
\* around it: the source as it was before the call, however the areas overlap.
Moved(c, before) ==
    [a \in Address |-> IF a \in c.dest..c.dest + c.count - 1
                       THEN IF c.op = "memset" THEN c.ch ELSE before[c.src + (a - c.dest)]
                       ELSE before[a]]

\* A call of memset, memcpy or memmove leaves the bytes asked for at the
\* destination, also where it overlaps the source, and no other byte changed.
MoveExact == Over /\ call.op # "memcmp" => mem = Moved(call, old)

\* memcmp answers 0 exactly for equal areas, and otherwise by the first byte
\* that differs.
CompareExact ==
    [][call.op = "memcmp" /\ call' = None =>
        LET at(k) == <<mem[call.dest + k], mem[call.src + k]>>
            differ == {k \in 0..call.count - 1 : at(k)[1] # at(k)[2]}
        IN  IF differ = {} THEN result' = 0
            ELSE \E k \in differ : /\ \A m \in differ : k <= m
                                   /\ result' = IF at(k)[1] > at(k)[2] THEN -1 ELSE 1]_byteVars
=============================================================================
