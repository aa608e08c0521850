------------------------------ MODULE FatSize ------------------------------
(***************************************************************************)
(* fat16_compute_fat_size of kernel/src/fs/fat16.c: how many sectors each  *)
(* FAT of a volume of total sectors needs.  The FAT's size and the number  *)
(* of clusters depend on each other; the code iterates from 1 until two    *)
(* rounds agree.  One iteration of the loop is one step.                   *)
(***************************************************************************)
EXTENDS Integers

CONSTANTS
    WORD,       \* 2^32, the modulus of uint32_t
    TOTALS,     \* values of total_sectors
    RESERVED, FATS, ROOTSECTORS, CLUSTER,   \* 1, 2, 32, 8
    PERSECTOR,  \* FAT entries per sector: FAT16_SECTOR_SIZE / 2
    MINCLUSTERS, MAXCLUSTERS                \* 4085 and 65525

ASSUME FatSizeAssumption ==
    /\ WORD \in Nat /\ TOTALS \subseteq 0..WORD - 1
    /\ RESERVED \in Nat /\ FATS \in Nat /\ ROOTSECTORS \in Nat
    /\ CLUSTER \in Nat \ {0} /\ PERSECTOR \in Nat \ {0}
    /\ MINCLUSTERS \in Nat /\ MAXCLUSTERS \in Nat
    /\ MAXCLUSTERS <= 65535 * PERSECTOR
    \* A subtraction that wraps leaves more than any volume has.
    /\ RESERVED + FATS * ((MAXCLUSTERS \div PERSECTOR) + 1) + ROOTSECTORS
         + CLUSTER * MAXCLUSTERS <= WORD

VARIABLES
    total,      \* total_sectors
    fat_size,
    done        \* the function has returned fat_size, or 0

vars == <<total, fat_size, done>>

Init ==
    /\ total \in TOTALS
    /\ fat_size = 1
    /\ done = FALSE

\* data_sectors, in uint32_t; (int32_t)data_sectors <= 0.
Sectors(f) == (total - RESERVED - FATS * f - ROOTSECTORS) % WORD
NonPositive(d) == d = 0 \/ d >= WORD \div 2

Clusters(f) == Sectors(f) \div CLUSTER

\* Mutant of Rounded: rounds down.
RoundedDown(c) == (c \div PERSECTOR) % 65536

\* next, in uint16_t.
Rounded(c) == ((c + PERSECTOR - 1) \div PERSECTOR) % 65536

Accepted ==
    /\ ~NonPositive(Sectors(fat_size))
    /\ Clusters(fat_size) >= MINCLUSTERS /\ Clusters(fat_size) < MAXCLUSTERS

\* No FAT16 volume has this size.
Refuse ==
    /\ ~done /\ ~Accepted
    /\ fat_size' = 0 /\ done' = TRUE
    /\ UNCHANGED total

Agree ==
    /\ ~done /\ Accepted
    /\ Rounded(Clusters(fat_size)) = fat_size
    /\ done' = TRUE
    /\ UNCHANGED <<total, fat_size>>

\* Mutant of Again: the new size is not stored.
AgainSame ==
    /\ ~done /\ Accepted
    /\ Rounded(Clusters(fat_size)) # fat_size
    /\ UNCHANGED <<total, fat_size, done>>

Again ==
    /\ ~done /\ Accepted
    /\ Rounded(Clusters(fat_size)) # fat_size
    /\ fat_size' = Rounded(Clusters(fat_size))
    /\ UNCHANGED <<total, done>>

Next == Refuse \/ Agree \/ Again \/ (done /\ UNCHANGED vars)

Spec == Init /\ [][Next]_vars
FairSpec == Spec /\ WF_vars(Next)

---------------------------------------------------------------------------
(* Properties. *)

(* The types of the state: in particular the size fits the 16 bits of      *)
(* fat_size and of the boot sector's field.                                *)
TypeOK ==
    /\ total \in TOTALS
    /\ fat_size \in 0..(MAXCLUSTERS \div PERSECTOR) + 1
    /\ done \in BOOLEAN

(* The layout that fat16_format builds with the size returned fits the     *)
(* volume, and each FAT has as many entries as there are clusters, and no  *)
(* sector more.  Clusters are numbered from 2, since fat16_format fills    *)
(* entries 0 and 1 itself, which the size does not count: the last cluster *)
(* or the last two have no entry exactly when the clusters fill the FAT's  *)
(* last sector, to the end or but for one entry.                           *)
LayoutFits ==
    done /\ fat_size # 0 =>
        LET c == (total - RESERVED - FATS * fat_size - ROOTSECTORS) \div CLUSTER
            entries == fat_size * PERSECTOR
        IN  /\ RESERVED + FATS * fat_size + ROOTSECTORS + c * CLUSTER <= total
            /\ c >= MINCLUSTERS /\ c < MAXCLUSTERS
            /\ c <= entries /\ c > (fat_size - 1) * PERSECTOR
            /\ c + 2 <= entries <=> c % PERSECTOR \notin {0, PERSECTOR - 1}

\* Some size agrees with the number of clusters it leaves.
HasFixedPoint ==
    \E f \in 1..(MAXCLUSTERS \div PERSECTOR) + 1 : Rounded(Clusters(f)) = f

\* Two neighbouring sizes that each round to the other.
Alternates ==
    LET f == Rounded(Clusters(fat_size))
    IN  /\ ~done /\ f \in {fat_size - 1, fat_size + 1}
        /\ Rounded(Clusters(f)) = fat_size

(* The iteration ends for every volume for which some size agrees with     *)
(* itself, whichever side it is approached from, or which is refused.  For *)
(* any other, such as 32841 sectors, it ends or is caught for ever between *)
(* two neighbouring sizes: the only way in which fat16_format hangs.       *)
FatSizeReturns ==
    /\ ~done /\ (HasFixedPoint \/ ~Accepted) ~> done
    /\ ~done ~> done \/ []Alternates
=============================================================================
