---------------------------- MODULE DeviceProofs ----------------------------
(***************************************************************************)
(* Proofs about the smaller components, for every value of their           *)
(* parameters: the size of a FAT (FatSize), the calibration of the timer   *)
(* (ApicTimer), the scan for AHCI controllers (AhciProbe), the memory of   *)
(* the terminal's contexts (FbInit) and FAT16 volumes (Fat16).             *)
(***************************************************************************)
EXTENDS FatSize, Sequences, TLAPS

\* ApicTimer
CONSTANTS PIT_PER_MS, APIC_PER_PIT, RATES, Gaps, Horizon
VARIABLES hz, pulses, stage, time, icr, pit, latched, apic_start, apic_end, interval

\* AhciProbe
CONSTANTS Bus, Slot, FUNCS, AHCI_MAX_CONTROLLERS, Port, Config
VARIABLES pci, at, func_limit, todo, g_abars, ports, count

\* FbInit
CONSTANTS POOL, WIDTH, HEIGHT, Misaligned, CTX, CHAR, ITEM, PTR,
          FONTW, FONTH, GLYPHS, Screens, MaxInits
VARIABLES ptr, based, instance, live, heap, nofree, inits, result

\* Fat16
CONSTANTS SizeOf, Volumes, MAXCALLS
VARIABLES disk, fat16_volumes, op, frames, nodes, ret, formatted, abandoned, calls

Timer == INSTANCE ApicTimer WITH pc <- stage
Scan == INSTANCE AhciProbe
Pool == INSTANCE FbInit
Vol == INSTANCE Fat16 WITH blocks <- nodes

-----------------------------------------------------------------------------
(* FatSize: the size of a FAT. *)

\* The quotient of C's unsigned division, by its defining bounds.
LEMMA Quotient ==
    ASSUME NEW a \in Int, NEW n \in Nat \ {0}
    PROVE  /\ a \div n \in Int
           /\ n * (a \div n) <= a /\ a < n * (a \div n) + n
  OBVIOUS

\* A quotient below m comes from a dividend below n * m.
LEMMA QuotientBelow ==
    ASSUME NEW a \in Nat, NEW n \in Nat \ {0}, NEW m \in Nat, a \div n < m
    PROVE  a < n * m
<1>1. PICK q \in Int : q = a \div n /\ a < n * q + n
  BY Quotient
<1>2. n * (q + 1) <= n * m
  BY <1>1
<1> QED BY <1>1, <1>2

\* next, as fat16_compute_fat_size rounds it: enough entries for c clusters and
\* no sector too many, and it fits the 16 bits it is stored in.
LEMMA RoundedUp ==
    ASSUME NEW c \in Nat, c < MAXCLUSTERS
    PROVE  /\ Rounded(c) \in 0..(MAXCLUSTERS \div PERSECTOR) + 1
           /\ c <= Rounded(c) * PERSECTOR
           /\ c > (Rounded(c) - 1) * PERSECTOR
<1> USE FatSizeAssumption
<1>1. PICK q \in Int : /\ q = (c + PERSECTOR - 1) \div PERSECTOR
                       /\ PERSECTOR * q <= c + PERSECTOR - 1
                       /\ c + PERSECTOR - 1 < PERSECTOR * q + PERSECTOR
  BY Quotient
<1>2. q >= 0
  BY <1>1
<1>3. q <= 65535
  BY <1>1
<1>4. Rounded(c) = q
  BY <1>1, <1>2, <1>3 DEF Rounded
<1>5. PICK m \in Int : /\ m = MAXCLUSTERS \div PERSECTOR
                       /\ MAXCLUSTERS < PERSECTOR * m + PERSECTOR
  <2>1. MAXCLUSTERS \in Int /\ PERSECTOR \in Nat \ {0}
    OBVIOUS
  <2> HIDE FatSizeAssumption
  <2> QED BY <2>1, Quotient
<1>6. q <= m + 1
  <2>1. PERSECTOR * q < PERSECTOR * (m + 2)
    BY <1>1, <1>5
  <2> QED BY <2>1, <1>1, <1>5
<1> QED
  BY <1>1, <1>2, <1>4, <1>5, <1>6

\* The sectors a FAT of fat_size leaves.
Left == total - RESERVED - FATS * fat_size - ROOTSECTORS

\* A number of sectors that fat16_compute_fat_size accepts is the true
\* difference: a subtraction that wrapped would leave too many clusters.
LEMMA NoWrap ==
    ASSUME TypeOK, Accepted
    PROVE  /\ Left \in Nat /\ Sectors(fat_size) = Left
           /\ Clusters(fat_size) \in Nat /\ Clusters(fat_size) < MAXCLUSTERS
           /\ Clusters(fat_size) >= MINCLUSTERS
<1> USE FatSizeAssumption
<1>1. PICK m \in Nat : m = MAXCLUSTERS \div PERSECTOR
  OBVIOUS
<1>2. PICK o \in Nat : o = RESERVED + FATS * fat_size + ROOTSECTORS
  BY <1>1 DEF TypeOK
<1>3. o + CLUSTER * MAXCLUSTERS <= WORD
  <2>1. FATS * fat_size <= FATS * (m + 1)
    BY <1>1 DEF TypeOK
  <2>2. PICK k \in Int, l \in Int, n \in Int :
          k = FATS * fat_size /\ l = FATS * (m + 1) /\ n = CLUSTER * MAXCLUSTERS
    BY <1>1 DEF TypeOK
  <2>3. RESERVED + l + ROOTSECTORS + n <= WORD
    BY <1>1, <2>2
  <2> QED BY <1>2, <2>1, <2>2, <2>3
<1>4. total \in Nat /\ total < WORD /\ WORD # 0
  BY DEF TypeOK
<1>5. Left = total - o /\ Sectors(fat_size) = (total - o) % WORD
  BY <1>1, <1>2, <1>4 DEF Left, Sectors, TypeOK
<1>6. Sectors(fat_size) \in Nat
  BY <1>2, <1>4, <1>5
<1>7. Clusters(fat_size) \in Nat /\ Clusters(fat_size) < MAXCLUSTERS
  BY <1>6 DEF Clusters, Accepted
<1>8. Sectors(fat_size) < CLUSTER * MAXCLUSTERS
  BY <1>6, <1>7, QuotientBelow, SMTT(60) DEF Clusters
<1>9. total >= o
  <2> SUFFICES ASSUME total < o PROVE FALSE
    BY <1>2, <1>4
  <2>1. Sectors(fat_size) = total - o + WORD
    <3>1. PICK k \in Nat : k = total - o + WORD /\ k < WORD
      <4>1. o <= WORD
        <5>1. CLUSTER * MAXCLUSTERS \in Nat
          OBVIOUS
        <5> QED BY <5>1, <1>2, <1>3
      <4> QED BY <4>1, <1>2, <1>4
    <3>2. (total - o) % WORD = k
      BY <3>1, <1>2, <1>4
    <3> QED BY <3>1, <3>2, <1>5
  <2>2. PICK cm \in Nat : cm = CLUSTER * MAXCLUSTERS
    OBVIOUS
  <2> QED BY <2>1, <2>2, <1>2, <1>3, <1>4, <1>8
<1> QED
  BY <1>2, <1>4, <1>5, <1>7, <1>9 DEF Accepted

\* Clusters numbered from 2 lack an entry when their last sector of entries is
\* full, or lacks one only.
LEMMA LastEntries ==
    ASSUME NEW c \in Nat, NEW f \in Nat, NEW p \in Nat \ {0},
           c <= f * p, c > (f - 1) * p
    PROVE  c + 2 <= f * p <=> c % p \notin {0, p - 1}
<1>1. PICK q \in Int, r \in Int : /\ q = c \div p /\ r = c % p
                                 /\ c = p * q + r /\ r >= 0 /\ r < p
  OBVIOUS
<1>2. PICK m \in Int : m = (f - 1) * p /\ m + p = f * p
  OBVIOUS
<1>3. CASE r = 0
  <2>1. q >= f
    <3> SUFFICES ASSUME q <= f - 1 PROVE FALSE
      BY <1>1
    <3>1. p * q <= p * (f - 1) /\ p * (f - 1) = (f - 1) * p
      BY <1>1
    <3> QED BY <3>1, <1>1, <1>3
  <2>2. p * q >= p * f /\ p * f = f * p
    BY <2>1, <1>1
  <2>3. c = m + p
    BY <2>2, <1>1, <1>2, <1>3
  <2> QED BY <2>3, <1>1, <1>2, <1>3
<1>4. CASE r > 0
  <2>1. q <= f - 1
    <3> SUFFICES ASSUME q >= f PROVE FALSE
      BY <1>1
    <3>1. p * q >= f * p
      BY <1>1
    <3> QED BY <3>1, <1>1, <1>4
  <2>2. q >= f - 1
    <3> SUFFICES ASSUME q + 1 <= f - 1 PROVE FALSE
      BY <1>1
    <3>1. p * (q + 1) <= (f - 1) * p
      BY <1>1
    <3>2. p * (q + 1) = p * q + p
      BY <1>1
    <3> QED BY <3>1, <3>2, <1>1
  <2>3. p * q = m
    BY <2>1, <2>2, <1>1, <1>2
  <2> QED BY <2>3, <1>1, <1>2, <1>4
<1> QED
  BY <1>1, <1>3, <1>4

\* The invariant of the loop.
FatSizeInv == TypeOK /\ LayoutFits

\* Every turn of the loop in fat16_compute_fat_size keeps the invariant.
LEMMA FatSizeStep ==
    ASSUME FatSizeInv, [Next]_vars
    PROVE  FatSizeInv'
<1> USE DEF FatSizeInv
<1>1. CASE Refuse
  BY <1>1, FatSizeAssumption DEF Refuse, TypeOK, LayoutFits
<1>2. CASE Agree
  <2>1. TypeOK'
    BY <1>2 DEF Agree, TypeOK
  <2> DEFINE c == Clusters(fat_size)
  <2>2. Left \in Nat /\ c = Left \div CLUSTER /\ c \in Nat /\ c < MAXCLUSTERS /\ c >= MINCLUSTERS
    BY <1>2, NoWrap DEF Agree, Clusters
  <2>3. /\ c <= fat_size * PERSECTOR
        /\ c > (fat_size - 1) * PERSECTOR
    BY <1>2, <2>2, RoundedUp DEF Agree
  <2>4. CLUSTER * c <= Left
    BY <2>2, Quotient, FatSizeAssumption
  <2>5. RESERVED + FATS * fat_size + ROOTSECTORS + c * CLUSTER <= total
    <3>1. PICK k \in Int : k = FATS * fat_size
      BY FatSizeAssumption DEF TypeOK
    <3>2. PICK n \in Int : n = CLUSTER * c /\ n = c * CLUSTER
      BY <2>2, FatSizeAssumption
    <3> HIDE DEF c
    <3> QED BY <2>4, <3>1, <3>2, FatSizeAssumption DEF Left, TypeOK
  <2>8. c + 2 <= fat_size * PERSECTOR <=> c % PERSECTOR \notin {0, PERSECTOR - 1}
    <3>1. PERSECTOR \in Nat \ {0} /\ fat_size \in Nat
      BY FatSizeAssumption DEF TypeOK
    <3> HIDE DEF c
    <3> QED BY <3>1, <2>2, <2>3, LastEntries
  <2> HIDE DEF c
  <2>6. c = (total - RESERVED - FATS * fat_size - ROOTSECTORS) \div CLUSTER
    BY <2>2 DEF Left
  <2>7. total' = total /\ fat_size' = fat_size
    BY <1>2 DEF Agree
  <2> QED
    BY <2>1, <2>2, <2>3, <2>5, <2>6, <2>7, <2>8 DEF LayoutFits
<1>3. CASE Again
  BY <1>3, NoWrap, RoundedUp DEF Again, TypeOK, LayoutFits
<1>4. CASE UNCHANGED vars
  BY <1>4 DEF vars, TypeOK, LayoutFits
<1> QED
  BY <1>1, <1>2, <1>3, <1>4 DEF Next

\* Whatever the size of the volume, the FAT size that fat16_compute_fat_size
\* returns gives a layout that fits the volume, with as many entries as there are
\* clusters and no sector of a FAT unused.  The two reserved entries are not
\* counted: the clusters whose numbers lie past the last entry are at most the
\* last two, and there is one exactly when the last sector of entries has less
\* than two to spare.
THEOREM LayoutsFit == Spec => []LayoutFits
<1>1. Init => FatSizeInv
  <2>1. MAXCLUSTERS \div PERSECTOR \in Nat
    BY FatSizeAssumption
  <2>2. 1 \in 0..(MAXCLUSTERS \div PERSECTOR) + 1
    BY <2>1
  <2> QED BY <2>2 DEF Init, FatSizeInv, TypeOK, LayoutFits
<1>2. FatSizeInv /\ [Next]_vars => FatSizeInv'
  BY FatSizeStep
<1> QED
  BY <1>1, <1>2, PTL DEF Spec, FatSizeInv

-----------------------------------------------------------------------------
(* ApicTimer: the calibration of the timer. *)

\* The circumstances: the wait fits the PIT's 16 bits, and neither a single
\* register access nor the wait takes half of the APIC's 32-bit counter.
TimerSetting ==
    /\ Timer!TimerAssumption
    /\ PIT_PER_MS * 10 <= 65535
    /\ \A g \in Gaps : 2 * (APIC_PER_PIT * g) < WORD
    /\ 2 * (APIC_PER_PIT * (10 * PIT_PER_MS)) < WORD

\* PIT clocks of the wait.
Wait == 10 * PIT_PER_MS

\* Which values of the calibration are there already.
Started == stage \in {"load", "latch", "poll", "read_end", "init", "running"}
Loaded == stage \in {"latch", "poll", "read_end", "init", "running"}
Waited == stage = "read_end" \/ (stage = "poll" /\ latched)

\* The counter is read first after one access, and for the second time at least
\* a wait after the PIT was loaded.
TimerInv ==
    /\ Timer!TypeOK
    /\ stage = "read_start" => time - icr \in Gaps
    /\ Started => \E g \in Gaps :
         /\ apic_start = WORD - 1 - APIC_PER_PIT * g
         /\ icr + g <= time
         /\ Loaded => icr + g <= pit /\ pit <= time
    /\ Waited /\ pulses => time - pit >= Wait
    /\ stage \in {"init", "running"} =>
         /\ apic_end <= apic_start
         /\ pulses => \/ apic_start - apic_end >= APIC_PER_PIT * Wait
                      \/ 2 * (apic_start - apic_end) >= WORD - 1
    /\ stage = "running" => interval = Timer!TicksPerSec \div hz

\* What apic_read returns for the current count fits its register.
LEMMA CountInWord ==
    ASSUME TimerSetting, NEW t \in Int, t >= icr, icr \in Int
    PROVE  Timer!Count(t) \in 0..WORD - 1
<1>1. PICK r \in Nat : r = APIC_PER_PIT * (t - icr)
  BY DEF TimerSetting, Timer!TimerAssumption
<1> QED
  BY <1>1 DEF Timer!Count, TimerSetting, Timer!TimerAssumption

\* pit_wait_ms sees an output that pulses only after a whole period.
LEMMA PulseAfterWait ==
    ASSUME TimerSetting, NEW t \in Int, pit \in Int, pulses, Timer!Out(t)
    PROVE  t - pit >= Wait
<1>1. Timer!PitTicks(Timer!TSC_CALIBRATE_MS) = Wait /\ Wait \in Nat \ {0}
  BY DEF Timer!PitTicks, Timer!TSC_CALIBRATE_MS, TimerSetting, Timer!TimerAssumption, Wait
<1>2. t - pit > 0 /\ (t - pit) % Wait = 0
  BY <1>1 DEF Timer!Out, TimerSetting
<1> QED
  BY <1>1, <1>2

\* When the wait is over the counter has passed at least the counts of ten
\* milliseconds, or it stopped at 0 after half its range or more.
LEMMA Elapsed ==
    ASSUME TimerSetting, TimerInv, stage = "read_end"
    PROVE  /\ Timer!Count(time) <= apic_start
           /\ pulses => \/ apic_start - Timer!Count(time) >= APIC_PER_PIT * Wait
                        \/ 2 * (apic_start - Timer!Count(time)) >= WORD - 1
<1>1. PICK g \in Gaps : /\ apic_start = WORD - 1 - APIC_PER_PIT * g
                        /\ icr + g <= pit /\ pit <= time
  BY DEF TimerInv, Started, Loaded
<1>2. /\ g \in Nat /\ icr \in Nat /\ pit \in Nat /\ time \in Nat /\ APIC_PER_PIT \in Nat
      /\ WORD \in Nat /\ Wait \in Nat /\ pulses \in BOOLEAN
  BY DEF TimerInv, Timer!TypeOK, TimerSetting, Timer!TimerAssumption, Wait
<1>3. PICK a \in Nat, r \in Nat, w \in Nat :
        a = APIC_PER_PIT * g /\ r = APIC_PER_PIT * (time - icr) /\ w = APIC_PER_PIT * Wait
  BY <1>1, <1>2
<1>4. r >= a /\ (pulses => r >= a + w)
  <2>1. time - icr >= g
    BY <1>1, <1>2
  <2>2. r >= a
    <3>1. APIC_PER_PIT * (time - icr) >= APIC_PER_PIT * g
      BY <2>1, <1>1, <1>2
    <3> QED BY <3>1, <1>3
  <2>3. ASSUME pulses PROVE r >= a + w
    <3>1. time - pit >= Wait
      BY <2>3 DEF TimerInv, Waited
    <3>2. time - icr >= g + Wait
      BY <3>1, <1>1, <1>2
    <3>3. APIC_PER_PIT * (time - icr) >= APIC_PER_PIT * (g + Wait)
      BY <3>2, <1>1, <1>2
    <3> QED BY <3>3, <1>2, <1>3
  <2> QED BY <2>2, <2>3
<1>5. 2 * a < WORD
  BY <1>3 DEF TimerSetting
<1>6. CASE r < WORD
  <2>1. Timer!Count(time) = WORD - 1 - r
    BY <1>3, <1>6 DEF Timer!Count
  <2> QED BY <1>1, <1>2, <1>3, <1>4, <2>1
<1>7. CASE ~(r < WORD)
  <2>1. Timer!Count(time) = 0
    BY <1>3, <1>7 DEF Timer!Count
  <2> QED BY <1>1, <1>2, <1>3, <1>5, <2>1
<1> QED BY <1>6, <1>7

\* apic_timer_calibrate's result and the interval fit 32 bits.
LEMMA TicksInWord ==
    ASSUME TimerSetting, hz \in RATES, apic_start \in Int, apic_end \in Int
    PROVE  Timer!TicksPerSec \in 0..WORD - 1 /\ Timer!TicksPerSec \div hz \in 0..WORD - 1
<1>1. WORD \in Nat \ {0} /\ hz \in Nat \ {0}
  BY DEF TimerSetting, Timer!TimerAssumption
<1>2. PICK d \in Nat : d = (apic_start - apic_end) % WORD
  BY <1>1
<1>3. PICK p \in Nat : p = d * hz
  BY <1>1, <1>2
<1>4. PICK x \in Nat : x = p \div 10
  BY <1>3
<1>5. PICK q \in Nat : q = x % WORD /\ q < WORD
  BY <1>1, <1>4
<1>6. Timer!TicksPerSec = q
  BY <1>2, <1>3, <1>4, <1>5 DEF Timer!TicksPerSec, Timer!TSC_CALIBRATE_MS
<1>10. PICK h \in Nat \ {0} : h = hz
  BY <1>1
<1>11. q \div h \in Int /\ h * (q \div h) <= q /\ q < h * (q \div h) + h
  BY Quotient
<1>7. PICK i \in Int : i = q \div hz /\ hz * i <= q /\ q < hz * i + hz
  BY <1>10, <1>11
<1>8. i >= 0
  <2> SUFFICES ASSUME i < 0 PROVE FALSE
    BY <1>7
  <2>1. hz * (i + 1) <= 0
    BY <1>1, <1>7
  <2> QED BY <2>1, <1>1, <1>5, <1>7
<1>9. i <= q
  <2>1. i <= hz * i
    BY <1>1, <1>7, <1>8
  <2> QED BY <2>1, <1>1, <1>5, <1>7
<1> QED
  BY <1>1, <1>5, <1>6, <1>7, <1>8, <1>9

\* Every step of the calibration keeps the invariant.
LEMMA TimerStep ==
    ASSUME TimerSetting, TimerInv, [Timer!Next]_Timer!vars
    PROVE  TimerInv'
<1>1. ASSUME NEW g \in Gaps, time + g <= Horizon, time' = time + g, Timer!Step,
             UNCHANGED <<hz, pulses>>
      PROVE  TimerInv'
  <2>0. /\ g \in Nat \ {0} /\ time \in Nat /\ icr \in Nat /\ pit \in Nat /\ time' \in 0..Horizon
        /\ WORD \in Nat /\ APIC_PER_PIT \in Nat /\ Wait \in Nat /\ Horizon \in Nat
    BY <1>1 DEF TimerInv, Timer!TypeOK, TimerSetting, Timer!TimerAssumption, Wait
  <2>1. CASE Timer!StartCounter
    BY <1>1, <2>0, <2>1 DEF Timer!StartCounter, Timer!At, TimerInv, Timer!TypeOK,
       Started, Loaded, Waited
  <2>2. CASE Timer!ReadStart
    <3>1. time - icr \in Gaps
      BY <2>2 DEF Timer!ReadStart, Timer!At, TimerInv
    <3>2. PICK h \in Gaps : h = time - icr /\ h \in Nat
      BY <3>1, <2>0 DEF TimerSetting, Timer!TimerAssumption
    <3>3. PICK a \in Nat : a = APIC_PER_PIT * h /\ 2 * a < WORD
      BY <3>2, <2>0 DEF TimerSetting
    <3>4. Timer!Count(time) = WORD - 1 - APIC_PER_PIT * h
      BY <3>2, <3>3, <2>0 DEF Timer!Count
    <3>5. apic_start' \in 0..WORD - 1
      BY <2>2, <3>3, <3>4, <2>0 DEF Timer!ReadStart
    <3>6. apic_start' = WORD - 1 - APIC_PER_PIT * h /\ icr' + h <= time' /\ stage' = "load" /\ icr' = icr
      BY <1>1, <2>0, <2>2, <3>2, <3>4 DEF Timer!ReadStart, Timer!At
    <3> QED
      BY <1>1, <2>0, <2>2, <3>5, <3>6 DEF Timer!ReadStart, Timer!At, TimerInv, Timer!TypeOK,
         Started, Loaded, Waited
  <2>3. CASE Timer!pit_set_oneshot
    <3>1. PICK h \in Gaps : apic_start = WORD - 1 - APIC_PER_PIT * h /\ icr + h <= time
      BY <2>3 DEF Timer!pit_set_oneshot, Timer!At, TimerInv, Started
    <3>2. h \in Nat
      BY DEF TimerSetting, Timer!TimerAssumption
    <3>3. /\ apic_start' = WORD - 1 - APIC_PER_PIT * h
          /\ icr' + h <= time' /\ icr' + h <= pit' /\ pit' <= time'
      BY <1>1, <2>0, <2>3, <3>1, <3>2 DEF Timer!pit_set_oneshot
    <3> QED
      BY <1>1, <2>0, <2>3, <3>3 DEF Timer!pit_set_oneshot, Timer!At, TimerInv, Timer!TypeOK,
         Started, Loaded, Waited
  <2>4. ASSUME stage \in {"latch", "poll", "read_end", "init"},
               stage' \in {"latch", "poll", "read_end", "init", "running"},
               UNCHANGED <<icr, pit, apic_start>>
        PROVE  \E h \in Gaps : /\ apic_start' = WORD - 1 - APIC_PER_PIT * h
                               /\ icr' + h <= time'
                               /\ icr' + h <= pit' /\ pit' <= time'
    <3>1. PICK h \in Gaps : /\ apic_start = WORD - 1 - APIC_PER_PIT * h
                            /\ icr + h <= pit /\ pit <= time
      BY <2>4 DEF TimerInv, Started, Loaded
    <3>2. h \in Nat
      BY DEF TimerSetting, Timer!TimerAssumption
    <3>3. icr' + h <= time' /\ icr' + h <= pit' /\ pit' <= time'
      BY <1>1, <2>0, <2>4, <3>1, <3>2
    <3> QED BY <3>1, <3>3, <2>4
  <2>5. CASE Timer!Latch
    <3>1. Timer!Out(time) /\ pulses => time' - pit' >= Wait
      BY <1>1, <2>0, <2>5, PulseAfterWait DEF Timer!Latch
    <3>2. Timer!Out(time) \in BOOLEAN
      BY DEF Timer!Out
    <3> QED
      BY <1>1, <2>0, <2>4, <2>5, <3>1, <3>2 DEF Timer!Latch, Timer!At, TimerInv, Timer!TypeOK,
         Started, Loaded, Waited
  <2>6. CASE Timer!Poll
    <3>1. stage' = "read_end" /\ pulses => time' - pit' >= Wait
      BY <1>1, <2>0, <2>6 DEF Timer!Poll, TimerInv, Waited
    <3> QED
      BY <1>1, <2>0, <2>4, <2>6, <3>1 DEF Timer!Poll, TimerInv, Timer!TypeOK, Started, Loaded,
         Waited
  <2>7. CASE Timer!ReadEnd
    <3>1. /\ Timer!Count(time) <= apic_start
          /\ pulses => \/ apic_start - Timer!Count(time) >= APIC_PER_PIT * Wait
                       \/ 2 * (apic_start - Timer!Count(time)) >= WORD - 1
      BY <2>7, Elapsed DEF Timer!ReadEnd, Timer!At
    <3>2. Timer!Count(time) \in 0..WORD - 1
      <4>1. time >= icr
        BY <2>0, <2>7 DEF TimerInv, Started, Timer!ReadEnd, Timer!At, TimerSetting,
           Timer!TimerAssumption
      <4> QED BY <4>1, <2>0, CountInWord
    <3> QED
      BY <1>1, <2>0, <2>4, <2>7, <3>1, <3>2 DEF Timer!ReadEnd, Timer!At, TimerInv,
         Timer!TypeOK, Started, Loaded, Waited
  <2>8. CASE Timer!apic_timer_init
    <3>1. Timer!TicksPerSec' = Timer!TicksPerSec
      BY <1>1, <2>8 DEF Timer!apic_timer_init, Timer!TicksPerSec
    <3>2. interval' \in 0..WORD - 1
      BY <2>8, TicksInWord DEF Timer!apic_timer_init, TimerInv, Timer!TypeOK
    <3> QED
      BY <1>1, <2>0, <2>4, <2>8, <3>1, <3>2 DEF Timer!apic_timer_init, Timer!At, TimerInv,
         Timer!TypeOK, Started, Loaded, Waited
  <2> QED
    BY <1>1, <2>1, <2>2, <2>3, <2>5, <2>6, <2>7, <2>8 DEF Timer!Step
<1>2. CASE UNCHANGED Timer!vars
  BY <1>2 DEF Timer!vars, TimerInv, Timer!TypeOK, Started, Loaded, Waited, Timer!TicksPerSec
<1> QED
  BY <1>1, <1>2 DEF Timer!Next

\* The arithmetic of the calibration: the rate multiplied in by
\* apic_timer_calibrate is divided out by apic_timer_init, of the whole product
\* or of the word that is left of it.
LEMMA RateCancels ==
    ASSUME NEW w \in Nat \ {0}, NEW h \in Nat \ {0}, NEW d \in Nat
    PROVE  /\ (((d * h) \div 10) % w) \div h <= d \div 10
           /\ (d * h) \div 10 < w => (((d * h) \div 10) % w) \div h = d \div 10
<1>1. PICK p \in Nat : p = d * h
  OBVIOUS
<1>2. PICK x \in Nat : x = p \div 10 /\ 10 * x <= p /\ p < 10 * x + 10
  BY <1>1
<1>3. PICK y \in Nat : y = x % w /\ y <= x /\ (x < w => y = x)
  BY <1>2
<1>10. y \div h \in Int /\ h * (y \div h) <= y /\ y < h * (y \div h) + h
  BY Quotient
<1>4. PICK i \in Int : i = y \div h /\ h * i <= y /\ y < h * i + h
  BY <1>10
<1>5. PICK j \in Int : j = d \div 10 /\ 10 * j <= d /\ d < 10 * j + 10
  BY Quotient
<1>6. i <= j
  <2> SUFFICES ASSUME i >= j + 1 PROVE FALSE
    BY <1>4, <1>5
  <2>1. 10 * i >= d + 1
    BY <1>4, <1>5
  <2>2. h * (10 * i) >= h * (d + 1)
    BY <1>4, <2>1
  <2>3. h * (10 * i) = 10 * (h * i) /\ h * (d + 1) = p + h
    BY <1>1, <1>4
  <2> QED BY <2>2, <2>3, <1>1, <1>2, <1>3, <1>4
<1>7. ASSUME x < w PROVE i = j
  <2> SUFFICES ASSUME i + 1 <= j PROVE FALSE
    BY <1>4, <1>5, <1>6
  <2>1. 10 * (i + 1) <= d
    BY <1>4, <1>5
  <2>2. h * (10 * (i + 1)) <= h * d
    BY <1>4, <2>1
  <2>3. h * (10 * (i + 1)) = 10 * (h * i + h) /\ h * d = p
    BY <1>1, <1>4
  <2>4. y = x /\ y + 1 <= h * i + h
    BY <1>3, <1>4, <1>7
  <2> QED BY <2>2, <2>3, <2>4, <1>1, <1>2, <1>4
<1> QED
  BY <1>1, <1>2, <1>3, <1>4, <1>5, <1>6, <1>7

\* The interval, for any counts of the wait.
LEMMA IntervalOf ==
    ASSUME TimerSetting, TimerInv, stage = "running"
    PROVE  /\ Timer!Counts \in Nat
           /\ interval <= Timer!Counts \div 10
           /\ Timer!Fits => interval = Timer!Counts \div 10
<1>1. WORD \in Nat \ {0} /\ hz \in Nat \ {0}
  BY DEF TimerInv, Timer!TypeOK, TimerSetting, Timer!TimerAssumption
<1>2. PICK d \in Nat : d = Timer!Counts /\ d < WORD
  BY <1>1 DEF TimerInv, Timer!TypeOK, Timer!Counts
<1>3. d % WORD = d
  BY <1>1, <1>2
<1>4. interval = (((d * hz) \div 10) % WORD) \div hz
  BY <1>2, <1>3 DEF TimerInv, Timer!TicksPerSec, Timer!Counts, Timer!TSC_CALIBRATE_MS
<1>5. Timer!Fits <=> (d * hz) \div 10 < WORD
  BY <1>2 DEF Timer!Fits, Timer!TSC_CALIBRATE_MS
<1> QED
  BY <1>1, <1>2, <1>4, <1>5, RateCancels

\* The rate asked for has no influence.
LEMMA InvRateIgnored ==
    ASSUME TimerSetting, TimerInv
    PROVE  Timer!RateIgnored
  BY IntervalOf DEF Timer!RateIgnored, Timer!TSC_CALIBRATE_MS

\* With an output that pulses the interval is that of a millisecond at least,
\* also when the counter stopped at 0.
LEMMA InvAtMostKilohertz ==
    ASSUME TimerSetting, TimerInv
    PROVE  Timer!AtMostKilohertz
<1> SUFFICES ASSUME stage = "running", pulses, Timer!Fits
             PROVE  interval >= APIC_PER_PIT * PIT_PER_MS
  BY DEF Timer!AtMostKilohertz
<1>1. /\ APIC_PER_PIT \in Nat \ {0} /\ PIT_PER_MS \in Nat \ {0} /\ hz \in Nat \ {0}
      /\ WORD \in Nat \ {0} /\ Horizon \in Nat
  BY DEF TimerInv, Timer!TypeOK, TimerSetting, Timer!TimerAssumption
<1>2. PICK a \in Nat : a = APIC_PER_PIT * PIT_PER_MS
  BY <1>1
<1>3. APIC_PER_PIT * Wait = 10 * a /\ 2 * (10 * a) < WORD
  BY <1>1, <1>2 DEF Wait, TimerSetting
<1>4. PICK d \in Nat : d = Timer!Counts /\ (d >= 10 * a \/ 2 * d >= WORD - 1)
  BY <1>1, <1>3 DEF TimerInv, Timer!TypeOK, Timer!Counts
<1>5. d >= 10 * a
  BY <1>1, <1>3, <1>4
<1>6. interval = d \div 10
  BY <1>4, IntervalOf
<1> QED
  BY <1>2, <1>5, <1>6

\* How far the calibration is from its first reading when the output is high
\* from the start and no access takes more than s.
SoonInv(s) ==
    ~pulses =>
        /\ Started => \E g \in Gaps :
             /\ apic_start = WORD - 1 - APIC_PER_PIT * g
             /\ icr + g <= time
             /\ stage = "load" => time - icr <= g + s
             /\ stage = "latch" => time - icr <= g + 2 * s /\ 0 < time - pit /\ time - pit <= s
             /\ stage = "poll" => time - icr <= g + 3 * s /\ latched
             /\ stage = "read_end" => time - icr <= g + 4 * s
        /\ stage \in {"init", "running"} => apic_start - apic_end <= 4 * (APIC_PER_PIT * s)

\* The slowest access, and one shorter than the wait.
Slowest(s) == (\A h \in Gaps : h <= s) /\ s < Timer!PitTicks(Timer!TSC_CALIBRATE_MS) - 1

\* The data sheet's output is high within the first period, but for its last
\* clock.
LEMMA HighFromTheStart ==
    ASSUME TimerSetting, NEW s \in Nat, Slowest(s), NEW t \in Int, pit \in Int,
           ~pulses, 0 < t - pit, t - pit <= s
    PROVE  Timer!Out(t)
<1>1. PICK n \in Nat \ {0} : n = Timer!PitTicks(Timer!TSC_CALIBRATE_MS)
  BY DEF Timer!PitTicks, Timer!TSC_CALIBRATE_MS, TimerSetting, Timer!TimerAssumption
<1>2. PICK d \in Nat : d = t - pit /\ d < n - 1
  BY <1>1 DEF Slowest
<1>3. d % n = d
  BY <1>2
<1> QED
  BY <1>1, <1>2, <1>3 DEF Timer!Out

\* Every step keeps it.
LEMMA SoonStep ==
    ASSUME TimerSetting, TimerInv, NEW s \in Gaps, Slowest(s), SoonInv(s),
           [Timer!Next]_Timer!vars
    PROVE  SoonInv(s)'
<1> SUFFICES ASSUME ~pulses' PROVE SoonInv(s)'
  BY DEF SoonInv
<1>0. /\ time \in Nat /\ icr \in Nat /\ pit \in Nat /\ s \in Nat /\ WORD \in Nat
      /\ APIC_PER_PIT \in Nat
  BY DEF TimerInv, Timer!TypeOK, TimerSetting, Timer!TimerAssumption
<1>1. ASSUME NEW g \in Gaps, time' = time + g, Timer!Step, UNCHANGED <<hz, pulses>>
      PROVE  SoonInv(s)'
  <2>0. g \in Nat \ {0} /\ g <= s /\ ~pulses
    BY <1>1 DEF Slowest, TimerSetting, Timer!TimerAssumption
  <2>1. CASE Timer!StartCounter
    BY <2>1 DEF Timer!StartCounter, Timer!At, SoonInv, Started
  <2>2. CASE Timer!ReadStart
    <3>1. time - icr \in Gaps
      BY <2>2 DEF Timer!ReadStart, Timer!At, TimerInv
    <3>2. PICK h \in Gaps : h = time - icr /\ h \in Nat
      BY <3>1, <1>0 DEF TimerSetting, Timer!TimerAssumption
    <3>3. PICK a \in Nat : a = APIC_PER_PIT * h /\ 2 * a < WORD
      BY <3>2, <1>0 DEF TimerSetting
    <3>4. apic_start' = WORD - 1 - APIC_PER_PIT * h
      BY <2>2, <3>2, <3>3, <1>0 DEF Timer!Count, Timer!ReadStart
    <3>5. icr' + h <= time' /\ time' - icr' <= h + s /\ stage' = "load"
      BY <1>0, <1>1, <2>0, <2>2, <3>2 DEF Timer!ReadStart, Timer!At
    <3> QED
      BY <3>2, <3>4, <3>5 DEF SoonInv
  <2>3. ASSUME stage \in {"load", "latch", "poll"}, UNCHANGED <<icr, apic_start>>,
               stage' \in {"latch", "poll", "read_end"},
               stage = "load" => stage' = "latch" /\ pit' = time,
               stage = "latch" => stage' = "poll" /\ latched',
               stage = "poll" => stage' = "read_end"
        PROVE  SoonInv(s)'
    <3>1. PICK h \in Gaps :
             /\ apic_start = WORD - 1 - APIC_PER_PIT * h
             /\ icr + h <= time
             /\ stage = "load" => time - icr <= h + s
             /\ stage = "latch" => time - icr <= h + 2 * s
             /\ stage = "poll" => time - icr <= h + 3 * s
      BY <2>0, <2>3 DEF SoonInv, Started
    <3>2. h \in Nat
      BY DEF TimerSetting, Timer!TimerAssumption
    <3>3. /\ apic_start' = WORD - 1 - APIC_PER_PIT * h
          /\ icr' + h <= time'
      BY <1>0, <1>1, <2>0, <2>3, <3>1, <3>2
    <3>4. stage = "load" => /\ stage' = "latch" /\ time' - icr' <= h + 2 * s
                            /\ 0 < time' - pit' /\ time' - pit' <= s
      BY <1>0, <1>1, <2>0, <2>3, <3>1, <3>2
    <3>5. stage = "latch" => stage' = "poll" /\ time' - icr' <= h + 3 * s /\ latched'
      BY <1>0, <1>1, <2>0, <2>3, <3>1, <3>2
    <3>6. stage = "poll" => stage' = "read_end" /\ time' - icr' <= h + 4 * s
      BY <1>0, <1>1, <2>0, <2>3, <3>1, <3>2
    <3> QED
      BY <2>3, <3>3, <3>4, <3>5, <3>6 DEF SoonInv
  <2>4. CASE Timer!pit_set_oneshot
    BY <2>3, <2>4 DEF Timer!pit_set_oneshot, Timer!At
  <2>5. CASE Timer!Latch
    <3>1. 0 < time - pit /\ time - pit <= s
      BY <2>0, <2>5 DEF Timer!Latch, Timer!At, SoonInv, Started
    <3>2. latched'
      BY <1>0, <2>0, <2>5, <3>1, HighFromTheStart DEF Timer!Latch
    <3> QED
      BY <2>3, <2>5, <3>2 DEF Timer!Latch, Timer!At
  <2>6. CASE Timer!Poll
    <3>1. latched
      BY <2>0, <2>6 DEF Timer!Poll, SoonInv, Started
    <3> QED
      BY <2>3, <2>6, <3>1 DEF Timer!Poll
  <2>7. CASE Timer!ReadEnd
    <3>1. PICK h \in Gaps : /\ apic_start = WORD - 1 - APIC_PER_PIT * h
                            /\ icr + h <= time /\ time - icr <= h + 4 * s
      BY <2>0, <2>7 DEF Timer!ReadEnd, Timer!At, SoonInv, Started
    <3>2. h \in Nat
      BY DEF TimerSetting, Timer!TimerAssumption
    <3>3. PICK a \in Nat, r \in Nat, q \in Nat :
            a = APIC_PER_PIT * h /\ r = APIC_PER_PIT * (time - icr) /\ q = APIC_PER_PIT * s
      BY <1>0, <3>1, <3>2
    <3>4. r <= a + 4 * q
      <4>1. APIC_PER_PIT * (time - icr) <= APIC_PER_PIT * (h + 4 * s)
        BY <1>0, <3>1, <3>2
      <4> QED BY <4>1, <1>0, <3>2, <3>3
    <3>5. 2 * a < WORD
      BY <3>3 DEF TimerSetting
    <3>6. apic_start - Timer!Count(time) <= 4 * q
      BY <1>0, <3>1, <3>3, <3>4, <3>5 DEF Timer!Count
    <3>7. apic_start' - apic_end' <= 4 * (APIC_PER_PIT * s) /\ stage' = "init"
      BY <2>7, <3>3, <3>6 DEF Timer!ReadEnd, Timer!At
    <3>8. /\ apic_start' = WORD - 1 - APIC_PER_PIT * h
          /\ icr' + h <= time'
      BY <1>0, <1>1, <2>0, <2>7, <3>1, <3>2 DEF Timer!ReadEnd
    <3> QED
      BY <3>7, <3>8 DEF SoonInv
  <2>8. CASE Timer!apic_timer_init
    <3>1. PICK h \in Gaps : apic_start = WORD - 1 - APIC_PER_PIT * h /\ icr + h <= time
      BY <2>0, <2>8 DEF Timer!apic_timer_init, Timer!At, SoonInv, Started
    <3>2. h \in Nat
      BY DEF TimerSetting, Timer!TimerAssumption
    <3>3. apic_start' = WORD - 1 - APIC_PER_PIT * h /\ icr' + h <= time'
      BY <1>0, <1>1, <2>0, <2>8, <3>1, <3>2 DEF Timer!apic_timer_init
    <3> QED
      BY <2>0, <2>8, <3>3 DEF Timer!apic_timer_init, Timer!At, SoonInv
  <2> QED
    BY <1>1, <2>1, <2>2, <2>4, <2>5, <2>6, <2>7, <2>8 DEF Timer!Step
<1>2. CASE UNCHANGED Timer!vars
  BY <1>2 DEF Timer!vars, SoonInv, Started
<1> QED
  BY <1>1, <1>2 DEF Timer!Next

\* The invariant for the slowest access, whichever it is.
Soon == \A s \in Gaps : Slowest(s) => SoonInv(s)

\* For every speed of the APIC's clock, every rate asked for, either output of
\* the PIT and whatever each register access of apic_timer_calibrate costs: the
\* rate has no influence on the interval, an output that pulses gives a timer
\* of at most 1000 Hz as long as the scaled difference fits 32 bits, and the
\* output of the data sheet ends the wait at its first poll, after four
\* accesses; and every value fits its register.
THEOREM TimerIsCalibrated ==
    ASSUME TimerSetting
    PROVE  Timer!Spec => [](Timer!Calibrated /\ Timer!TypeOK)
<1>1. Timer!Init => TimerInv /\ Soon
  <2>1. 0 \in 0..WORD - 1 /\ 0 \in 0..Horizon
    BY DEF TimerSetting, Timer!TimerAssumption
  <2> QED
    BY <2>1 DEF Timer!Init, TimerInv, Timer!TypeOK, Started, Loaded, Waited, Soon, SoonInv
<1>2. TimerInv /\ Soon /\ [Timer!Next]_Timer!vars => TimerInv' /\ Soon'
  <2> SUFFICES ASSUME TimerInv, Soon, [Timer!Next]_Timer!vars PROVE TimerInv' /\ Soon'
    OBVIOUS
  <2>1. TimerInv'
    BY TimerStep
  <2>2. ASSUME NEW s \in Gaps, Slowest(s) PROVE SoonInv(s)'
    BY <2>2, SoonStep DEF Soon
  <2>3. ASSUME NEW s \in Gaps PROVE Slowest(s)' => Slowest(s)
    BY DEF Slowest, Timer!PitTicks, Timer!TSC_CALIBRATE_MS
  <2> QED
    BY <2>1, <2>2, <2>3 DEF Soon
<1>3. TimerInv /\ Soon => Timer!Calibrated /\ Timer!TypeOK
  <2> SUFFICES ASSUME TimerInv, Soon PROVE Timer!Calibrated /\ Timer!TypeOK
    OBVIOUS
  <2>1. Timer!WaitEndsAtOnce
    BY DEF Timer!WaitEndsAtOnce, Soon, SoonInv, Slowest, Timer!Counts
  <2> QED
    BY <2>1, InvRateIgnored, InvAtMostKilohertz DEF Timer!Calibrated, TimerInv
<1> QED
  BY <1>1, <1>2, <1>3, PTL DEF Timer!Spec

-----------------------------------------------------------------------------
(* AhciProbe: the scan for controllers. *)

\* A record of g_abars: a function and the address read of one.
Records == [at : Scan!Function,
            abar : {Scan!pci_read_bar64(f, 36) : f \in Scan!Function}]

\* TypeOK, what the arrays hold, and that ports belong to a controller.
ProbeInv ==
    /\ Scan!TypeOK
    /\ g_abars \in Seq(Records)
    /\ ports \subseteq Nat \X Port
    /\ todo # {} => Len(g_abars) > 0

\* The memory port_rebase gives: areas of two ports, or two areas of one, are
\* apart, and all lie in the window that ahci_init maps.
LEMMA AreasApart ==
    ASSUME NEW p \in 0..31, NEW q \in 0..31,
           NEW x \in Scan!Areas(p), NEW y \in Scan!Areas(q)
    PROVE  /\ Scan!Within(y, <<Scan!AHCI_BASE, Scan!AHCI_BASE + Scan!WindowSize - 1>>)
           /\ Scan!Meet(x, y) <=> x = y /\ p = q
  BY SMTT(60) DEF Scan!Areas, Scan!Table, Scan!CommandList, Scan!ReceivedFis,
     Scan!CommandTable, Scan!AHCI_BASE, Scan!WindowSize, Scan!Within, Scan!Meet

\* How far building a command of n PRDT entries reaches.
LEMMA ClearedReach ==
    ASSUME NEW p \in 0..31, NEW s \in 0..31, NEW n \in 1..8
    PROVE  LET cleared == Scan!Cleared(p, s, n)
               behind == Scan!Following(p, s)
           IN  /\ Scan!Within(cleared, Scan!Table(p, s)) <=> n = 1
               /\ Scan!Meet(cleared, behind) <=> n > 1
               /\ Scan!Within(cleared, <<Scan!Table(p, s)[1], behind[2]>>)
<1> USE DEF Scan!Cleared, Scan!Following, Scan!Table, Scan!Within, Scan!Meet, Scan!CommandTable,
        Scan!AHCI_BASE, Scan!CmdTblSize, Scan!PrdtEntrySize
<1>1. CASE s < 31
  BY <1>1, SMTT(30)
<1>2. CASE s = 31
  BY <1>2, SMTT(30)
<1> QED
  BY <1>1, <1>2

\* The loops of ahci_init stay on the buses.
LEMMA NextFunction ==
    ASSUME Scan!ProbeAssumption, at \in Scan!Function, func_limit \in {1, FUNCS},
           NEW limit \in {1, FUNCS}
    PROVE  Scan!After(limit) \in Scan!Function \cup {Scan!Done}
  BY SMTT(30) DEF Scan!ProbeAssumption, Scan!Function, Scan!After, Scan!Done

\* Every step of ahci_init keeps the invariant.
LEMMA ProbeStep ==
    ASSUME Scan!ProbeAssumption, ProbeInv, [Scan!Next]_Scan!vars
    PROVE  ProbeInv'
<1> USE DEF ProbeInv
<1>1. CASE Scan!Skip
  <2>1. at \in Scan!Function
    BY <1>1 DEF Scan!Skip, Scan!TypeOK
  <2>2. \E limit \in {1, FUNCS} : Scan!Move(limit)
    BY <1>1 DEF Scan!Skip, Scan!TypeOK, Scan!Limit
  <2>3. PICK limit \in {1, FUNCS} : Scan!Move(limit)
    BY <2>2
  <2>4. at' \in Scan!Function \cup {Scan!Done} /\ func_limit' \in {1, FUNCS}
    BY <2>1, <2>3, NextFunction DEF Scan!Move, Scan!TypeOK
  <2> QED
    BY <1>1, <2>4 DEF Scan!Skip, Scan!TypeOK, Records, Scan!pci_read_bar64,
       Scan!pci_read_config_dword, Scan!Function, Scan!Done
<1>2. ASSUME NEW pi \in SUBSET Port, Scan!Found(pi)
      PROVE  ProbeInv'
  <2>1. at \in Scan!Function /\ pci' = pci
    BY <1>2 DEF Scan!Found, Scan!TypeOK
  <2>2. PICK limit \in {1, FUNCS} : Scan!Move(limit)
    BY <1>2 DEF Scan!Found, Scan!TypeOK, Scan!Limit
  <2>3. at' \in Scan!Function \cup {Scan!Done} /\ func_limit' \in {1, FUNCS}
    BY <2>1, <2>2, NextFunction DEF Scan!Move, Scan!TypeOK
  <2>4. [at |-> at, abar |-> Scan!pci_read_bar64(at, 36)] \in Records
    BY <2>1 DEF Records
  <2>5. Records' = Records
    BY <2>1 DEF Records, Scan!pci_read_bar64, Scan!pci_read_config_dword, Scan!Function
  <2>6. g_abars' \in Seq(Records) /\ Len(g_abars') = Len(g_abars) + 1
    BY <1>2, <2>4 DEF Scan!Found
  <2>7. Len(g_abars') <= AHCI_MAX_CONTROLLERS
    BY <1>2, <2>6 DEF Scan!Found, Scan!Room, Scan!ProbeAssumption
  <2>8. \A q \in ports : q[1] \in 1..Len(g_abars')
    BY <2>6 DEF Scan!TypeOK
  <2> QED
    BY <1>2, <2>3, <2>5, <2>6, <2>7, <2>8 DEF Scan!Found, Scan!TypeOK, Scan!Function,
       Scan!Done
<1>3. ASSUME NEW p \in Port, Scan!Probe(p)
      PROVE  ProbeInv'
  <2>1. ports' = ports \cup {<<Len(g_abars), p>>}
    BY <1>3 DEF Scan!Probe
  <2>2. Len(g_abars) \in 1..Len(g_abars)
    BY <1>3 DEF Scan!Probe
  <2> QED
    BY <1>3, <2>1, <2>2, SMTT(60) DEF Scan!Probe, Scan!TypeOK, Records, Scan!pci_read_bar64,
       Scan!pci_read_config_dword, Scan!Function, Scan!Done
<1>4. CASE Scan!Finish
  BY <1>4 DEF Scan!Finish, Scan!TypeOK, Records, Scan!pci_read_bar64,
     Scan!pci_read_config_dword, Scan!Function, Scan!Done
<1>5. CASE UNCHANGED Scan!vars
  BY <1>5 DEF Scan!vars, Scan!TypeOK, Records, Scan!pci_read_bar64,
     Scan!pci_read_config_dword, Scan!Function, Scan!Done
<1> QED
  BY <1>1, <1>2, <1>3, <1>4, <1>5 DEF Scan!Next, Scan!Panic

\* ahci_init starts within the invariant.
LEMMA ProbeStart ==
    ASSUME Scan!ProbeAssumption, Scan!Init PROVE ProbeInv
  BY DEF Scan!ProbeAssumption, Scan!Init, ProbeInv, Scan!TypeOK, Scan!Function,
     Scan!Done, Records

\* The invariant of ahci_init's scan.
LEMMA ScanInvariant ==
    ASSUME Scan!ProbeAssumption PROVE Scan!Spec => []ProbeInv
<1>1. Scan!Init => ProbeInv
  BY ProbeStart
<1>2. ProbeInv /\ [Scan!Next]_Scan!vars => ProbeInv'
  BY ProbeStep
<1> QED
  BY <1>1, <1>2, PTL DEF Scan!Spec

\* For any number of buses, slots, controllers and ports: the areas of two ports
\* are apart or, for port i of two controllers, the same; all lie in the mapped
\* window; and building a command writes its slot's table and, with more than
\* one PRDT entry, the beginning of the table behind it, for slot 31 another
\* port's, and no byte further on.
THEOREM WritesAreConfined ==
    ASSUME Scan!ProbeAssumption PROVE Scan!Spec => []Scan!WritesConfined
<1>1. ProbeInv => Scan!WritesConfined
  <2> SUFFICES ASSUME ProbeInv PROVE Scan!WritesConfined
    OBVIOUS
  <2>1. \A q \in ports : q[2] \in 0..31
    BY DEF ProbeInv, Scan!ProbeAssumption
  <2>2. Scan!AHCI_MAX_PRDT_ENTRIES = 8
    BY DEF Scan!AHCI_MAX_PRDT_ENTRIES
  <2>3. ASSUME NEW q \in ports, NEW r \in ports,
               NEW x \in Scan!Areas(q[2]), NEW y \in Scan!Areas(r[2])
        PROVE  /\ Scan!Within(y, <<Scan!AHCI_BASE, Scan!AHCI_BASE + Scan!WindowSize - 1>>)
               /\ Scan!Meet(x, y) <=> x = y /\ q[2] = r[2]
    <3>1. PICK p \in 0..31, t \in 0..31 : p = q[2] /\ t = r[2]
      BY <2>1
    <3>2. x \in Scan!Areas(p) /\ y \in Scan!Areas(t)
      BY <2>3, <3>1
    <3>3. /\ Scan!Within(y, <<Scan!AHCI_BASE, Scan!AHCI_BASE + Scan!WindowSize - 1>>)
          /\ Scan!Meet(x, y) <=> x = y /\ p = t
      BY <3>2, AreasApart
    <3> QED
      BY <3>1, <3>3
  <2>4. ASSUME NEW q \in ports, NEW s \in 0..31, NEW n \in 1..8
        PROVE  LET cleared == Scan!Cleared(q[2], s, n)
                   behind == Scan!Following(q[2], s)
               IN  /\ Scan!Within(cleared, Scan!Table(q[2], s)) <=> n = 1
                   /\ Scan!Meet(cleared, behind) <=> n > 1
                   /\ Scan!Within(cleared, <<Scan!Table(q[2], s)[1], behind[2]>>)
    BY <2>1, <2>4, ClearedReach
  <2> QED
    BY <2>2, <2>3, <2>4 DEF Scan!WritesConfined
<1> QED
  BY <1>1, ScanInvariant, PTL

-----------------------------------------------------------------------------
\* The device of function f says that it has several functions.
Multi(f) == Scan!Present(Scan!First(f)) /\ Scan!pci_read_config_byte(Scan!First(f), 14) >= 128

\* Function f is in g_abars, or comes after all that g_abars has room for.
Recorded(f) == \E k \in 1..Len(g_abars) : g_abars[k].at = f
TooMany(f) == /\ Len(g_abars) = AHCI_MAX_CONTROLLERS
              /\ \A k \in 1..Len(g_abars) : Scan!Before(g_abars[k].at, f)

\* g_abars: wanted functions the scan has passed, in their order.
Ordered ==
    /\ \A k \in 1..Len(g_abars) : g_abars[k].at \in Scan!Wanted /\ Scan!Before(g_abars[k].at, at)
    /\ \A j, k \in 1..Len(g_abars) : j < k => Scan!Before(g_abars[j].at, g_abars[k].at)

\* No wanted function that the scan has passed is left out.
Complete == \A f \in Scan!Wanted : Scan!Before(f, at) => Recorded(f) \/ TooMany(f)

\* func_limit belongs to the slot the scan is in.
FuncLimit == /\ at[3] = 0 => func_limit = 1
             /\ at[3] # 0 => func_limit = FUNCS /\ Multi(at)

\* The invariant of the scan.
ScanInv == Ordered /\ Complete /\ FuncLimit /\ (count > 0 => at = Scan!Done)

\* What the loops of ahci_init have passed when they move on: what they had
\* passed before, the function itself, and, with a limit of 1, the other
\* functions of its slot.
LEMMA AfterBefore ==
    ASSUME Scan!ProbeAssumption, at \in Scan!Function, NEW limit \in {1, FUNCS},
           NEW f \in Scan!Function, Scan!Before(f, Scan!After(limit))
    PROVE  \/ Scan!Before(f, at) \/ f = at
           \/ limit = 1 /\ f[3] # 0 /\ f[1] = at[1] /\ f[2] = at[2] /\ limit # FUNCS
  BY SMTT(60) DEF Scan!ProbeAssumption, Scan!Function, Scan!After, Scan!Before

\* The loops of ahci_init move forward only.
LEMMA BeforeAfter ==
    ASSUME Scan!ProbeAssumption, at \in Scan!Function, NEW limit \in {1, FUNCS},
           NEW f \in Scan!Function, Scan!Before(f, at) \/ f = at
    PROVE  Scan!Before(f, Scan!After(limit))
  BY SMTT(60) DEF Scan!ProbeAssumption, Scan!Function, Scan!After, Scan!Before

\* A slot whose functions ahci_init leaves out has no wanted one but function 0:
\* it has no device, or one without the multi-function bit.
LEMMA SkippedUnwanted ==
    ASSUME Scan!ProbeAssumption, at \in Scan!Function, ProbeInv, FuncLimit,
           NEW limit, limit = IF Scan!Present(at) THEN Scan!Limit(at) ELSE func_limit,
           limit # FUNCS, NEW f \in Scan!Wanted, f[1] = at[1], f[2] = at[2], f[3] # 0
    PROVE  FALSE
<1>1. at[3] = 0
  BY DEF FuncLimit, Scan!Limit
<1>2. Scan!First(f) = at
  BY <1>1 DEF Scan!First, Scan!Function
<1>3. Scan!Present(at) /\ Scan!pci_read_config_byte(at, 14) >= 128
  BY <1>2 DEF Scan!Wanted, Scan!Exists
<1> QED BY <1>1, <1>3 DEF Scan!Limit

\* func_limit is 1 at the start of a slot and FUNCS within a multi-function
\* device, whichever of its functions are absent.
LEMMA NextLimit ==
    ASSUME Scan!ProbeAssumption, at \in Scan!Function, ProbeInv, FuncLimit,
           NEW limit, limit = IF Scan!Present(at) THEN Scan!Limit(at) ELSE func_limit,
           Scan!Move(limit), pci' = pci
    PROVE  FuncLimit'
<1>1. CASE at'[3] = 0
  BY <1>1 DEF Scan!Move, FuncLimit
<1>2. CASE at'[3] # 0
  <2>1. at[3] + 1 < limit /\ at' = <<at[1], at[2], at[3] + 1>> /\ func_limit' = limit
    BY <1>2 DEF Scan!Move, Scan!After
  <2>2. limit \in {1, FUNCS}
    BY DEF ProbeInv, Scan!TypeOK, Scan!Limit
  <2>3. at[3] \in Nat /\ FUNCS \in Nat
    BY DEF Scan!Function, Scan!ProbeAssumption
  <2>4. limit = FUNCS /\ limit # 1
    BY <2>1, <2>2, <2>3
  <2>5. Scan!First(at') = Scan!First(at)
    BY <2>1 DEF Scan!First
  <2>6. Multi(at)
    <3>1. CASE at[3] # 0
      BY <3>1 DEF FuncLimit
    <3>2. CASE at[3] = 0
      <4>1. Scan!Present(at) /\ Scan!pci_read_config_byte(at, 14) >= 128
        BY <2>4, <3>2 DEF FuncLimit, Scan!Limit
      <4>2. Scan!First(at) = at
        BY <3>2 DEF Scan!First, Scan!Function
      <4> QED BY <4>1, <4>2 DEF Multi
    <3> QED BY <3>1, <3>2
  <2>7. Multi(at)'
    BY <2>5, <2>6 DEF Multi, Scan!First, Scan!Present, Scan!pci_read_config_byte,
       Scan!pci_read_config_word, Scan!pci_read_config_dword
  <2> QED BY <1>2, <2>1, <2>4, <2>7 DEF FuncLimit
<1> QED BY <1>1, <1>2

\* The scan changes nothing of the machine it scans.
LEMMA SameWanted ==
    ASSUME pci' = pci PROVE Scan!Wanted' = Scan!Wanted
  BY DEF Scan!Wanted, Scan!Function, Scan!Exists, Scan!First, Scan!Usable, Scan!Present,
         Scan!pci_is_ahci_device, Scan!NoAddress, Scan!pci_read_bar64,
         Scan!pci_read_config_byte, Scan!pci_read_config_word, Scan!pci_read_config_dword

\* Every step of ahci_init keeps the order and the completeness of what it has
\* recorded.
LEMMA ScanStep ==
    ASSUME Scan!ProbeAssumption, ProbeInv, ScanInv, [Scan!Next]_Scan!vars
    PROVE  ScanInv'
<1>1. ASSUME Scan!Next \/ UNCHANGED Scan!vars PROVE pci' = pci
  BY <1>1 DEF Scan!Next, Scan!vars, Scan!Skip, Scan!Found, Scan!Probe, Scan!Finish, Scan!Panic
<1>2. Scan!Wanted' = Scan!Wanted
  BY <1>1, SameWanted
<1>3. Scan!Wanted \subseteq Scan!Function
  BY DEF Scan!Wanted
<1>4. ASSUME at \in Scan!Function, NEW limit,
             limit = IF Scan!Present(at) THEN Scan!Limit(at) ELSE func_limit,
             Scan!Move(limit), pci' = pci
      PROVE  /\ \A f \in Scan!Wanted : Scan!Before(f, at') <=> Scan!Before(f, at) \/ f = at
             /\ FuncLimit'
  <2>1. limit \in {1, FUNCS} /\ at' = Scan!After(limit)
    BY <1>4 DEF ProbeInv, Scan!TypeOK, Scan!Limit, Scan!Move
  <2>2. \A f \in Scan!Wanted : Scan!Before(f, at) \/ f = at => Scan!Before(f, at')
    BY <1>3, <1>4, <2>1, BeforeAfter
  <2>3. ASSUME NEW f \in Scan!Wanted, Scan!Before(f, at')
        PROVE  Scan!Before(f, at) \/ f = at
    BY <1>3, <1>4, <2>1, <2>3, AfterBefore, SkippedUnwanted DEF ScanInv
  <2>4. FuncLimit'
    BY <1>4, NextLimit DEF ScanInv
  <2> QED BY <2>2, <2>3, <2>4
<1>5. CASE Scan!Skip
  <2>1. at \in Scan!Function /\ pci' = pci /\ g_abars' = g_abars /\ count' = count /\ at # Scan!Done
    BY <1>5 DEF Scan!Skip, ProbeInv, Scan!TypeOK
  <2>2. /\ \A f \in Scan!Wanted : Scan!Before(f, at') <=> Scan!Before(f, at) \/ f = at
        /\ FuncLimit'
    BY <1>4, <1>5, <2>1 DEF Scan!Skip
  <2>3. at \in Scan!Wanted => TooMany(at)
    <3> SUFFICES ASSUME at \in Scan!Wanted PROVE TooMany(at)
      OBVIOUS
    <3>1. ~Scan!Room
      BY <1>5 DEF Scan!Skip, Scan!Wanted, Scan!Exists
    <3>2. Len(g_abars) = AHCI_MAX_CONTROLLERS
      BY <3>1 DEF Scan!Room, ProbeInv, Scan!TypeOK, Scan!ProbeAssumption
    <3> QED BY <3>2 DEF TooMany, ScanInv, Ordered
  <2>4. Ordered'
    BY <1>2, <2>1, <2>2 DEF ScanInv, Ordered, Scan!Before
  <2>5. Complete'
    BY <1>2, <2>1, <2>2, <2>3 DEF ScanInv, Complete, Recorded, TooMany, Scan!Before
  <2>6. count' > 0 => at' = Scan!Done'
    BY <2>1 DEF ScanInv
  <2> QED BY <2>2, <2>4, <2>5, <2>6 DEF ScanInv
<1>6. ASSUME NEW pi \in SUBSET Port, Scan!Found(pi)
      PROVE  ScanInv'
  <2>1. /\ at \in Scan!Function /\ pci' = pci /\ count' = count /\ at # Scan!Done
        /\ Scan!Present(at) /\ Scan!Usable(at) /\ Scan!Move(Scan!Limit(at))
    BY <1>6 DEF Scan!Found, ProbeInv, Scan!TypeOK
  <2>2. /\ \A f \in Scan!Wanted : Scan!Before(f, at') <=> Scan!Before(f, at) \/ f = at
        /\ FuncLimit'
    BY <1>4, <2>1
  <2>3. at \in Scan!Wanted
    <3>1. CASE at[3] = 0
      <4>1. Scan!First(at) = at
        BY <2>1, <3>1 DEF Scan!First, Scan!Function
      <4> QED BY <2>1, <3>1, <4>1 DEF Scan!Wanted, Scan!Exists
    <3>2. CASE at[3] # 0
      BY <2>1, <3>2 DEF Scan!Wanted, Scan!Exists, ScanInv, FuncLimit, Multi
    <3> QED BY <3>1, <3>2
  <2>4. PICK n \in Nat : n = Len(g_abars) /\ n < AHCI_MAX_CONTROLLERS
    BY <1>6 DEF Scan!Found, Scan!Room, ProbeInv
  <2>5. /\ Len(g_abars') = n + 1 /\ g_abars'[n + 1].at = at
        /\ \A k \in 1..n : g_abars'[k] = g_abars[k]
    BY <1>6, <2>4 DEF Scan!Found, ProbeInv
  <2>6. \A k \in 1..n : g_abars[k].at \in Scan!Wanted /\ Scan!Before(g_abars[k].at, at)
    BY <2>4 DEF ScanInv, Ordered
  <2>7. \A k \in 1..n + 1 : k \in 1..n \/ k = n + 1
    OBVIOUS
  <2>8. Ordered'
    <3>1. ASSUME NEW k \in 1..n + 1
          PROVE  g_abars'[k].at \in Scan!Wanted /\ Scan!Before(g_abars'[k].at, at')
      BY <2>2, <2>3, <2>5, <2>6, <2>7
    <3>2. ASSUME NEW j \in 1..n + 1, NEW k \in 1..n + 1, j < k
          PROVE  Scan!Before(g_abars'[j].at, g_abars'[k].at)
      <4>1. j \in 1..n
        BY <3>2
      <4>2. CASE k \in 1..n
        BY <2>4, <2>5, <3>2, <4>1, <4>2 DEF ScanInv, Ordered
      <4>3. CASE k = n + 1
        BY <2>5, <2>6, <4>1, <4>3
      <4> QED BY <2>7, <4>2, <4>3
    <3> QED BY <1>2, <2>5, <3>1, <3>2 DEF Ordered, Scan!Before
  <2>9. Complete'
    <3> SUFFICES ASSUME NEW f \in Scan!Wanted, Scan!Before(f, at')
                 PROVE  \E k \in 1..n + 1 : g_abars'[k].at = f
      BY <1>2, <2>5 DEF Complete, Recorded, Scan!Before
    <3>1. CASE f = at
      BY <2>5, <3>1
    <3>2. CASE Scan!Before(f, at)
      <4>1. ~TooMany(f)
        BY <2>4 DEF TooMany, Scan!ProbeAssumption
      <4>2. PICK k \in 1..n : g_abars[k].at = f
        BY <2>4, <3>2, <4>1 DEF ScanInv, Complete, Recorded
      <4>3. k \in 1..n + 1 /\ g_abars'[k].at = f
        BY <2>5, <4>2
      <4> QED BY <4>3
    <3> QED BY <2>2, <3>1, <3>2
  <2>10. count' > 0 => at' = Scan!Done'
    BY <2>1 DEF ScanInv
  <2> QED BY <2>2, <2>8, <2>9, <2>10 DEF ScanInv
<1>7. ASSUME UNCHANGED <<pci, at, func_limit, g_abars>>, count' > 0 => at = Scan!Done
      PROVE  ScanInv'
  <2>1. Ordered' /\ Complete'
    BY <1>2, <1>7 DEF ScanInv, Ordered, Complete, Recorded, TooMany, Scan!Before
  <2>2. FuncLimit'
    BY <1>7 DEF ScanInv, FuncLimit, Multi, Scan!First, Scan!Present,
         Scan!pci_read_config_byte, Scan!pci_read_config_word, Scan!pci_read_config_dword
  <2> QED BY <1>7, <2>1, <2>2 DEF ScanInv, Scan!Done
<1>8. CASE \E p \in Port : Scan!Probe(p)
  BY <1>7, <1>8 DEF Scan!Probe, ScanInv
<1>9. CASE Scan!Finish
  BY <1>7, <1>9 DEF Scan!Finish, ScanInv
<1>10. CASE UNCHANGED Scan!vars
  BY <1>7, <1>10 DEF Scan!vars, ScanInv
<1> QED
  BY <1>5, <1>6, <1>8, <1>9, <1>10 DEF Scan!Next, Scan!Panic

\* Before the scan nothing is passed and nothing recorded.
LEMMA ScanStart ==
    ASSUME Scan!ProbeAssumption, Scan!Init PROVE ScanInv
<1>1. Len(g_abars) = 0 /\ 1..Len(g_abars) = {} /\ count = 0
  BY DEF Scan!Init
<1>2. at[3] = 0 /\ func_limit = 1
  BY DEF Scan!Init, Scan!Done
<1>3. ASSUME NEW f \in Scan!Function PROVE ~Scan!Before(f, at)
  BY <1>3 DEF Scan!Init, Scan!Done, Scan!Before, Scan!Function, Scan!ProbeAssumption
<1> QED
  BY <1>1, <1>2, <1>3 DEF ScanInv, Ordered, Complete, FuncLimit, Scan!Wanted

\* For any number of buses, slots and functions and any configuration spaces,
\* ahci_init records the machine's AHCI controllers, all of them, each once and
\* in order, up to AHCI_MAX_CONTROLLERS, and writes past the end of no array.
THEOREM ScanIsExact ==
    ASSUME Scan!ProbeAssumption
    PROVE  Scan!Spec => [](Scan!FoundExact /\ Scan!TypeOK)
<1>1. Scan!Init => ProbeInv /\ ScanInv
  BY ProbeStart, ScanStart
<1>2. ProbeInv /\ ScanInv /\ [Scan!Next]_Scan!vars => (ProbeInv /\ ScanInv)'
  BY ProbeStep, ScanStep
<1>3. ProbeInv /\ ScanInv => Scan!FoundExact /\ Scan!TypeOK
  <2> SUFFICES ASSUME ProbeInv, ScanInv, at = Scan!Done
               PROVE  Scan!FoundExact
    BY DEF ProbeInv, ScanInv, Scan!FoundExact
  <2>1. \A f \in Scan!Wanted : Scan!Before(f, at)
    BY DEF Scan!Wanted, Scan!Function, Scan!Before, Scan!Done, Scan!ProbeAssumption
  <2> QED
    BY <2>1 DEF Scan!FoundExact, ScanInv, Ordered, Complete, Recorded, TooMany
<1> QED
  BY <1>1, <1>2, <1>3, PTL DEF Scan!Spec

-----------------------------------------------------------------------------
(* FbInit: the contexts of the terminal's backend. *)

\* bump_alloc's rounding never gives less than what was asked for.
LEMMA RoundedTo16 ==
    ASSUME NEW n \in Nat
    PROVE  Pool!Round16(n) \in Nat /\ Pool!Round16(n) >= n
  BY DEF Pool!Round16

\* bump_alloc's rounding is monotone.
LEMMA Round16Grows ==
    ASSUME NEW m \in Nat, NEW n \in Nat, m <= n
    PROVE  Pool!Round16(m) <= Pool!Round16(n)
  BY DEF Pool!Round16

\* The function that Bumps defines by recursion exists.
LEMMA Sums ==
    ASSUME NEW f \in Nat, NEW r, \A i \in 1..6 : r[i] \in Nat
    PROVE  \E g \in [1..7 -> Nat] :
             g = [i \in 1..7 |-> IF i = 1 THEN f ELSE g[i - 1] + r[i - 1]]
<1>1. PICK g2 \in Nat : g2 = f + r[1]
  OBVIOUS
<1>2. PICK g3 \in Nat : g3 = g2 + r[2]
  OBVIOUS
<1>3. PICK g4 \in Nat : g4 = g3 + r[3]
  OBVIOUS
<1>4. PICK g5 \in Nat : g5 = g4 + r[4]
  OBVIOUS
<1>5. PICK g6 \in Nat : g6 = g5 + r[5]
  OBVIOUS
<1>6. PICK g7 \in Nat : g7 = g6 + r[6]
  OBVIOUS
<1> DEFINE g == [i \in 1..7 |->
                   IF i = 1 THEN f ELSE IF i = 2 THEN g2 ELSE IF i = 3 THEN g3
                   ELSE IF i = 4 THEN g4 ELSE IF i = 5 THEN g5 ELSE IF i = 6 THEN g6
                   ELSE g7]
<1>7. g \in [1..7 -> Nat]
  OBVIOUS
<1>8. ASSUME NEW i \in 1..7
      PROVE  g[i] = IF i = 1 THEN f ELSE g[i - 1] + r[i - 1]
  BY <1>1, <1>2, <1>3, <1>4, <1>5, <1>6
<1>9. g = [i \in 1..7 |-> IF i = 1 THEN f ELSE g[i - 1] + r[i - 1]]
  <2> HIDE DEF g
  <2> QED BY <1>7, <1>8
<1> HIDE DEF g
<1> QED BY <1>7, <1>9

\* What a function that follows that recursion is.
LEMMA SumsTyped ==
    ASSUME NEW f \in Nat, NEW r, \A i \in 1..6 : r[i] \in Nat, NEW b,
           b = [i \in 1..7 |-> IF i = 1 THEN f ELSE b[i - 1] + r[i - 1]]
    PROVE  /\ b \in [1..7 -> Nat]
           /\ b[1] = f
           /\ \A i \in 1..6 : b[i + 1] = b[i] + r[i]
<1>1. b[1] = f
  OBVIOUS
<1>2. \A i \in 1..6 : b[i + 1] = b[i] + r[i]
  OBVIOUS
<1>3. \A i \in 1..6 : b[i] \in Nat => b[i + 1] \in Nat
  BY <1>2
<1>4. b[2] \in Nat
  BY <1>1, <1>3
<1>5. b[3] \in Nat
  BY <1>4, <1>3
<1>6. b[4] \in Nat
  BY <1>5, <1>3
<1>7. b[5] \in Nat
  BY <1>6, <1>3
<1>8. b[6] \in Nat
  BY <1>7, <1>3
<1>9. b[7] \in Nat
  BY <1>8, <1>3
<1>10. \A i \in 1..7 : b[i] \in Nat
  BY <1>1, <1>4, <1>5, <1>6, <1>7, <1>8, <1>9
<1>11. DOMAIN b = 1..7 /\ b = [i \in DOMAIN b |-> b[i]]
  OBVIOUS
<1> QED
  BY <1>1, <1>2, <1>10, <1>11

\* bump_alloc for six blocks in turn: each begins where the rounded one before
\* ends.
LEMMA Bumped ==
    ASSUME NEW s, Len(s) = 6, \A i \in 1..6 : s[i] \in Nat, Pool!BumpFrom \in Nat
    PROVE  /\ Pool!Bumps(s) \in [1..7 -> Nat]
           /\ Pool!Bumps(s)[1] = Pool!BumpFrom
           /\ \A i \in 1..6 : Pool!Bumps(s)[i + 1] = Pool!Bumps(s)[i] + Pool!Round16(s[i])
<1>1. PICK f \in Nat : f = Pool!BumpFrom
  OBVIOUS
<1>2. PICK r : r = [i \in 1..6 |-> Pool!Round16(s[i])]
  OBVIOUS
<1>3. \A i \in 1..6 : r[i] = Pool!Round16(s[i]) /\ r[i] \in Nat
  BY <1>2, RoundedTo16
<1> DEFINE Follows(b) == b = [i \in 1..7 |-> IF i = 1 THEN f ELSE b[i - 1] + r[i - 1]]
<1>4. \E b : Follows(b)
  <2>1. \A i \in 1..6 : r[i] \in Nat
    BY <1>3
  <2>2. \E g \in [1..7 -> Nat] : Follows(g)
    BY <2>1, Sums
  <2> QED BY <2>2
<1>5. Pool!Bumps(s) = CHOOSE b : Follows(b)
  <2>1. ASSUME NEW b
        PROVE  [i \in 1..7 |-> IF i = 1 THEN f ELSE b[i - 1] + r[i - 1]]
               = [i \in 1..Len(s) + 1 |-> IF i = 1 THEN Pool!BumpFrom ELSE b[i - 1] + Pool!Round16(s[i - 1])]
    <3>1. 1..Len(s) + 1 = 1..7
      OBVIOUS
    <3>2. \A i \in 2..7 : r[i - 1] = Pool!Round16(s[i - 1])
      BY <1>3
    <3> QED BY <1>1, <3>1, <3>2
  <2>2. Pool!Bumps(s) = CHOOSE b : b = [i \in 1..Len(s) + 1 |-> IF i = 1 THEN Pool!BumpFrom ELSE b[i - 1] + Pool!Round16(s[i - 1])]
    BY DEF Pool!Bumps
  <2> QED BY <2>1, <2>2, SMT
<1>6. Follows(Pool!Bumps(s))
  <2> HIDE DEF Follows
  <2> QED BY <1>4, <1>5
<1>7. PICK b : b = Pool!Bumps(s)
  OBVIOUS
<1>8. Follows(b)
  BY <1>6, <1>7
<1>9. /\ b \in [1..7 -> Nat] /\ b[1] = f
      /\ \A i \in 1..6 : b[i + 1] = b[i] + r[i]
  <2>1. \A i \in 1..6 : r[i] \in Nat
    BY <1>3
  <2> QED BY <1>8, <2>1, SumsTyped
<1> QED
  BY <1>1, <1>3, <1>7, <1>9

-----------------------------------------------------------------------------
\* Six blocks of the pool, in order.
PoolBlocks(b) ==
    /\ \A i \in 1..6 : b[i][1] \in Nat /\ b[i][2] \in Nat /\ b[i][1] + b[i][2] <= POOL
    /\ \A i, j \in 1..6 : i < j => b[i][1] + b[i][2] <= b[j][1]

\* Blocks of the caller's malloc, for call id.
MallocBlocks(id, b) ==
    /\ DOMAIN b \subseteq Nat
    /\ \A i \in DOMAIN b : b[i] = <<id, i>>

\* A context that is alive.
Context(c) ==
    /\ c.id \in Nat /\ c.id < inits /\ c.bump \in BOOLEAN
    /\ c.bump => PoolBlocks(c.blocks)
    /\ ~c.bump => MallocBlocks(c.id, c.blocks)

\* No two contexts come from the same call, nor two from the pool.
Contexts ==
    /\ \A c \in live : Context(c)
    /\ \A c, e \in live : c.id = e.id \/ (c.bump /\ e.bump) => c = e

\* Bytes before the first aligned one of the pool; it is the next to be given.
Offset == (16 - Misaligned) % 16
PoolIsFree == Pool!BumpFrom = Offset

\* instance says whether a context has the pool.
PoolVars == /\ ptr \in Nat /\ inits \in Nat
            /\ based \in BOOLEAN /\ instance \in BOOLEAN
            /\ instance <=> \E c \in live : c.bump
            /\ ~instance => PoolIsFree

\* A context has the block of malloc.
Used(x) == \E c \in live : ~c.bump /\ \E i \in DOMAIN c.blocks : x = c.blocks[i]

\* The blocks of malloc in use are there; the others come from calls without a
\* free.  Each is of an earlier call.
HeapBlocks ==
    /\ \A x : Used(x) => x \in heap
    /\ \A x \in heap : Used(x) \/ x[1] \in nofree
    /\ \A x \in heap : \E id \in Nat : id < inits /\ \E i : x = <<id, i>>

\* The invariant of the contexts.
PoolInv == PoolVars /\ Contexts /\ HeapBlocks

\* The invariant gives the property.
LEMMA InvPoolSound ==
    ASSUME Pool!FbInitAssumption, PoolInv
    PROVE  Pool!PoolSound
<1>1. Pool!PoolRestored
  BY DEF Pool!PoolRestored, PoolInv, PoolVars, PoolIsFree, Offset
<1>2. Pool!NoLeak
  <2> DEFINE used == UNION {{c.blocks[i] : i \in DOMAIN c.blocks} : c \in {y \in live : ~y.bump}}
  <2>1. \A x : x \in used <=> Used(x)
    <3> SUFFICES ASSUME NEW x PROVE x \in used <=> Used(x)
      OBVIOUS
    <3>1. x \in used <=> \E c \in live : ~c.bump /\ x \in {c.blocks[i] : i \in DOMAIN c.blocks}
      OBVIOUS
    <3> QED BY <3>1 DEF Used
  <2>2. used \subseteq heap /\ \A b \in heap \ used : b[1] \in nofree
    <3> HIDE DEF used
    <3> QED BY <2>1, Zenon DEF PoolInv, HeapBlocks
  <2> QED BY <2>2, Zenon DEF Pool!NoLeak
<1>3. Pool!PoolDisjoint
  <2> SUFFICES ASSUME NEW c \in live, c.bump, NEW e \in live, e.bump, NEW i \in 1..6, NEW j \in 1..6
               PROVE  LET b == c.blocks[i]
                          q == e.blocks[j]
                      IN  /\ b[1] >= 0 /\ b[1] + b[2] <= POOL
                          /\ (c = e /\ i = j) \/ b[1] + b[2] <= q[1] \/ q[1] + q[2] <= b[1]
    BY DEF Pool!PoolDisjoint
  <2>1. c = e /\ PoolBlocks(c.blocks)
    BY DEF PoolInv, Contexts, Context
  <2>2. i = j \/ i < j \/ j < i
    OBVIOUS
  <2> QED BY <2>1, <2>2 DEF PoolBlocks
<1> QED
  BY <1>1, <1>2, <1>3 DEF Pool!PoolSound

\* flanterm_fb_init without malloc asks for six blocks.
LEMMA ScreenSizes ==
    ASSUME Pool!FbInitAssumption, NEW s \in Screens
    PROVE  LET sizes == Pool!Sizes(Pool!Limited(s).w, Pool!Limited(s).h, Pool!Scale(s.w, s.h)) IN
           /\ Len(sizes) = 6
           /\ \A i \in 1..6 : sizes[i] \in Nat
<1>1. /\ {CTX, CHAR, ITEM, PTR, GLYPHS} \subseteq Nat /\ FONTW \in Nat \ {0} /\ FONTH \in Nat \ {0}
      /\ s.w \in Nat /\ s.h \in Nat /\ WIDTH \in Nat /\ HEIGHT \in Nat
  BY DEF Pool!FbInitAssumption
<1>2. PICK w \in Nat, h \in Nat, k \in {1, 2, 4} :
        w = Pool!Limited(s).w /\ h = Pool!Limited(s).h /\ k = Pool!Scale(s.w, s.h)
  BY <1>1 DEF Pool!Limited, Pool!Min2, Pool!Scale
<1>3. FONTW * k \in Nat \ {0} /\ FONTH * k \in Nat \ {0}
  BY <1>1
<1>4. w \div (FONTW * k) \in Nat /\ h \div (FONTH * k) \in Nat
  BY <1>3
<1>5. PICK n \in Nat : n = (w \div (FONTW * k)) * (h \div (FONTH * k))
  BY <1>4
<1>6. /\ CTX \in Nat /\ GLYPHS * FONTH \in Nat /\ GLYPHS * FONTH * FONTW \in Nat
      /\ n * CHAR \in Nat /\ n * ITEM \in Nat /\ n * PTR \in Nat
  BY <1>1
<1>7. Pool!Sizes(w, h, k) = <<CTX, GLYPHS * FONTH, GLYPHS * FONTH * FONTW, n * CHAR, n * ITEM, n * PTR>>
  BY <1>5 DEF Pool!Sizes
<1> QED
  BY <1>2, <1>6, <1>7

\* Blocks that bump_alloc could give all lie in the pool, one after another.
LEMMA BumpedBlocks ==
    ASSUME NEW s, Len(s) = 6, \A i \in 1..6 : s[i] \in Nat, NEW b \in [1..7 -> Nat],
           \A i \in 1..6 : b[i + 1] = b[i] + Pool!Round16(s[i]), b[7] <= POOL, POOL \in Nat
    PROVE  PoolBlocks([i \in 1..Len(s) |-> <<b[i], s[i]>>])
<1>1. \A i \in 1..6 : b[i] + s[i] <= b[i + 1] /\ b[i + 1] \in Nat /\ b[i] \in Nat
  <2> SUFFICES ASSUME NEW i \in 1..6
               PROVE  b[i] + s[i] <= b[i + 1] /\ b[i + 1] \in Nat /\ b[i] \in Nat
    OBVIOUS
  <2>1. i \in 1..7 /\ i + 1 \in 1..7
    OBVIOUS
  <2>2. b[i] \in Nat /\ b[i + 1] \in Nat /\ s[i] \in Nat
    BY <2>1
  <2> QED BY <2>2, RoundedTo16
<1>2. /\ b[1] <= b[2] /\ b[2] <= b[3] /\ b[3] <= b[4] /\ b[4] <= b[5] /\ b[5] <= b[6] /\ b[6] <= b[7]
  BY <1>1
<1>3. \A i \in 1..7, j \in 1..7 : i <= j => b[i] <= b[j]
  BY <1>2
<1>4. PICK q : q = [i \in 1..Len(s) |-> <<b[i], s[i]>>]
  OBVIOUS
<1>5. \A i \in 1..6 : q[i][1] = b[i] /\ q[i][2] = s[i]
  BY <1>4
<1>6. \A i \in 1..6 : q[i][1] \in Nat /\ q[i][2] \in Nat /\ q[i][1] + q[i][2] <= POOL
  BY <1>1, <1>3, <1>5
<1>7. \A i, j \in 1..6 : i < j => q[i][1] + q[i][2] <= q[j][1]
  BY <1>1, <1>3, <1>5
<1> QED
  BY <1>4, <1>6, <1>7 DEF PoolBlocks

\* A pool that was reset is free from its first aligned byte on.
LEMMA FreshPool ==
    ASSUME Pool!FbInitAssumption
    PROVE  /\ Offset \in 0..15
           /\ ptr = 0 /\ based = FALSE => PoolIsFree
<1>1. Offset \in 0..15
  BY DEF Offset, Pool!FbInitAssumption
<1> QED
  BY <1>1 DEF Offset, PoolIsFree, Pool!BumpFrom

\* So is one that a step resets.
LEMMA FreshPoolNext ==
    ASSUME Pool!FbInitAssumption, ptr' = 0, based' = FALSE
    PROVE  PoolIsFree'
<1>1. Offset \in 0..15
  BY FreshPool
<1> QED
  BY <1>1 DEF Offset, PoolIsFree, Pool!BumpFrom

\* A step that neither frees nor allocates with malloc keeps the blocks.
LEMMA HeapKept ==
    ASSUME PoolInv, heap' = heap, nofree' = nofree, inits' \in {inits, inits + 1},
           \A x : Used(x)' <=> Used(x)
    PROVE  HeapBlocks'
<1>1. inits \in Nat /\ HeapBlocks
  BY DEF PoolInv, PoolVars
<1>2. ASSUME NEW x \in heap
      PROVE  \E id \in Nat : id < inits' /\ \E i : x = <<id, i>>
  <2>1. PICK id \in Nat : id < inits /\ \E i : x = <<id, i>>
    BY <1>1 DEF HeapBlocks
  <2>2. id < inits'
    BY <1>1, <2>1
  <2> QED BY <2>1, <2>2
<1> QED
  BY <1>1, <1>2 DEF HeapBlocks

\* Every call of flanterm_fb_init and flanterm_fb_deinit keeps the invariant.
LEMMA PoolStep ==
    ASSUME Pool!FbInitAssumption, PoolInv, [Pool!Next]_Pool!vars
    PROVE  PoolInv'
<1>0. /\ POOL \in Nat /\ POOL >= 16 /\ Misaligned \in 0..15
      /\ Offset \in 0..15
  BY FreshPool DEF Pool!FbInitAssumption
<1>10. Pool!BumpFrom \in Nat
  BY <1>0 DEF PoolInv, PoolVars, Pool!BumpFrom, Offset
<1>1. ASSUME NEW s \in Screens, Pool!InitFromPool(s)
      PROVE  PoolInv'
  <2> DEFINE sizes == Pool!Sizes(Pool!Limited(s).w, Pool!Limited(s).h, Pool!Scale(s.w, s.h))
             b == Pool!Bumps(sizes)
             blocks == [i \in 1..Len(sizes) |-> <<b[i], sizes[i]>>]
             c == [id |-> inits, bump |-> TRUE, blocks |-> blocks]
             full == CHOOSE i \in 1..Len(sizes) : b[i] <= POOL /\ b[i + 1] > POOL
  <2>1. Len(sizes) = 6 /\ \A i \in 1..6 : sizes[i] \in Nat
    BY ScreenSizes
  <2>2. inits' = inits + 1 /\ heap' = heap /\ nofree' = nofree
    BY <1>1 DEF Pool!InitFromPool
  <2>3. \/ UNCHANGED <<ptr, based, instance, live>>
        \/ /\ ~instance /\ b[7] <= POOL
           /\ ptr' = b[7] /\ based' = TRUE /\ instance' = TRUE
           /\ live' = live \cup {c}
        \/ /\ ~instance /\ b[7] > POOL
           /\ ptr' = Pool!AfterFail(b, full) /\ based' = (full = 1)
           /\ UNCHANGED <<instance, live>>
    <3>1. \/ UNCHANGED <<ptr, based, instance, live>>
          \/ /\ ~instance /\ b[Len(sizes) + 1] <= POOL
             /\ ptr' = b[Len(sizes) + 1] /\ based' = TRUE /\ instance' = TRUE
             /\ live' = live \cup {c}
          \/ /\ ~instance /\ b[Len(sizes) + 1] > POOL
             /\ ptr' = Pool!AfterFail(b, full) /\ based' = (full = 1)
             /\ UNCHANGED <<instance, live>>
      BY <1>1, Zenon DEF Pool!InitFromPool, Pool!PoolTaken
    <3>2. Len(sizes) + 1 = 7
      BY <2>1
    <3> QED BY <3>1, <3>2, Zenon
  <2>4. /\ b \in [1..7 -> Nat] /\ b[1] = Pool!BumpFrom
        /\ \A i \in 1..6 : b[i + 1] = b[i] + Pool!Round16(sizes[i])
    BY <1>10, <2>1, Bumped
  <2> HIDE DEF sizes, b
  <2>5. CASE UNCHANGED <<ptr, based, instance, live>>
    <3>1. \A x : Used(x)' <=> Used(x)
      BY <2>5 DEF Used
    <3>2. HeapBlocks'
      BY <2>2, <3>1, HeapKept
    <3> QED
      BY <2>2, <2>5, <3>2 DEF PoolInv, PoolVars, Contexts, Context, PoolIsFree,
         Pool!BumpFrom
  <2>6. CASE /\ ~instance /\ b[7] <= POOL
             /\ ptr' = b[7] /\ based' = TRUE /\ instance' = TRUE
             /\ live' = live \cup {c}
    <3>1. PoolBlocks(blocks)
      BY <1>0, <2>1, <2>4, <2>6, BumpedBlocks
    <3> HIDE DEF blocks
    <3>d. c.id = inits /\ c.bump = TRUE /\ c.blocks = blocks
      OBVIOUS
    <3>2. PICK d : d = c /\ d.id = inits /\ d.bump = TRUE /\ d.blocks = blocks
      <4> HIDE DEF c
      <4> QED BY <3>d
    <3>a. PICK n \in Nat : n = inits
      BY DEF PoolInv, PoolVars
    <3>b. live' = live \cup {d} /\ d.id = n /\ PoolBlocks(d.blocks)
      BY <2>6, <3>1, <3>2, <3>a
    <3> HIDE DEF c
    <3>3. \A e \in live : ~e.bump /\ e.id # inits /\ e.id \in Nat
      BY <2>6 DEF PoolInv, PoolVars, Contexts, Context
    <3>4. Contexts'
      <4>1. inits \in Nat /\ \A e \in live : Context(e)
        BY DEF PoolInv, PoolVars, Contexts
      <4>2. \A e \in live : Context(e)'
        BY <2>2, <4>1 DEF Context
      <4>3. Context(d)'
        <5>1. d.id \in Nat /\ d.id < inits'
          BY <2>2, <3>a, <3>b
        <5> QED BY <3>2, <3>b, <5>1, Zenon DEF Context, PoolBlocks
      <4> QED BY <3>b, <3>2, <3>3, <4>2, <4>3 DEF PoolInv, Contexts
    <3>5. HeapBlocks'
      <4>1. \A x : Used(x)' <=> Used(x)
        BY <3>b, <3>2 DEF Used
      <4> QED BY <2>2, <4>1, HeapKept
    <3>6. PoolVars'
      <4>1. b[7] \in Nat
        BY <2>4
      <4> QED BY <2>2, <2>6, <3>b, <3>2, <4>1 DEF PoolInv, PoolVars
    <3> QED BY <3>4, <3>5, <3>6 DEF PoolInv
  <2>7. CASE /\ ~instance /\ b[7] > POOL
             /\ ptr' = Pool!AfterFail(b, full) /\ based' = (full = 1)
             /\ UNCHANGED <<instance, live>>
    <3>1. b[1] = Offset /\ b[1] <= POOL
      BY <1>0, <2>4, <2>7 DEF PoolInv, PoolVars, PoolIsFree
    <3>2. \E i \in 1..6 : b[i] <= POOL /\ b[i + 1] > POOL
      <4>1. b[2] \in Nat /\ b[3] \in Nat /\ b[4] \in Nat /\ b[5] \in Nat /\ b[6] \in Nat /\ b[7] \in Nat
        BY <2>4
      <4> SUFFICES ASSUME \A i \in 1..6 : b[i] <= POOL => b[i + 1] <= POOL
                   PROVE  FALSE
        <5>1. \A i \in 1..6 : b[i + 1] \in Nat
          BY <2>4
        <5> QED BY <1>0, <5>1
      <4>2. b[2] <= POOL
        BY <3>1
      <4>3. b[3] <= POOL
        BY <4>2
      <4>4. b[4] <= POOL
        BY <4>3
      <4>5. b[5] <= POOL
        BY <4>4
      <4>6. b[6] <= POOL
        BY <4>5
      <4>7. b[7] <= POOL
        BY <4>6
      <4> QED BY <1>0, <2>7, <4>1, <4>7
    <3>3. PICK k \in 1..6 : ptr' = Pool!AfterFail(b, k) /\ based' = (k = 1)
      BY <2>1, <2>7, <3>2
    <3>4. PoolIsFree' /\ ptr' \in Nat /\ based' \in BOOLEAN
      <4>1. CASE k = 1
        <5>1. ptr' = b[1] /\ based' = TRUE
          BY <3>3, <4>1 DEF Pool!AfterFail
        <5> QED BY <1>0, <3>1, <5>1 DEF PoolIsFree, Offset, Pool!BumpFrom
      <4>2. CASE k # 1
        <5>1. ptr' = 0 /\ based' = FALSE
          BY <3>3, <4>2 DEF Pool!AfterFail
        <5> QED BY <5>1, FreshPoolNext
      <4> QED BY <4>1, <4>2
    <3>5. \A x : Used(x)' <=> Used(x)
      BY <2>7 DEF Used
    <3>6. HeapBlocks'
      BY <2>2, <3>5, HeapKept
    <3> QED
      BY <2>2, <2>7, <3>4, <3>6 DEF PoolInv, PoolVars, Contexts, Context
  <2> QED BY <2>3, <2>5, <2>6, <2>7
<1>2. ASSUME NEW canvas \in BOOLEAN, NEW k \in 0..7, NEW frees \in BOOLEAN,
             Pool!InitFromMalloc(canvas, k, frees)
      PROVE  PoolInv'
  <2>1. /\ inits' = inits + 1 /\ UNCHANGED <<ptr, based, instance>> /\ inits \in Nat
        /\ nofree \subseteq nofree' /\ (frees \/ inits \in nofree')
    BY <1>2 DEF Pool!InitFromMalloc, PoolInv, PoolVars
  <2>2. ASSUME NEW x \in heap, NEW i, x = <<inits, i>> PROVE FALSE
    <3>1. PICK id \in Nat : id < inits /\ \E j : x = <<id, j>>
      BY DEF PoolInv, HeapBlocks
    <3> QED BY <2>1, <2>2, <3>1
  <2>h. /\ \A x : Used(x) => x \in heap
        /\ \A x \in heap : Used(x) \/ x[1] \in nofree'
    BY <2>1 DEF PoolInv, HeapBlocks
  <2>i. \A x \in heap : \E id \in Nat : id < inits' /\ \E i : x = <<id, i>>
    <3>1. ASSUME NEW x \in heap
          PROVE  \E id \in Nat : id < inits' /\ \E i : x = <<id, i>>
      <4>1. PICK id \in Nat : id < inits /\ \E i : x = <<id, i>>
        BY DEF PoolInv, HeapBlocks
      <4>2. id < inits'
        BY <2>1, <4>1
      <4> QED BY <4>1, <4>2
    <3> QED BY <3>1
  <2>j. \A x : (\E i : x = <<inits, i>>) => \E id \in Nat : id < inits' /\ \E i : x = <<id, i>>
    BY <2>1
  <2>3. CASE k = 0
    <3> DEFINE n == IF canvas THEN 7 ELSE 6
               blocks == [i \in 1..n |-> <<inits, i>>]
               c == [id |-> inits, bump |-> FALSE, blocks |-> blocks]
    <3>1. /\ heap' = heap \cup {<<inits, i>> : i \in 1..n}
          /\ live' = live \cup {c}
      BY <1>2, <2>3 DEF Pool!InitFromMalloc
    <3>d. c.id = inits /\ c.bump = FALSE /\ c.blocks = blocks
      OBVIOUS
    <3>2. PICK d : d = c /\ d.id = inits /\ d.bump = FALSE /\ d.blocks = blocks
      <4> HIDE DEF c
      <4> QED BY <3>d
    <3>3. MallocBlocks(inits, blocks)
      BY DEF MallocBlocks
    <3>4. \A x : x \in {<<inits, i>> : i \in 1..n} <=> \E i \in DOMAIN blocks : x = blocks[i]
      OBVIOUS
    <3>a. PICK m \in Nat : m = inits
      BY <2>1
    <3>b. live' = live \cup {d} /\ d.id = m /\ MallocBlocks(d.id, d.blocks)
      BY <3>1, <3>2, <3>3, <3>a
    <3>c. heap' = heap \cup {d.blocks[i] : i \in DOMAIN d.blocks}
      BY <3>1, <3>2, <3>4, ZenonT(60)
    <3> HIDE DEF c, blocks, n
    <3>5. \A e \in live : e.id # inits
      BY <2>1 DEF PoolInv, Contexts, Context
    <3>6. Contexts'
      <4>1. \A e \in live : Context(e)
        BY DEF PoolInv, Contexts
      <4>2. \A e \in live : Context(e)'
        BY <2>1, <4>1 DEF Context
      <4>3. Context(d)'
        <5>1. d.id \in Nat /\ d.id < inits'
          BY <2>1, <3>a, <3>b
        <5> QED BY <3>2, <3>b, <5>1, Zenon DEF Context, MallocBlocks
      <4> QED BY <3>2, <3>5, <3>b, <4>2, <4>3 DEF PoolInv, Contexts
    <3>7. HeapBlocks'
      <4> DEFINE Mine(x) == \E i \in DOMAIN d.blocks : x = d.blocks[i]
      <4>1. \A x : Used(x)' <=> Used(x) \/ Mine(x)
        BY <3>2, <3>b DEF Used
      <4>2. \A x : x \in heap' <=> x \in heap \/ Mine(x)
        BY <3>c
      <4>3. \A x : Mine(x) => \E i : x = <<inits, i>>
        BY <3>2, <3>b DEF MallocBlocks
      <4>4. \A x : Mine(x) => \E id \in Nat : id < inits' /\ \E i : x = <<id, i>>
        <5> HIDE DEF Mine
        <5> QED BY <2>j, <4>3, Zenon
      <4> HIDE DEF Mine
      <4> QED BY <2>h, <2>i, <4>1, <4>2, <4>4, Zenon DEF HeapBlocks
    <3>8. PoolVars'
      BY <2>1, <3>2, <3>b DEF PoolInv, PoolVars, PoolIsFree, Pool!BumpFrom
    <3> QED BY <3>6, <3>7, <3>8 DEF PoolInv
  <2>4. CASE k # 0
    <3> DEFINE got == {<<inits, i>> : i \in 1..k - 1}
    <3>1. /\ heap' = (heap \cup got) \ (IF frees THEN got ELSE {})
          /\ live' = live
      BY <1>2, <2>4 DEF Pool!InitFromMalloc, Pool!Freed
    <3>2. \A x : Used(x)' <=> Used(x)
      BY <3>1 DEF Used
    <3>3. \A x \in got : \E i : x = <<inits, i>>
      OBVIOUS
    <3>4. \A x \in got : x[1] = inits
      OBVIOUS
    <3>5. HeapBlocks'
      <4>1. CASE frees
        <5>1. heap' = heap
          <6> HIDE DEF got
          <6> QED BY <2>2, <3>1, <3>3, <4>1
        <5>2. nofree' = nofree
          BY <1>2, <4>1 DEF Pool!InitFromMalloc
        <5> QED BY <2>1, <3>2, <5>1, <5>2, HeapKept
      <4>2. CASE ~frees
        <5>1. heap' = heap \cup got
          BY <3>1, <4>2
        <5>2. \A x \in got : x[1] \in nofree'
          BY <2>1, <3>4, <4>2
        <5>3. \A x \in got : \E id \in Nat : id < inits' /\ \E i : x = <<id, i>>
          <6> HIDE DEF got
          <6> QED BY <2>j, <3>3
        <5> HIDE DEF got
        <5>4. \A x : x \in heap' <=> x \in heap \/ x \in got
          BY <5>1
        <5> QED BY <2>h, <2>i, <3>2, <5>2, <5>3, <5>4, Zenon DEF HeapBlocks
      <4> QED BY <4>1, <4>2
    <3> QED
      BY <2>1, <3>1, <3>5 DEF PoolInv, PoolVars, Contexts, Context,
         PoolIsFree, Pool!BumpFrom
  <2> QED BY <2>3, <2>4
<1>3. ASSUME NEW c \in live, Pool!flanterm_fb_deinit(c)
      PROVE  PoolInv'
  <2>1. live' = live \ {c} /\ inits' = inits /\ nofree' = nofree
    BY <1>3 DEF Pool!flanterm_fb_deinit
  <2>2. Contexts'
    BY <2>1 DEF PoolInv, Contexts, Context
  <2>3. CASE c.bump
    <3>1. instance /\ \A e \in live \ {c} : ~e.bump
      BY <2>3 DEF PoolInv, PoolVars, Contexts
    <3>2. ptr' = 0 /\ based' = FALSE /\ instance' = FALSE /\ heap' = heap
      BY <1>3, <2>3, <3>1 DEF Pool!flanterm_fb_deinit
    <3>3. PoolIsFree'
      BY <3>2, FreshPoolNext
    <3>4. HeapBlocks'
      <4>1. \A x : Used(x)' <=> Used(x)
        BY <2>1, <2>3 DEF Used
      <4> QED BY <2>1, <3>2, <4>1, HeapKept
    <3> QED BY <2>1, <2>2, <3>1, <3>2, <3>3, <3>4 DEF PoolInv, PoolVars
  <2>4. CASE ~c.bump
    <3>1. UNCHANGED <<ptr, based, instance>> /\ heap' = heap \ {c.blocks[i] : i \in DOMAIN c.blocks}
      BY <1>3, <2>4 DEF Pool!flanterm_fb_deinit
    <3>2. PoolVars'
      BY <2>1, <2>4, <3>1 DEF PoolInv, PoolVars, PoolIsFree, Pool!BumpFrom
    <3>3. ASSUME NEW e \in live, ~e.bump, e # c, NEW i \in DOMAIN e.blocks, NEW j \in DOMAIN c.blocks
          PROVE  e.blocks[i] # c.blocks[j]
      BY <2>4, <3>3 DEF PoolInv, Contexts, Context, MallocBlocks
    <3>4. HeapBlocks'
      <4> DEFINE Mine(x) == \E i \in DOMAIN c.blocks : x = c.blocks[i]
      <4>1. \A x : Used(x)' => Used(x) /\ ~Mine(x)
        BY <2>1, <3>3 DEF Used
      <4>2. \A x : Used(x) => Used(x)' \/ Mine(x)
        BY <2>1 DEF Used
      <4>3. \A x : x \in heap' <=> x \in heap /\ ~Mine(x)
        BY <3>1
      <4> HIDE DEF Mine
      <4> QED BY <2>1, <4>1, <4>2, <4>3, Zenon DEF PoolInv, HeapBlocks
    <3> QED BY <2>2, <3>2, <3>4 DEF PoolInv
  <2> QED BY <2>3, <2>4
<1>4. CASE UNCHANGED Pool!vars
  BY <1>4 DEF Pool!vars, PoolInv, PoolVars, Contexts, Context, HeapBlocks, Used,
     PoolIsFree, Pool!BumpFrom
<1>5. CASE Pool!BadMasks
  <2>1. /\ inits' = inits + 1 /\ inits \in Nat
        /\ UNCHANGED <<ptr, based, instance, live, heap, nofree>>
    BY <1>5 DEF Pool!BadMasks, PoolInv, PoolVars
  <2>2. \A x : Used(x)' <=> Used(x)
    BY <2>1 DEF Used
  <2>3. HeapBlocks'
    BY <2>1, <2>2, HeapKept
  <2> QED
    BY <2>1, <2>3 DEF PoolInv, PoolVars, Contexts, Context, PoolIsFree, Pool!BumpFrom
<1> QED
  BY <1>1, <1>2, <1>3, <1>4, <1>5 DEF Pool!Next

\* Before the first call the pool is free.
LEMMA PoolStart ==
    ASSUME Pool!FbInitAssumption PROVE Pool!Init => PoolInv
<1>1. Pool!Init => PoolVars
  <2>1. Pool!Init => PoolIsFree
    BY FreshPool DEF Pool!Init
  <2>2. Pool!Init => ptr \in Nat /\ inits \in Nat
    BY DEF Pool!Init
  <2>3. Pool!Init => based \in BOOLEAN /\ instance \in BOOLEAN /\ (instance <=> \E c \in live : c.bump)
    BY Zenon DEF Pool!Init
  <2> QED BY <2>1, <2>2, <2>3, Zenon DEF PoolVars
<1>2. Pool!Init => Contexts /\ HeapBlocks
  BY DEF Pool!Init, Contexts, HeapBlocks, Used
<1> QED BY <1>1, <1>2 DEF PoolInv

\* For pools, fonts and framebuffers of every size: the blocks of the context
\* that has the pool are apart and inside it, the pool is free again whenever no
\* context has it, and no block of a malloc is lost whose caller gave a free.
THEOREM PoolsAreSound ==
    ASSUME Pool!FbInitAssumption PROVE Pool!Spec => []Pool!PoolSound
<1>1. Pool!Init => PoolInv
  BY PoolStart
<1>2. PoolInv /\ [Pool!Next]_Pool!vars => PoolInv'
  BY PoolStep
<1>3. PoolInv => Pool!PoolSound
  BY InvPoolSound
<1> QED
  BY <1>1, <1>2, <1>3, PTL DEF Pool!Spec

\* Scaling the font and limiting the screen never make more cells.
LEMMA QuotientGrows ==
    ASSUME NEW a \in Nat, NEW b \in Nat, a <= b, NEW n \in Nat \ {0}, NEW k \in Nat \ {0}
    PROVE  a \div (n * k) \in Nat /\ b \div n \in Nat /\ a \div (n * k) <= b \div n
<1>1. PICK m \in Nat \ {0} : m = n * k /\ n <= m
  OBVIOUS
<1>2. PICK q \in Nat : q = a \div m /\ m * q <= a
  BY Quotient
<1>3. PICK p \in Nat : p = b \div n /\ b < n * p + n
  BY Quotient
<1>4. n * q <= m * q
  BY <1>1
<1>5. n * q < n * (p + 1)
  BY <1>2, <1>3, <1>4
<1>6. q < p + 1
  BY <1>5
<1> QED
  BY <1>1, <1>2, <1>3, <1>6

\* Cells of the largest screen within the limits, and the pool it needs.
MostCells == (WIDTH \div FONTW) * (HEIGHT \div FONTH)

LargestFits ==
    Offset + Pool!Round16(CTX) + Pool!Round16(GLYPHS * FONTH)
      + Pool!Round16(GLYPHS * FONTH * FONTW) + Pool!Round16(MostCells * CHAR)
      + Pool!Round16(MostCells * ITEM) + Pool!Round16(MostCells * PTR) <= POOL

\* The pool of the kernel's build is large enough, wherever it lies.
LEMMA KernelPoolFits ==
    ASSUME POOL = 873000, WIDTH = 1920, HEIGHT = 1200, Misaligned \in 0..15,
           CTX = 1112, CHAR = 12, ITEM = 32, PTR = 8, FONTW = 9, FONTH = 16, GLYPHS = 256
    PROVE  LargestFits
<1>1. MostCells = 15975
  BY DEF MostCells
<1>2. Offset \in 0..15
  BY DEF Offset
<1> QED
  BY <1>1, <1>2 DEF LargestFits, Pool!Round16

\* If the pool holds the largest screen within the limits it holds them all.
LEMMA EveryScreenFits ==
    ASSUME Pool!FbInitAssumption, LargestFits, PoolIsFree, NEW s \in Screens
    PROVE  LET sizes == Pool!Sizes(Pool!Limited(s).w, Pool!Limited(s).h, Pool!Scale(s.w, s.h)) IN
           Pool!Bumps(sizes)[7] <= POOL
<1> DEFINE sizes == Pool!Sizes(Pool!Limited(s).w, Pool!Limited(s).h, Pool!Scale(s.w, s.h))
<1>1. /\ CTX \in Nat /\ CHAR \in Nat /\ ITEM \in Nat /\ PTR \in Nat /\ GLYPHS \in Nat
      /\ FONTW \in Nat \ {0} /\ FONTH \in Nat \ {0} /\ POOL \in Nat
      /\ s.w \in Nat /\ s.h \in Nat /\ WIDTH \in Nat /\ HEIGHT \in Nat
  BY DEF Pool!FbInitAssumption
<1>2. PICK w \in Nat, h \in Nat, k \in Nat \ {0} :
        /\ w = Pool!Limited(s).w /\ h = Pool!Limited(s).h /\ k = Pool!Scale(s.w, s.h)
        /\ w <= WIDTH /\ h <= HEIGHT
  BY <1>1 DEF Pool!Limited, Pool!Min2, Pool!Scale
<1>3. PICK x \in Nat, y \in Nat, X \in Nat, Y \in Nat :
        /\ x = w \div (FONTW * k) /\ y = h \div (FONTH * k)
        /\ X = WIDTH \div FONTW /\ Y = HEIGHT \div FONTH
        /\ x <= X /\ y <= Y
  <2>1. /\ w \div (FONTW * k) \in Nat /\ WIDTH \div FONTW \in Nat
        /\ w \div (FONTW * k) <= WIDTH \div FONTW
    BY <1>1, <1>2, QuotientGrows
  <2>2. /\ h \div (FONTH * k) \in Nat /\ HEIGHT \div FONTH \in Nat
        /\ h \div (FONTH * k) <= HEIGHT \div FONTH
    BY <1>1, <1>2, QuotientGrows
  <2> QED BY <2>1, <2>2
<1>4. PICK n \in Nat, N \in Nat : n = x * y /\ N = X * Y /\ n <= N
  <2>1. x * y <= X * y /\ X * y <= X * Y
    BY <1>3
  <2> QED BY <2>1
<1>5. n * CHAR <= N * CHAR /\ n * ITEM <= N * ITEM /\ n * PTR <= N * PTR
  BY <1>1, <1>4
<1>6. PICK a \in Nat, b \in Nat, c \in Nat, d \in Nat, e \in Nat :
        /\ a = GLYPHS * FONTH /\ b = GLYPHS * FONTH * FONTW
        /\ c = n * CHAR /\ d = n * ITEM /\ e = n * PTR
  BY <1>1
<1>7. PICK C \in Nat, D \in Nat, E \in Nat :
        C = MostCells * CHAR /\ D = MostCells * ITEM /\ E = MostCells * PTR /\ c <= C /\ d <= D /\ e <= E
  <2>1. MostCells = N
    BY <1>3, <1>4 DEF MostCells
  <2>2. N * CHAR \in Nat /\ N * ITEM \in Nat /\ N * PTR \in Nat
    BY <1>1
  <2> QED BY <2>1, <2>2, <1>5, <1>6
<1>8. sizes = <<CTX, a, b, c, d, e>>
  BY <1>2, <1>3, <1>4, <1>6 DEF Pool!Sizes
<1> HIDE DEF sizes
<1>9. Len(sizes) = 6 /\ \A i \in 1..6 : sizes[i] \in Nat
  BY <1>1, <1>8
<1>10. PICK f \in Nat : f = Offset /\ f = Pool!BumpFrom
  BY FreshPool DEF PoolIsFree
<1>11. PICK p : /\ p = Pool!Bumps(sizes) /\ p \in [1..7 -> Nat] /\ p[1] = f
                /\ \A i \in 1..6 : p[i + 1] = p[i] + Pool!Round16(sizes[i])
  <2>1. Pool!BumpFrom \in Nat
    BY <1>10
  <2> QED BY <1>9, <1>10, <2>1, Bumped
<1>12. /\ p[2] = f + Pool!Round16(CTX) /\ p[3] = p[2] + Pool!Round16(a)
       /\ p[4] = p[3] + Pool!Round16(b) /\ p[5] = p[4] + Pool!Round16(c)
       /\ p[6] = p[5] + Pool!Round16(d) /\ p[7] = p[6] + Pool!Round16(e)
  BY <1>8, <1>11
<1>13. PICK r1 \in Nat, r2 \in Nat, r3 \in Nat, r4 \in Nat, r5 \in Nat, r6 \in Nat :
         /\ r1 = Pool!Round16(CTX) /\ r2 = Pool!Round16(a) /\ r3 = Pool!Round16(b)
         /\ r4 = Pool!Round16(c) /\ r5 = Pool!Round16(d) /\ r6 = Pool!Round16(e)
  BY <1>1, RoundedTo16
<1>14. PICK R4 \in Nat, R5 \in Nat, R6 \in Nat :
         /\ R4 = Pool!Round16(C) /\ R5 = Pool!Round16(D) /\ R6 = Pool!Round16(E)
         /\ r4 <= R4 /\ r5 <= R5 /\ r6 <= R6
  BY <1>7, <1>13, RoundedTo16, Round16Grows
<1>15. f + r1 + r2 + r3 + R4 + R5 + R6 <= POOL
  BY <1>6, <1>7, <1>10, <1>13, <1>14 DEF LargestFits
<1>16. p[7] = f + r1 + r2 + r3 + r4 + r5 + r6
  BY <1>12, <1>13
<1> QED
  BY <1>1, <1>11, <1>14, <1>15, <1>16 DEF sizes

\* FbInit: a context is refused only while another one has the pool.
PoolSuffices == [][Pool!RefusedWhenTaken]_Pool!vars

\* A step of flanterm_fb_init that refuses meets a context that has the pool.
LEMMA RefusedOnlyWhenTaken ==
    ASSUME Pool!FbInitAssumption, LargestFits, PoolInv, Pool!Next
    PROVE  Pool!RefusedWhenTaken
<1>1. ASSUME NEW s \in Screens, Pool!InitFromPool(s), result' = "no pool"
      PROVE  \E c \in live : c.bump
  <2> SUFFICES ASSUME ~instance PROVE FALSE
    BY DEF PoolInv, PoolVars
  <2> DEFINE sizes == Pool!Sizes(Pool!Limited(s).w, Pool!Limited(s).h, Pool!Scale(s.w, s.h))
             end == Pool!Bumps(sizes)[Len(sizes) + 1]
  <2>1. end > POOL
    <3>1. \/ instance \/ result' = "pool" \/ end > POOL
      BY <1>1, Zenon DEF Pool!InitFromPool, Pool!PoolTaken
    <3> QED BY <1>1, <3>1
  <2>2. Len(sizes) + 1 = 7
    <3>1. Len(sizes) = 6
      BY ScreenSizes
    <3> HIDE DEF sizes
    <3> QED BY <3>1
  <2>3. Pool!Bumps(sizes)[7] <= POOL /\ Pool!Bumps(sizes)[7] \in Nat
    <3>1. PoolIsFree
      BY DEF PoolInv, PoolVars
    <3>2. Pool!BumpFrom \in Nat
      BY <3>1, FreshPool DEF PoolIsFree
    <3>3. Pool!Bumps(sizes) \in [1..7 -> Nat]
      BY <3>2, ScreenSizes, Bumped
    <3> QED BY <3>1, <3>3, EveryScreenFits
  <2>4. POOL \in Nat
    BY DEF Pool!FbInitAssumption
  <2> HIDE DEF sizes
  <2> QED BY <2>1, <2>2, <2>3, <2>4
<1>2. ASSUME NEW canvas \in BOOLEAN, NEW k \in 0..7, NEW frees \in BOOLEAN,
             Pool!InitFromMalloc(canvas, k, frees)
      PROVE  result' # "no pool"
  BY <1>2 DEF Pool!InitFromMalloc
<1>3. ASSUME NEW c \in live, Pool!flanterm_fb_deinit(c)
      PROVE  inits' = inits
  BY <1>3 DEF Pool!flanterm_fb_deinit
<1>4. ASSUME Pool!BadMasks
      PROVE  result' # "no pool"
  BY <1>4 DEF Pool!BadMasks
<1> QED
  BY <1>1, <1>2, <1>3, <1>4 DEF Pool!Next, Pool!RefusedWhenTaken

\* If the pool holds the largest screen within the limits, flanterm_fb_init
\* refuses a context only while another one has the pool, for every framebuffer
\* and every history of calls.
THEOREM PoolIsLargeEnough ==
    ASSUME Pool!FbInitAssumption, LargestFits PROVE Pool!Spec => PoolSuffices
<1>1. Pool!Init => PoolInv
  BY PoolStart
<1>2. PoolInv /\ [Pool!Next]_Pool!vars => PoolInv'
  BY PoolStep
<1>3. PoolInv /\ [Pool!Next]_Pool!vars => [Pool!RefusedWhenTaken]_Pool!vars
  BY RefusedOnlyWhenTaken
<1> QED
  BY <1>1, <1>2, <1>3, PTL DEF Pool!Spec, PoolSuffices

-----------------------------------------------------------------------------
(* Fat16: volumes on disks whose writes fail. *)

\* Sector x of disk p is what a format with total t sectors leaves there, or a
\* write to it was given up.
Right(p, x, t) ==
    \/ x \in abandoned[p]
    \/ disk[p][x] = IF x = 0 THEN Vol!Boot(Vol!Bpb(t, SizeOf[t]))
                    ELSE IF x = RESERVED THEN Vol!Media ELSE Vol!Zeros

\* The first sector after the root directory, with FATs of f sectors.
DataArea(f) == RESERVED + FATS * f + ROOTSECTORS

FormatCall ==
    [kind : {"format"}, at : {"boot", "first", "rest", "root"}, p : Port, f : Nat \ {0},
     i : Nat, j : Nat, sector : Vol!Sector, total : Vol!Total]

\* fat16_format at work: where its loops are, what its frame holds, and that the
\* sectors before the one it writes next are done.
Formatting ==
    /\ op \in FormatCall
    /\ op.f = SizeOf[op.total]
    /\ op.at = "boot" => op.i = 0 /\ op.sector = Vol!Boot(Vol!Bpb(op.total, op.f))
    /\ op.at = "first" =>
          op.i < FATS /\ op.sector = IF op.i = 0 THEN Vol!Media ELSE Vol!Zeros
    /\ op.at = "rest" => op.i < FATS /\ op.j \in 1..op.f /\ op.sector = Vol!Zeros
    /\ op.at = "root" => op.i <= ROOTSECTORS /\ op.sector = Vol!Zeros
    /\ op.at # "boot" =>
          \A x \in {0} \cup (RESERVED..Vol!Target - 1) : Right(op.p, x, op.total)
    /\ formatted[op.p] = 0
    /\ frames = 1 /\ nodes = Len(fat16_volumes)

Reading ==
    /\ op \in [kind : {"read"}, p : Port]
    /\ frames = 1 /\ nodes = Len(fat16_volumes)

\* The boot sector fat16_init looks at is the one fat16_format wrote, if it did.
Checking ==
    /\ op \in [kind : {"check"}, p : Port, sector : Vol!Sector]
    /\ frames = 0 /\ nodes = Len(fat16_volumes) + 1
    /\ \/ formatted[op.p] = 0
       \/ 0 \in abandoned[op.p]
       \/ op.sector = Vol!Boot(Vol!Bpb(formatted[op.p], SizeOf[formatted[op.p]]))

Resting == op = Vol!Idle /\ frames = 0 /\ nodes = Len(fat16_volumes)

DiskTypes ==
    /\ disk \in [Port -> [Vol!Lba -> Vol!Sector]]
    /\ abandoned \in [Port -> SUBSET Vol!Lba]
    /\ formatted \in [Port -> Vol!Total \cup {0}]
    /\ fat16_volumes \in Seq(Nat) /\ ret \in 0..7

Completed ==
    \A p \in Port : formatted[p] # 0 =>
        /\ SizeOf[formatted[p]] # 0
        /\ \A x \in {0} \cup (RESERVED..DataArea(SizeOf[formatted[p]]) - 1) :
              Right(p, x, formatted[p])

VolInv ==
    /\ DiskTypes /\ Completed /\ Vol!VolumesUnique
    /\ Formatting \/ Reading \/ Checking \/ Resting

-----------------------------------------------------------------------------
LEMMA VolInit == ASSUME Vol!Fat16Assumption PROVE Vol!Init => VolInv
<1> SUFFICES ASSUME Vol!Init PROVE VolInv
  OBVIOUS
<1>1. PICK v \in [Port -> Volumes] :
          disk = [p \in Port |-> [x \in Vol!Lba |-> IF x = 0 THEN Vol!Boot(v[p]) ELSE Vol!Old]]
  BY DEF Vol!Init
<1>2. disk \in [Port -> [Vol!Lba -> Vol!Sector]]
  BY <1>1 DEF Vol!Sector
<1>3. DiskTypes
  BY <1>2 DEF DiskTypes, Vol!Init
<1>4. Completed /\ Vol!VolumesUnique /\ Resting
  BY DEF Completed, Vol!VolumesUnique, Resting, Vol!Init
<1> QED BY <1>3, <1>4 DEF VolInv

\* The layout's numbers; its sectors are sectors of the disk.
LEMMA Layout ==
    ASSUME Vol!Fat16Assumption
    PROVE  /\ RESERVED \in Nat \ {0} /\ FATS \in Nat \ {0} /\ ROOTSECTORS \in Nat
           /\ 0 \in Vol!Lba
           /\ \A t \in Vol!Total : /\ t \in Nat /\ SizeOf[t] \in Nat
                                    /\ DataArea(SizeOf[t]) \in Nat
                                    /\ 0..DataArea(SizeOf[t]) \subseteq Vol!Lba
<1>1. RESERVED \in Nat \ {0} /\ FATS \in Nat \ {0} /\ ROOTSECTORS \in Nat
  BY DEF Vol!Fat16Assumption
<1>2. ASSUME NEW t \in Vol!Total
      PROVE  /\ t \in Nat /\ SizeOf[t] \in Nat /\ DataArea(SizeOf[t]) \in Nat
             /\ 0..DataArea(SizeOf[t]) \subseteq Vol!Lba
  <2>1. t \in Nat /\ SizeOf[t] \in Nat
    BY DEF Vol!Fat16Assumption
  <2>2. DataArea(SizeOf[t]) \in Nat
    BY <1>1, <2>1 DEF DataArea
  <2>3. 0..DataArea(SizeOf[t]) \subseteq Vol!Lba
    BY DEF Vol!Lba, DataArea
  <2> QED BY <2>1, <2>2, <2>3
<1> QED BY <1>1, <1>2 DEF Vol!Lba

\* A row of n FATs of f sectors each.
LEMMA FatsGrow ==
    ASSUME NEW f \in Nat, NEW i \in Nat, NEW n \in Nat, i < n
    PROVE  /\ i * f \in Nat /\ n * f \in Nat
           /\ (i + 1) * f = i * f + f
           /\ i * f + f <= n * f
           /\ f # 0 => (i * f = 0 <=> i = 0)
<1>1. (i + 1) * f <= n * f
  <2>1. PICK m \in Nat : n = (i + 1) + m
    <3>1. n - (i + 1) \in Nat
      OBVIOUS
    <3> QED BY <3>1
  <2>2. n * f = (i + 1) * f + m * f /\ m * f \in Nat
    BY <2>1
  <2> QED BY <2>2
<1>2. ASSUME i # 0 PROVE i * f >= f
  <2>1. PICK m \in Nat : i = 1 + m
    <3>1. i - 1 \in Nat
      BY <1>2
    <3> QED BY <3>1
  <2>2. i * f = f + m * f /\ m * f \in Nat
    BY <2>1
  <2> QED BY <2>2
<1> QED BY <1>1, <1>2

\* The next write goes to a sector of the structures being built, one of the
\* disk's.
LEMMA TargetWithin ==
    ASSUME Vol!Fat16Assumption, Formatting, Vol!Writing
    PROVE  /\ Vol!Target \in Vol!Lba /\ Vol!Target \in Nat
           /\ Vol!Target < DataArea(op.f)
           /\ op.at = "boot" => Vol!Target = 0
           /\ op.at # "boot" => Vol!Target >= RESERVED /\ Vol!Target # 0
           /\ op.at # "boot" => (Vol!Target = RESERVED <=> op.at = "first" /\ op.i = 0)
<1>1. /\ op.f \in Nat \ {0} /\ op.i \in Nat /\ op.j \in Nat /\ op.total \in Vol!Total
      /\ op.f = SizeOf[op.total]
      /\ op.at \in {"boot", "first", "rest", "root"}
  BY DEF Formatting, FormatCall
<1>2. RESERVED \in Nat \ {0} /\ FATS \in Nat \ {0} /\ ROOTSECTORS \in Nat
  BY DEF Vol!Fat16Assumption
<1>3. PICK m \in Nat : m = FATS * op.f /\ m >= op.f
  BY <1>1, <1>2
<1>4. DataArea(op.f) = RESERVED + m + ROOTSECTORS
  BY <1>3 DEF DataArea
<1>5. 0..DataArea(op.f) \subseteq Vol!Lba
  BY <1>1 DEF Vol!Lba, DataArea
<1>6. CASE op.at = "boot"
  BY <1>1, <1>2, <1>3, <1>4, <1>5, <1>6 DEF Vol!Target
<1>7. CASE op.at \in {"first", "rest"}
  <2>1. op.i < FATS
    BY <1>7 DEF Formatting
  <2>2. PICK b \in Nat : b = op.i * op.f /\ b + op.f <= m /\ (b = 0 <=> op.i = 0)
    <3>1. /\ op.i * op.f \in Nat /\ op.i * op.f + op.f <= FATS * op.f
          /\ op.i * op.f = 0 <=> op.i = 0
      BY <1>1, <1>2, <2>1, FatsGrow, Zenon
    <3> QED BY <1>3, <3>1
  <2>3. CASE op.at = "first"
    <3>1. Vol!Target = RESERVED + b
      BY <2>2, <2>3 DEF Vol!Target, Vol!Base
    <3> QED BY <1>1, <1>2, <1>3, <1>4, <1>5, <2>2, <2>3, <3>1
  <2>4. CASE op.at = "rest"
    <3>1. Vol!Target = RESERVED + b + op.j
      BY <2>2, <2>4 DEF Vol!Target, Vol!Base
    <3>2. op.j < op.f /\ op.j >= 1
      BY <2>4 DEF Vol!Writing, Formatting
    <3> QED BY <1>1, <1>2, <1>3, <1>4, <1>5, <2>2, <2>4, <3>1, <3>2
  <2> QED BY <1>7, <2>3, <2>4
<1>8. CASE op.at = "root"
  <2>1. Vol!Target = RESERVED + m + op.i /\ op.i < ROOTSECTORS
    BY <1>3, <1>8 DEF Vol!Target, Vol!Writing
  <2> QED BY <1>1, <1>2, <1>3, <1>4, <1>5, <1>8, <2>1
<1> QED BY <1>1, <1>6, <1>7, <1>8

\* A write of a format, whether it is reported or not, puts the right content
\* into its sector and touches no other.
LEMMA WriteRight ==
    ASSUME Vol!Fat16Assumption, DiskTypes, Formatting, Vol!Writing,
           NEW q, q = op.p, NEW y, y = Vol!Target, NEW n, n = op.total,
           disk' = [disk EXCEPT ![op.p][Vol!Target] = op.sector],
           abandoned' \in [Port -> SUBSET Vol!Lba],
           \A p \in Port : abandoned[p] \subseteq abandoned'[p]
    PROVE  /\ disk' \in [Port -> [Vol!Lba -> Vol!Sector]]
           /\ \A p \in Port, x \in Vol!Lba : p # q \/ x # y => disk'[p][x] = disk[p][x]
           /\ \A p \in Port, x \in Vol!Lba, t \in Vol!Total :
                 p # q /\ Right(p, x, t) => Right(p, x, t)'
           /\ \A x \in Vol!Lba : Right(q, x, n) => Right(q, x, n)'
           /\ Right(q, y, n)'
<1>1. q \in Port /\ op.sector \in Vol!Sector /\ n \in Vol!Total
  BY DEF Formatting, FormatCall
<1>2. y \in Vol!Lba
  BY TargetWithin
<1>3. disk' = [disk EXCEPT ![q] = [disk[q] EXCEPT ![y] = op.sector]]
  BY <1>2
<1>4. disk \in [Port -> [Vol!Lba -> Vol!Sector]]
  BY DEF DiskTypes
<1>5. [disk[q] EXCEPT ![y] = op.sector] \in [Vol!Lba -> Vol!Sector]
  BY <1>1, <1>4
<1>6. disk' \in [Port -> [Vol!Lba -> Vol!Sector]]
  BY <1>3, <1>4, <1>5
<1>7. ASSUME NEW p \in Port, NEW x \in Vol!Lba, p # q \/ x # y
      PROVE  disk'[p][x] = disk[p][x]
  BY <1>1, <1>3, <1>4, <1>7
<1>8. disk'[q][y] = op.sector
  BY <1>1, <1>2, <1>3, <1>4
<1>9. op.sector = IF y = 0 THEN Vol!Boot(Vol!Bpb(n, SizeOf[n]))
                  ELSE IF y = RESERVED THEN Vol!Media ELSE Vol!Zeros
  <2>2. CASE op.at = "boot"
    BY <2>2, TargetWithin DEF Formatting
  <2>3. CASE op.at # "boot"
    <3>1. y # 0 /\ (y = RESERVED <=> op.at = "first" /\ op.i = 0)
      BY <2>3, TargetWithin
    <3>2. op.at \in {"boot", "first", "rest", "root"}
      BY DEF Formatting, FormatCall
    <3> QED BY <2>3, <3>1, <3>2 DEF Formatting
  <2> QED BY <2>2, <2>3
<1>10. Right(q, y, n)'
  BY <1>8, <1>9 DEF Right
<1>11. ASSUME NEW p \in Port, NEW x \in Vol!Lba, NEW t,
              p # q \/ x # y, Right(p, x, t)
       PROVE  Right(p, x, t)'
  BY <1>7, <1>11 DEF Right
<1>12. ASSUME NEW x \in Vol!Lba, Right(q, x, n)
       PROVE  Right(q, x, n)'
  BY <1>1, <1>10, <1>11, <1>12
<1> QED BY <1>6, <1>7, <1>10, <1>11, <1>12

\* What the sectors hold only matters where no other write was reported.
LEMMA CompletedKept ==
    ASSUME DiskTypes, Completed, NEW q, formatted' = formatted, formatted[q] = 0,
           \A p \in Port, x \in Vol!Lba, t \in Vol!Total :
              p # q /\ Right(p, x, t) => Right(p, x, t)',
           Vol!Fat16Assumption
    PROVE  Completed'
<1> SUFFICES ASSUME NEW p \in Port, formatted[p] # 0
             PROVE  /\ SizeOf[formatted[p]] # 0
                    /\ \A x \in {0} \cup (RESERVED..DataArea(SizeOf[formatted[p]]) - 1) :
                          Right(p, x, formatted[p])'
  BY DEF Completed
<1>1. p # q /\ formatted[p] \in Vol!Total
  BY DEF DiskTypes
<1>2. PICK t \in Vol!Total : t = formatted[p]
  BY <1>1
<1>3. {0} \cup (RESERVED..DataArea(SizeOf[t]) - 1) \subseteq Vol!Lba
  BY Layout
<1>4. ASSUME NEW x \in {0} \cup (RESERVED..DataArea(SizeOf[t]) - 1)
      PROVE  Right(p, x, t)'
  <2>1. Right(p, x, t)
    BY <1>2, <1>4 DEF Completed
  <2> QED BY <1>1, <1>2, <1>3, <2>1
<1>5. SizeOf[t] # 0
  BY <1>2 DEF Completed
<1> QED BY <1>2, <1>4, <1>5

\* ahci_write reports success.
LEMMA StepWriteOk ==
    ASSUME Vol!Fat16Assumption, VolInv, Formatting, Vol!WriteOk PROVE VolInv'
<1>1. Vol!Writing /\ op.kind = "format"
  BY DEF Vol!WriteOk, Vol!Writing
<1>2. PICK q, y, n : q = op.p /\ y = Vol!Target /\ n = op.total
  OBVIOUS
<1>3. /\ q \in Port /\ n \in Vol!Total /\ op \in FormatCall
      /\ op.at \in {"boot", "first", "rest", "root"}
      /\ op.f \in Nat \ {0} /\ op.i \in Nat /\ op.j \in Nat
  BY <1>2 DEF Formatting, FormatCall
<1>4. DiskTypes /\ Completed
  BY DEF VolInv
<1>5. /\ disk' = [disk EXCEPT ![op.p][Vol!Target] = op.sector]
      /\ op' = Vol!Written
      /\ UNCHANGED <<fat16_volumes, frames, nodes, ret, formatted, abandoned, calls>>
  BY DEF Vol!WriteOk
<1>6. /\ abandoned' \in [Port -> SUBSET Vol!Lba]
      /\ \A p \in Port : abandoned[p] \subseteq abandoned'[p]
  BY <1>4, <1>5 DEF DiskTypes
<1>7. /\ disk' \in [Port -> [Vol!Lba -> Vol!Sector]]
      /\ \A p \in Port, x \in Vol!Lba, t \in Vol!Total :
            p # q /\ Right(p, x, t) => Right(p, x, t)'
      /\ \A x \in Vol!Lba : Right(q, x, n) => Right(q, x, n)'
      /\ Right(q, y, n)'
  BY <1>1, <1>2, <1>4, <1>5, <1>6, WriteRight
<1>8. DiskTypes'
  BY <1>4, <1>5, <1>7 DEF DiskTypes
<1>9. Completed'
  <2>1. formatted[q] = 0
    BY <1>2 DEF Formatting
  <2> QED BY <1>4, <1>5, <1>7, <2>1, CompletedKept
<1>10. Vol!VolumesUnique'
  BY <1>5 DEF VolInv, Vol!VolumesUnique
<1>11. ASSUME NEW x \in {0} \cup (RESERVED..y), x = 0 => op.at # "boot" \/ y = 0,
              op.at = "boot" => x = 0
       PROVE  Right(q, x, n)'
  <2>1. /\ y \in Nat /\ y \in Vol!Lba /\ y < DataArea(op.f)
        /\ op.at = "boot" => y = 0
    BY <1>1, <1>2, TargetWithin
  <2>2. CASE x = y
    BY <1>7, <2>2
  <2>3. CASE x # y
    <3>1. Right(q, x, n)
      <4>1. op.at # "boot" /\ x \in {0} \cup (RESERVED..y - 1)
        BY <1>11, <2>1, <2>3, Layout
      <4> QED BY <1>2, <4>1 DEF Formatting
    <3>2. x \in Vol!Lba
      <4>1. x \in 0..y
        BY <1>11, <2>1, Layout
      <4>2. op.f = SizeOf[n]
        BY <1>2 DEF Formatting
      <4> QED BY <1>3, <2>1, <4>1, <4>2, Layout
    <3> QED BY <1>7, <3>1, <3>2
  <2> QED BY <2>2, <2>3
<1>12. /\ op' \in FormatCall /\ op'.p = q /\ op'.total = n /\ op'.f = op.f
       /\ op.at = "boot" => op'.at = "first" /\ op'.i = op.i /\ op'.sector = Vol!Media
       /\ op.at = "first" =>
             op'.at = "rest" /\ op'.i = op.i /\ op'.j = 1 /\ op'.sector = Vol!Zeros
       /\ op.at = "rest" =>
             op'.at = "rest" /\ op'.i = op.i /\ op'.j = op.j + 1 /\ op'.sector = op.sector
       /\ op.at = "root" => op'.at = "root" /\ op'.i = op.i + 1 /\ op'.sector = op.sector
  <2>1. Vol!Media \in Vol!Sector /\ Vol!Zeros \in Vol!Sector
    BY DEF Vol!Sector
  <2>2. CASE op.at = "boot"
    <3>1. op' = [op EXCEPT !.at = "first", !.sector = Vol!Media]
      BY <1>5, <2>2 DEF Vol!Written
    <3>2. op' \in FormatCall
      BY <1>3, <2>1, <3>1, Zenon DEF FormatCall
    <3> QED BY <1>2, <1>3, <2>2, <3>1, <3>2 DEF FormatCall
  <2>3. CASE op.at = "first"
    <3>1. op' = [op EXCEPT !.at = "rest", !.j = 1, !.sector = Vol!Zeros]
      BY <1>5, <2>3 DEF Vol!Written
    <3>2. op' \in FormatCall
      BY <1>3, <2>1, <3>1, 1 \in Nat, Zenon DEF FormatCall
    <3> QED BY <1>2, <1>3, <2>3, <3>1, <3>2 DEF FormatCall
  <2>4. CASE op.at = "rest"
    <3>1. op' = [op EXCEPT !.j = op.j + 1] /\ op.j + 1 \in Nat
      BY <1>3, <1>5, <2>4 DEF Vol!Written
    <3>2. op' \in FormatCall
      BY <1>3, <3>1, Zenon DEF FormatCall
    <3> QED BY <1>2, <1>3, <2>4, <3>1, <3>2 DEF FormatCall
  <2>5. CASE op.at = "root"
    <3>1. op' = [op EXCEPT !.i = op.i + 1] /\ op.i + 1 \in Nat
      BY <1>3, <1>5, <2>5 DEF Vol!Written
    <3>2. op' \in FormatCall
      BY <1>3, <3>1, Zenon DEF FormatCall
    <3> QED BY <1>2, <1>3, <2>5, <3>1, <3>2 DEF FormatCall
  <2> QED BY <1>3, <2>2, <2>3, <2>4, <2>5
<1>13. /\ op.at = "boot" => Vol!Target' = RESERVED
       /\ op.at # "boot" => Vol!Target' = y + 1
       /\ op'.at # "boot"
  <2>1. CASE op.at = "boot"
    <3>1. op'.i = 0 /\ op'.at = "first" /\ op'.f \in Nat
      BY <1>3, <1>12, <2>1 DEF Formatting
    <3> QED BY <2>1, <3>1, Layout DEF Vol!Target, Vol!Base
  <2>2. CASE op.at \in {"first", "rest"}
    <3>1. PICK b \in Nat : b = op.i * op.f
      BY <1>3
    <3>2. y = IF op.at = "first" THEN RESERVED + b ELSE RESERVED + b + op.j
      BY <1>2, <2>2, <3>1 DEF Vol!Target, Vol!Base
    <3>3. Vol!Target' = RESERVED + b + op'.j /\ op'.at = "rest"
      BY <1>12, <2>2, <3>1 DEF Vol!Target, Vol!Base
    <3> QED BY <1>3, <1>12, <2>2, <3>2, <3>3, Layout
  <2>3. CASE op.at = "root"
    <3>1. PICK m \in Nat : m = FATS * op.f
      BY <1>3, Layout
    <3>2. y = RESERVED + m + op.i
      BY <1>2, <2>3, <3>1 DEF Vol!Target
    <3>3. Vol!Target' = RESERVED + m + op'.i /\ op'.at = "root"
      BY <1>12, <2>3, <3>1 DEF Vol!Target
    <3> QED BY <1>3, <1>12, <2>3, <3>2, <3>3, Layout
  <2> QED BY <1>3, <2>1, <2>2, <2>3
<1>14. ASSUME NEW x \in {0} \cup (RESERVED..Vol!Target' - 1)
       PROVE  Right(q, x, n)'
  <2>1. y \in Nat /\ (op.at = "boot" => y = 0)
    BY <1>1, <1>2, TargetWithin
  <2>2. x \in {0} \cup (RESERVED..y) /\ (op.at = "boot" => x = 0)
    BY <1>13, <1>14, <2>1, Layout
  <2> QED BY <1>11, <2>1, <2>2
<1>15. Formatting'
  <2>1. /\ op'.f = SizeOf[op'.total] /\ formatted'[op'.p] = 0
        /\ frames' = 1 /\ nodes' = Len(fat16_volumes')
    BY <1>2, <1>5, <1>12 DEF Formatting
  <2>2. op'.at # "boot" => \A x \in {0} \cup (RESERVED..Vol!Target' - 1) : Right(op.p, x, op.total)'
    BY <1>12, <1>14
  <2>3. /\ op'.at = "first" => op'.i < FATS /\ op'.sector = IF op'.i = 0 THEN Vol!Media ELSE Vol!Zeros
        /\ op'.at = "rest" => op'.i < FATS /\ op'.j \in 1..op'.f /\ op'.sector = Vol!Zeros
        /\ op'.at = "root" => op'.i <= ROOTSECTORS /\ op'.sector = Vol!Zeros
    <3>1. /\ op.at = "boot" => op.i = 0
          /\ op.at = "first" => op.i < FATS
          /\ op.at = "rest" => op.i < FATS /\ op.j < op.f /\ op.sector = Vol!Zeros
          /\ op.at = "root" => op.i < ROOTSECTORS /\ op.sector = Vol!Zeros
      BY <1>1 DEF Formatting, Vol!Writing
    <3>2. CASE op.at = "boot"
      BY <1>12, <3>1, <3>2, Layout
    <3>3. CASE op.at = "first"
      BY <1>3, <1>12, <3>1, <3>3
    <3>4. CASE op.at = "rest"
      BY <1>3, <1>12, <3>1, <3>4
    <3>5. CASE op.at = "root"
      BY <1>3, <1>12, <3>1, <3>5, Layout
    <3> QED BY <1>3, <3>2, <3>3, <3>4, <3>5
  <2> QED BY <1>12, <1>13, <2>1, <2>2, <2>3 DEF Formatting
<1> QED BY <1>8, <1>9, <1>10, <1>15 DEF VolInv

\* ahci_write reports an error, with the sector written or not, and perhaps
\* written later.
LEMMA StepWriteFails ==
    ASSUME Vol!Fat16Assumption, VolInv, Formatting, Vol!WriteFails PROVE VolInv'
<1>1. Vol!Writing
  BY DEF Vol!WriteFails
<1>2. PICK q, y, n : q = op.p /\ y = Vol!Target /\ n = op.total
  OBVIOUS
<1>3. /\ q \in Port /\ y \in Vol!Lba /\ formatted[q] = 0
      /\ op.at \in {"boot", "first", "rest", "root"}
  BY <1>1, <1>2, TargetWithin DEF Formatting, FormatCall
<1>4. DiskTypes /\ Completed
  BY DEF VolInv
<1>5. /\ op' = Vol!Idle /\ ret' = Vol!FailCode /\ frames' = frames - 1
      /\ UNCHANGED <<fat16_volumes, nodes, formatted>>
  BY DEF Vol!WriteFails, Vol!Return
<1>6. ret' \in 0..7
  BY <1>3, <1>5 DEF Vol!FailCode
<1>7. /\ abandoned' \in [Port -> SUBSET Vol!Lba]
      /\ \A p \in Port : abandoned[p] \subseteq abandoned'[p]
  <2>1. CASE abandoned' = abandoned
    BY <1>4, <2>1 DEF DiskTypes
  <2>2. CASE abandoned' = [abandoned EXCEPT ![q] = @ \cup {y}]
    BY <1>3, <1>4, <2>2 DEF DiskTypes
  <2> QED BY <1>2, <2>1, <2>2 DEF Vol!WriteFails
<1>8. /\ disk' \in [Port -> [Vol!Lba -> Vol!Sector]]
      /\ \A p \in Port, x \in Vol!Lba, t \in Vol!Total :
            p # q /\ Right(p, x, t) => Right(p, x, t)'
  <2>1. CASE disk' = disk
    <3>1. disk' \in [Port -> [Vol!Lba -> Vol!Sector]]
      BY <1>4, <2>1 DEF DiskTypes
    <3>2. ASSUME NEW p \in Port, NEW x, NEW t, Right(p, x, t) PROVE Right(p, x, t)'
      BY <1>7, <2>1, <3>2 DEF Right
    <3> QED BY <3>1, <3>2
  <2>2. CASE disk' = [disk EXCEPT ![op.p][Vol!Target] = op.sector]
    BY <1>1, <1>2, <1>4, <1>7, <2>2, WriteRight
  <2> QED BY <2>1, <2>2 DEF Vol!WriteFails
<1>9. DiskTypes'
  BY <1>4, <1>5, <1>6, <1>7, <1>8 DEF DiskTypes
<1>10. Completed'
  BY <1>3, <1>4, <1>5, <1>8, CompletedKept
<1>11. Vol!VolumesUnique'
  BY <1>5 DEF VolInv, Vol!VolumesUnique
<1>12. Resting'
  BY <1>5 DEF Formatting, Resting, Vol!Idle
<1> QED BY <1>9, <1>10, <1>11, <1>12 DEF VolInv

\* A step that leaves the disks alone, and what was formatted.
LEMMA DisksKept ==
    ASSUME VolInv, UNCHANGED <<disk, abandoned, formatted, fat16_volumes>>, ret' \in 0..7
    PROVE  DiskTypes' /\ Completed' /\ Vol!VolumesUnique'
<1>1. \A p, x, t : Right(p, x, t)' <=> Right(p, x, t)
  BY DEF Right
<1>2. Completed'
  BY <1>1 DEF VolInv, Completed
<1> QED BY <1>2 DEF VolInv, DiskTypes, Vol!VolumesUnique

\* The end of a FAT.
LEMMA StepNextFat ==
    ASSUME Vol!Fat16Assumption, VolInv, Formatting, Vol!NextFat PROVE VolInv'
<1>1. /\ op.at = "rest" /\ op.j >= op.f
      /\ UNCHANGED <<disk, fat16_volumes, frames, nodes, ret, formatted, abandoned>>
  BY DEF Vol!NextFat
<1>2. /\ op \in FormatCall /\ op.f \in Nat \ {0} /\ op.i \in Nat /\ op.j \in Nat
      /\ op.i < FATS /\ op.j = op.f /\ op.sector = Vol!Zeros
      /\ op.f = SizeOf[op.total]
  BY <1>1 DEF Formatting, FormatCall
<1>3. PICK q, y, n : q = op.p /\ y = Vol!Target /\ n = op.total
  OBVIOUS
<1>4. PICK b \in Nat, m \in Nat : /\ b = op.i * op.f /\ m = FATS * op.f
                                 /\ (op.i + 1) * op.f = b + op.f
  <2>1. /\ op.i * op.f \in Nat /\ FATS * op.f \in Nat
        /\ (op.i + 1) * op.f = op.i * op.f + op.f
    BY <1>2, Layout, FatsGrow, Zenon
  <2> QED BY <2>1
<1>5. y = RESERVED + b + op.f
  BY <1>1, <1>2, <1>3, <1>4 DEF Vol!Target, Vol!Base
<1>6. DiskTypes' /\ Completed' /\ Vol!VolumesUnique'
  <2>1. ret' \in 0..7
    BY <1>1 DEF VolInv, DiskTypes
  <2> QED BY <1>1, <2>1, DisksKept
<1>7. /\ op' \in FormatCall /\ op'.p = q /\ op'.total = n /\ op'.f = op.f
      /\ op'.sector = Vol!Zeros /\ Vol!Target' = y
      /\ \/ op'.at = "first" /\ op'.i = op.i + 1 /\ op'.i < FATS
         \/ op'.at = "root" /\ op'.i = 0
  <2>1. CASE op.i + 1 < FATS
    <3>1. op' = [op EXCEPT !.at = "first", !.i = op.i + 1] /\ op.i + 1 \in Nat
      BY <1>2, <2>1 DEF Vol!NextFat
    <3>2. op' \in FormatCall
      BY <1>2, <3>1, Zenon DEF FormatCall
    <3>3. /\ op'.p = q /\ op'.total = n /\ op'.f = op.f /\ op'.sector = Vol!Zeros
          /\ op'.at = "first" /\ op'.i = op.i + 1
      BY <1>2, <1>3, <3>1 DEF FormatCall
    <3>4. Vol!Target' = y
      BY <1>2, <1>4, <1>5, <3>3, Layout DEF Vol!Target, Vol!Base
    <3> QED BY <2>1, <3>2, <3>3, <3>4
  <2>2. CASE ~(op.i + 1 < FATS)
    <3>1. op' = [op EXCEPT !.at = "root", !.i = 0, !.sector = Vol!Zeros]
      BY <2>2 DEF Vol!NextFat
    <3>2. op' \in FormatCall
      <4>1. Vol!Zeros \in Vol!Sector /\ 0 \in Nat
        BY DEF Vol!Sector
      <4> QED BY <1>2, <3>1, <4>1, Zenon DEF FormatCall
    <3>3. /\ op'.p = q /\ op'.total = n /\ op'.f = op.f /\ op'.sector = Vol!Zeros
          /\ op'.at = "root" /\ op'.i = 0
      BY <1>2, <1>3, <3>1 DEF FormatCall
    <3>4. op.i + 1 = FATS
      BY <1>2, <2>2, Layout
    <3>5. m = b + op.f
      BY <1>4, <3>4
    <3>6. Vol!Target' = y
      BY <1>2, <1>4, <1>5, <3>3, <3>5, Layout DEF Vol!Target
    <3> QED BY <3>2, <3>3, <3>6
  <2> QED BY <2>1, <2>2
<1>8. ASSUME NEW x \in {0} \cup (RESERVED..Vol!Target' - 1) PROVE Right(q, x, n)'
  <2>1. Right(q, x, n)
    BY <1>1, <1>3, <1>7, <1>8 DEF Formatting
  <2> QED BY <1>1, <2>1 DEF Right
<1>9. Formatting'
  <2>1. /\ op'.f = SizeOf[op'.total] /\ formatted'[op'.p] = 0
        /\ frames' = 1 /\ nodes' = Len(fat16_volumes')
    BY <1>1, <1>2, <1>3, <1>7 DEF Formatting
  <2>2. \A x \in {0} \cup (RESERVED..Vol!Target' - 1) : Right(op.p, x, op.total)'
    BY <1>7, <1>8
  <2>3. op'.i # 0 \/ op'.at = "root"
    BY <1>2, <1>7
  <2> QED BY <1>7, <2>1, <2>2, <2>3, Layout DEF Formatting
<1> QED BY <1>6, <1>9 DEF VolInv

\* The root directory's end: the format returns 0.
LEMMA StepFormatEnd ==
    ASSUME Vol!Fat16Assumption, VolInv, Formatting, Vol!FormatEnd PROVE VolInv'
<1>1. /\ op.at = "root" /\ op.i >= ROOTSECTORS /\ op' = Vol!Idle /\ ret' = 0
      /\ formatted' = [formatted EXCEPT ![op.p] = op.total] /\ frames' = frames - 1
      /\ UNCHANGED <<disk, fat16_volumes, nodes, abandoned>>
  BY DEF Vol!FormatEnd, Vol!Return
<1>2. PICK q, n : q = op.p /\ n = op.total
  OBVIOUS
<1>3. /\ q \in Port /\ n \in Vol!Total /\ op.f = SizeOf[n] /\ op.f \in Nat \ {0}
      /\ op.i = ROOTSECTORS
  BY <1>1, <1>2, Layout DEF Formatting, FormatCall
<1>4. Vol!Target = DataArea(op.f)
  BY <1>1, <1>3 DEF Vol!Target, DataArea
<1>5. \A p, x, t : Right(p, x, t)' <=> Right(p, x, t)
  BY <1>1 DEF Right
<1>6. \A x \in {0} \cup (RESERVED..DataArea(SizeOf[n]) - 1) : Right(q, x, n)'
  BY <1>1, <1>2, <1>3, <1>4, <1>5 DEF Formatting
<1>7. DiskTypes'
  BY <1>1, <1>2, <1>3 DEF VolInv, DiskTypes
<1>8. formatted'[q] = n /\ \A p \in Port : p # q => formatted'[p] = formatted[p]
  BY <1>1, <1>2, <1>3 DEF VolInv, DiskTypes
<1>9. Completed'
  <2> SUFFICES ASSUME NEW p \in Port, formatted'[p] # 0
               PROVE  /\ SizeOf[formatted'[p]] # 0
                      /\ \A x \in {0} \cup (RESERVED..DataArea(SizeOf[formatted'[p]]) - 1) :
                            Right(p, x, formatted[p])'
    BY DEF Completed
  <2>1. CASE p = q
    BY <1>3, <1>6, <1>8, <2>1
  <2>2. CASE p # q
    BY <1>5, <1>8, <2>2 DEF VolInv, Completed
  <2> QED BY <2>1, <2>2
<1>10. Vol!VolumesUnique'
  BY <1>1 DEF VolInv, Vol!VolumesUnique
<1>11. Resting'
  BY <1>1 DEF Formatting, Resting, Vol!Idle
<1> QED BY <1>7, <1>9, <1>10, <1>11 DEF VolInv

\* A write that was given up happens after all.
LEMMA StepLateWrite ==
    ASSUME Vol!Fat16Assumption, VolInv, NEW p \in Port, NEW x \in Vol!Lba,
           Vol!LateWrite(p, x)
    PROVE  VolInv'
<1>1. /\ x \in abandoned[p] /\ disk' = [disk EXCEPT ![p] = [disk[p] EXCEPT ![x] = Vol!Junk]]
      /\ UNCHANGED <<fat16_volumes, op, frames, nodes, ret, formatted, abandoned>>
  BY DEF Vol!LateWrite
<1>2. DiskTypes
  BY DEF VolInv
<1>3. [disk[p] EXCEPT ![x] = Vol!Junk] \in [Vol!Lba -> Vol!Sector]
  BY <1>2 DEF DiskTypes, Vol!Sector
<1>4. disk' \in [Port -> [Vol!Lba -> Vol!Sector]]
  BY <1>1, <1>2, <1>3 DEF DiskTypes
<1>5. DiskTypes'
  BY <1>1, <1>2, <1>4 DEF DiskTypes
<1>6. ASSUME NEW q \in Port, NEW y \in Vol!Lba, NEW t, Right(q, y, t) PROVE Right(q, y, t)'
  <2>1. CASE q = p /\ y = x
    BY <1>1, <2>1 DEF Right
  <2>2. CASE q # p \/ y # x
    <3>1. disk'[q][y] = disk[q][y]
      BY <1>1, <1>2, <2>2 DEF DiskTypes
    <3> QED BY <1>1, <1>6, <3>1 DEF Right
  <2> QED BY <2>1, <2>2
<1>7. Completed'
  <2> SUFFICES ASSUME NEW q \in Port, formatted[q] # 0
               PROVE  /\ SizeOf[formatted[q]] # 0
                      /\ \A y \in {0} \cup (RESERVED..DataArea(SizeOf[formatted[q]]) - 1) :
                            Right(q, y, formatted[q])'
    BY <1>1 DEF Completed
  <2>1. PICK t \in Vol!Total : t = formatted[q]
    BY <1>2 DEF DiskTypes
  <2>2. {0} \cup (RESERVED..DataArea(SizeOf[t]) - 1) \subseteq Vol!Lba
    BY Layout
  <2>3. \A y \in {0} \cup (RESERVED..DataArea(SizeOf[t]) - 1) : Right(q, y, t)
    BY <2>1 DEF VolInv, Completed
  <2>4. \A y \in {0} \cup (RESERVED..DataArea(SizeOf[t]) - 1) : Right(q, y, t)'
    BY <1>6, <2>2, <2>3
  <2>5. SizeOf[t] # 0
    BY <2>1 DEF VolInv, Completed
  <2> QED BY <1>1, <2>1, <2>4, <2>5
<1>8. Vol!VolumesUnique'
  BY <1>1 DEF VolInv, Vol!VolumesUnique
<1>9. CASE Formatting
  <2>1. PICK q, n : q = op.p /\ n = op.total
    OBVIOUS
  <2>2. /\ q \in Port /\ n \in Vol!Total /\ op.f = SizeOf[n] /\ op.f \in Nat \ {0}
        /\ op.i \in Nat /\ op.j \in Nat /\ op.at \in {"boot", "first", "rest", "root"}
    BY <1>9, <2>1 DEF Formatting, FormatCall
  <2>3. PICK y : y = Vol!Target
    OBVIOUS
  <2>4. Vol!Target' = y
    BY <1>1, <2>3 DEF Vol!Target, Vol!Base
  <2>5. op.at # "boot" => {0} \cup (RESERVED..y - 1) \subseteq Vol!Lba
    <3> HAVE op.at # "boot"
    <3>1. PICK m \in Nat : m = FATS * op.f
      BY <2>2, Layout
    <3>2. y <= RESERVED + m + ROOTSECTORS /\ y \in Nat
      <4>1. CASE op.at = "root"
        <5>1. y = RESERVED + m + op.i
          BY <2>3, <3>1, <4>1 DEF Vol!Target
        <5>2. op.i <= ROOTSECTORS
          BY <1>9, <4>1 DEF Formatting
        <5> QED BY <2>2, <3>1, <5>1, <5>2, Layout
      <4>2. CASE op.at \in {"first", "rest"}
        <5>1. op.i < FATS /\ (op.at = "rest" => op.j <= op.f)
          BY <1>9, <2>2, <4>2 DEF Formatting
        <5>2. PICK b \in Nat : b = op.i * op.f /\ b + op.f <= m
          <6>1. op.i * op.f \in Nat /\ op.i * op.f + op.f <= FATS * op.f
            BY <2>2, <5>1, Layout, FatsGrow, Zenon
          <6> QED BY <3>1, <6>1
        <5>3. y = IF op.at = "first" THEN RESERVED + b ELSE RESERVED + b + op.j
          BY <2>3, <4>2, <5>2 DEF Vol!Target, Vol!Base
        <5> QED BY <2>2, <3>1, <4>2, <5>1, <5>2, <5>3, Layout
      <4> QED BY <2>2, <4>1, <4>2
    <3>3. DataArea(SizeOf[n]) = RESERVED + m + ROOTSECTORS
      BY <2>2, <3>1 DEF DataArea
    <3>4. RESERVED..y - 1 \subseteq 0..DataArea(SizeOf[n])
      BY <3>1, <3>2, <3>3, Layout
    <3> QED BY <2>2, <3>4, Layout
  <2>6. op.at # "boot" => \A z \in {0} \cup (RESERVED..y - 1) : Right(q, z, n)'
    <3>1. op.at # "boot" => \A z \in {0} \cup (RESERVED..y - 1) : Right(q, z, n)
      BY <1>9, <2>1, <2>3 DEF Formatting
    <3> QED BY <1>6, <2>2, <2>5, <3>1
  <2>7. op'.at # "boot" =>
            \A z \in {0} \cup (RESERVED..Vol!Target' - 1) : Right(op.p, z, op.total)'
    BY <1>1, <2>1, <2>4, <2>6
  <2>8. Formatting'
    BY <1>1, <1>9, <2>7 DEF Formatting
  <2> QED BY <1>5, <1>7, <1>8, <2>8 DEF VolInv
<1>10. CASE Reading \/ Checking \/ Resting
  <2>1. Reading' \/ Checking' \/ Resting'
    BY <1>1, <1>10 DEF Reading, Checking, Resting
  <2> QED BY <1>5, <1>7, <1>8, <2>1 DEF VolInv
<1> QED BY <1>9, <1>10 DEF VolInv

\* fat16_format begins, or returns at once.
LEMMA StepFormat ==
    ASSUME Vol!Fat16Assumption, VolInv, NEW p \in Port, NEW t \in Vol!Total,
           Vol!fat16_format(p, t)
    PROVE  VolInv'
<1>1. /\ Resting /\ UNCHANGED <<disk, fat16_volumes, nodes, abandoned>>
  <2>1. op = Vol!Idle /\ UNCHANGED <<disk, fat16_volumes, nodes, abandoned>>
    BY DEF Vol!fat16_format
  <2> QED BY <2>1 DEF VolInv, Formatting, Reading, Checking, FormatCall, Vol!Idle
<1>2. CASE op' = Vol!Idle /\ ret' \in {2, 3} /\ UNCHANGED <<frames, formatted>>
  <2>1. DiskTypes' /\ Completed' /\ Vol!VolumesUnique'
    BY <1>1, <1>2, DisksKept
  <2>2. Resting'
    BY <1>1, <1>2 DEF Resting, Vol!Idle
  <2> QED BY <2>1, <2>2 DEF VolInv
<1>3. CASE /\ SizeOf[t] # 0
           /\ op' = [kind |-> "format", at |-> "boot", p |-> p, f |-> SizeOf[t], i |-> 0, j |-> 0,
                     sector |-> Vol!Boot(Vol!Bpb(t, SizeOf[t])), total |-> t]
           /\ frames' = frames + 1 /\ formatted' = [formatted EXCEPT ![p] = 0] /\ ret' = ret
  <2>1. \A q, x, n : Right(q, x, n)' <=> Right(q, x, n)
    BY <1>1 DEF Right
  <2>2. DiskTypes'
    BY <1>1, <1>3 DEF VolInv, DiskTypes
  <2>3. formatted'[p] = 0 /\ \A q \in Port : q # p => formatted'[q] = formatted[q]
    BY <1>3 DEF VolInv, DiskTypes
  <2>4. Completed'
    <3> SUFFICES ASSUME NEW q \in Port, formatted'[q] # 0
                 PROVE  /\ SizeOf[formatted'[q]] # 0
                        /\ \A x \in {0} \cup (RESERVED..DataArea(SizeOf[formatted'[q]]) - 1) :
                              Right(q, x, formatted[q])'
      BY DEF Completed
    <3>1. q # p /\ formatted'[q] = formatted[q]
      BY <2>3
    <3> QED BY <2>1, <3>1 DEF VolInv, Completed
  <2>5. Vol!VolumesUnique'
    BY <1>1 DEF VolInv, Vol!VolumesUnique
  <2>6. op' \in FormatCall
    <3>1. Vol!Boot(Vol!Bpb(t, SizeOf[t])) \in Vol!Sector
      BY DEF Vol!Sector
    <3>2. SizeOf[t] \in Nat \ {0} /\ 0 \in Nat
      BY <1>3, Layout
    <3> QED BY <1>3, <3>1, <3>2, Zenon DEF FormatCall
  <2>7. /\ op'.at = "boot" /\ op'.i = 0 /\ op'.p = p /\ op'.total = t /\ op'.f = SizeOf[t]
        /\ op'.sector = Vol!Boot(Vol!Bpb(t, SizeOf[t]))
    BY <1>3
  <2>8. Formatting'
    BY <1>1, <1>3, <2>3, <2>6, <2>7 DEF Formatting, Resting
  <2> QED BY <2>2, <2>4, <2>5, <2>8 DEF VolInv
<1> QED BY <1>2, <1>3 DEF Vol!fat16_format, Vol!Return

\* fat16_init takes a frame, or returns at once.
LEMMA StepInit ==
    ASSUME VolInv, NEW p \in Port, Vol!fat16_init(p)
    PROVE  VolInv'
<1>1. /\ op = Vol!Idle /\ UNCHANGED <<disk, fat16_volumes, nodes, formatted, abandoned>>
      /\ \/ op' = Vol!Idle /\ ret' = 1 /\ frames' = frames
         \/ op' = [kind |-> "read", p |-> p] /\ frames' = frames + 1 /\ ret' = ret
  BY DEF Vol!fat16_init, Vol!Return
<1>2. Resting
  BY <1>1 DEF VolInv, Formatting, Reading, Checking, FormatCall, Vol!Idle
<1>3. ret' \in 0..7
  BY <1>1 DEF VolInv, DiskTypes
<1>4. DiskTypes' /\ Completed' /\ Vol!VolumesUnique'
  BY <1>1, <1>3, DisksKept
<1>5. Resting' \/ Reading'
  BY <1>1, <1>2 DEF Resting, Reading, Vol!Idle
<1> QED BY <1>4, <1>5 DEF VolInv

\* read_fat gives its frame back.
LEMMA StepReadFat == ASSUME Vol!Fat16Assumption, VolInv, Vol!ReadFat PROVE VolInv'
<1>1. /\ op.kind = "read" /\ frames' = frames - 1
      /\ UNCHANGED <<disk, fat16_volumes, formatted, abandoned>>
      /\ \/ op' = Vol!Idle /\ ret' = 1 /\ nodes' = nodes
         \/ /\ op' = [kind |-> "check", p |-> op.p, sector |-> disk[op.p][0]]
            /\ nodes' = nodes + 1 /\ ret' = ret
  BY DEF Vol!ReadFat, Vol!Return
<1>2. Reading
  BY <1>1 DEF VolInv, Formatting, Checking, Resting, FormatCall, Vol!Idle
<1>3. ret' \in 0..7
  BY <1>1 DEF VolInv, DiskTypes
<1>4. DiskTypes' /\ Completed' /\ Vol!VolumesUnique'
  BY <1>1, <1>3, DisksKept
<1>5. op.p \in Port /\ Len(fat16_volumes) \in Nat
  BY <1>2 DEF Reading, VolInv, DiskTypes
<1>6. CASE op' = Vol!Idle /\ nodes' = nodes
  <2>1. Resting'
    BY <1>1, <1>2, <1>6 DEF Resting, Reading, Vol!Idle
  <2> QED BY <1>4, <2>1 DEF VolInv
<1>7. CASE /\ op' = [kind |-> "check", p |-> op.p, sector |-> disk[op.p][0]]
           /\ nodes' = nodes + 1
  <2>1. disk[op.p][0] \in Vol!Sector
    BY <1>5, Layout DEF VolInv, DiskTypes
  <2>2. op' \in [kind : {"check"}, p : Port, sector : Vol!Sector]
    BY <1>5, <1>7, <2>1
  <2>3. op'.p = op.p /\ op'.sector = disk[op.p][0]
    BY <1>7
  <2>4. \/ formatted[op.p] = 0
        \/ 0 \in abandoned[op.p]
        \/ disk[op.p][0] = Vol!Boot(Vol!Bpb(formatted[op.p], SizeOf[formatted[op.p]]))
    BY <1>5 DEF VolInv, Completed, Right
  <2>5. Checking'
    BY <1>1, <1>2, <1>7, <2>2, <2>3, <2>4 DEF Checking, Reading
  <2> QED BY <1>4, <2>5 DEF VolInv
<1> QED BY <1>1, <1>6, <1>7

\* fat16_init does not list the volume.
LEMMA StepRefused == ASSUME VolInv, Vol!Refused PROVE VolInv'
<1>1. /\ op.kind = "check" /\ op' = Vol!Idle /\ ret' \in {2, 3, 4} /\ nodes' = nodes - 1
      /\ UNCHANGED <<disk, fat16_volumes, frames, formatted, abandoned>>
  BY DEF Vol!Refused, Vol!Return
<1>2. Checking
  BY <1>1 DEF VolInv, Formatting, Reading, Resting, FormatCall, Vol!Idle
<1>3. DiskTypes' /\ Completed' /\ Vol!VolumesUnique'
  BY <1>1, DisksKept
<1>4. Resting'
  BY <1>1, <1>2 DEF Checking, Resting, VolInv, DiskTypes, Vol!Idle
<1> QED BY <1>3, <1>4 DEF VolInv

\* A step that changes the list but not the disks.
LEMMA ListChanged ==
    ASSUME VolInv, UNCHANGED <<disk, abandoned, formatted>>, ret' \in 0..7,
           fat16_volumes' \in Seq(Nat)
    PROVE  DiskTypes' /\ Completed'
<1>1. \A p, x, t : Right(p, x, t)' <=> Right(p, x, t)
  BY DEF Right
<1> QED BY <1>1 DEF VolInv, Completed, DiskTypes

\* It does: the volume's id is a new one.
LEMMA StepListed == ASSUME Vol!Fat16Assumption, VolInv, Vol!Listed PROVE VolInv'
<1>1. PICK id : id = op.sector.bpb.vol_id
  OBVIOUS
<1>2. /\ op.kind = "check" /\ op' = Vol!Idle /\ ret' = 0
      /\ op.sector.kind = "boot" /\ fat16_volumes' = Append(fat16_volumes, id)
      /\ \A k \in DOMAIN fat16_volumes : fat16_volumes[k] # id
      /\ UNCHANGED <<disk, frames, nodes, formatted, abandoned>>
  BY <1>1 DEF Vol!Listed, Vol!Return, Vol!Valid, Vol!Known
<1>3. Checking
  BY <1>2 DEF VolInv, Formatting, Reading, Resting, FormatCall, Vol!Idle
<1>4. id \in Nat
  <2>1. op.sector \in Vol!Sector
    BY <1>3 DEF Checking
  <2>2. ASSUME NEW v \in Volumes, op.sector = Vol!Boot(v) PROVE id \in Nat
    <3>1. op.sector.bpb = v
      BY <2>2 DEF Vol!Boot
    <3> QED BY <1>1, <3>1 DEF Vol!Fat16Assumption
  <2>3. ASSUME NEW t \in Vol!Total, op.sector = Vol!Boot(Vol!Bpb(t, SizeOf[t])) PROVE id \in Nat
    <3>1. op.sector.bpb = Vol!Bpb(t, SizeOf[t])
      BY <2>3 DEF Vol!Boot
    <3>2. Vol!Bpb(t, SizeOf[t]).vol_id = 1
      BY DEF Vol!Bpb, Vol!FORMATID
    <3> QED BY <1>1, <3>1, <3>2
  <2>4. op.sector \notin {Vol!Old, Vol!Zeros, Vol!Media, Vol!Junk}
    BY <1>2 DEF Vol!Old, Vol!Zeros, Vol!Media, Vol!Junk
  <2> QED BY <2>1, <2>2, <2>3, <2>4 DEF Vol!Sector
<1>5. fat16_volumes \in Seq(Nat)
  BY DEF VolInv, DiskTypes
<1>6. /\ fat16_volumes' \in Seq(Nat) /\ Len(fat16_volumes') = Len(fat16_volumes) + 1
      /\ DOMAIN fat16_volumes' = 1..Len(fat16_volumes) + 1
      /\ fat16_volumes'[Len(fat16_volumes) + 1] = id
      /\ \A k \in 1..Len(fat16_volumes) : fat16_volumes'[k] = fat16_volumes[k]
  BY <1>2, <1>4, <1>5
<1>7. DiskTypes' /\ Completed'
  BY <1>2, <1>6, ListChanged
<1>8. Vol!VolumesUnique'
  <2>1. DOMAIN fat16_volumes = 1..Len(fat16_volumes) /\ Len(fat16_volumes) \in Nat
    BY <1>5
  <2>2. Vol!VolumesUnique
    BY DEF VolInv
  <2> SUFFICES ASSUME NEW j \in DOMAIN fat16_volumes', NEW k \in DOMAIN fat16_volumes',
                      fat16_volumes'[j] = fat16_volumes'[k]
               PROVE  j = k
    BY DEF Vol!VolumesUnique
  <2>3. CASE j \in 1..Len(fat16_volumes) /\ k \in 1..Len(fat16_volumes)
    BY <1>6, <2>1, <2>2, <2>3 DEF Vol!VolumesUnique
  <2>4. CASE j = Len(fat16_volumes) + 1 \/ k = Len(fat16_volumes) + 1
    BY <1>2, <1>6, <2>1, <2>4
  <2> QED BY <1>6, <2>1, <2>3, <2>4
<1>9. Resting'
  BY <1>2, <1>3, <1>5, <1>6 DEF Checking, Resting, Vol!Idle
<1> QED BY <1>7, <1>8, <1>9 DEF VolInv

\* fat_list_free empties the list.
LEMMA StepListFree == ASSUME VolInv, Vol!fat_list_free PROVE VolInv'
<1>1. /\ op = Vol!Idle /\ nodes' = nodes - Len(fat16_volumes) /\ fat16_volumes' = <<>>
      /\ UNCHANGED <<disk, op, frames, ret, formatted, abandoned>>
  BY DEF Vol!fat_list_free
<1>2. Resting
  BY <1>1 DEF VolInv, Formatting, Reading, Checking, FormatCall, Vol!Idle
<1>3. DiskTypes' /\ Completed'
  BY <1>1, ListChanged DEF VolInv, DiskTypes
<1>4. Vol!VolumesUnique'
  BY <1>1 DEF Vol!VolumesUnique
<1>5. Resting'
  BY <1>1, <1>2 DEF Resting, VolInv, DiskTypes
<1> QED BY <1>3, <1>4, <1>5 DEF VolInv

\* A call under way is in the state its kind says.
LEMMA InCall ==
    ASSUME VolInv
    PROVE  /\ op.kind = "format" => Formatting
           /\ op.kind = "read" => Reading
           /\ op.kind = "check" => Checking
           /\ op = Vol!Idle => Resting
  BY DEF VolInv, Formatting, Reading, Checking, Resting, FormatCall, Vol!Idle

LEMMA VolNext == ASSUME Vol!Fat16Assumption, VolInv, [Vol!Next]_Vol!vars PROVE VolInv'
<1>1. CASE UNCHANGED Vol!vars
  <2>1. UNCHANGED <<disk, fat16_volumes, op, frames, nodes, ret, formatted, abandoned>>
    BY <1>1 DEF Vol!vars
  <2>2. \A p, x, t : Right(p, x, t)' <=> Right(p, x, t)
    BY <2>1 DEF Right
  <2>3. DiskTypes' /\ Completed' /\ Vol!VolumesUnique'
    BY <2>1, DisksKept DEF VolInv, DiskTypes
  <2>4. CASE Formatting
    <3>1. Vol!Target' = Vol!Target
      BY <2>1 DEF Vol!Target, Vol!Base
    <3>2. PICK q, n : q = op.p /\ n = op.total
      OBVIOUS
    <3>3. op'.at # "boot" =>
            \A x \in {0} \cup (RESERVED..Vol!Target' - 1) : Right(op.p, x, op.total)'
      <4>1. op.at # "boot" => \A x \in {0} \cup (RESERVED..Vol!Target - 1) : Right(q, x, n)
        BY <2>4, <3>2 DEF Formatting
      <4> QED BY <2>1, <2>2, <3>1, <3>2, <4>1
    <3>4. Formatting'
      BY <2>1, <2>4, <3>3 DEF Formatting
    <3> QED BY <2>3, <3>4 DEF VolInv
  <2>5. CASE Reading \/ Checking \/ Resting
    <3>1. Reading' \/ Checking' \/ Resting'
      BY <2>1, <2>5 DEF Reading, Checking, Resting
    <3> QED BY <2>3, <3>1 DEF VolInv
  <2> QED BY <2>4, <2>5 DEF VolInv
<1>2. CASE Vol!WriteOk
  BY <1>2, InCall, StepWriteOk DEF Vol!WriteOk, Vol!Writing
<1>3. CASE Vol!WriteFails
  BY <1>3, InCall, StepWriteFails DEF Vol!WriteFails, Vol!Writing
<1>4. CASE Vol!NextFat
  BY <1>4, InCall, StepNextFat DEF Vol!NextFat
<1>5. CASE Vol!FormatEnd
  BY <1>5, InCall, StepFormatEnd DEF Vol!FormatEnd
<1>6. CASE Vol!ReadFat \/ Vol!Refused \/ Vol!Listed \/ Vol!fat_list_free
  BY <1>6, StepReadFat, StepRefused, StepListed, StepListFree
<1>7. CASE \E p \in Port : Vol!fat16_init(p) \/ \E t \in Vol!Total : Vol!fat16_format(p, t)
  BY <1>7, StepInit, StepFormat
<1>8. CASE \E p \in Port, x \in Vol!Lba : Vol!LateWrite(p, x)
  BY <1>8, StepLateWrite
<1> QED BY <1>1, <1>2, <1>3, <1>4, <1>5, <1>6, <1>7, <1>8 DEF Vol!Next

LEMMA VolInvAlways == ASSUME Vol!Fat16Assumption PROVE Vol!Spec => []VolInv
<1>1. Vol!Init => VolInv
  BY VolInit
<1>2. VolInv /\ [Vol!Next]_Vol!vars => VolInv'
  BY VolNext
<1> QED BY <1>1, <1>2, PTL DEF Vol!Spec

\* Disks of any number and size, FATs of any number and size: whatever writes
\* fail and whenever they happen, fat16_format and fat16_init lose no frame and
\* no block, list no volume twice, address no sector outside of the layout, and
\* after a format that returned 0 every sector is as it should be.
THEOREM VolumesAreSound ==
    ASSUME Vol!Fat16Assumption PROVE Vol!Spec => []Vol!VolumesSound
<1>1. VolInv => Vol!VolumesSound
  <2> SUFFICES ASSUME VolInv PROVE Vol!VolumesSound
    OBVIOUS
  <2>1. Len(fat16_volumes) \in Nat
    BY DEF VolInv, DiskTypes
  <2>2. frames \in 0..1 /\ nodes \in Nat
    BY <2>1 DEF VolInv, Formatting, Reading, Checking, Resting
  <2>3. Vol!Writing => Vol!Target \in Vol!Lba
    BY InCall, TargetWithin DEF Vol!Writing
  <2>4. Vol!TypeOK
    BY <2>2, <2>3 DEF VolInv, DiskTypes, Vol!TypeOK
  <2>5. Vol!NothingLeaks
    BY InCall DEF Vol!NothingLeaks, Resting
  <2>6. Vol!FormatComplete
    <3> SUFFICES ASSUME NEW p \in Port, formatted[p] # 0,
                        NEW f, f = SizeOf[formatted[p]],
                        NEW x \in {0} \cup (RESERVED..RESERVED + FATS * f + ROOTSECTORS - 1)
                 PROVE  Right(p, x, formatted[p])
      BY DEF Vol!FormatComplete, Right
    <3>1. x \in {0} \cup (RESERVED..DataArea(f) - 1)
      <4>1. formatted[p] \in Vol!Total
        BY DEF VolInv, DiskTypes
      <4>2. PICK m \in Nat : m = FATS * f
        BY <4>1, Layout
      <4> QED BY <4>2, Layout DEF DataArea
    <3> QED BY <3>1 DEF VolInv, Completed
  <2> QED BY <2>4, <2>5, <2>6 DEF VolInv, Vol!VolumesSound
<1> QED BY <1>1, VolInvAlways, PTL

\* What fat16_format writes into a boot sector, fat16_validate accepts.
LEMMA FormatValid ==
    ASSUME Vol!Fat16Assumption, NEW t \in Vol!Total, t # 0, SizeOf[t] # 0
    PROVE  Vol!fat16_validate(Vol!Bpb(t, SizeOf[t]))
<1>1. PICK b : b = Vol!Bpb(t, SizeOf[t])
  OBVIOUS
<1>2. /\ b.bps = 512 /\ b.spc = 8 /\ b.rsc = RESERVED /\ b.num_fats = FATS
      /\ b.fat_s = SizeOf[t] /\ b.bsig = 41 /\ b.vol_id = 1
      /\ b.ts16 = (IF t <= 65535 THEN t ELSE 0) /\ b.ts32 = (IF t > 65535 THEN t ELSE 0)
  BY <1>1 DEF Vol!Bpb, Vol!FORMATID
<1>3. Vol!PowerOfTwo(512) /\ Vol!PowerOfTwo(8)
  <2>1. 512 = 2^9 /\ 8 = 2^3
    BY DEF Vol!Fat16Assumption
  <2>2. 9 \in 0..15 /\ 3 \in 0..15
    OBVIOUS
  <2> QED BY <2>1, <2>2, Zenon DEF Vol!PowerOfTwo
<1>4. b.ts16 # 0 \/ b.ts32 # 0
  BY <1>2, Layout
<1>5. b.rsc >= 1 /\ b.num_fats >= 1
  BY <1>2, Layout
<1> QED BY <1>1, <1>2, <1>3, <1>4, <1>5 DEF Vol!fat16_validate

LEMMA WriteWithin ==
    ASSUME Vol!Fat16Assumption, VolInv, [Vol!Next]_Vol!vars,
           NEW p \in Port, NEW x \in Vol!Lba, disk'[p][x] # disk[p][x]
    PROVE  \/ x \in abandoned[p]
           \/ op.kind = "format" /\ op.p = p /\ x < RESERVED + FATS * op.f + ROOTSECTORS
<1>1. CASE \E q \in Port, y \in Vol!Lba : Vol!LateWrite(q, y)
  <2>1. PICK q \in Port, y \in Vol!Lba : Vol!LateWrite(q, y)
    BY <1>1
  <2>2. /\ disk' = [disk EXCEPT ![q] = [disk[q] EXCEPT ![y] = Vol!Junk]]
        /\ y \in abandoned[q]
    BY <2>1 DEF Vol!LateWrite
  <2>3. p = q /\ x = y
    BY <2>2 DEF VolInv, DiskTypes
  <2> QED BY <2>2, <2>3
<1>2. CASE Vol!WriteOk \/ Vol!WriteFails
  <2>1. Vol!Writing /\ Formatting /\ op.kind = "format"
    BY <1>2, InCall DEF Vol!WriteOk, Vol!WriteFails, Vol!Writing
  <2>2. PICK q, y : q = op.p /\ y = Vol!Target
    OBVIOUS
  <2>3. disk' = [disk EXCEPT ![q] = [disk[q] EXCEPT ![y] = op.sector]]
    BY <1>2, <2>2 DEF Vol!WriteOk, Vol!WriteFails
  <2>4. p = q /\ x = y
    BY <2>3 DEF VolInv, DiskTypes
  <2>5. y < DataArea(op.f)
    BY <2>1, <2>2, TargetWithin
  <2> QED BY <2>1, <2>2, <2>4, <2>5 DEF DataArea
<1>3. CASE disk' = disk
  BY <1>3
<1> QED
  BY <1>1, <1>2, <1>3
  DEF Vol!Next, Vol!vars, Vol!fat16_init, Vol!fat16_format, Vol!NextFat, Vol!FormatEnd,
      Vol!ReadFat, Vol!Refused, Vol!Listed, Vol!fat_list_free

LEMMA RefusedUnformatted ==
    ASSUME Vol!Fat16Assumption, VolInv, [Vol!Next]_Vol!vars,
           op.kind = "check", op' = Vol!Idle, ret' = 2
    PROVE  formatted[op.p] = 0 \/ 0 \in abandoned[op.p]
<1>1. Checking /\ op.kind # "idle"
  BY InCall
<1>2. op' # op /\ op # Vol!Idle
  BY DEF Vol!Idle
<1>3. Vol!Refused
  BY <1>2
  DEF Vol!Next, Vol!vars, Vol!fat16_init, Vol!fat16_format, Vol!NextFat, Vol!FormatEnd,
      Vol!ReadFat, Vol!Listed, Vol!Return, Vol!fat_list_free, Vol!WriteOk, Vol!WriteFails,
      Vol!Writing, Vol!LateWrite
<1>4. ~Vol!Valid
  BY <1>3 DEF Vol!Refused, Vol!Return
<1>5. op.p \in Port
  BY <1>1 DEF Checking
<1>6. ASSUME formatted[op.p] # 0, 0 \notin abandoned[op.p] PROVE FALSE
  <2>1. PICK t \in Vol!Total : t = formatted[op.p] /\ t # 0 /\ SizeOf[t] # 0
    BY <1>5, <1>6 DEF VolInv, DiskTypes, Completed
  <2>2. op.sector = Vol!Boot(Vol!Bpb(t, SizeOf[t]))
    BY <1>1, <1>6, <2>1 DEF Checking
  <2>3. op.sector.kind = "boot" /\ op.sector.bpb = Vol!Bpb(t, SizeOf[t])
    BY <2>2 DEF Vol!Boot
  <2>4. Vol!fat16_validate(op.sector.bpb)
    BY <2>1, <2>3, FormatValid
  <2> QED BY <1>4, <2>3, <2>4 DEF Vol!Valid
<1> QED BY <1>6

\* Formatting writes to the structures it builds and nowhere else, unless a
\* write was given up there, and builds what fat16_init accepts.
THEOREM FormatIsSafe == ASSUME Vol!Fat16Assumption PROVE Vol!Spec => Vol!FormatSafe
<1>1. VolInv /\ [Vol!Next]_Vol!vars =>
          [\A p \in Port, x \in Vol!Lba : disk'[p][x] # disk[p][x] =>
              \/ x \in abandoned[p]
              \/ /\ op.kind = "format" /\ op.p = p
                 /\ x < RESERVED + FATS * op.f + ROOTSECTORS]_Vol!vars
  BY WriteWithin
<1>2. VolInv /\ [Vol!Next]_Vol!vars =>
          [op.kind = "check" /\ op' = Vol!Idle /\ ret' = 2
              => formatted[op.p] = 0 \/ 0 \in abandoned[op.p]]_Vol!vars
  BY RefusedUnformatted
<1> QED
  BY <1>1, <1>2, VolInvAlways, PTL
  DEF Vol!Spec, Vol!FormatSafe, Vol!WritesWithin, Vol!FormattedIsValid
=============================================================================
