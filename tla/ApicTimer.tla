------------------------------ MODULE ApicTimer ------------------------------
(***************************************************************************)
(* Calibration of the local APIC timer against the PIT (apic.c).           *)
(* apic_timer_init lets the APIC counter run down from its largest value,  *)
(* waits ten milliseconds on channel 0 of the PIT, and derives from the    *)
(* counts passed the interval of a periodic timer.                         *)
(*                                                                         *)
(* Time counts PIT clocks; every access to a device register takes a       *)
(* number of them, as a processor, a bus or a hypervisor may.  The two     *)
(* devices are external: the counter of the APIC stops at zero in one-shot *)
(* mode, and the PIT's output in mode 2 is that of the data sheet or that  *)
(* of an emulator, see Out.                                                *)
(***************************************************************************)
EXTENDS Integers

CONSTANTS PIT_PER_MS,  \* PIT_BASE_HZ / 1000
          APIC_PER_PIT,\* APIC counts per PIT clock
          WORD,        \* 2^32
          RATES,       \* rates that may be asked for
          Gaps,        \* PIT clocks a register access may take
          Horizon      \* bound on the time modelled

TimerAssumption ==
    /\ PIT_PER_MS \in Nat \ {0} /\ APIC_PER_PIT \in Nat \ {0} /\ WORD \in Nat \ {0}
    /\ RATES \subseteq Nat \ {0} /\ Gaps \subseteq Nat \ {0}
    /\ Horizon \in Nat

TSC_CALIBRATE_MS == 10

VARIABLES hz,         \* apic_timer_init's argument
          pulses,     \* the PIT's output is an emulator's
          pc, time,
          icr,        \* when the initial count was written
          pit,        \* when channel 0 was loaded
          latched,    \* status byte's output bit, as last latched
          apic_start, apic_end,
          interval    \* initial count of the periodic timer, 0 before

vars == <<hz, pulses, pc, time, icr, pit, latched, apic_start, apic_end, interval>>

\* Mutant of PitTicks: the milliseconds are taken for hundreds of microseconds.
PitTicksShort(ms) == IF (PIT_PER_MS * ms) \div 10 > 65535 THEN 65535 ELSE (PIT_PER_MS * ms) \div 10

\* The count pit_wait_ms loads.
PitTicks(ms) == IF PIT_PER_MS * ms > 65535 THEN 65535 ELSE PIT_PER_MS * ms

\* The output in mode 2, which the command 0x34 selects: by its data sheet
\* high but for the last clock of each period; emulated as a pulse, high for
\* the one clock at which a period ends.
Out(now) ==
    LET n == PitTicks(TSC_CALIBRATE_MS)
        d == now - pit
    IN  IF pulses THEN d > 0 /\ d % n = 0 ELSE d % n # n - 1

\* The current count, which starts at its largest value and stops at 0.
Count(now) == LET run == APIC_PER_PIT * (now - icr)
              IN  IF run < WORD THEN WORD - 1 - run ELSE 0

\* apic_timer_calibrate's result: the difference in 32 bits, the product in
\* 64, the quotient truncated to 32 again.
TicksPerSec == ((((apic_start - apic_end) % WORD) * hz) \div TSC_CALIBRATE_MS) % WORD

-----------------------------------------------------------------------------
At(here, there) == pc = here /\ pc' = there

\* The divisor and the largest initial count, then the masked vector entry.
StartCounter ==
    /\ At("start", "read_start")
    /\ icr' = time
    /\ UNCHANGED <<pit, latched, apic_start, apic_end, interval>>

ReadStart ==
    /\ At("read_start", "load")
    /\ apic_start' = Count(time)
    /\ UNCHANGED <<icr, pit, latched, apic_end, interval>>

\* pit_set_oneshot: the count runs from the write of its high byte.
pit_set_oneshot ==
    /\ At("load", "latch")
    /\ pit' = time
    /\ UNCHANGED <<icr, latched, apic_start, apic_end, interval>>

\* The loop of pit_wait_ms: the read-back command latches the status byte,
\* the read of the channel returns it.
Latch ==
    /\ At("latch", "poll")
    /\ latched' = Out(time)
    /\ UNCHANGED <<icr, pit, apic_start, apic_end, interval>>

Poll ==
    /\ pc = "poll"
    /\ pc' = IF latched THEN "read_end" ELSE "latch"
    /\ UNCHANGED <<icr, pit, latched, apic_start, apic_end, interval>>

ReadEnd ==
    /\ At("read_end", "init")
    /\ apic_end' = Count(time)
    /\ UNCHANGED <<icr, pit, latched, apic_start, interval>>

\* apic_timer_init with what the calibration returned.
apic_timer_init ==
    /\ At("init", "running")
    /\ interval' = TicksPerSec \div hz
    /\ UNCHANGED <<icr, pit, latched, apic_start, apic_end>>

Init ==
    /\ hz \in RATES /\ pulses \in BOOLEAN
    /\ pc = "start" /\ time = 0
    /\ icr = 0 /\ pit = 0 /\ latched = FALSE
    /\ apic_start = 0 /\ apic_end = 0 /\ interval = 0

Step == \/ StartCounter \/ ReadStart \/ pit_set_oneshot \/ Latch \/ Poll
        \/ ReadEnd \/ apic_timer_init

\* A poll that has not seen the output by the horizon is cut off.
Next == \/ \E g \in Gaps : /\ time + g <= Horizon /\ time' = time + g
                          /\ Step /\ UNCHANGED <<hz, pulses>>
        \/ (pc = "running" \/ time \in Horizon - 8..Horizon) /\ UNCHANGED vars

Spec == Init /\ [][Next]_vars

-----------------------------------------------------------------------------
\* Every value of the calibration stays in its register: differences of counts
\* and their product are taken modulo 2^32.
TypeOK ==
    /\ hz \in RATES /\ pulses \in BOOLEAN
    /\ pc \in {"start", "read_start", "load", "latch", "poll", "read_end", "init", "running"}
    /\ time \in 0..Horizon /\ icr \in 0..Horizon /\ pit \in 0..Horizon
    /\ latched \in BOOLEAN
    /\ {apic_start, apic_end, interval} \subseteq 0..WORD - 1

\* The counts that passed during the wait.
Counts == apic_start - apic_end

\* The scaled counts are not cut to 32 bits.
Fits == (Counts * hz) \div TSC_CALIBRATE_MS < WORD

\* The rate asked for has no influence on the interval: apic_timer_calibrate
\* multiplies by hz (apic.c:103) and apic_timer_init divides by it.  The
\* interval is a tenth of the counts of the wait, the counts of a millisecond
\* if the wait took ten, and less where the product lost bits.
RateIgnored ==
    pc = "running" =>
        /\ interval <= Counts \div TSC_CALIBRATE_MS
        /\ Fits => interval = Counts \div TSC_CALIBRATE_MS

\* With an output that pulses, the wait lasts ten milliseconds or more however
\* many pulses the loop misses and however slow each access is, and the timer
\* is never faster than 1000 Hz.  That is never faster than asked for a rate
\* of 1000 or more; a lower rate gets a timer that is too fast.
AtMostKilohertz ==
    pc = "running" /\ pulses /\ Fits => interval >= APIC_PER_PIT * PIT_PER_MS

\* With the output of the data sheet, high from the start, the loop ends at its
\* first poll: the counts are those of four register accesses, however short,
\* and the timer is too fast by as much as they are shorter than ten
\* milliseconds.
WaitEndsAtOnce ==
    pc = "running" /\ ~pulses =>
        \A g \in Gaps : /\ \A h \in Gaps : h <= g
                        /\ g < PitTicks(TSC_CALIBRATE_MS) - 1
                        => Counts <= 4 * (APIC_PER_PIT * g)

\* What the calibration comes to, for any rate and either output of the PIT.
Calibrated == RateIgnored /\ AtMostKilohertz /\ WaitEndsAtOnce
=============================================================================
