---------------------------- MODULE MCInterrupts ----------------------------
(***************************************************************************)
(* Either the processor from boot to idle with its interrupts, or the      *)
(* calibration of the timer (ApicTimer), in each behaviour.                *)
(*                                                                         *)
(* The non-maskable interrupt and two exceptions with an error code, and   *)
(* two lines of the PIC; two exceptions, so that one may hit the handler   *)
(* of another or of a timer interrupt.  The calibration has two PIT clocks *)
(* to the millisecond, so a wait of 20, and three APIC counts to a PIT     *)
(* clock: a tick is 6.  The horizon holds four waits, the last of which    *)
(* overflow the scaled 32-bit word.  The rates are kmain's 1000 Hz, half   *)
(* and twice that; the PIT's output pulses or is the data sheet's.         *)
(***************************************************************************)
EXTENDS Interrupts

VARIABLES part,
          hz, pulses, stage, time, icr, pit, latched, apic_start, apic_end, interval

timerVars == <<hz, pulses, stage, time, icr, pit, latched, apic_start, apic_end, interval>>

Timer == INSTANCE ApicTimer WITH
    pc <- stage, PIT_PER_MS <- 2, APIC_PER_PIT <- 3, WORD <- 16384,
    RATES <- {500, 1000, 2000}, Gaps <- {1, 2, 5}, Horizon <- 90

ASSUME Timer!TimerAssumption

\* While the timer is calibrated the processor is as the loader left it.
MCInit == /\ Init /\ Timer!Init
          /\ \/ part = "processor"
             \/ part = "timer" /\ pic.masked /\ stack = <<>>

ProcessorStep == part = "processor" /\ Next /\ UNCHANGED <<part, timerVars>>
TimerStep == part = "timer" /\ Timer!Next /\ UNCHANGED <<part, vars>>

\* The fairness of Interrupts' FairSpec.
MCSpec ==
    /\ MCInit /\ [][ProcessorStep \/ TimerStep]_<<part, vars, timerVars>>
    /\ WF_vars(ProcessorStep /\ kmain) /\ WF_vars(ProcessorStep /\ Handler)
    /\ WF_vars(ProcessorStep /\ TimerExpires)
    /\ WF_vars(ProcessorStep /\ Interrupts(APIC_TIMER_VECTOR))
-----------------------------------------------------------------------------
\* Once up, the kernel keeps serving the timer, unless an exception, a failed
\* assertion or an unsupported boot loader stopped it.
TimerServed == part = "processor" => TicksGoOn

\* ApicTimer: the rate asked for is ignored; an output that pulses gives a
\* timer of at most 1000 Hz; the output of the data sheet ends the wait at once.
TimerCalibrated == Timer!Calibrated /\ Timer!TypeOK
=============================================================================
