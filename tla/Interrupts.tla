----------------------------- MODULE Interrupts -----------------------------
(***************************************************************************)
(* Boot, descriptor tables and interrupt delivery.  kmain (main.c) runs    *)
(* its stages one after the other; gdt.c, idt.c, pic.c and apic.c switch   *)
(* the processor's tables, the legacy PIC and the local APIC on and off on *)
(* the way, and from `sti' on any stage may be interrupted.  An interrupt  *)
(* goes through the stub of its vector and isr_common (isr.asm), which     *)
(* build the structure isr_handler (idt.c) reads, and back with iretq.     *)
(*                                                                         *)
(* The stack is a sequence of quadwords whose last element is on top, so   *)
(* rsp is its length; a register holds its own name until C code clobbers  *)
(* it; rip is the stage of kmain or of the handler that runs.  The         *)
(* processor, the PIC and the local APIC's delivery logic are external.    *)
(***************************************************************************)
EXTENDS Integers, Sequences, SequencesExt

CONSTANTS Exceptions, \* vectors the running code may raise
          Irqs,       \* lines of the legacy PIC that may fire
          MaxFaults   \* bound on the exceptions and failed assertions

ASSUME BootAssumption == /\ Exceptions \subseteq 0..31
                         /\ Irqs \subseteq 0..7
                         /\ MaxFaults \in Nat

VARIABLES pc,     \* stage of kmain, of the stub or of the handler
          vector, \* the stub that runs
          IF_,    \* interrupt flag of rflags
          gdt,    \* descriptors of the loaded GDT, by index
          cs,     \* code selector
          idt,    \* selector of the gates, 0 until lidt
          pic,    \* [masked, pending]
          apic,   \* [virt, svr, lvt, icr, irr, isr]
          stack, regs,
          frames, \* ghost: the contexts interrupted and not resumed
          faults  \* ghost: exceptions raised and assertions failed so far

vars == <<pc, vector, IF_, gdt, cs, idt, pic, apic, stack, regs, frames, faults>>
tables == <<gdt, cs, idt>>
context == <<vector, stack, regs, frames, faults>>

APIC_TIMER_VECTOR == 32
Reset == "reset"

-----------------------------------------------------------------------------
(* Segment descriptors. *)

Bit(x, n) == (x \div 2^n) % 2 = 1

\* gdt_encode_entry keeps the access byte and the flags in the high half of
\* granularity: what the processor derives from them.
gdt_encode_entry(access, granularity) ==
    CASE ~Bit(access, 7) -> "absent"
      [] Bit(access, 3)  -> IF Bit(granularity, 5) THEN "code64" ELSE "code32"
      [] OTHER           -> "data"

\* The eight entries gdt_init writes; the task state segment takes two.
Descriptors ==
    << gdt_encode_entry(0, 0), gdt_encode_entry(154, 160), gdt_encode_entry(146, 192),
       gdt_encode_entry(250, 160), gdt_encode_entry(242, 192), "tss", "tss", "absent" >>

\* What a selector names: eight bytes an entry, the table starts with 0.
Named(table, selector) ==
    IF selector \div 8 < Len(table) THEN table[selector \div 8 + 1] ELSE "absent"

-----------------------------------------------------------------------------
(* The stubs and the structure they build. *)

\* Vectors whose exception pushes an error code: the processor's list.
PushesError == {8, 10, 11, 12, 13, 14, 17, 21, 29, 30}

\* Mutant of isr_stub_err: alignment checks are taken to push no error code.
StubErrShort == {8, 10, 11, 12, 13, 14, 21, 29, 30}

\* The stubs that do not push a 0 in the place of the error code.
isr_stub_err == {8, 10, 11, 12, 13, 14, 17, 21, 29, 30}

\* The registers isr_common pushes before the call.
Pushed == << "rax", "rbx", "rcx", "rdx", "rsi", "rdi", "rbp",
             "r8", "r9", "r10", "r11", "r12", "r13", "r14", "r15" >>

\* Mutant of Popped: rsi and rdi are exchanged.
PoppedSwapped == << "r15", "r14", "r13", "r12", "r11", "r10", "r9", "r8",
                    "rbp", "rsi", "rdi", "rdx", "rcx", "rbx", "rax" >>

\* The registers it pops after the call, the first from the top.
Popped == << "r15", "r14", "r13", "r12", "r11", "r10", "r9", "r8",
             "rbp", "rdi", "rsi", "rdx", "rcx", "rbx", "rax" >>

Registers == { "rax", "rbx", "rcx", "rdx", "rsi", "rdi", "rbp", "r8",
               "r9", "r10", "r11", "r12", "r13", "r14", "r15" }

\* Registers a C function may overwrite.
CallerSaved == {"rax", "rcx", "rdx", "rsi", "rdi", "r8", "r9", "r10", "r11"}

\* The members of interrupt_frame_t, from the address the handler is given up.
interrupt_frame_t ==
    << "r15", "r14", "r13", "r12", "r11", "r10", "r9", "r8", "rbp", "rdi",
       "rsi", "rdx", "rcx", "rbx", "rax", "vector", "error_code",
       "rip", "cs", "rflags", "rsp", "ss" >>

\* Words on the stack: a number, a flag register, a register, an address.
Num(n)  == <<"num", n>>
Flag(b) == <<"flag", b>>
Val(r)  == <<"reg", r>>
Rip(p)  == <<"rip", p>>

\* A member of the frame that starts at the top of stack s.
Member(s, name) ==
    s[Len(s) - (CHOOSE k \in 1..Len(interrupt_frame_t) : interrupt_frame_t[k] = name) + 1]

-----------------------------------------------------------------------------
(* Delivery, by the processor. *)

Running == pc # Reset

\* The vector of the non-maskable interrupt, the one event that reaches the
\* loops around hlt of panic and of a boot loader not supported.
NMI == 2

\* The type of the gates, 0x8E, an interrupt gate, clears the flag.
FlagInHandler == FALSE

\* kernel_cs of every gate.
GateSelector == 8

\* An event of vector v enters through its gate, with the words it pushes
\* after the interrupted context.
\* Without an IDT, or with a gate whose selector is no 64-bit code segment,
\* the machine resets.
Enter(v, error) ==
    LET aligned == IF Len(stack) % 2 = 1 THEN Append(stack, Num(0)) ELSE stack
    IN  IF Named(gdt, idt) # "code64"
        THEN /\ pc' = Reset
             /\ UNCHANGED <<vector, IF_, cs, stack, frames>>
        ELSE /\ pc' = "stub" /\ vector' = v
             /\ IF_' = FlagInHandler
             /\ cs' = idt
             /\ stack' = aligned \o <<Num(16), Num(Len(stack)), Flag(IF_), Num(cs), Rip(pc)>>
                                  \o error
             /\ frames' = Append(frames, [vector |-> v, regs |-> regs, pc |-> pc,
                                          error |-> IF error = <<>> THEN Num(0) ELSE error[1],
                                          IF_ |-> IF_, stack |-> stack])

\* The code running raises an exception; its error code, if any, is 1.
Exception(v) ==
    /\ Running /\ faults < MaxFaults
    /\ pc \in {"halt", "unsupported"} => v = NMI
    /\ Enter(v, IF v \in PushesError THEN <<Num(1)>> ELSE <<>>)
    /\ faults' = faults + 1
    /\ UNCHANGED <<gdt, idt, pic, apic, regs>>

\* A line of the legacy PIC, whose vectors start at 8 as the firmware left
\* them: the kernel never calls pic_init.
PicFires(irq) ==
    /\ irq \notin pic.pending
    /\ pic' = [pic EXCEPT !.pending = @ \union {irq}]
    /\ UNCHANGED <<pc, IF_, tables, apic, context>>

\* The APIC timer reaches zero and starts again.
TimerExpires ==
    /\ apic.svr /\ apic.icr > 0 /\ apic.lvt = "periodic" /\ ~apic.irr
    /\ apic' = [apic EXCEPT !.irr = TRUE]
    /\ UNCHANGED <<pc, IF_, tables, pic, context>>

\* The device interrupts the processor is offered: pending lines of the PIC
\* that are not masked, through LINT0, which enable_apic masks; the timer's,
\* held back while an earlier one is in service.
Offered == {8 + q : q \in {p \in pic.pending : ~pic.masked /\ ~apic.virt}}
           \union (IF apic.irr /\ ~apic.isr THEN {APIC_TIMER_VECTOR} ELSE {})

Interrupts(v) ==
    /\ Running /\ IF_
    /\ v \in Offered
    /\ Enter(v, <<>>)
    /\ pic' = [pic EXCEPT !.pending = @ \ {v - 8}]
    /\ apic' = IF v = APIC_TIMER_VECTOR THEN [apic EXCEPT !.irr = FALSE, !.isr = TRUE] ELSE apic
    /\ UNCHANGED <<gdt, idt, regs, faults>>

-----------------------------------------------------------------------------
(* The handler. *)

\* The stub of the vector and isr_common up to the call.
Stub ==
    /\ pc = "stub"
    /\ stack' = stack \o (IF vector \in isr_stub_err THEN <<>> ELSE <<Num(0)>>)
                      \o <<Num(vector)>> \o [k \in 1..Len(Pushed) |-> Val(regs[Pushed[k]])]
    /\ regs' = [regs EXCEPT !["rdi"] = "frame"]
    /\ pc' = "isr_handler"
    /\ UNCHANGED <<vector, IF_, tables, pic, apic, frames, faults>>

\* isr_handler: the timer prints its dot and goes on, all else panics.
isr_handler ==
    /\ pc = "isr_handler"
    /\ pc' = IF Member(stack, "vector") = Num(APIC_TIMER_VECTOR) THEN "apic_eoi" ELSE "panic"
    /\ UNCHANGED <<IF_, tables, pic, apic, context>>

\* Mutant of EoiWritten: the interrupt stays in service.
EoiLeft(a) == a

\* The write to the EOI register.
EoiWritten(a) == [a EXCEPT !.isr = FALSE]

\* apic_eoi, which asserts that the APIC is mapped; isr_handler returns.
apic_eoi ==
    /\ pc = "apic_eoi"
    /\ apic' = IF apic.virt THEN EoiWritten(apic) ELSE apic
    /\ pc' = IF apic.virt THEN "iretq" ELSE "panic"
    /\ regs' = [r \in Registers |-> IF r \in CallerSaved THEN "clobbered" ELSE regs[r]]
    /\ UNCHANGED <<vector, IF_, tables, pic, stack, frames, faults>>

\* isr_common after the call: the pops, the two words dropped, iretq.
Return ==
    /\ pc = "iretq"
    /\ LET n == Len(Popped)
           top == Len(stack)
           hw == SubSeq(stack, 1, top - n - 2)
           at(k) == hw[Len(hw) - k][2]
       IN  /\ regs' = [r \in Registers |->
                         stack[top + 1 - (CHOOSE k \in 1..n : Popped[k] = r)][2]]
           /\ pc' = at(0) /\ cs' = at(1) /\ IF_' = at(2)
           /\ stack' = SubSeq(stack, 1, at(3))
    /\ frames' = Front(frames)
    /\ UNCHANGED <<vector, gdt, idt, pic, apic, faults>>

\* panic, called by isr_handler or by an assertion: the report, with interrupts
\* as they are, then `cli; hlt' for ever.
Panic(call) ==
    /\ pc = call
    /\ pc' = "halt"
    /\ IF_' = FALSE
    /\ UNCHANGED <<tables, pic, apic, context>>

-----------------------------------------------------------------------------
(* kmain. *)

\* Mutant of Stages: interrupts are enabled before the PIC is masked.
StagesEarly == << "cli", "printk_init", "revision", "gdt_init", "idt_fill",
                  "lidt", "sti", "pic_disable", "hhdm_init", "frame_init",
                  "paging_init", "enable_apic", "svr", "calibrate", "lvt", "icr",
                  "ahci_init", "fat16_init", "idle" >>

\* The stages of kmain and of the functions it calls, in the order they run.
Stages == << "cli", "printk_init", "revision", "gdt_init", "idt_fill",
             "pic_disable", "lidt", "sti", "hhdm_init", "frame_init",
             "paging_init", "enable_apic", "svr", "calibrate", "lvt", "icr",
             "ahci_init", "fat16_init", "idle" >>

Next_(stage) == Stages[(CHOOSE k \in 1..Len(Stages) : Stages[k] = stage) + 1]

Goes(stage) ==
    /\ pc = stage
    /\ pc' = Next_(stage)
    /\ UNCHANGED <<context>>

\* Stages that change nothing this module keeps.
Passive == {"printk_init", "idt_fill", "hhdm_init", "frame_init", "paging_init",
            "ahci_init", "fat16_init"}

\* paging_map_page asserts that the registers ahci_init maps start a page: the
\* one assertion of a stage whose outcome the hardware decides.
AhciAsserts ==
    /\ pc = "ahci_init" /\ faults < MaxFaults
    /\ pc' = "asserted"
    /\ faults' = faults + 1
    /\ UNCHANGED <<IF_, tables, pic, apic, vector, stack, regs, frames>>

Plain(stage) == Goes(stage) /\ UNCHANGED <<IF_, tables, pic, apic>>

Cli == Goes("cli") /\ IF_' = FALSE /\ UNCHANGED <<tables, pic, apic>>

\* The base revision check; a boot loader that lacks it ends the boot.
Revision ==
    /\ pc = "revision"
    /\ pc' \in {Next_("revision"), "unsupported"}
    /\ UNCHANGED <<IF_, tables, pic, apic, context>>

\* gdt_init with gdt_flush and tss_flush: the far return loads 0x08, ltr
\* loads 0x28; either faults if the descriptor is not of its kind.
GdtInit ==
    /\ pc = "gdt_init"
    /\ gdt' = Descriptors
    /\ cs' = 8
    /\ pc' = IF Named(gdt', 8) = "code64" /\ Named(gdt', 16) = "data" /\ Named(gdt', 40) = "tss"
             THEN Next_(pc) ELSE Reset
    /\ UNCHANGED <<IF_, idt, pic, apic, context>>

pic_disable ==
    /\ Goes("pic_disable")
    /\ pic' = [pic EXCEPT !.masked = TRUE]
    /\ UNCHANGED <<IF_, tables, apic>>

\* lidt loads the table of 256 gates idt_set_descriptor filled.
Lidt == Goes("lidt") /\ idt' = GateSelector /\ UNCHANGED <<IF_, gdt, cs, pic, apic>>

Sti == Goes("sti") /\ IF_' = TRUE /\ UNCHANGED <<tables, pic, apic>>

\* A stage that writes the local APIC through apic_virt, and asserts it.
ApicStage(stage, written) ==
    /\ pc = stage
    /\ pc' = IF written.virt THEN Next_(stage) ELSE "panic"
    /\ apic' = IF written.virt THEN written ELSE apic
    /\ UNCHANGED <<IF_, tables, pic, context>>

\* enable_apic maps the registers and masks LINT0, LINT1 and ERROR, then
\* sets the software enable bit.
EnableApic == ApicStage("enable_apic", [apic EXCEPT !.virt = TRUE])
EnableSvr == ApicStage("svr", [apic EXCEPT !.svr = TRUE])

\* apic_timer_calibrate runs the counter masked from its largest value.
Calibrate == ApicStage("calibrate", [apic EXCEPT !.icr = 2, !.lvt = "masked"])

\* apic_timer_init sets the vector and mode, then the interval.
SetLvt == ApicStage("lvt", [apic EXCEPT !.lvt = "periodic"])
SetIcr == ApicStage("icr", [apic EXCEPT !.icr = 1])

kmain ==
    \/ \E s \in Passive : Plain(s)
    \/ Cli \/ Revision \/ GdtInit \/ pic_disable \/ Lidt \/ Sti
    \/ EnableApic \/ EnableSvr \/ Calibrate \/ SetLvt \/ SetIcr
    \/ AhciAsserts \/ Panic("asserted")

\* The boot loader enters kmain with interrupts off, its own GDT, a stack of
\* either parity, the local APIC's timer masked, and the PIC masked or not.
Init ==
    /\ pc = "cli"
    /\ IF_ = FALSE /\ vector = 0
    /\ gdt = <<"absent", "code16", "data", "code32", "data", "code64", "data">>
    /\ cs = 40 /\ idt = 0
    /\ pic \in [masked : BOOLEAN, pending : {{}}]
    /\ apic = [virt |-> FALSE, svr |-> FALSE, lvt |-> "masked", icr |-> 0,
               irr |-> FALSE, isr |-> FALSE]
    /\ stack \in {<<>>, <<Num(0)>>}
    /\ regs = [r \in Registers |-> r]
    /\ frames = <<>>
    /\ faults = 0

Handler == Stub \/ isr_handler \/ apic_eoi \/ Return \/ Panic("panic")

\* A halted processor, and an idle one, only wait.
Waits == pc \in {"idle", "halt", "unsupported", Reset} /\ UNCHANGED vars

Next == \/ kmain \/ Handler \/ Waits
        \/ \E v \in Exceptions : Exception(v)
        \/ \E q \in Irqs : PicFires(q)
        \/ TimerExpires \/ \E v \in Offered : Interrupts(v)

Spec == Init /\ [][Next]_vars

\* The processor executes its instructions and takes interrupts that stay
\* deliverable; a periodic timer that runs expires.
FairSpec == Spec /\ WF_vars(kmain) /\ WF_vars(Handler)
                 /\ WF_vars(TimerExpires) /\ WF_vars(Interrupts(APIC_TIMER_VECTOR))
-----------------------------------------------------------------------------
(* Properties. *)

\* The processor runs kmain or a handler, through the kernel's own gates once
\* lidt was executed, in the loader's code segment or the kernel's.
TypeOK ==
    /\ pc \in Range(Stages) \union {"stub", "isr_handler", "apic_eoi", "iretq", "panic",
                                   "asserted", "halt", "unsupported", Reset}
    /\ IF_ \in BOOLEAN /\ vector \in 0..255
    /\ idt \in {0, 8} /\ cs \in {8, 40}
    /\ apic.lvt \in {"masked", "periodic"} /\ apic.icr \in 0..2
    /\ regs \in [Registers -> Registers \union {"frame", "clobbered"}]
    /\ faults \in 0..MaxFaults

\* Events reset the machine only before lidt: from then on every exception and
\* interrupt, whenever it comes, finds a gate with a 64-bit code segment.
ResetsOnlyEarly == pc = Reset => idt = 0

\* Interrupts do not pile up on the one kernel stack: between two exceptions
\* at most one device interrupt is being handled, although the handler ends
\* the interrupt at the APIC before it restores the interrupted code.
NestingBounded == Len(frames) <= faults + 1

\* What isr_handler reads through its argument is the event that happened:
\* its vector, the error code the processor pushed or 0, and the place and
\* state of the code it interrupted, also when one interrupt nests in
\* another; and the call is made on a stack aligned to 16 bytes.
FrameRight ==
    pc = "isr_handler" =>
        LET f == Last(frames) IN
        /\ Member(stack, "error_code") = f.error
        /\ Member(stack, "vector") = Num(f.vector)
        /\ Member(stack, "rip") = Rip(f.pc)
        /\ Member(stack, "rflags") = Flag(f.IF_)
        /\ Member(stack, "rsp") = Num(Len(f.stack))
        /\ \A r \in Registers : Member(stack, r) = Val(f.regs[r])
        /\ Len(stack) % 2 = 0

\* The kernel stops only for an exception or an assertion of its own: enabling
\* interrupts in idt_init, long before the APIC is mapped, lets no device
\* interrupt through that the handler would panic on, no timer interrupt finds
\* the APIC unmapped, and the segments the tables name exist.
NoStray == pc \in {"panic", "asserted", "halt", Reset} => faults > 0

\* The end of an interrupt leaves no trace in the interrupted code: it goes
\* on where it was, with every register, the interrupt flag and the stack
\* it had, although C code ran in between.
Resumed ==
    [][frames # <<>> /\ frames' = Front(frames) =>
          LET f == Last(frames) IN
          /\ regs' = f.regs /\ pc' = f.pc /\ IF_' = f.IF_ /\ stack' = f.stack]_vars

\* Once up, the kernel keeps serving the timer, unless an exception, a failed
\* assertion or an unsupported boot loader stopped it.
TicksGoOn ==
    \/ <>[](pc \in {"halt", "unsupported", Reset})
    \/ []<>(pc = "apic_eoi")

\* Every handler sees its own event, on one stack that stays bounded.
HandlersSound == TypeOK /\ FrameRight /\ NestingBounded

\* Only an exception or a failed assertion stops the kernel, and only an
\* exception before lidt resets the machine.
StopsOnlyFaulted == NoStray /\ ResetsOnlyEarly
=============================================================================
