------------------------- MODULE InterruptsProofs -------------------------
(***************************************************************************)
(* Proofs about Interrupts, for any set of exceptions and of PIC lines and *)
(* any number of exceptions: isr_handler sees the event that happened, on  *)
(* a stack that stays bounded (HandlersSound), only an exception stops the *)
(* kernel (StopsOnlyFaulted), and the end of an interrupt restores what    *)
(* was interrupted (Resumed).                                              *)
(*                                                                         *)
(* The inductive invariant says how far kmain has set up the tables at     *)
(* each of its stages (Boot), that the frame of a timer interrupt can only *)
(* be the lowest, on top of a stage after sti, as handlers run with        *)
(* interrupts off and no other handler returns (Nesting), and which words  *)
(* lie where on the stack while a handler runs (OnStack).                  *)
(***************************************************************************)
EXTENDS Interrupts, TLAPS

-----------------------------------------------------------------------------
(* The invariant. *)

\* The places of a handler and of kmain, which an assertion leaves for panic,
\* the values of a register, every place.
HandlerPc == {"stub", "isr_handler", "apic_eoi", "iretq", "panic"}
RegValue == Registers \union {"frame", "clobbered"}
KmainPc == Range(Stages) \union {"asserted"}
Pc == KmainPc \union HandlerPc \union {"halt", "unsupported", Reset}

\* The words of the stack, and the contexts that were interrupted.
Word == ({"num"} \X Nat) \union ({"flag"} \X BOOLEAN) \union ({"reg"} \X RegValue)
        \union ({"rip"} \X Pc)
Frame == [vector : 0..255, regs : [Registers -> RegValue], pc : Pc, error : Word,
          IF_ : BOOLEAN, stack : Seq(Word)]

\* The stages after enable_apic, sti, lidt, pic_disable and gdt_init.
AfterApic == {"svr", "calibrate", "lvt", "icr", "ahci_init", "fat16_init", "idle", "asserted"}
AfterSti == {"hhdm_init", "frame_init", "paging_init", "enable_apic"} \union AfterApic
AfterLidt == {"sti"} \union AfterSti
AfterPic == {"lidt"} \union AfterLidt
AfterGdt == {"idt_fill", "pic_disable"} \union AfterPic

\* The table the boot loader leaves.
LoaderGdt == <<"absent", "code16", "data", "code32", "data", "code64", "data">>

\* What kmain has set up by the time it is at stage p.
SetUp(p) ==
    /\ p \in AfterGdt => gdt = Descriptors /\ cs = 8
    /\ p \in AfterPic => pic.masked
    /\ p \in AfterLidt => idt = 8
    /\ p \in AfterApic => apic.virt

\* The local APIC.
Apic == [virt : BOOLEAN, svr : BOOLEAN, lvt : {"masked", "periodic"}, icr : 0..2,
         irr : BOOLEAN, isr : BOOLEAN]

\* The types of the state.
Types ==
    /\ pc \in Pc /\ IF_ \in BOOLEAN /\ vector \in 0..255
    /\ idt \in {0, 8} /\ cs \in {8, 40} /\ gdt \in {LoaderGdt, Descriptors}
    /\ pic \in [masked : BOOLEAN, pending : SUBSET (0..7)]
    /\ apic \in Apic
    /\ stack \in Seq(Word) /\ regs \in [Registers -> RegValue]
    /\ frames \in Seq(Frame) /\ faults \in 0..MaxFaults

\* The tables: the gates lead to the kernel's own segments, interrupts are on
\* only in the stages after sti, and no timer runs before the APIC is mapped.
Boot ==
    /\ idt = 8 => gdt = Descriptors /\ cs = 8
    /\ pc \in KmainPc => SetUp(pc)
    /\ IF_ => pc \in AfterSti
    /\ apic.svr \/ apic.irr => apic.virt
    /\ pc = Reset => idt = 0
    /\ pc \in {"panic", "asserted", "halt", Reset} => faults > 0

\* Interrupted contexts: kmain's stages run with none, a timer interrupt
\* interrupts one of them and nothing else, all others are exceptions.
Nesting ==
    /\ pc \in KmainPc => frames = <<>>
    /\ pc \in {"stub", "isr_handler", "apic_eoi", "iretq"} => frames # <<>>
    /\ frames # <<>> => idt = 8
    /\ \A k \in 1..Len(frames) :
          IF frames[k].vector = APIC_TIMER_VECTOR
          THEN k = 1 /\ frames[k].pc \in AfterSti /\ SetUp(frames[k].pc)
               /\ frames[k].IF_ /\ apic.virt /\ (frames[k].pc = "asserted" => faults > 0)
          ELSE faults > 0
    /\ Len(frames) <= faults + 1
    /\ frames # <<>> /\ frames[1].vector # APIC_TIMER_VECTOR => Len(frames) <= faults

\* The words pushed for frame f start above this many.
Base(f) == Len(f.stack) + (Len(f.stack) % 2)

\* Stack s holds the context of f and what the processor pushed for it.
Entered(s, f) ==
    /\ Len(s) >= Base(f) + 5
    /\ \A i \in 1..Len(f.stack) : s[i] = f.stack[i]
    /\ s[Base(f) + 2] = Num(Len(f.stack)) /\ s[Base(f) + 3] = Flag(f.IF_)
    /\ s[Base(f) + 4] = Num(8) /\ s[Base(f) + 5] = Rip(f.pc)

\* Above it lie the error code and, after the stub, the vector and registers.
Saved(s, f) ==
    /\ Entered(s, f) /\ Len(s) = Base(f) + 22
    /\ s[Base(f) + 6] = f.error /\ s[Base(f) + 7] = Num(f.vector)
    /\ \A k \in 1..15 : s[Base(f) + 7 + k] = Val(f.regs[Pushed[k]])

\* What the stub of f finds: the error code is there for the vectors that
\* push one.
Stubbed(s, f) ==
    /\ Entered(s, f)
    /\ IF f.vector \in PushesError
       THEN f.error = Num(1) /\ Len(s) = Base(f) + 6 /\ s[Base(f) + 6] = f.error
       ELSE f.error = Num(0) /\ Len(s) = Base(f) + 5

\* The stack while a handler runs.
OnStack ==
    /\ pc = "stub" => /\ vector = Last(frames).vector /\ regs = Last(frames).regs
                      /\ Stubbed(stack, Last(frames))
    /\ pc \in {"isr_handler", "apic_eoi", "iretq"} => Saved(stack, Last(frames))
    /\ pc \in {"apic_eoi", "iretq"} => Last(frames).vector = APIC_TIMER_VECTOR

Inv == Types /\ Boot /\ Nesting /\ OnStack

-----------------------------------------------------------------------------
(* Lookups in the tables of names. *)

(* kmain goes from each stage to the one after it. *)
LEMMA StageOrder ==
    /\ Next_("cli") = "printk_init" /\ Next_("printk_init") = "revision"
    /\ Next_("revision") = "gdt_init" /\ Next_("gdt_init") = "idt_fill"
    /\ Next_("idt_fill") = "pic_disable" /\ Next_("pic_disable") = "lidt"
    /\ Next_("lidt") = "sti" /\ Next_("sti") = "hhdm_init"
    /\ Next_("hhdm_init") = "frame_init" /\ Next_("frame_init") = "paging_init"
    /\ Next_("paging_init") = "enable_apic" /\ Next_("enable_apic") = "svr"
    /\ Next_("svr") = "calibrate" /\ Next_("calibrate") = "lvt"
    /\ Next_("lvt") = "icr" /\ Next_("icr") = "ahci_init"
    /\ Next_("ahci_init") = "fat16_init" /\ Next_("fat16_init") = "idle"
<1>1. \A i \in 1..19 : \A j \in 1..19 : Stages[i] = Stages[j] => i = j
    BY DEF Stages
<1>2. Len(Stages) = 19
    BY DEF Stages
<1>3. ASSUME NEW i \in 1..18 PROVE Next_(Stages[i]) = Stages[i + 1]
    BY <1>1, <1>2 DEF Next_
<1> QED
    BY <1>3 DEF Stages

(* The stages by name. *)
LEMMA StageNames ==
    KmainPc = {"cli", "printk_init", "revision", "gdt_init"} \union AfterGdt
<1>1. DOMAIN Stages = 1..19
    BY DEF Stages
<1>2. \A i \in 1..19 : Stages[i] \in {"cli", "printk_init", "revision", "gdt_init"} \union AfterGdt
    BY DEF Stages, AfterGdt, AfterPic, AfterLidt, AfterSti, AfterApic
<1>3. \A p \in {"cli", "printk_init", "revision", "gdt_init"} \union AfterGdt :
         p = "asserted" \/ \E i \in 1..19 : Stages[i] = p
    BY DEF Stages, AfterGdt, AfterPic, AfterLidt, AfterSti, AfterApic
<1>4. "asserted" \in AfterGdt
    BY DEF AfterGdt, AfterPic, AfterLidt, AfterSti, AfterApic
<1> QED
    BY <1>1, <1>2, <1>3, <1>4 DEF Range, KmainPc

(* isr_common pops the registers in the reverse order of its pushes. *)
LEMMA PopsReverse ==
    /\ \A k \in 1..15 : Popped[k] = Pushed[16 - k] /\ Popped[k] \in Registers
    /\ \A r \in Registers : \E k \in 1..15 : Popped[k] = r
    /\ Len(Popped) = 15 /\ Len(Pushed) = 15
<1>1. \A k \in 1..15 : Popped[k] = Pushed[16 - k]
    BY DEF Popped, Pushed
<1>2. \A k \in 1..15 : Popped[k] \in Registers
    BY DEF Popped, Registers
<1>3. \A r \in Registers : \E k \in 1..15 : Popped[k] = r
    BY DEF Popped, Registers
<1> QED
    BY <1>1, <1>2, <1>3 DEF Popped, Pushed

(* No two members of interrupt_frame_t have the same name. *)
LEMMA MembersDiffer ==
    \A i \in 1..22 : \A j \in 1..22 : interrupt_frame_t[i] = interrupt_frame_t[j] => i = j
<1>1. ASSUME NEW i \in 1..22
      PROVE  \A j \in 1..22 : interrupt_frame_t[i] = interrupt_frame_t[j] => i = j
  <2>1. i \in 1..11 \/ i \in 12..22
      OBVIOUS
  <2>2. CASE i \in 1..11
      BY <2>2, SMTT(60) DEF interrupt_frame_t
  <2>3. CASE i \in 12..22
      BY <2>3, SMTT(60) DEF interrupt_frame_t
  <2> QED
      BY <2>1, <2>2, <2>3
<1> QED
    BY <1>1

(* The members of interrupt_frame_t lie where the stubs, the processor and *)
(* isr_common put them.                                                    *)
LEMMA MemberPlaces ==
    ASSUME NEW s \in Seq(Word)
    PROVE  /\ Member(s, "vector") = s[Len(s) - 15] /\ Member(s, "error_code") = s[Len(s) - 16]
           /\ Member(s, "rip") = s[Len(s) - 17] /\ Member(s, "rflags") = s[Len(s) - 19]
           /\ Member(s, "rsp") = s[Len(s) - 20]
           /\ \A k \in 1..15 : Member(s, Popped[k]) = s[Len(s) - k + 1]
<1> DEFINE t == interrupt_frame_t
<1>1. \A i \in 1..22 : \A j \in 1..22 : t[i] = t[j] => i = j
    BY MembersDiffer
<1>2. Len(t) = 22 /\ t[16] = "vector" /\ t[17] = "error_code" /\ t[18] = "rip" /\ t[20] = "rflags"
      /\ t[21] = "rsp"
    BY DEF interrupt_frame_t
<1>3. \A k \in 1..15 : t[k] = Popped[k]
    BY SMTT(60) DEF interrupt_frame_t, Popped
<1> HIDE DEF t
<1>4. ASSUME NEW i \in 1..22 PROVE (CHOOSE k \in 1..Len(t) : t[k] = t[i]) = i
    BY <1>1, <1>2
<1>5. ASSUME NEW i \in 1..22 PROVE Member(s, t[i]) = s[Len(s) - i + 1]
    BY <1>4 DEF Member, t
<1>6. Len(s) \in Nat
    OBVIOUS
<1>7. \A k \in 1..15 : Member(s, Popped[k]) = s[Len(s) - k + 1]
  <2> TAKE k \in 1..15
  <2>1. t[k] = Popped[k] /\ k \in 1..22
      BY <1>3
  <2> QED
      BY <1>5, <2>1
<1>8. /\ Member(s, t[16]) = s[Len(s) - 16 + 1] /\ Member(s, t[17]) = s[Len(s) - 17 + 1]
      /\ Member(s, t[18]) = s[Len(s) - 18 + 1] /\ Member(s, t[20]) = s[Len(s) - 20 + 1]
      /\ Member(s, t[21]) = s[Len(s) - 21 + 1]
    BY <1>5
<1>9. /\ Len(s) - 16 + 1 = Len(s) - 15 /\ Len(s) - 17 + 1 = Len(s) - 16
      /\ Len(s) - 18 + 1 = Len(s) - 17 /\ Len(s) - 20 + 1 = Len(s) - 19
      /\ Len(s) - 21 + 1 = Len(s) - 20
    BY <1>6
<1> QED
    BY <1>2, <1>7, <1>8, <1>9

(* The descriptor tables: selector 0 names nothing in either, the kernel's *)
(* code, data and task segments are where gdt_flush and tss_flush look.    *)
LEMMA Segments ==
    /\ Named(LoaderGdt, 0) = "absent" /\ Named(Descriptors, 0) = "absent"
    /\ Named(Descriptors, 8) = "code64" /\ Named(Descriptors, 16) = "data"
    /\ Named(Descriptors, 40) = "tss"
<1>1. ~Bit(0, 7) /\ ~Bit(0, 3)
    BY DEF Bit
<1>2. Bit(154, 7) /\ Bit(154, 3) /\ Bit(160, 5)
    BY DEF Bit
<1>3. Bit(146, 7) /\ ~Bit(146, 3)
    BY DEF Bit
<1>4. /\ gdt_encode_entry(0, 0) = "absent" /\ gdt_encode_entry(154, 160) = "code64"
      /\ gdt_encode_entry(146, 192) = "data"
  <2>1. gdt_encode_entry(0, 0) = "absent"
      BY <1>1 DEF gdt_encode_entry
  <2>2. gdt_encode_entry(154, 160) = "code64"
      BY <1>2 DEF gdt_encode_entry
  <2>3. gdt_encode_entry(146, 192) = "data"
      BY <1>3 DEF gdt_encode_entry
  <2> QED
      BY <2>1, <2>2, <2>3
<1>5. /\ Len(Descriptors) = 8 /\ Descriptors[1] = "absent" /\ Descriptors[2] = "code64"
      /\ Descriptors[3] = "data" /\ Descriptors[6] = "tss"
    BY <1>4 DEF Descriptors
<1>6. Len(LoaderGdt) = 7 /\ LoaderGdt[1] = "absent"
    BY DEF LoaderGdt
<1>7. 0 \div 8 = 0 /\ 8 \div 8 = 1 /\ 16 \div 8 = 2 /\ 40 \div 8 = 5
    OBVIOUS
<1> QED
    BY <1>5, <1>6, <1>7 DEF Named

-----------------------------------------------------------------------------
(* kmain. *)

(* A stage of kmain that leaves the tables as its successor needs them     *)
(* keeps the invariant: no context is interrupted while it runs.           *)
LEMMA KmainKeeps ==
    ASSUME Inv, pc \in KmainPc, pc' \in KmainPc \union {"unsupported", "halt"},
           UNCHANGED <<stack, frames>>, Types', Boot'
    PROVE  Inv'
<1>1. UNCHANGED <<stack, frames>> /\ frames = <<>>
    BY DEF Inv, Nesting
<1>2. pc' \notin HandlerPc
    BY StageNames DEF HandlerPc, AfterGdt, AfterPic, AfterLidt, AfterSti, AfterApic
<1>3. Nesting'
  <2>1. Len(frames') = 0
      BY <1>1
  <2>2. PICK n \in Nat : n = faults'
      BY BootAssumption DEF Types
  <2>3. Len(frames') <= faults' + 1
    <3>1. 0 <= n + 1
        OBVIOUS
    <3> QED
        BY <2>1, <2>2, <3>1
  <2>4. frames' = <<>> /\ 1..Len(frames') = {}
      BY <1>1, <2>1
  <2> QED
      BY <1>2, <2>3, <2>4 DEF Nesting, HandlerPc
<1>4. OnStack'
    BY <1>2 DEF OnStack, HandlerPc
<1> QED
    BY <1>3, <1>4 DEF Inv

(* Every stage of kmain keeps the invariant. *)
LEMMA KmainInv ==
    ASSUME Inv, kmain PROVE Inv'
<1> USE DEF AfterGdt, AfterPic, AfterLidt, AfterSti, AfterApic
<1>1. ASSUME pc \in KmainPc, pc' \in KmainPc \union {"unsupported"},
             UNCHANGED <<context, IF_, tables, pic, apic>>, SetUp(pc'), IF_ => pc' \in AfterSti,
             pc' # "asserted"
      PROVE  Inv'
  <2>1. UNCHANGED <<vector, IF_, gdt, cs, idt, pic, apic, stack, regs, frames, faults>>
      BY <1>1 DEF context, tables
  <2>2. Types'
      BY <1>1, <2>1 DEF Inv, Types, Pc
  <2>3. pc' \notin {"panic", "asserted", "halt", Reset}
      BY <1>1, StageNames DEF Reset
  <2>4. SetUp(pc)'
      BY <1>1, <2>1 DEF SetUp
  <2>5. Boot'
      BY <1>1, <2>1, <2>3, <2>4 DEF Inv, Boot
  <2> QED
      BY <1>1, <2>1, <2>2, <2>5, KmainKeeps DEF context
<1>2. ASSUME NEW s \in Passive, Plain(s) PROVE Inv'
  <2>1. pc = s /\ pc' = Next_(s) /\ UNCHANGED <<context, IF_, tables, pic, apic>>
      BY <1>2 DEF Plain, Goes
  <2>2. /\ pc \in KmainPc /\ pc' \in KmainPc
        /\ pc' \in AfterGdt => pc \in AfterGdt
        /\ pc' \in AfterPic => pc \in AfterPic
        /\ pc' \in AfterLidt => pc \in AfterLidt
        /\ pc' \in AfterApic => pc \in AfterApic
        /\ pc \in AfterSti => pc' \in AfterSti
        /\ pc' # "asserted"
      BY <2>1, StageOrder, StageNames DEF Passive
  <2>3. SetUp(pc') /\ (IF_ => pc' \in AfterSti)
      BY <2>2 DEF Inv, Boot, SetUp
  <2> QED
      BY <1>1, <2>1, <2>2, <2>3
<1>3. CASE Cli
  <2>1. /\ pc = "cli" /\ pc' = "printk_init" /\ IF_' = FALSE
        /\ UNCHANGED <<vector, gdt, cs, idt, pic, apic, stack, regs, frames, faults>>
      BY <1>3, StageOrder DEF Cli, Goes, context, tables
  <2>2. pc \in KmainPc /\ pc' \in KmainPc
      BY <2>1, StageNames
  <2>3. Types'
      BY <2>1, <2>2 DEF Inv, Types, Pc
  <2>4. Boot'
      BY <2>1 DEF Inv, Boot, SetUp, Reset
  <2> QED
      BY <2>1, <2>2, <2>3, <2>4, KmainKeeps DEF context
<1>4. CASE Revision
  <2>1. /\ pc = "revision" /\ pc' \in {"gdt_init", "unsupported"}
        /\ UNCHANGED <<context, IF_, tables, pic, apic>>
      BY <1>4, StageOrder DEF Revision
  <2>2. pc \in KmainPc /\ pc' \in KmainPc \union {"unsupported"}
      BY <2>1, StageNames
  <2>3. ~IF_ /\ SetUp(pc')
      BY <2>1 DEF Inv, Boot, SetUp
  <2> QED
      BY <1>1, <2>1, <2>2, <2>3
<1>5. CASE GdtInit
  <2>1. /\ pc = "gdt_init" /\ gdt' = Descriptors /\ cs' = 8 /\ pc' = "idt_fill"
        /\ UNCHANGED <<IF_, idt, pic, apic, context>>
      BY <1>5, StageOrder, Segments DEF GdtInit
  <2>2. UNCHANGED <<vector, stack, regs, frames, faults>>
      BY <2>1 DEF context
  <2>3. pc \in KmainPc /\ pc' \in KmainPc
      BY <2>1, StageNames
  <2>4. Types'
      BY <2>1, <2>2, <2>3 DEF Inv, Types, Pc
  <2>5. Boot'
      BY <2>1, <2>2 DEF Inv, Boot, SetUp, Reset
  <2> QED
      BY <2>1, <2>3, <2>4, <2>5, KmainKeeps DEF context
<1>6. CASE pic_disable
  <2>1. /\ pc = "pic_disable" /\ pc' = "lidt" /\ pic' = [pic EXCEPT !.masked = TRUE]
        /\ UNCHANGED <<IF_, gdt, cs, idt, apic, context>>
      BY <1>6, StageOrder DEF pic_disable, Goes, tables
  <2>2. UNCHANGED <<vector, stack, regs, frames, faults>>
      BY <2>1 DEF context
  <2>3. pc \in KmainPc /\ pc' \in KmainPc
      BY <2>1, StageNames
  <2>4. pic' \in [masked : BOOLEAN, pending : SUBSET (0..7)] /\ pic'.masked = TRUE
      BY <2>1 DEF Inv, Types
  <2>5. Types'
      BY <2>1, <2>2, <2>3, <2>4 DEF Inv, Types, Pc
  <2>6. Boot'
      BY <2>1, <2>2, <2>4, StageNames DEF Inv, Boot, SetUp, Reset
  <2> QED
      BY <2>1, <2>3, <2>5, <2>6, KmainKeeps DEF context
<1>7. CASE Lidt
  <2>1. /\ pc = "lidt" /\ pc' = "sti" /\ idt' = 8
        /\ UNCHANGED <<IF_, gdt, cs, pic, apic, context>>
      BY <1>7, StageOrder DEF Lidt, Goes, GateSelector
  <2>2. UNCHANGED <<vector, stack, regs, frames, faults>>
      BY <2>1 DEF context
  <2>3. pc \in KmainPc /\ pc' \in KmainPc
      BY <2>1, StageNames
  <2>4. Types'
      BY <2>1, <2>2, <2>3 DEF Inv, Types, Pc
  <2>5. Boot'
      BY <2>1, <2>2, <2>3 DEF Inv, Boot, SetUp, Reset
  <2> QED
      BY <2>1, <2>3, <2>4, <2>5, KmainKeeps DEF context
<1>8. CASE Sti
  <2>1. /\ pc = "sti" /\ pc' = "hhdm_init" /\ IF_' = TRUE
        /\ UNCHANGED <<gdt, cs, idt, pic, apic, context>>
      BY <1>8, StageOrder DEF Sti, Goes, tables
  <2>2. UNCHANGED <<vector, stack, regs, frames, faults>>
      BY <2>1 DEF context
  <2>3. pc \in KmainPc /\ pc' \in KmainPc
      BY <2>1, StageNames
  <2>4. Types'
      BY <2>1, <2>2, <2>3 DEF Inv, Types, Pc
  <2>5. Boot'
      BY <2>1, <2>2, <2>3 DEF Inv, Boot, SetUp, Reset
  <2> QED
      BY <2>1, <2>3, <2>4, <2>5, KmainKeeps DEF context
<1>9. ASSUME NEW s \in {"enable_apic"} \union AfterApic, NEW w, ApicStage(s, w),
             w \in Apic,
             w.virt = TRUE, Next_(s) \in AfterApic \ {"asserted"}
      PROVE  Inv'
  <2>1. pc = s /\ pc' = Next_(s) /\ apic' = w /\ UNCHANGED <<IF_, gdt, cs, idt, pic, context>>
      BY <1>9 DEF ApicStage, tables
  <2>2. UNCHANGED <<vector, stack, regs, frames, faults>>
      BY <2>1 DEF context
  <2>3. pc \in KmainPc /\ pc' \in KmainPc
      BY <1>9, <2>1, StageNames
  <2>4. Types'
      BY <1>9, <2>1, <2>2, <2>3 DEF Inv, Types, Pc
  <2>5. gdt = Descriptors /\ cs = 8 /\ pic.masked /\ idt = 8
      BY <1>9, <2>1, <2>3 DEF Inv, Boot, SetUp
  <2>6. pc' \in AfterApic /\ pc' \notin {"panic", "asserted", "halt", Reset}
      BY <1>9, <2>1 DEF Reset
  <2>7. SetUp(pc)' /\ apic'.virt
      BY <1>9, <2>1, <2>5 DEF SetUp
  <2>8. Boot'
      BY <2>1, <2>2, <2>5, <2>6, <2>7 DEF Inv, Boot
  <2> QED
      BY <2>1, <2>3, <2>4, <2>8, KmainKeeps DEF context
<1>10. pc \in AfterApic => apic.virt = TRUE
    BY StageNames DEF Inv, Types, Boot, SetUp
<1>11. CASE EnableApic
    BY <1>9, <1>11, StageOrder DEF EnableApic, Inv, Types, Apic
<1>12. CASE EnableSvr
    BY <1>9, <1>10, <1>12, StageOrder DEF EnableSvr, ApicStage, Inv, Types, Apic
<1>13. CASE Calibrate
  <2>1. pc = "calibrate" /\ apic \in Apic
      BY <1>13 DEF Calibrate, ApicStage, Inv, Types
  <2>2. apic.virt = TRUE
      BY <1>10, <2>1
  <2>3. [apic EXCEPT !.icr = 2, !.lvt = "masked"] \in Apic
    <3>1. [apic EXCEPT !.icr = 2] \in Apic
        BY <2>1 DEF Apic
    <3>2. ASSUME NEW a \in Apic PROVE [a EXCEPT !.lvt = "masked"] \in Apic
        BY DEF Apic
    <3>3. [apic EXCEPT !.icr = 2, !.lvt = "masked"] = [[apic EXCEPT !.icr = 2] EXCEPT !.lvt = "masked"]
        OBVIOUS
    <3> QED
        BY <3>1, <3>2, <3>3
  <2>4. [apic EXCEPT !.icr = 2, !.lvt = "masked"].virt = TRUE
      BY <2>1, <2>2 DEF Apic
  <2> QED
      BY <1>9, <1>13, <2>3, <2>4, StageOrder DEF Calibrate
<1>14. CASE SetLvt
    BY <1>9, <1>10, <1>14, StageOrder DEF SetLvt, ApicStage, Inv, Types, Apic
<1>15. CASE SetIcr
  <2>1. pc = "icr" /\ apic \in Apic
      BY <1>15 DEF SetIcr, ApicStage, Inv, Types
  <2>2. apic.virt = TRUE
      BY <1>10, <2>1
  <2>3. [apic EXCEPT !.icr = 1] \in Apic
      BY <2>1 DEF Apic
  <2>4. [apic EXCEPT !.icr = 1].virt = TRUE
      BY <2>1, <2>2 DEF Apic
  <2> QED
      BY <1>9, <1>15, <2>3, <2>4, StageOrder DEF SetIcr
<1>16. CASE AhciAsserts
  <2>1. /\ pc = "ahci_init" /\ pc' = "asserted" /\ faults < MaxFaults /\ faults' = faults + 1
        /\ UNCHANGED <<vector, IF_, gdt, cs, idt, pic, apic, stack, regs, frames>>
      BY <1>16 DEF AhciAsserts, tables
  <2>2. faults' \in 0..MaxFaults /\ faults' > 0
      BY <2>1, BootAssumption DEF Inv, Types
  <2>3. pc \in KmainPc /\ pc' \in KmainPc
      BY <2>1, StageNames
  <2>4. Types'
      BY <2>1, <2>2, <2>3 DEF Inv, Types, Pc
  <2>5. SetUp(pc)'
      BY <2>1, <2>3 DEF Inv, Boot, SetUp
  <2>6. Boot'
      BY <2>1, <2>2, <2>5 DEF Inv, Boot, Reset
  <2> QED
      BY <2>1, <2>3, <2>4, <2>6, KmainKeeps DEF context
<1>17. CASE Panic("asserted")
  <2>1. /\ pc = "asserted" /\ pc' = "halt" /\ IF_' = FALSE
        /\ UNCHANGED <<vector, gdt, cs, idt, pic, apic, stack, regs, frames, faults>>
      BY <1>17 DEF Panic, tables, context
  <2>2. pc \in KmainPc /\ pc' \notin KmainPc
      BY <2>1, StageNames
  <2>3. Types'
      BY <2>1 DEF Inv, Types, Pc
  <2>4. Boot'
      BY <2>1, <2>2 DEF Inv, Boot, Reset
  <2> QED
      BY <2>1, <2>2, <2>3, <2>4, KmainKeeps DEF context
<1> QED
    BY <1>2, <1>3, <1>4, <1>5, <1>6, <1>7, <1>8, <1>11, <1>12, <1>13, <1>14, <1>15, <1>16, <1>17
       DEF kmain

-----------------------------------------------------------------------------
(* The stack. *)

\* Stack z is s, of n words, with the m words of t above it.
Above(z, s, n, t, m) ==
    /\ z \in Seq(Word) /\ Len(z) = n + m
    /\ \A i \in 1..n : z[i] = s[i]
    /\ \A j \in 1..m : z[n + j] = t[j]

(* Words pushed onto a stack lie above it, and it stays as it was. *)
LEMMA Pushes ==
    ASSUME NEW s \in Seq(Word), NEW n \in Nat, Len(s) = n,
           NEW t \in Seq(Word), NEW m \in Nat, Len(t) = m
    PROVE  Above(s \o t, s, n, t, m)
    BY DEF Above

(* The words. *)
LEMMA Words ==
    /\ \A n \in Nat : Num(n) \in Word
    /\ \A b \in BOOLEAN : Flag(b) \in Word
    /\ \A r \in RegValue : Val(r) \in Word
    /\ \A p \in Pc : Rip(p) \in Word
    BY DEF Word, Num, Flag, Val, Rip

\* The stack as an event leaves it: aligned, with the interrupted context.
Aligned(s) == IF Len(s) % 2 = 1 THEN Append(s, Num(0)) ELSE s
Hardware(n, b, c, p) == <<Num(16), Num(n), Flag(b), Num(c), Rip(p)>>

(* The processor aligns the stack before it pushes the context. *)
LEMMA AlignedStack ==
    ASSUME NEW s \in Seq(Word)
    PROVE  /\ Aligned(s) \in Seq(Word) /\ Len(Aligned(s)) = Len(s) + (Len(s) % 2)
           /\ \A i \in 1..Len(s) : Aligned(s)[i] = s[i]
<1>1. Num(0) \in Word
    BY Words
<1>2. CASE Len(s) % 2 = 1
    BY <1>1, <1>2 DEF Aligned
<1>3. CASE Len(s) % 2 # 1
  <2>1. Len(s) % 2 = 0
      BY <1>3
  <2> QED
      BY <1>3, <2>1 DEF Aligned
<1> QED
    BY <1>2, <1>3

(* The context an event interrupts, and where its words start. *)
LEMMA FrameBase ==
    ASSUME NEW f \in Frame
    PROVE  /\ f.vector \in 0..255 /\ f.regs \in [Registers -> RegValue] /\ f.pc \in Pc
           /\ f.error \in Word /\ f.IF_ \in BOOLEAN /\ f.stack \in Seq(Word)
           /\ Len(f.stack) \in Nat /\ Base(f) \in Nat /\ Len(f.stack) <= Base(f)
           /\ Base(f) % 2 = 0
<1>1. /\ f.vector \in 0..255 /\ f.regs \in [Registers -> RegValue] /\ f.pc \in Pc
      /\ f.error \in Word /\ f.IF_ \in BOOLEAN /\ f.stack \in Seq(Word)
    BY DEF Frame
<1>2. ASSUME NEW n \in Nat
      PROVE  n + (n % 2) \in Nat /\ n <= n + (n % 2) /\ (n + (n % 2)) % 2 = 0
    OBVIOUS
<1>3. Len(f.stack) \in Nat
    BY <1>1
<1> QED
    BY <1>1, <1>2, <1>3 DEF Base

\* The stack after the event of frame f, which pushed the words e last.
EventStack(f, e) == Aligned(f.stack) \o Hardware(Len(f.stack), f.IF_, 8, f.pc) \o e

(* What is on the stack when the stub of an event starts. *)
LEMMA EnteredStack ==
    ASSUME NEW f \in Frame, NEW e \in Seq(Word), NEW m \in Nat, Len(e) = m,
           NEW s, s = EventStack(f, e)
    PROVE  /\ s \in Seq(Word) /\ Entered(s, f) /\ Len(s) = Base(f) + 5 + m
           /\ \A j \in 1..m : s[Base(f) + 5 + j] = e[j]
<1> DEFINE a == Aligned(f.stack)
           h == Hardware(Len(f.stack), f.IF_, 8, f.pc)
<1>1. PICK b \in Nat, n \in Nat : b = Base(f) /\ n = Len(f.stack) /\ n <= b
    BY FrameBase
<1>2. a \in Seq(Word) /\ Len(a) = b /\ \A i \in 1..n : a[i] = f.stack[i]
    BY <1>1, FrameBase, AlignedStack DEF Base
<1>3. h \in Seq(Word) /\ Len(h) = 5
    BY FrameBase, Words DEF Hardware
<1>4. /\ h[2] = Num(n) /\ h[3] = Flag(f.IF_) /\ h[4] = Num(8) /\ h[5] = Rip(f.pc)
    BY <1>1 DEF Hardware
<1>5. s = (a \o h) \o e
    BY DEF EventStack
<1> HIDE DEF a, h
<1>6. PICK x \in Seq(Word) : x = a \o h /\ Above(x, a, b, h, 5)
  <2>1. Above(a \o h, a, b, h, 5)
      BY <1>2, <1>3, Pushes
  <2>2. a \o h \in Seq(Word)
      BY <2>1 DEF Above
  <2> QED
      BY <2>1, <2>2
<1>7. Above(s, x, b + 5, e, m)
  <2>1. PICK c \in Nat : c = b + 5
      OBVIOUS
  <2>2. Len(x) = c
      BY <1>6, <2>1 DEF Above
  <2> QED
      BY <1>5, <1>6, <2>1, <2>2, Pushes
<1>8. \A i \in 1..n : s[i] = f.stack[i]
  <2> TAKE i \in 1..n
  <2>1. i \in 1..b /\ i \in 1..b + 5
      BY <1>1
  <2> QED
      BY <1>2, <1>6, <1>7, <2>1 DEF Above
<1>9. ASSUME NEW j \in 1..5 PROVE s[b + j] = h[j]
  <2>1. b + j \in 1..b + 5
      OBVIOUS
  <2> QED
      BY <1>6, <1>7, <2>1 DEF Above
<1>10. s[b + 2] = h[2] /\ s[b + 3] = h[3] /\ s[b + 4] = h[4] /\ s[b + 5] = h[5]
    BY <1>9
<1>11. Len(s) >= b + 5
    BY <1>7 DEF Above
<1>12. Entered(s, f)
    BY <1>1, <1>4, <1>8, <1>10, <1>11 DEF Entered
<1> QED
    BY <1>1, <1>7, <1>12 DEF Above

\* The stack after the pushes of the stub.
StubStack(s, f) ==
    s \o (IF f.vector \in isr_stub_err THEN <<>> ELSE <<Num(0)>>)
      \o <<Num(f.vector)>> \o [k \in 1..15 |-> Val(f.regs[Pushed[k]])]

(* What is on the stack when isr_handler is called. *)
LEMMA SavedStack ==
    ASSUME NEW f \in Frame, NEW s \in Seq(Word), Stubbed(s, f), NEW t, t = StubStack(s, f)
    PROVE  t \in Seq(Word) /\ Saved(t, f)
<1> DEFINE e == IF f.vector \in isr_stub_err THEN <<>> ELSE <<Num(0)>>
           v == <<Num(f.vector)>>
           r == [k \in 1..15 |-> Val(f.regs[Pushed[k]])]
<1>1. PICK b \in Nat, n \in Nat : b = Base(f) /\ n = Len(f.stack) /\ n <= b
    BY FrameBase
<1>2. isr_stub_err = PushesError
    BY DEF isr_stub_err, PushesError
<1>3. e \in Seq(Word) /\ v \in Seq(Word) /\ Len(v) = 1 /\ v[1] = Num(f.vector)
  <2>1. Num(0) \in Word /\ Num(f.vector) \in Word
    <3>1. f.vector \in 0..255
        BY FrameBase
    <3> QED
        BY <3>1, Words, 0..255 \subseteq Nat
  <2> QED
      BY <2>1
<1>4. r \in Seq(Word) /\ Len(r) = 15 /\ \A k \in 1..15 : r[k] = Val(f.regs[Pushed[k]])
  <2>1. \A k \in 1..15 : Pushed[k] \in Registers
      BY DEF Pushed, Registers
  <2>2. \A k \in 1..15 : Val(f.regs[Pushed[k]]) \in Word
      BY <2>1, FrameBase, Words
  <2> QED
      BY <2>2
<1>5. t = ((s \o e) \o v) \o r
    BY DEF StubStack
<1>6. /\ f.vector \in PushesError => e = <<>>
      /\ f.vector \notin PushesError => e = <<Num(0)>>
    BY <1>2
<1> HIDE DEF e, v, r
<1>7. PICK x \in Seq(Word) :
         x = s \o e /\ Len(x) = b + 6 /\ x[b + 6] = f.error /\ \A i \in 1..b + 5 : x[i] = s[i]
  <2>1. CASE f.vector \in PushesError
    <3>1. Len(s) = b + 6 /\ s[b + 6] = f.error /\ s \o e = s
        BY <1>1, <1>6, <2>1 DEF Stubbed
    <3> QED
        BY <3>1
  <2>2. CASE f.vector \notin PushesError
    <3>1. Len(s) = b + 5 /\ Len(e) = 1 /\ e[1] = f.error
        BY <1>1, <1>6, <2>2 DEF Stubbed
    <3>2. PICK c \in Nat : c = b + 5
        OBVIOUS
    <3>3. Above(s \o e, s, c, e, 1)
        BY <1>3, <3>1, <3>2, Pushes
    <3>4. c + 1 = b + 6 /\ (s \o e)[c + 1] = e[1]
        BY <3>2, <3>3 DEF Above
    <3> QED
        BY <3>1, <3>2, <3>3, <3>4 DEF Above
  <2> QED
      BY <2>1, <2>2
<1>8. PICK y \in Seq(Word) :
         /\ y = x \o v /\ Len(y) = b + 7 /\ y[b + 7] = Num(f.vector)
         /\ \A i \in 1..b + 6 : y[i] = x[i]
  <2>1. PICK c \in Nat : c = b + 6
      OBVIOUS
  <2>2. Above(x \o v, x, c, v, 1)
      BY <1>3, <1>7, <2>1, Pushes
  <2>3. c + 1 = b + 7 /\ (x \o v)[c + 1] = v[1]
      BY <2>1, <2>2 DEF Above
  <2> QED
      BY <1>3, <2>1, <2>2, <2>3 DEF Above
<1>9. /\ t \in Seq(Word) /\ Len(t) = b + 22
      /\ \A i \in 1..b + 7 : t[i] = y[i]
      /\ \A k \in 1..15 : t[b + 7 + k] = Val(f.regs[Pushed[k]])
  <2>1. PICK c \in Nat : c = b + 7
      OBVIOUS
  <2>2. Above(y \o r, y, c, r, 15)
      BY <1>4, <1>8, <2>1, Pushes
  <2>3. t = y \o r /\ c + 15 = b + 22
      BY <1>5, <1>7, <1>8, <2>1
  <2> QED
      BY <1>4, <2>1, <2>2, <2>3 DEF Above
<1>10. \A i \in 1..b + 5 : t[i] = s[i]
  <2> TAKE i \in 1..b + 5
  <2>1. i \in 1..b + 6 /\ i \in 1..b + 7
      OBVIOUS
  <2> QED
      BY <1>7, <1>8, <1>9, <2>1
<1>11. t[b + 6] = f.error /\ t[b + 7] = Num(f.vector)
  <2>1. b + 6 \in 1..b + 6 /\ b + 6 \in 1..b + 7 /\ b + 7 \in 1..b + 7
      OBVIOUS
  <2> QED
      BY <1>7, <1>8, <1>9, <2>1
<1>12. Entered(t, f)
  <2>1. \A i \in 1..n : t[i] = s[i]
      BY <1>1, <1>10
  <2>2. t[b + 2] = s[b + 2] /\ t[b + 3] = s[b + 3] /\ t[b + 4] = s[b + 4] /\ t[b + 5] = s[b + 5]
    <3>1. b + 2 \in 1..b + 5 /\ b + 3 \in 1..b + 5 /\ b + 4 \in 1..b + 5 /\ b + 5 \in 1..b + 5
        OBVIOUS
    <3> QED
        BY <1>10, <3>1
  <2>3. Len(t) >= b + 5
      BY <1>9
  <2> QED
      BY <1>1, <2>1, <2>2, <2>3 DEF Entered, Stubbed
<1> QED
    BY <1>1, <1>9, <1>11, <1>12 DEF Saved

-----------------------------------------------------------------------------
(* Events. *)

\* An event resets the machine, or reaches the stub of its vector.
NoGate == idt = 0 /\ pc' = Reset /\ UNCHANGED <<vector, IF_, cs, stack, frames>>
Delivered(v) ==
    /\ idt = 8 /\ pc' = "stub" /\ IF_' = FALSE /\ cs' = 8 /\ vector' = v
    /\ \E f \in Frame :
          /\ frames' = Append(frames, f) /\ stack' \in Seq(Word)
          /\ Stubbed(stack', f) /\ f.vector = v /\ f.regs = regs
          /\ f.pc = pc /\ f.IF_ = IF_

(* An event that finds a gate leaves the context it interrupts in a new    *)
(* frame and on the stack; without a gate the machine resets.              *)
LEMMA Entering ==
    ASSUME Inv, Running, NEW v \in 0..255, UNCHANGED <<gdt, idt, regs>>,
           Enter(v, IF v \in PushesError THEN <<Num(1)>> ELSE <<>>)
    PROVE  NoGate \/ Delivered(v)
<1> DEFINE e == IF v \in PushesError THEN <<Num(1)>> ELSE <<>>
           w == IF v \in PushesError THEN Num(1) ELSE Num(0)
           f == [vector |-> v, regs |-> regs, pc |-> pc, error |-> w, IF_ |-> IF_, stack |-> stack]
           m == IF v \in PushesError THEN 1 ELSE 0
<1>1. CASE idt = 0
  <2>1. Named(gdt, idt) = "absent"
      BY <1>1, Segments DEF Inv, Types
  <2> QED
      BY <1>1, <2>1 DEF Enter, NoGate
<1>2. CASE idt = 8
  <2>1. Named(gdt, idt) = "code64" /\ cs = 8
      BY <1>2, Segments DEF Inv, Boot
  <2>2. Num(1) \in Word /\ Num(0) \in Word
      BY Words
  <2>3. e \in Seq(Word) /\ Len(e) = m /\ m \in Nat /\ (m = 1 => e[1] = w)
      BY <2>2
  <2>4. w = IF e = <<>> THEN Num(0) ELSE e[1]
      OBVIOUS
  <2>5. f \in Frame
      BY <2>2 DEF Frame, Inv, Types
  <2>6. f.vector = v /\ f.regs = regs /\ f.pc = pc /\ f.IF_ = IF_ /\ f.error = w /\ f.stack = stack
      OBVIOUS
  <2>7. /\ pc' = "stub" /\ IF_' = FALSE /\ cs' = 8 /\ vector' = v
        /\ stack' = Aligned(stack) \o Hardware(Len(stack), IF_, 8, pc) \o e
        /\ frames' = Append(frames, [vector |-> v, regs |-> regs, pc |-> pc,
                                     error |-> IF e = <<>> THEN Num(0) ELSE e[1],
                                     IF_ |-> IF_, stack |-> stack])
      BY <1>2, <2>1 DEF Enter, FlagInHandler, Aligned, Hardware
  <2>8. frames' = Append(frames, f)
      BY <2>4, <2>7
  <2> HIDE DEF e, w, f, m
  <2>9. stack' = EventStack(f, e)
      BY <2>6, <2>7 DEF EventStack
  <2>10. /\ stack' \in Seq(Word) /\ Entered(stack', f) /\ Len(stack') = Base(f) + 5 + m
         /\ \A j \in 1..m : stack'[Base(f) + 5 + j] = e[j]
      BY <2>3, <2>5, <2>9, EnteredStack
  <2>11. Stubbed(stack', f)
    <3>1. PICK b \in Nat : b = Base(f)
        BY <2>5, FrameBase
    <3>2. CASE v \in PushesError
      <4>1. m = 1 /\ e[1] = w /\ w = Num(1)
          BY <2>3, <3>2 DEF m, w
      <4>2. stack'[b + 5 + 1] = w /\ Len(stack') = b + 5 + 1
          BY <2>10, <3>1, <4>1
      <4>3. b + 5 + 1 = b + 6
          OBVIOUS
      <4> QED
          BY <2>6, <2>10, <3>1, <3>2, <4>1, <4>2, <4>3 DEF Stubbed
    <3>3. CASE v \notin PushesError
      <4>1. m = 0 /\ w = Num(0)
          BY <3>3 DEF m, w
      <4>2. Len(stack') = b + 5
          BY <2>10, <3>1, <4>1
      <4> QED
          BY <2>6, <2>10, <3>1, <3>3, <4>1, <4>2 DEF Stubbed
    <3> QED
        BY <3>2, <3>3
  <2> QED
      BY <1>2, <2>5, <2>6, <2>7, <2>8, <2>10, <2>11 DEF Delivered
<1> QED
    BY <1>1, <1>2 DEF Inv, Types

(* A new frame on top of the others is the last one. *)
LEMMA NewFrame ==
    ASSUME NEW s \in Seq(Frame), NEW f \in Frame
    PROVE  /\ Append(s, f) \in Seq(Frame) /\ Len(Append(s, f)) = Len(s) + 1
           /\ Append(s, f) # <<>> /\ Last(Append(s, f)) = f /\ Len(s) \in Nat
           /\ \A k \in 1..Len(s) : Append(s, f)[k] = s[k]
           /\ Append(s, f)[Len(s) + 1] = f
<1>1. Len(Append(s, f)) = Len(s) + 1 /\ Append(s, f)[Len(s) + 1] = f
    OBVIOUS
<1> QED
    BY <1>1 DEF Last

(* An exception, wherever it comes, keeps the invariant. *)
LEMMA ExceptionInv ==
    ASSUME Inv, NEW v \in Exceptions, Exception(v) PROVE Inv'
<1>1. /\ Running /\ faults < MaxFaults /\ faults' = faults + 1
      /\ Enter(v, IF v \in PushesError THEN <<Num(1)>> ELSE <<>>)
      /\ UNCHANGED <<gdt, idt, pic, apic, regs>>
    BY DEF Exception
<1>2. v \in 0..255 /\ v # APIC_TIMER_VECTOR
    BY BootAssumption DEF APIC_TIMER_VECTOR
<1>3. faults' \in 0..MaxFaults /\ faults' > 0 /\ faults \in Nat
    BY <1>1, BootAssumption DEF Inv, Types
<1>4. CASE NoGate
  <2> USE DEF NoGate
  <2>1. frames = <<>>
      BY <1>4 DEF Inv, Nesting
  <2>2. Types'
      BY <1>1, <1>3, <1>4 DEF Inv, Types, Pc
  <2>3. pc' \notin KmainPc \union HandlerPc \union {"halt"}
      BY <1>4, StageNames DEF Reset, HandlerPc, AfterGdt, AfterPic, AfterLidt, AfterSti, AfterApic
  <2>4. ~IF_
    <3> SUFFICES ASSUME IF_ PROVE FALSE
        BY DEF Inv, Types
    <3>1. pc \in AfterSti /\ pc \in AfterLidt /\ pc \in KmainPc
        BY StageNames DEF Inv, Boot, AfterGdt, AfterPic, AfterLidt
    <3> QED
        BY <1>4, <3>1 DEF Inv, Boot, SetUp
  <2>5. Boot'
      BY <1>1, <1>3, <1>4, <2>3, <2>4 DEF Inv, Boot
  <2>6. Nesting'
    <3>1. Len(frames') = 0 /\ frames' = <<>> /\ 1..Len(frames') = {}
        BY <1>4, <2>1 DEF NoGate
    <3>2. Len(frames') <= faults' + 1
        BY <1>1, <1>3, <3>1
    <3> QED
        BY <2>3, <3>1, <3>2 DEF Nesting, HandlerPc
  <2>7. OnStack'
      BY <2>3 DEF OnStack, HandlerPc
  <2> QED
      BY <2>2, <2>5, <2>6, <2>7 DEF Inv
<1>5. CASE Delivered(v)
  <2>0. idt = 8 /\ pc' = "stub" /\ IF_' = FALSE /\ cs' = 8 /\ vector' = v
      BY <1>5 DEF Delivered
  <2>1. PICK f \in Frame : /\ frames' = Append(frames, f) /\ stack' \in Seq(Word)
                           /\ Stubbed(stack', f) /\ f.vector = v /\ f.regs = regs
      BY <1>5 DEF Delivered
  <2>2. /\ frames' \in Seq(Frame) /\ Len(frames') = Len(frames) + 1 /\ frames' # <<>>
        /\ Last(frames') = f /\ Len(frames) \in Nat
        /\ \A k \in 1..Len(frames) : frames'[k] = frames[k]
        /\ frames'[Len(frames) + 1] = f
      BY <2>1, NewFrame DEF Inv, Types
  <2>3. "stub" \notin KmainPc \union {"panic", "halt", Reset, "isr_handler", "apic_eoi", "iretq"}
      BY StageNames DEF Reset, AfterGdt, AfterPic, AfterLidt, AfterSti, AfterApic
  <2>4. Types'
      BY <1>1, <1>2, <1>3, <2>0, <2>1, <2>2 DEF Inv, Types, Pc, HandlerPc
  <2>5. Boot'
      BY <1>1, <2>0, <2>3 DEF Inv, Boot
  <2>6. \A k \in 1..Len(frames') :
           IF frames'[k].vector = APIC_TIMER_VECTOR
           THEN k = 1 /\ frames'[k].pc \in AfterSti /\ SetUp(frames[k].pc)'
                /\ frames'[k].IF_ /\ apic'.virt
                /\ (frames'[k].pc = "asserted" => faults' > 0)
           ELSE faults' > 0
    <3> TAKE k \in 1..Len(frames')
    <3>1. CASE k = Len(frames) + 1
        BY <1>2, <1>3, <2>1, <2>2, <3>1
    <3>2. CASE k \in 1..Len(frames)
      <4>1. frames'[k] = frames[k]
          BY <2>2, <3>2
      <4>2. SetUp(frames[k].pc) => SetUp(frames[k].pc)'
          BY <1>1, <2>0, <4>1 DEF SetUp
      <4> QED
          BY <1>1, <1>3, <3>2, <4>1, <4>2 DEF Inv, Nesting
    <3> QED
        BY <2>2, <3>1, <3>2
  <2>7. frames'[1].vector # APIC_TIMER_VECTOR => Len(frames') <= faults'
    <3>1. CASE frames = <<>>
        BY <1>1, <1>3, <2>2, <3>1
    <3>2. CASE frames # <<>>
      <4>1. frames'[1] = frames[1]
          BY <2>2, <3>2 DEF Inv, Types
      <4> QED
          BY <1>1, <1>3, <2>2, <3>2, <4>1 DEF Inv, Nesting
    <3> QED
        BY <3>1, <3>2
  <2>8. Len(frames') <= faults' + 1
      BY <1>1, <1>3, <2>2 DEF Inv, Nesting
  <2>9. Nesting'
      BY <1>1, <2>0, <2>2, <2>3, <2>6, <2>7, <2>8 DEF Nesting
  <2>10. OnStack'
      BY <1>1, <2>0, <2>1, <2>2, <2>3 DEF OnStack
  <2> QED
      BY <2>4, <2>5, <2>9, <2>10 DEF Inv
<1> QED
    BY <1>1, <1>2, <1>4, <1>5, Entering

(* A line of the PIC and the expiry of the timer change the devices only. *)
LEMMA DeviceInv ==
    ASSUME Inv, (\E q \in Irqs : PicFires(q)) \/ TimerExpires PROVE Inv'
<1>1. /\ UNCHANGED <<pc, vector, IF_, gdt, cs, idt, stack, regs, frames, faults>>
      /\ pic' \in [masked : BOOLEAN, pending : SUBSET (0..7)] /\ pic'.masked = pic.masked
      /\ apic' \in Apic /\ apic'.virt = apic.virt /\ apic'.svr = apic.svr
      /\ apic'.irr => apic.irr \/ apic.svr
  <2>1. CASE \E q \in Irqs : PicFires(q)
      BY <2>1, BootAssumption DEF PicFires, tables, context, Inv, Types
  <2>2. CASE TimerExpires
      BY <2>2 DEF TimerExpires, tables, context, Inv, Types, Apic
  <2> QED
      BY <2>1, <2>2
<1>2. Types'
    BY <1>1 DEF Inv, Types
<1>4. Boot'
  <2>1. SetUp(pc) => SetUp(pc)'
      BY <1>1 DEF SetUp
  <2> QED
      BY <1>1, <2>1 DEF Inv, Boot
<1>5. Nesting'
  <2>1. \A k \in 1..Len(frames) : SetUp(frames[k].pc) => SetUp(frames[k].pc)'
      BY <1>1 DEF SetUp
  <2> QED
      BY <1>1, <2>1 DEF Inv, Nesting
<1>6. OnStack'
    BY <1>1 DEF Inv, OnStack, Stubbed, Entered, Saved, Base, Last
<1> QED
    BY <1>2, <1>4, <1>5, <1>6 DEF Inv

(* The only device interrupt the processor takes is the timer's, once the  *)
(* APIC is mapped and while a stage of kmain runs.                         *)
LEMMA OnlyTimer ==
    ASSUME Inv, IF_, NEW v \in Offered
    PROVE  v = APIC_TIMER_VECTOR /\ apic.virt = TRUE /\ pc \in AfterSti /\ frames = <<>>
           /\ idt = 8 /\ SetUp(pc) /\ (pc = "asserted" => faults > 0)
<1>1. pc \in AfterSti /\ pc \in AfterLidt /\ pc \in AfterPic /\ pc \in KmainPc
    BY StageNames DEF Inv, Boot, AfterGdt, AfterPic, AfterLidt
<1>2. pic.masked /\ idt = 8 /\ SetUp(pc) /\ frames = <<>>
    BY <1>1 DEF Inv, Boot, SetUp, Nesting
<1>3. v = APIC_TIMER_VECTOR /\ apic.irr
    BY <1>2 DEF Offered
<1> QED
    BY <1>1, <1>2, <1>3 DEF Inv, Boot, Types, Apic

(* A device interrupt keeps the invariant. *)
LEMMA InterruptInv ==
    ASSUME Inv, NEW v \in Offered, Interrupts(v) PROVE Inv'
<1>1. /\ Running /\ IF_ /\ Enter(v, <<>>) /\ UNCHANGED <<gdt, idt, regs, faults>>
      /\ pic' = [pic EXCEPT !.pending = @ \ {v - 8}]
      /\ apic' = IF v = APIC_TIMER_VECTOR THEN [apic EXCEPT !.irr = FALSE, !.isr = TRUE] ELSE apic
    BY DEF Interrupts
<1>2. /\ v = APIC_TIMER_VECTOR /\ apic.virt = TRUE /\ pc \in AfterSti /\ frames = <<>>
      /\ idt = 8 /\ SetUp(pc) /\ (pc = "asserted" => faults > 0)
    BY <1>1, OnlyTimer
<1>3. v \in 0..255 /\ v \notin PushesError
    BY <1>2 DEF APIC_TIMER_VECTOR, PushesError
<1>4. PICK f \in Frame :
         /\ pc' = "stub" /\ IF_' = FALSE /\ cs' = 8 /\ vector' = v
         /\ frames' = Append(frames, f) /\ stack' \in Seq(Word)
         /\ Stubbed(stack', f) /\ f.vector = v /\ f.regs = regs /\ f.pc = pc /\ f.IF_ = IF_
  <2>1. Enter(v, IF v \in PushesError THEN <<Num(1)>> ELSE <<>>)
      BY <1>1, <1>3
  <2>2. NoGate \/ Delivered(v)
      BY <1>1, <1>3, <2>1, Entering
  <2> QED
      BY <1>2, <2>2 DEF NoGate, Delivered
<1>5. /\ pic' \in [masked : BOOLEAN, pending : SUBSET (0..7)] /\ pic'.masked = pic.masked
    BY <1>1 DEF Inv, Types
<1>6. apic' \in Apic /\ apic'.virt = TRUE
  <2>1. apic' = [[apic EXCEPT !.irr = FALSE] EXCEPT !.isr = TRUE]
      BY <1>1, <1>2
  <2>2. apic \in Apic /\ [apic EXCEPT !.irr = FALSE] \in Apic /\ [apic EXCEPT !.irr = FALSE].virt = TRUE
      BY <1>2 DEF Inv, Types, Apic
  <2>3. ASSUME NEW a \in Apic, a.virt = TRUE
        PROVE  [a EXCEPT !.isr = TRUE] \in Apic /\ [a EXCEPT !.isr = TRUE].virt = TRUE
      BY <2>3 DEF Apic
  <2> QED
      BY <2>1, <2>2, <2>3
<1>7. "stub" \notin KmainPc \union {"panic", "halt", Reset, "isr_handler", "apic_eoi", "iretq"}
    BY StageNames DEF Reset, AfterGdt, AfterPic, AfterLidt, AfterSti, AfterApic
<1>8. /\ frames' \in Seq(Frame) /\ Len(frames') = 1 /\ frames' # <<>>
      /\ Last(frames') = f /\ frames'[1] = f
  <2>1. frames \in Seq(Frame) /\ Len(frames) = 0
      BY <1>2 DEF Inv, Types
  <2>2. /\ frames' \in Seq(Frame) /\ Len(frames') = Len(frames) + 1 /\ frames' # <<>>
        /\ Last(frames') = f /\ frames'[Len(frames) + 1] = f
      BY <1>4, <2>1, NewFrame
  <2> QED
      BY <2>1, <2>2
<1>9. Types'
    BY <1>1, <1>3, <1>4, <1>5, <1>6, <1>8 DEF Inv, Types, Pc, HandlerPc
<1>10. Boot'
    BY <1>1, <1>2, <1>4, <1>6, <1>7 DEF Inv, Boot
<1>11. SetUp(f.pc)'
    BY <1>1, <1>2, <1>4, <1>5, <1>6 DEF SetUp
<1>12. faults \in Nat
    BY BootAssumption DEF Inv, Types
<1>13. Nesting'
  <2>1. \A k \in 1..Len(frames') :
           /\ frames'[k].vector = APIC_TIMER_VECTOR /\ k = 1 /\ frames'[k].pc \in AfterSti
           /\ SetUp(frames[k].pc)' /\ frames'[k].IF_ /\ apic'.virt
           /\ (frames'[k].pc = "asserted" => faults' > 0)
    <3> TAKE k \in 1..Len(frames')
    <3>1. k = 1 /\ frames'[k] = f
        BY <1>8
    <3>2. SetUp(frames[k].pc)'
        BY <1>11, <3>1 DEF SetUp
    <3> QED
        BY <1>1, <1>2, <1>4, <1>6, <3>1, <3>2
  <2>2. Len(frames') <= faults' + 1 /\ frames'[1].vector = APIC_TIMER_VECTOR
      BY <1>1, <1>2, <1>4, <1>8, <1>12
  <2> QED
      BY <1>1, <1>2, <1>4, <1>7, <1>8, <2>1, <2>2 DEF Nesting
<1>14. OnStack'
    BY <1>1, <1>4, <1>7, <1>8 DEF OnStack
<1> QED
    BY <1>9, <1>10, <1>13, <1>14 DEF Inv

-----------------------------------------------------------------------------
(* The handler. *)

(* While a handler runs the last frame is that of its event; if it is the  *)
(* timer's then it is the only one, and interrupted a stage of kmain.      *)
LEMMA LastFrame ==
    ASSUME Inv, pc \in {"stub", "isr_handler", "apic_eoi", "iretq"}
    PROVE  /\ Last(frames) \in Frame /\ Len(frames) \in Nat \ {0} /\ idt = 8
           /\ Last(frames) = frames[Len(frames)]
           /\ IF Last(frames).vector = APIC_TIMER_VECTOR
              THEN /\ Len(frames) = 1 /\ Last(frames).pc \in AfterSti
                   /\ SetUp(Last(frames).pc) /\ Last(frames).IF_ /\ apic.virt
                   /\ (Last(frames).pc = "asserted" => faults > 0)
              ELSE faults > 0
<1>1. frames \in Seq(Frame) /\ frames # <<>> /\ idt = 8
    BY DEF Inv, Types, Nesting
<1>2. Len(frames) \in Nat /\ Len(frames) # 0 /\ Len(frames) \in 1..Len(frames)
    BY <1>1
<1>3. frames[Len(frames)] \in Frame
    BY <1>1, <1>2
<1> QED
    BY <1>1, <1>2, <1>3 DEF Last, Inv, Nesting

(* Steps of a handler that leave the context alone keep the invariant on   *)
(* frames and tables.                                                      *)
LEMMA HandlerKeeps ==
    ASSUME Inv, UNCHANGED <<frames, faults, gdt, cs, idt, pic>>, apic'.virt = apic.virt,
           pc \in HandlerPc, pc' \in HandlerPc \union {"halt"}, pc = "panic" => pc' = "halt"
    PROVE  Nesting'
<1>1. pc' \notin KmainPc
    BY StageNames DEF HandlerPc, AfterGdt, AfterPic, AfterLidt, AfterSti, AfterApic
<1>2. pc' \in {"stub", "isr_handler", "apic_eoi", "iretq"} => frames # <<>>
    BY DEF Inv, Nesting, HandlerPc
<1>3. \A k \in 1..Len(frames) : SetUp(frames[k].pc) => SetUp(frames[k].pc)'
    BY DEF SetUp
<1> QED
    BY <1>1, <1>2, <1>3 DEF Inv, Nesting

(* The stub, isr_handler, apic_eoi and panic keep the invariant. *)
LEMMA HandlerInv ==
    ASSUME Inv, Stub \/ isr_handler \/ apic_eoi \/ Panic("panic") PROVE Inv'
<1> DEFINE f == Last(frames)
<1> USE DEF HandlerPc
<1>1. HandlerPc \cap (KmainPc \union {"halt", Reset}) = {} /\ "halt" \notin KmainPc \union {Reset}
    BY StageNames DEF Reset, AfterGdt, AfterPic, AfterLidt, AfterSti, AfterApic
<1>2. pc \in HandlerPc => IF_ = FALSE
    BY <1>1, StageNames DEF Inv, Types, Boot, AfterGdt, AfterPic, AfterLidt
<1>3. CASE Stub
  <2>1. /\ pc = "stub" /\ pc' = "isr_handler"
        /\ UNCHANGED <<vector, IF_, gdt, cs, idt, pic, apic, frames, faults>>
        /\ regs' = [regs EXCEPT !["rdi"] = "frame"]
      BY <1>3 DEF Stub, tables
  <2>2. stack' = StubStack(stack, f)
    <3>1. vector = f.vector /\ regs = f.regs
        BY <2>1 DEF Inv, OnStack
    <3> QED
        BY <1>3, <3>1, PopsReverse DEF Stub, StubStack
  <2>3. Stubbed(stack, f) /\ f \in Frame /\ stack \in Seq(Word)
      BY <2>1, LastFrame DEF Inv, OnStack, Types
  <2> HIDE DEF f
  <2>4. stack' \in Seq(Word) /\ Saved(stack', f)
      BY <2>2, <2>3, SavedStack
  <2>5. regs' \in [Registers -> RegValue]
      BY <2>1 DEF Inv, Types, RegValue
  <2>6. Types'
      BY <2>1, <2>4, <2>5 DEF Inv, Types, Pc
  <2>7. Boot'
      BY <1>1, <1>2, <2>1 DEF Inv, Boot
  <2>8. Nesting'
      BY <2>1, HandlerKeeps
  <2>9. OnStack'
      BY <2>1, <2>4 DEF OnStack, f
  <2> QED
      BY <2>6, <2>7, <2>8, <2>9 DEF Inv
<1>4. CASE isr_handler
  <2>1. /\ pc = "isr_handler"
        /\ UNCHANGED <<vector, IF_, gdt, cs, idt, pic, apic, stack, regs, frames, faults>>
        /\ pc' = IF Member(stack, "vector") = Num(APIC_TIMER_VECTOR) THEN "apic_eoi" ELSE "panic"
      BY <1>4 DEF isr_handler, tables, context
  <2>2. f \in Frame /\ Saved(stack, f) /\ stack \in Seq(Word)
      BY <2>1, LastFrame DEF Inv, OnStack, Types
  <2>3. Member(stack, "vector") = Num(f.vector)
    <3> HIDE DEF f
    <3>1. PICK b \in Nat : b = Base(f)
        BY <2>2, FrameBase
    <3>2. Len(stack) = b + 22 /\ stack[b + 7] = Num(f.vector)
        BY <2>2, <3>1 DEF Saved
    <3>3. Len(stack) - 15 = b + 7
        BY <3>2
    <3> QED
        BY <2>2, <3>2, <3>3, MemberPlaces
  <2>4. pc' = IF f.vector = APIC_TIMER_VECTOR THEN "apic_eoi" ELSE "panic"
      BY <2>1, <2>3 DEF Num
  <2>5. Types'
      BY <2>1, <2>4 DEF Inv, Types, Pc
  <2>6. pc' = "panic" => faults > 0
      BY <2>1, <2>4, LastFrame
  <2>7. Boot'
      BY <1>1, <1>2, <2>1, <2>4, <2>6 DEF Inv, Boot
  <2>8. Nesting'
      BY <2>1, <2>4, HandlerKeeps
  <2>9. OnStack'
      BY <2>1, <2>2, <2>4 DEF OnStack, Saved, Entered, Base, Last
  <2> QED
      BY <2>5, <2>7, <2>8, <2>9 DEF Inv
<1>5. CASE apic_eoi
  <2>1. /\ pc = "apic_eoi" /\ UNCHANGED <<vector, IF_, gdt, cs, idt, pic, stack, frames, faults>>
        /\ regs' = [r \in Registers |-> IF r \in CallerSaved THEN "clobbered" ELSE regs[r]]
      BY <1>5 DEF apic_eoi, tables
  <2>2. /\ f.vector = APIC_TIMER_VECTOR /\ Saved(stack, f) /\ apic.virt
      BY <2>1, LastFrame DEF Inv, OnStack
  <2>3. pc' = "iretq" /\ apic' = [apic EXCEPT !.isr = FALSE]
      BY <1>5, <2>2 DEF apic_eoi, EoiWritten
  <2>4. apic' \in Apic /\ apic'.virt = apic.virt /\ apic'.svr = apic.svr /\ apic'.irr = apic.irr
      BY <2>3 DEF Inv, Types, Apic
  <2>5. regs' \in [Registers -> RegValue]
      BY <2>1 DEF Inv, Types, RegValue
  <2>6. Types'
      BY <2>1, <2>3, <2>4, <2>5 DEF Inv, Types, Pc
  <2>7. Boot'
      BY <1>1, <1>2, <2>1, <2>3, <2>4 DEF Inv, Boot
  <2>8. Nesting'
      BY <2>1, <2>3, <2>4, HandlerKeeps
  <2>9. OnStack'
      BY <2>1, <2>2, <2>3 DEF OnStack, Saved, Entered, Base, Last
  <2> QED
      BY <2>6, <2>7, <2>8, <2>9 DEF Inv
<1>6. CASE Panic("panic")
  <2>1. /\ pc = "panic" /\ pc' = "halt" /\ IF_' = FALSE
        /\ UNCHANGED <<vector, gdt, cs, idt, pic, apic, stack, regs, frames, faults>>
      BY <1>6 DEF Panic, tables, context
  <2>2. Types'
      BY <2>1 DEF Inv, Types, Pc
  <2>3. Boot'
      BY <1>1, <2>1 DEF Inv, Boot
  <2>4. Nesting'
      BY <2>1, HandlerKeeps
  <2>5. OnStack'
      BY <2>1 DEF OnStack
  <2> QED
      BY <2>2, <2>3, <2>4, <2>5 DEF Inv
<1> QED
    BY <1>3, <1>4, <1>5, <1>6

\* Stack z is the lowest n words of s.
Lowest(z, s, n) == z \in Seq(Word) /\ Len(z) = n /\ \A i \in 1..n : z[i] = s[i]

(* Dropping words from a stack leaves those below. *)
LEMMA Drops ==
    ASSUME NEW s \in Seq(Word), NEW n \in Nat, n <= Len(s)
    PROVE  Lowest(SubSeq(s, 1, n), s, n)
<1>1. /\ Len(SubSeq(s, 1, n)) = n /\ \A i \in 1..n : SubSeq(s, 1, n)[i] = s[i]
    OBVIOUS
<1>2. SubSeq(s, 1, n) \in Seq(Word)
    OBVIOUS
<1> QED
    BY <1>1, <1>2 DEF Lowest

(* isr_common's pops and iretq restore what the timer interrupted. *)
LEMMA ReturnRestores ==
    ASSUME Inv, Return
    PROVE  LET f == Last(frames) IN
           /\ regs' = f.regs /\ pc' = f.pc /\ cs' = 8 /\ IF_' = f.IF_ /\ stack' = f.stack
<1> DEFINE f == Last(frames)
           g(r) == CHOOSE k \in 1..Len(Popped) : Popped[k] = r
<1>1. pc = "iretq" /\ f \in Frame /\ Saved(stack, f) /\ stack \in Seq(Word)
    BY LastFrame DEF Return, Inv, OnStack, Types
<1>2. PICK b \in Nat, n \in Nat : b = Base(f) /\ n = Len(f.stack) /\ n <= b
    BY <1>1, FrameBase
<1>3. f.regs \in [Registers -> RegValue] /\ f.stack \in Seq(Word)
    BY <1>1, FrameBase
<1> HIDE DEF f
<1>4. /\ Len(stack) = b + 22 /\ \A i \in 1..n : stack[i] = f.stack[i]
      /\ stack[b + 2] = Num(n) /\ stack[b + 3] = Flag(f.IF_)
      /\ stack[b + 4] = Num(8) /\ stack[b + 5] = Rip(f.pc)
      /\ \A k \in 1..15 : stack[b + 7 + k] = Val(f.regs[Pushed[k]])
    BY <1>1, <1>2 DEF Saved, Entered
<1>5. PICK hw \in Seq(Word) : hw = SubSeq(stack, 1, b + 5) /\ Lowest(hw, stack, b + 5)
  <2>1. PICK c \in Nat : c = b + 5 /\ c <= Len(stack)
    <3>1. Len(stack) = b + 22
        BY <1>4
    <3>2. b + 5 \in Nat /\ b + 5 <= b + 22
        OBVIOUS
    <3> QED
        BY <3>1, <3>2
  <2>2. Lowest(SubSeq(stack, 1, c), stack, c)
      BY <1>1, <2>1, Drops
  <2> QED
      BY <2>1, <2>2 DEF Lowest
<1>6. /\ hw[b + 5] = Rip(f.pc) /\ hw[b + 4] = Num(8) /\ hw[b + 3] = Flag(f.IF_)
      /\ hw[b + 2] = Num(n)
  <2>1. /\ hw[b + 5] = stack[b + 5] /\ hw[b + 4] = stack[b + 4] /\ hw[b + 3] = stack[b + 3]
        /\ hw[b + 2] = stack[b + 2]
      BY <1>5 DEF Lowest
  <2> QED
      BY <1>4, <2>1
<1>7. /\ Len(Popped) = 15 /\ Len(stack) - 15 - 2 = b + 5
      /\ Len(hw) - 0 = b + 5 /\ Len(hw) - 1 = b + 4 /\ Len(hw) - 2 = b + 3 /\ Len(hw) - 3 = b + 2
  <2>1. Len(hw) = b + 5
      BY <1>5 DEF Lowest
  <2>2. Len(stack) = b + 22
      BY <1>4
  <2>3. Len(Popped) = 15
      BY PopsReverse
  <2> QED
      BY <2>1, <2>2, <2>3
<1>8. /\ regs' = [r \in Registers |-> stack[Len(stack) + 1 - g(r)][2]]
      /\ pc' = hw[b + 5][2] /\ cs' = hw[b + 4][2] /\ IF_' = hw[b + 3][2]
      /\ stack' = SubSeq(stack, 1, hw[b + 2][2])
  <2>1. hw = SubSeq(stack, 1, Len(stack) - Len(Popped) - 2)
      BY <1>5, <1>7
  <2>2. /\ regs' = [r \in Registers |-> stack[Len(stack) + 1 - g(r)][2]]
        /\ pc' = hw[Len(hw) - 0][2] /\ cs' = hw[Len(hw) - 1][2] /\ IF_' = hw[Len(hw) - 2][2]
        /\ stack' = SubSeq(stack, 1, hw[Len(hw) - 3][2])
      BY <2>1, Zenon DEF Return
  <2> HIDE DEF g
  <2> QED
      BY <1>7, <2>2
<1> HIDE DEF g
<1>9. pc' = f.pc /\ cs' = 8 /\ IF_' = f.IF_
    BY <1>6, <1>8 DEF Num, Flag, Rip
<1>10. stack' = f.stack
  <2>1. stack' = SubSeq(stack, 1, n)
      BY <1>6, <1>8 DEF Num
  <2>2. Lowest(SubSeq(stack, 1, n), stack, n)
    <3>1. Len(stack) = b + 22
        BY <1>4
    <3>2. n <= Len(stack)
        BY <1>2, <3>1
    <3> QED
        BY <1>1, <3>2, Drops
  <2>3. stack' \in Seq(Word) /\ Len(stack') = n /\ \A i \in 1..n : stack'[i] = f.stack[i]
      BY <1>4, <2>1, <2>2 DEF Lowest
  <2> QED
      BY <1>2, <1>3, <2>3
<1>11. \A r \in Registers : stack[Len(stack) + 1 - g(r)][2] = f.regs[r]
  <2> TAKE r \in Registers
  <2>1. PICK k \in 1..15 : k = g(r) /\ Popped[k] = r
      BY PopsReverse DEF g
  <2>2. Pushed[16 - k] = r /\ 16 - k \in 1..15
      BY <2>1, PopsReverse, SMTT(60)
  <2>3. Len(stack) + 1 - k = b + 7 + (16 - k)
      BY <1>4
  <2>4. stack[b + 7 + (16 - k)] = Val(f.regs[r])
      BY <1>4, <2>2
  <2> QED
      BY <2>1, <2>3, <2>4 DEF Val
<1>12. regs' = f.regs
    BY <1>3, <1>8, <1>11
<1> QED
    BY <1>9, <1>10, <1>12 DEF f

(* The end of the timer interrupt keeps the invariant: what was interrupted *)
(* goes on with the tables it had, and nothing else was interrupted.       *)
LEMMA ReturnInv ==
    ASSUME Inv, Return PROVE Inv'
<1> DEFINE f == Last(frames)
<1>1. pc = "iretq" /\ UNCHANGED <<vector, gdt, idt, pic, apic, faults>> /\ frames' = Front(frames)
    BY DEF Return
<1>2. /\ f \in Frame /\ f.vector = APIC_TIMER_VECTOR /\ Len(frames) = 1 /\ f.pc \in AfterSti
      /\ SetUp(f.pc) /\ f.IF_ /\ apic.virt /\ idt = 8
      /\ (f.pc = "asserted" => faults > 0)
    BY <1>1, LastFrame DEF Inv, OnStack
<1>3. regs' = f.regs /\ pc' = f.pc /\ cs' = 8 /\ IF_' = f.IF_ /\ stack' = f.stack
    BY ReturnRestores
<1>4. frames' = <<>>
    BY <1>1, <1>2 DEF Front, Inv, Types
<1>5. /\ f.regs \in [Registers -> RegValue] /\ f.pc \in Pc /\ f.IF_ \in BOOLEAN
      /\ f.stack \in Seq(Word)
    BY <1>2, FrameBase
<1> HIDE DEF f
<1>6. Types'
    BY <1>1, <1>3, <1>4, <1>5 DEF Inv, Types
<1>7. pc' \in KmainPc /\ pc' \notin HandlerPc \union {"halt", Reset}
    BY <1>2, <1>3, StageNames
       DEF HandlerPc, Reset, AfterGdt, AfterPic, AfterLidt, AfterSti, AfterApic
<1>8. SetUp(pc)'
    BY <1>1, <1>2, <1>3 DEF SetUp, Inv, Boot
<1>9. Boot'
    BY <1>1, <1>2, <1>3, <1>7, <1>8 DEF Inv, Boot, HandlerPc
<1>10. Nesting'
  <2>1. Len(frames') = 0 /\ 1..Len(frames') = {}
      BY <1>4
  <2>2. Len(frames') <= faults' + 1
    <3>1. faults' \in Nat
        BY <1>1, BootAssumption DEF Inv, Types
    <3>2. PICK n \in Nat : n = faults'
        BY <3>1
    <3>3. 0 <= n + 1
        OBVIOUS
    <3> QED
        BY <2>1, <3>2, <3>3
  <2> QED
      BY <1>4, <1>7, <2>1, <2>2 DEF Nesting, HandlerPc
<1>11. OnStack'
    BY <1>7 DEF OnStack, HandlerPc
<1> QED
    BY <1>6, <1>9, <1>10, <1>11 DEF Inv

-----------------------------------------------------------------------------
(* The theorems. *)

(* kmain starts with no interrupted context, interrupts off and no gates. *)
LEMMA InitInv ==
    Init => Inv
<1> SUFFICES ASSUME Init PROVE Inv
    OBVIOUS
<1>1. /\ pc = "cli" /\ IF_ = FALSE /\ vector = 0 /\ gdt = LoaderGdt /\ cs = 40 /\ idt = 0
      /\ frames = <<>> /\ faults = 0 /\ regs = [r \in Registers |-> r]
      /\ pic \in [masked : BOOLEAN, pending : {{}}]
      /\ apic = [virt |-> FALSE, svr |-> FALSE, lvt |-> "masked", icr |-> 0,
                 irr |-> FALSE, isr |-> FALSE]
    BY DEF Init, LoaderGdt
<1>2. stack \in Seq(Word)
  <2>1. Num(0) \in Word
      BY Words
  <2>2. <<Num(0)>> \in Seq(Word) /\ <<>> \in Seq(Word)
      BY <2>1
  <2> QED
      BY <2>2 DEF Init
<1>3. pc \in KmainPc /\ pc \notin AfterGdt \union HandlerPc \union {"halt", Reset}
    BY <1>1, StageNames DEF HandlerPc, Reset, AfterGdt, AfterPic, AfterLidt, AfterSti, AfterApic
<1>4. apic \in Apic /\ apic.svr = FALSE /\ apic.irr = FALSE
    BY <1>1 DEF Apic
<1>5. pic \in [masked : BOOLEAN, pending : SUBSET (0..7)]
    BY <1>1
<1>6. Types
  <2>1. frames \in Seq(Frame) /\ regs \in [Registers -> RegValue]
      BY <1>1 DEF RegValue
  <2>2. faults \in 0..MaxFaults /\ vector \in 0..255
      BY <1>1, BootAssumption
  <2> QED
      BY <1>1, <1>2, <1>3, <1>4, <1>5, <2>1, <2>2 DEF Types, Pc
<1>7. Boot
  <2>1. SetUp(pc)
      BY <1>3 DEF SetUp, AfterGdt, AfterPic, AfterLidt, AfterSti
  <2> QED
      BY <1>1, <1>3, <1>4, <2>1 DEF Boot, HandlerPc
<1>8. Nesting
  <2>1. Len(frames) = 0 /\ 1..Len(frames) = {}
      BY <1>1
  <2> QED
      BY <1>1, <1>3, <2>1 DEF Nesting, HandlerPc
<1>9. OnStack
    BY <1>3 DEF OnStack, HandlerPc
<1> QED
    BY <1>6, <1>7, <1>8, <1>9 DEF Inv

(* Every step keeps the invariant. *)
LEMMA NextInv ==
    Inv /\ [Next]_vars => Inv'
<1> SUFFICES ASSUME Inv, [Next]_vars PROVE Inv'
    OBVIOUS
<1>1. CASE kmain
    BY <1>1, KmainInv
<1>2. CASE Handler
    BY <1>2, HandlerInv, ReturnInv DEF Handler
<1>3. CASE \E v \in Exceptions : Exception(v)
    BY <1>3, ExceptionInv
<1>4. CASE (\E q \in Irqs : PicFires(q)) \/ TimerExpires
    BY <1>4, DeviceInv
<1>5. CASE \E v \in Offered : Interrupts(v)
    BY <1>5, InterruptInv
<1>6. CASE UNCHANGED vars
  <2>1. UNCHANGED <<pc, vector, IF_, gdt, cs, idt, pic, apic, stack, regs, frames, faults>>
      BY <1>6 DEF vars
  <2>2. Types'
      BY <2>1 DEF Inv, Types
  <2>3. Boot'
      BY <2>1 DEF Inv, Boot, SetUp
  <2>4. Nesting'
    <3>1. \A k \in 1..Len(frames) : SetUp(frames[k].pc) => SetUp(frames[k].pc)'
        BY <2>1 DEF SetUp
    <3> QED
        BY <2>1, <3>1 DEF Inv, Nesting
  <2>5. OnStack'
      BY <2>1 DEF Inv, OnStack, Stubbed, Entered, Saved, Base, Last
  <2> QED
      BY <2>2, <2>3, <2>4, <2>5 DEF Inv
<1> QED
    BY <1>1, <1>2, <1>3, <1>4, <1>5, <1>6 DEF Next, Waits

(* The invariant holds in every state from boot on. *)
THEOREM InvariantHolds ==
    Spec => []Inv
    BY InitInv, NextInv, PTL DEF Spec

(* What isr_handler is given is the event that happened, on an aligned     *)
(* stack, and interrupts do not pile up on it, whichever exceptions and    *)
(* however many of them strike: the stubs push 0 for exactly the vectors   *)
(* for which the processor pushes no error code.                           *)
THEOREM HandlersAreSound ==
    Spec => []HandlersSound
<1>1. ASSUME Inv PROVE FrameRight
  <2> SUFFICES ASSUME pc = "isr_handler"
               PROVE  LET f == Last(frames) IN
                      /\ Member(stack, "error_code") = f.error
                      /\ Member(stack, "vector") = Num(f.vector)
                      /\ Member(stack, "rip") = Rip(f.pc)
                      /\ Member(stack, "rflags") = Flag(f.IF_)
                      /\ Member(stack, "rsp") = Num(Len(f.stack))
                      /\ \A r \in Registers : Member(stack, r) = Val(f.regs[r])
                      /\ Len(stack) % 2 = 0
      BY DEF FrameRight
  <2> DEFINE f == Last(frames)
  <2>1. f \in Frame /\ Saved(stack, f) /\ stack \in Seq(Word)
      BY <1>1, LastFrame DEF Inv, OnStack, Types
  <2> HIDE DEF f
  <2>2. PICK b \in Nat : b = Base(f) /\ b % 2 = 0
      BY <2>1, FrameBase
  <2>3. Len(stack) = b + 22
      BY <2>1, <2>2 DEF Saved
  <2>4. /\ stack[b + 2] = Num(Len(f.stack)) /\ stack[b + 3] = Flag(f.IF_)
        /\ stack[b + 5] = Rip(f.pc) /\ stack[b + 6] = f.error /\ stack[b + 7] = Num(f.vector)
        /\ \A k \in 1..15 : stack[b + 7 + k] = Val(f.regs[Pushed[k]])
      BY <2>1, <2>2 DEF Saved, Entered
  <2>5. /\ Len(stack) - 15 = b + 7 /\ Len(stack) - 16 = b + 6 /\ Len(stack) - 17 = b + 5
        /\ Len(stack) - 19 = b + 3 /\ Len(stack) - 20 = b + 2 /\ Len(stack) % 2 = 0
    <3>1. \A n \in Nat : n % 2 = 0 => (n + 22) % 2 = 0
        OBVIOUS
    <3>2. Len(stack) % 2 = 0
        BY <2>2, <2>3, <3>1
    <3> QED
        BY <2>3, <3>2
  <2>6. /\ Member(stack, "vector") = stack[Len(stack) - 15]
        /\ Member(stack, "error_code") = stack[Len(stack) - 16]
        /\ Member(stack, "rip") = stack[Len(stack) - 17]
        /\ Member(stack, "rflags") = stack[Len(stack) - 19]
        /\ Member(stack, "rsp") = stack[Len(stack) - 20]
        /\ \A k \in 1..15 : Member(stack, Popped[k]) = stack[Len(stack) - k + 1]
      BY <2>1, MemberPlaces
  <2>7. \A r \in Registers : Member(stack, r) = Val(f.regs[r])
    <3> TAKE r \in Registers
    <3>1. PICK k \in 1..15 : Popped[k] = r /\ Pushed[16 - k] = r
        BY PopsReverse
    <3>2. 16 - k \in 1..15 /\ Len(stack) - k + 1 = b + 7 + (16 - k)
        BY <2>3
    <3>3. stack[b + 7 + (16 - k)] = Val(f.regs[r])
        BY <2>4, <3>1, <3>2
    <3> QED
        BY <2>6, <3>1, <3>2, <3>3
  <2> QED
      BY <2>4, <2>5, <2>6, <2>7 DEF f
<1>2. ASSUME Inv PROVE TypeOK
    BY <1>2 DEF Inv, Types, TypeOK, Pc, KmainPc, HandlerPc, RegValue, Apic
<1>3. Inv => HandlersSound
    BY <1>1, <1>2 DEF HandlersSound, NestingBounded, Inv, Nesting
<1> QED
    BY <1>3, InvariantHolds, PTL

(* Only an exception stops the kernel: whatever the lines of the PIC and   *)
(* the timer do from sti on, no device interrupt panics or resets, and     *)
(* after lidt nothing resets.                                              *)
THEOREM StopsAreFaults ==
    Spec => []StopsOnlyFaulted
<1>1. Inv => StopsOnlyFaulted
    BY DEF Inv, Boot, StopsOnlyFaulted, NoStray, ResetsOnlyEarly
<1> QED
    BY <1>1, InvariantHolds, PTL

(* The end of an interrupt leaves no trace in the code it interrupted: the *)
(* registers, the flag, the place and the stack are the ones it had.       *)
THEOREM InterruptsResume ==
    Spec => Resumed
<1>1. ASSUME Inv, [Next]_vars, frames # <<>>, frames' = Front(frames)
      PROVE  LET f == Last(frames) IN
             /\ regs' = f.regs /\ pc' = f.pc /\ IF_' = f.IF_ /\ stack' = f.stack
  <2>1. frames \in Seq(Frame) /\ Len(frames) \in Nat \ {0}
      BY <1>1 DEF Inv, Types
  <2>2. Len(frames') = Len(frames) - 1
    <3>1. PICK n \in Nat : n = Len(frames) - 1 /\ n <= Len(frames)
      <4>1. \A m \in Nat \ {0} : m - 1 \in Nat /\ m - 1 <= m
          OBVIOUS
      <4>2. Len(frames) - 1 \in Nat /\ Len(frames) - 1 <= Len(frames)
          BY <2>1, <4>1
      <4> QED
          BY <4>2
    <3>2. Len(SubSeq(frames, 1, n)) = n
        BY <2>1, <3>1
    <3> QED
        BY <1>1, <3>1, <3>2 DEF Front
  <2>3. frames' # frames
      BY <2>1, <2>2
  <2>4. \A f : Len(Append(frames, f)) # Len(frames) - 1
      BY <2>1
  <2>5. \A v, e : ~Enter(v, e)
      BY <2>2, <2>3, <2>4 DEF Enter
  <2>6. Return
    <3>1. ~kmain
        BY <2>3 DEF kmain, Plain, Goes, Cli, Revision, GdtInit, pic_disable, Lidt, Sti, ApicStage,
                    EnableApic, EnableSvr, Calibrate, SetLvt, SetIcr, AhciAsserts, Panic, context
    <3>2. ~(Stub \/ isr_handler \/ apic_eoi \/ Panic("panic") \/ TimerExpires)
        BY <2>3 DEF Stub, isr_handler, apic_eoi, Panic, TimerExpires, context
    <3>3. ~(\E q \in Irqs : PicFires(q)) /\ ~UNCHANGED vars
        BY <2>3 DEF PicFires, context, vars
    <3>4. ~(\E v \in Exceptions : Exception(v)) /\ ~(\E v \in Offered : Interrupts(v))
        BY <2>5 DEF Exception, Interrupts
    <3> QED
        BY <1>1, <3>1, <3>2, <3>3, <3>4 DEF Next, Handler, Waits
  <2> QED
      BY <1>1, <2>6, ReturnRestores
<1>2. ASSUME Inv, [Next]_vars
      PROVE  [frames # <<>> /\ frames' = Front(frames) =>
                LET f == Last(frames) IN
                /\ regs' = f.regs /\ pc' = f.pc /\ IF_' = f.IF_ /\ stack' = f.stack]_vars
    BY <1>1, <1>2
<1> QED
    BY <1>2, InvariantHolds, PTL DEF Spec, Resumed
=============================================================================
