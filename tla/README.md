# Verification of the Dos-Kernel

TLA+ models of the kernel under `kernel/`, checked with TLC on small instances
and, for about half of the properties, proved with TLAPS for every size of the
machine.
Paths below are relative to the repository; `memory/heap.c` and the like are
under `kernel/src/`.

## The system

The kernel is a single-processor x86-64 kernel started by the Limine boot
loader. `kmain` (`main.c`) brings up the components in a fixed order and halts;
from then on only the timer interrupt runs. There are no threads. What is
concurrent is the hardware and what interrupts the code: the processor's page
walker beside the code that edits page tables, the AHCI host bus adapter (HBA)
beside the driver, the PIC, the local APIC and exceptions beside everything, and
a panic in the middle of a line of the log.

| Component | State | Operations | Interacts with |
|---|---|---|---|
| Frame allocator, `memory/frame.c` | `page_list`, and the first word of every free frame | `frame_init`, `frame_alloc`, `frame_free` | everyone who needs physical memory; callers own the word the list uses |
| Heap, `memory/heap.c` | `free_list`, `heap_top`, block headers | `kmalloc`, `kfree`, `krealloc`, `heap_expand` | frames, page tables |
| Page tables, `memory/paging.c`, `tlb.c` | the tables, CR3, the TLB | `paging_init`, `paging_map_page`, `paging_unmap_page`, `paging_create_pml4` | frames; the processor walks the tables |
| VM spaces, `memory/vm.c`, and MMIO, `memory/mmio.c` | regions of a space, kept in frames; `next_free` | `vm_alloc`, `vm_map`, `vm_free`, `vm_space_destroy`, `mmio_init`, `mmio_destroy`, ... | frames, page tables |
| Byte routines, `memory.c` | none of their own | `memset`, `memcpy`, `memmove`, `memcmp` | everyone |
| AHCI, `storage/ahci.c`, and PCI, `pci/pci.c` | port registers, command lists and tables, `g_abars` | `ahci_init`, `port_rebase`, `ahci_read`, `ahci_write` | HBA (DMA, PxCI), configuration space, page tables |
| FAT16, `fs/fat16.c` | the list of volumes | `fat16_init`, `fat16_format`, `fat16_read` | AHCI, heap, frames |
| Interrupts and boot, `main.c`, `x86_64/{gdt,idt,apic,pic}.c`, `isr.asm` | GDT, IDT, LAPIC, PIC registers, the stack | `kmain`, `gdt_init`, `idt_init`, `enable_apic`, `apic_timer_init`, `isr_common`, `isr_handler` | VM spaces (the LAPIC's page), log |
| Log and panic, `logging/{format,printk,serial}.c`, `panic.c` | one 1024-byte buffer | `printk_level`, `vprintk_level`, `format`, `panic` | terminal |
| Terminal, `logging/flanterm.c` | parser, attributes, modes, scroll region | `flanterm_write` and the other calls of `flanterm.h` | backend |
| Framebuffer backend, `logging/flanterm_backends/fb.c` | grid, queue, map, cursor; the pool | the function pointers of the context, `flanterm_fb_init`, `deinit` | framebuffer memory |
| VFS, `fs/vfs.c` | none (stubs) | | |

What is hard in this code, with the line where it bites, is the list `hazards`
of `PROJECT.json`. In short: a free list whose links live in memory other people
write; an allocator whose splits must keep the heap tiled; tables that the
processor reads while they are edited; a device that works on shared memory on
its own time and whose commands can outlive the call that issued them; operations
that fail half way; loops that wait for something unbounded; interrupts at every
instruction of boot; a byte-driven parser with a dozen modes that a sequence cut
off half way leaves behind; and a display that is drawn later than it is written.

## The modules

| Module | Models | Kind |
|---|---|---|
| `FramePool` | what a frame allocator promises: a set of frames, alloc and free | abstract specification |
| `FrameAllocator` | `memory/frame.c` | component; implements `FramePool` |
| `Heap` | `memory/heap.c` | component |
| `Paging` | `memory/paging.c`, `memory/tlb.c`, `vm_switch` | component beside the page walker |
| `Vm` | `memory/vm.c`, `memory/mmio.c` over the frame allocator's list | components composed with frames and mappings |
| `ByteRoutines` | `memory.c` | algorithms, a byte at a time |
| `Ahci` | `port_rebase`, `ahci_read`, `ahci_write` of `storage/ahci.c` | component beside the HBA |
| `AhciProbe` | `ahci_init`, `ahci_probe_ports` and the DMA window; `pci/pci.c` | component |
| `FatSize` | `fat16_compute_fat_size` of `fs/fat16.c` | algorithm |
| `Fat16` | the rest of `fs/fat16.c` over disks whose writes fail | component |
| `Interrupts` | `main.c`, `gdt.c`, `idt.c`, `isr.asm`, `pic_disable`, `enable_apic`, the halt of `panic.c` | component beside processor and interrupt controllers |
| `ApicTimer` | the calibration in `apic.c` | component beside PIT and APIC counter |
| `Screen` | what a terminal's backend promises: a grid and a display | abstract specification, and the operators `Terminal` calls |
| `Framebuffer` | `fb.c`: grid, queue, map, cursor | component; implements `Screen` |
| `Plot` | `fb.c`: geometry, `plot_char`, canvas | algorithm |
| `FbInit` | `fb.c`: contexts, the pool, init and deinit | component |
| `Terminal` | `flanterm.c` | component over `Screen` |
| `Printk` | `printk.c`, `panic.c` | component composed with `Terminal` |
| `Format` | `format.c` | component |
| `FrameAllocatorProofs`, `HeapProofs`, `PagingProofs`, `VmProofs`, `AhciProofs`, `FramebufferProofs`, `InterruptsProofs` | | proofs about the module each is named after; `HeapProofs` also about `ByteRoutines` |
| `DeviceProofs` | | proofs about `FatSize`, `Fat16`, `ApicTimer`, `AhciProbe` and `FbInit` |
| `MC*` | instances for TLC | |

A definition whose comment starts with "Mutant of" is a faulty variant of the
definition it precedes; it is used by no specification. It documents which
mistake a property would catch.

### FramePool and FrameAllocator

`next[f]` is the first word of frame `f`. While `f` is free the word is the
allocator's link; while it is held the word is the holder's, and `HolderWrites`
lets the holder store anything in it, the address of another frame included. So
`frame_alloc`, which follows `page_list` and believes the word it finds, is
modelled with everything that could mislead it. `frame_init` runs one iteration
at a time over an arbitrary memory map, of which only the boot protocol's
guarantees are assumed (`MemMapAssumption`: usable entries are RAM, disjoint, and
do not contain frame 0). Callers free only what they hold: the code has no check
and no way to make one.

`ImplementsPool` is the refinement: the free set of `FramePool` is `Free`, the
seeded frames nobody holds.

### Heap

A block is the offset of its header from `HEAP_START`. The list is a sequence,
since its words are in headers and callers do not write those. `kmalloc` is
several steps: the search (`Take`, or `NoFit`), the pages of `heap_expand`, and
the tail call (`Again`), which searches again with the size already rounded.
`Round` wraps at `WORD`. `krealloc`'s epilogue (copy, free of the old block) is
part of the step in which its `kmalloc` returns (`Finish`). `want` remembers
what each caller asked for. When `frame_alloc` returns 0 the code maps physical
page 0 into the heap; and when a size wraps to 0 in `Round`, the block `krealloc`
copies into has no room for the old payload (`Overruns`). Either overwrites the
heap: the model records it in `corrupt` and stops.

### Paging

Tables are functions from indexes to entries; an entry is `NP` or a frame or page
number. `map_page` and `unmap_page` are modelled one table access at a time
(`Descend`, `NewTable`, `LinkTable`, `StoreEntry`, `NothingToUnmap`), and
`TlbFill`, the processor's walk, may cache any present translation between any
two accesses. `paging_init` is a range operation of its own that ends with a
reload of CR3. As in the kernel, ranges of the kernel half are mapped through
`kernel_pml4`, or through a space that has the top-level entry already, as
`enable_apic` does (every page of the range, not only the first, must have its entry),
and a range does not cross the halves (`Allowed`). `PowerAssumption` states the laws
of exponentiation the index arithmetic needs, which the prover does not know; TLC
evaluates it. With no frame
left the code uses physical page 0 as a table; the model records it in `short`
and stops. Flag bits and the boot loader's large pages are left out.

### Vm

Frames are even numbers and `f + 1` is the address of the record inside an
`mmio_region` at `f`, so that an address inside a frame can reach the allocator,
as it does in the code. A space is a record: the frame of its PML4, `next_free`,
the head of its region list, its mappings, and the frames of its lower tables.
`vm_alloc`, `vm_alloc_at`, `vm_map`, `vm_map_at` and `mmio_init` begin an
operation that maps page by page (`MapNext`) and ends by inserting the region
(`MapEnd`). `vm_free` frees page by page (`FreeNext`), unmaps (`FreeUnmap`) and
walks the list (`WalkNext`, `WalkFound`, `WalkEnd`); `vm_space_destroy` runs it
for every region (`DestroyNext`), with `next` read beforehand as in the code.
Tables are never given back, and neither is the space's own frame. One lower
table stands for the three that `map_page` may have to make, since the properties
tell apart only whose frame it is. A mapping is a page and an address: flags are
left out. `SIZES` are sizes already rounded up to pages; those whose rounding, or
whose end (`next_free + size`), wraps in 64 bits (`vm.c:52-54`) are left out, which
is an assumption about the callers.

What callers are assumed to do: for the `_at` calls they choose addresses outside
the heap and outside of every region, they free regions whole or from some page
on (then the walk finds no region and the record stays), and they use no destroyed
space. The
code checks none of this. A failed assertion sets `panicked`. The model stops
(`broken`) when the code goes on with page 0, with a frame that still holds a
listed record, or after a device's page went onto the free list.

### ByteRoutines

One memory, one call at a time, one byte per step, and `old`, the memory before
the call. The direction `memmove` takes is decided when it is called, as in the
code. `memcpy` is only called on areas that do not overlap, as C has it.

### Ahci and AhciProbe

`Ahci` is one port. `pc` follows the driver through `stop_cmd`, `port_rebase`,
`start_cmd` and then through calls. Each register access is a step; `ci |= 1 <<
slot` is two (`ReadCi`, `WriteCi`), because the HBA clears bits of PxCI in
between. The HBA
(external) fetches a command's table at any time while its bit is set
(`HbaFetch`), performs the DMA (`HbaTransfer`), then clears the bit
(`HbaComplete`); it may instead report an error, after which it fetches nothing
until ST is cleared. PxCI ignores zeros and a 1 sets a bit. A spin that is
exhausted returns with the bit still set: the command is abandoned (`lost`) but
may still be executed. `Built` includes the `memset` that runs past the slot's
table. The refusal of a command without sectors (`PRDT` 0) also stands for that of
a controller that does not exist. `runs`, `result`, `shadow` and `lost` only record
history.

`AhciProbe` is the scan before it. `pci` is the configuration space of every
function, as bytes, since the code reads the same double word by word and by
byte; a function that is absent answers with ones. The three nested loops are the
position `at` and `func_limit`, which is decided at function 0. A controller
found is probed port by port; `Areas` is the arithmetic of `port_rebase` on
addresses, with the table of every slot, and `Cleared` what `ahci_read` and
`ahci_write` clear to build a command. The machine (`pci`) is chosen in `Init` and
stays. Two machines stop at boot (`Panicked`): one whose AHCI registers do not begin
at a page (an assertion of `paging_map_page`), and one that implements port 30 or
31, whose registers lie behind the 0x1000 bytes that are mapped (`MappedPort`).

### FatSize and Fat16

`FatSize` is the loop of `fat16_compute_fat_size`, one iteration per step, with
the wraparound of its unsigned arithmetic. `Fat16` takes its result as the
function `SizeOf`. `fat16_format` writes sector by sector: `WriteOk`, or
`WriteFails`, after which the sector may have been written, may not, or may be
written later (`abandoned`, `LateWrite`), with what the freed frame then holds.
A sector's content is its kind, for the boot sector with the fields that
`fat16_validate` reads. `read_fat` and `fat16_init` count the frame and the heap
blocks they hold.

### Interrupts and ApicTimer

`kmain` is a program counter over its stages. The stack is a sequence of words
with the interrupted context's length as `rsp`, so that the alignment the
processor makes, the error code some vectors push and the stubs' dummy, and the
order of pushes and pops in `isr_common`, are all there; a register holds its own
name until C code clobbers it. The GDT's descriptors are what `gdt_init` encodes,
and a gate or `iretq` that meets a wrong one resets the machine, as does an
exception before `lidt`. Exceptions may come at any step, the PIC's lines (with
the vectors the firmware left) and the APIC timer whenever they are enabled and
`IF` is set; the NMI may come in the loops around `hlt` of `panic` and of `kmain`
as well. The work of a stage is in the stage's own module; here it is the
opportunity to be interrupted. Of the assertions in the stages the one that the
hardware decides, alignment of the AHCI registers, may fail (`AhciAsserts`); it
calls `panic` as an exception does. The others hold of the constants their callers
pass.

`ApicTimer` counts time in PIT clocks; every register access takes any of `Gaps`
of them. The rate (`hz`) is chosen in `Init`, and so is what the PIT's output does in
the mode the code programs, mode 2: by its data sheet it is high but for the last
clock of a period, while an emulator may show a pulse at its end
(`pulses`). The interval is the code's expression with its truncation to 32 bits.

### Screen, Framebuffer, Plot and FbInit

`Screen` says what the function pointers of `struct flanterm_context` promise: a
grid that changes at once, a display that shows it after the next flush with the
cursor's cell inverted. Its operators take and return a screen, so that
`Terminal` can call several of them for one byte.

`Framebuffer` is the backend as written: `grid` is what was last drawn, `queue`
and `map` what has changed since. `scroll`, `revscroll` and `clear` push cell by
cell (`todo`), each push reading its source when it is made, since that is where
an order could be wrong. The refinement `ImplementsScreen` maps a cell to its
queued character if there is one; an operation in progress maps to the screen
before it.

`Plot` is what `plot_char` does with a cell: the geometry that `flanterm_fb_init`
computes for a rotation, a scale, margins and a limit, and then the writes to the
framebuffer, as addresses. The reference is a picture drawn as the viewer of the
rotated display sees it. `FbInit` is the allocation side, in bytes and with the
code's real constants: the bump pool with its alignment, the caller's allocator,
which may fail at any of the allocations, and `deinit` with what it gives back.
`flanterm_fb_init` may be refused for its colour masks (`BadMasks`), and may be
given a malloc without a free, in which case what was allocated stays (`nofree`).
Such a context is never given back: `deinit` with a free of NULL would reset the pool
even if another context had it (`fb.c:1060`). No caller does either.

`full_refresh` draws only what is in the grid and is modelled when the queue is
empty. Its only caller is the end of `flanterm_fb_init`, where it is; a later call
with items queued would leave a second cursor.

### Terminal and Printk

`Terminal` handles one byte per step (`Byte`), through the same layers as
`flanterm_putchar`: abandoned sequences, UTF-8, the escape states, character sets,
controls, printing. Escape values saturate and are limited in number as in the
code. `par`, `att` and `scr` are the fields of the context, split by owner. `ref`
is history: the colours a terminal without reverse video would have, and the
UTF-8 sequence under way according to the definition of UTF-8. The tables of code
page 437 and of widths are parameters.

`Printk` writes character by character through that terminal, with the level's
colour, the prefix on each line and the buffer of `vprintk_level`. A fault stops
the writer between two characters for good, and `panic` writes its report through
the same context, in whatever state the parser is; `panic` itself may fault, too.
Without a framebuffer `printk_init` returns and leaves `ft_ctx` NULL: the first
character is written through it (`print_null`), before there is an IDT, and the
machine resets.

### Format

One character of the format string per step, from any directive to any other.
`at` is the label of the code that reads next, `d` the flags, width, precision and
length. `ref` is what the C standard makes of the same directive and the
arguments it takes. A directive that is none is printed from its `%` on, and a `%`
that made it invalid begins the next one; a NUL of which no byte was read ends the
string as it does in the code; the negative of a width of `INT_MIN` wraps. `FormatExact` claims nothing of
invalid directives (`ref.conv` is none), of precisions that are 0 or negative, and of
such widths (`Awkward`).

## The runs

Six of the MC modules put two or three models of one area side by side. A
variable (`part`, or `user` in `MCTerminal`) is chosen in the initial state and
says which of them moves in a behaviour; the others stay as they began. So each
run asks one area's questions, and the states are the sum of the parts', not the
product.

| Run | Instance | Shows |
|---|---|---|
| `frames` | 4 frames in two usable entries around a reserved one | `FreeListExact`, `ImplementsPool` |
| `heap` | pages of 12 units, header 3, alignment 2, word 64, two frames, sizes 0, 2, 8, 9, 63 | `BlocksSound`, `CopyFits`, `KmallocReturns` |
| `paging` | three levels of two entries, seven frames, ranges of two pages from page 1 (crosses a level-1 table) and 4 (kernel half) | `TlbCoherent`, `TablesSound`, `OthersUntouched` |
| `vm` | two spaces, heaps of two pages and one page beside, eight frames, one device page | `FramesOnce`, `RegionsSound`, `OperationsEnd` |
| `vm_aligned` | the same | `AlignedFrames` is violated |
| `ahci` | port: two slots, one buffer, two values, one sector, three calls, one poll more than none, PRDT 0 to 3 with limit 2. Scan: one bus, two slots of two functions with six kinds of configuration, at most two controllers, ports 28 to 30 | `SuccessRanOnce`, `HbaApart`, `TransfersExact`, `PortReturns`; `FoundExact`, `WritesConfined`, `ScanEnds` |
| `fat16` | sizes: the real constants but for a word of 2^30 (TLC's integers have 32 bits); totals around every limit. Volumes: two disks, FATs of one and two sectors, a root directory of two, totals 65535 and 65536 and one refused, three calls | `LayoutFits`, `FatSizeReturns`; `VolumesSound`, `FormatSafe` |
| `terminal` | 3 by 3 cells; editing sequences (3 writes), colours (4), pieces of sequences (4), UTF-8 bytes (5), and the log with two lines and two faults | `StateSound`, `ReverseExact`, `EditExact`, `TextExact`, `LogExact` |
| `framebuffer` | cells: 2 by 3, two characters, two colours, four operations and any number of flushes. Pixels: cells of 3 by 2, four rotations, nine sizes, limits, scales, margins, canvas, two characters. Pool: real constants, 54 sizes of screen, three contexts; the same with a pool of 40000 bytes | `BackendSound`, `ImplementsScreen`; `PixelsExact`; `PoolSound`, `PoolSuffices` |
| `library` | four bytes of two values, all calls; all format strings over 23 characters with numbers up to 8, words of 6 bits | `MoveExact`, `CompareExact`; `DirectivesExact` |
| `format_c` | the same | `FormatConforms` is violated |
| `interrupts` | NMI and two exceptions with an error code, two PIC lines, two faults; the calibration with 2 PIT clocks to the millisecond, 3 APIC counts to the clock, a word of 2^14, rates 500, 1000 and 2000, both outputs of the PIT | `HandlersSound`, `StopsOnlyFaulted`, `Resumed`, `TimerServed`; `TimerCalibrated` |

Most properties are conjunctions whose parts are named and commented in the
component's module: `BlocksSound` is `TypeOK`, `EveryBlockOnce`, `Tiling` and
`PayloadFits`; `TablesSound` adds `RangeDone` and `KernelHalfShared` to the types;
`RegionsSound` is the types, `RegionsCover` and `DestroyEmpties`; `HbaApart` is
`RebaseWhileStopped`, `OnlyCurrentRuns` and `DiskDurable`; `TransfersExact` is
`TablesStable` and `ReadsLastWrite`; and so on.

Why the bounds are enough for what can go wrong:

- `frames`: two frames suffice for a cycle, a double visit or a lost tail; four
  allow an insertion while two frames are held and two are free, and two usable
  entries with a gap exercise `frame_init`'s skip.
- `heap`: the units keep the relations of the real sizes (header not a multiple
  of the alignment, page payload not a multiple of it either). The sizes are one
  that splits twice, the largest that fits a page, the first that does not, one
  whose rounding wraps, and 0. Two pages make lists of up to four blocks, so
  blocks are unlinked from the front, the middle and the end.
- `paging`: two entries per table give every range a neighbour in each table;
  three levels have a top, a middle and a last level, which are the three cases
  of the code's four. Seven frames allow two more spaces with tables of their own.
- `vm`: with two spaces and four to six frames beside theirs, lists of two and
  three regions come about, records are removed from the front and from behind,
  and frames move from one space to the other in either order. The third page,
  outside the heap, is where the `_at` calls map and where reuse is possible.
- `ahci`: with two slots and three calls the first two can be abandoned, so the
  third meets a full list, a slot that completes late, a stale value of PxCI, or
  a neighbouring table that the HBA still holds. `MAXSPIN` of 1 allows a poll
  that continues and one that gives up. The scan's machines have a controller at
  either function of either slot, with or without the multi-function bit at
  function 0, an absent function before a present one, and three controllers
  where two are allowed, a controller whose registers begin within a page, and one
  with an I/O address; ports 28 to 30 are two whose registers are mapped and one
  whose registers are not. The proof covers all 32.
- `fat16`: the totals include the smallest and largest volumes accepted, the
  first ones refused, sizes smaller than the overhead, and ranges in which the
  rounding changes. Three calls allow a format that fails, one with another size
  that succeeds, and a `fat16_init`; two disks are enough for equal ids.
- `terminal`: with three rows a scroll region has a row above or below it; the
  first write of an editing program fills the screen with different letters, sets
  region and origin mode and puts the cursor in the middle, in a corner or past
  the last column, so the two that follow meet every combination. The parser's
  pieces are single bytes, so that four of them reach each state and leave it by
  each kind of byte. Five bytes are a character of UTF-8 cut off by another one.
  The buffer is shorter than the longest panic text.
- `framebuffer`: four operations are one cell changed twice, a scroll over it and
  a cursor moved away and back, with flushes in between. The pool's screens
  include the limits, one more and one less.
- `library`: areas of up to three bytes have every overlap; two flags, width and
  precision of a directive are followed by any other directive.
- `interrupts`: two faults are an exception in the handler of another or of a
  timer tick. The horizon of the calibration holds four waits, the last of which
  overflow the product; the rates are `kmain`'s, half and twice it.

### What the runs do not promise

- `PayloadFits` excludes sizes within 15 bytes of 2^64, which round to 0. `CopyFits`
  does not: it says that for them the new block of `krealloc` is too short, and that
  nothing but such a size or exhausted memory corrupts the heap. Nothing is claimed
  of a corrupted heap.
- `KmallocReturns` covers requests that fit a page (4072 bytes, rounded). Larger
  ones add pages for ever, since adjacent blocks are never merged.
- `OnlyCurrentRuns`, `DiskDurable` and `ReadsLastWrite` hold while no call was
  abandoned with its command in PxCI. After that DMA may reach a buffer whose
  call has returned; `SuccessRanOnce` and `PortReturns` hold in any case.
- `WritesConfined` says where writes go, not that they are harmless: clearing the
  table of a command with several PRDT entries enters the table behind it, which for
  slot 31 is the next port's (`ahci.c:186`), and for slot 31 of port 31 the end of
  the areas. Within a port `TablesStable` says when that hurts: only a command that
  was abandoned. Port `i` of two controllers is given the same areas, and the window
  at `AHCI_BASE` is not taken from the frame allocator.
- `ScanEnds` allows the two panics of `Panicked`.
- `LayoutFits` counts an entry of the FAT for each cluster, as the code does.
  Clusters are numbered from 2, and `fat16_format` fills entries 0 and 1, so two
  entries more would be needed: `LayoutFits` also says for which numbers of clusters
  they are missing (those that fill the last sector to its end, or but for one
  entry), and the totals around 262433 of the run are such volumes.
- `KernelHalfShared` lets an address space miss kernel mappings whose top-level
  entry was created after the space; it shows no wrong ones.
- `FramesOnce`, `RegionsCover` and `DestroyEmpties` hold until the record of an
  MMIO mapping is given to the allocator (`released`).
- `FatSizeReturns` says that the loop ends for volumes for which some size agrees
  with itself. There are others, 32841 sectors for one, for which the code alternates
  between two neighbouring sizes for ever; it shows that there is no other way.
- `FormatComplete` states the layout the code writes: the second FAT begins
  without the media marker. After a format that failed, the disk may have a valid
  boot sector and old FATs.
- `ReverseExact` excepts intensities and resets asked for in reverse video while a
  default colour is selected (`FrontDefault`).
- `ParserShape` allows `dec_private` to outlive a sequence that an ESC or CAN cut
  off, as the code does: the next CSI sequence is then taken for a private one.
- `CompareExact` states the sign the code has, which is the opposite of C's; its
  callers test for 0 only.
- `TimerCalibrated` says what the calibration comes to, which is not always the rate
  asked for. `apic_timer_init` multiplies by `hz` and divides by it again, so the
  timer has 1000 Hz for every rate (`RateIgnored`); `kmain` asks for 1000. With an
  output that pulses it is never faster than that (`AtMostKilohertz`), for counts
  whose product fits 32 bits, and slower if the loop misses pulses. With the output
  of the data sheet, high when the wait begins, the wait ends at once
  (`WaitEndsAtOnce`) and the timer is too fast by orders of magnitude. That the poll
  ends at all is not claimed: it has no bound and depends on the pulses it sees.
- `NoLeak` of `FbInit` leaves out calls that were given a malloc and no free.
- `TimerServed` excepts a kernel that an exception, a failed assertion, or a boot
  loader it does not support has stopped.

### Where the code departs from what it says

- `vm_aligned`: `mmio_init` enters a region in the space's list that lies at
  offset 24 of its frame. `vm_space_destroy` has it freed like the others, and the
  allocator returns an address that is no frame. The next `vm_alloc` fails
  `ASSERT(paddr % 0x1000 == 0)` in `paging_map_page`.
- `format_c`: `format.h` promises a string "as described by the C specification".
  With an explicit precision of 0 digits are lost (`%.d` of 10 prints 1), a
  negative precision given by `*` cuts strings to one character, and `%#.0o` of 0
  prints nothing. `DirectivesExact` shows that all other directives
  conform, but for a width argument of `INT_MIN`, of which C says nothing.
- Not a run: `vm.h` defines `VM_USER` as bit 3, but the bits go into the page table
  entry as they are, where bit 3 is PWT and bit 2, `VM_EXEC`, means user.

### Fairness

All of it is weak. `Heap!FairSpec`, `Vm!FairSpec`, the size computation of
`FatSize` and the scan of `AhciProbe` have fairness of the code's own steps within
a call: one processor, no scheduler, interrupts return. `Ahci` has that of the
driver's steps and of `HbaEngine`, that is, CR and FR eventually follow ST and
FRE, which `stop_cmd` and `start_cmd` need since they wait without a limit. The
HBA is never assumed to fetch, complete or report anything. `Interrupts` has
fairness of `kmain`, of the handler's code, of the timer's expiry (a periodic
timer that counts) and of the delivery of its vector when it is pending and
enabled; exceptions and legacy lines have none. The other specifications have
none: their properties are safety properties, and the callers of a terminal or
an allocator may stop calling. Deadlock is checked except in `terminal` and
`framebuffer`, whose callers stop after a bounded number of calls.

## The proofs

`FrameAllocatorProofs` proves, for every set of frames and every memory map
within `MemMapAssumption`, `TypeCorrect`, `ListExact` and `Refinement`. The
inductive invariant `IInv` is `TypeOK`, `FreeListExact` and that what is held was
seeded. `FreeListExact` says that some enumeration of the free frames starts at
`page_list` and follows the link words; the lemmas `EmptyList`, `PushList`,
`PopList` and `WriteList` say what the four kinds of step do to such an
enumeration, and `SeedOne` and `SeedNone` what an iteration of `frame_init` adds.
Disjointness of the usable entries is needed exactly in `SeedOne`: an entry
reported twice would put its frames on the list twice. The refinement follows
from the same invariant step by step.

`HeapProofs` proves `BlocksOnce`, `HeapTiled` and `PayloadsFit`, and together
`HeapSound`, for every page, header, alignment and word size within
`HeapAssumption`, any number of frames and any sequence of requests. The invariant
adds to `TypeOK` and the three properties that no block reaches beyond `heap_top`
(`BelowTop`), without which a new page might overlap one, and that the rounded
size of a request in progress is enough for what was asked (`ReqFits`).
`PushFront`, `Unlink` and `Relink` are about the three changes of the list,
`Rounding` about `(size + 15) & ~15`.
`CopiesFit` (the action property `CopyFits`) covers the sizes that wrap as well. It
needs one fact more, `OldSmaller`:
while `krealloc` waits for its `kmalloc`, the old block is smaller than what was
asked for and keeps its size, which a new page cannot change because of
`BelowTop`.

`PagingProofs` proves `PageTablesSound` (`TablesSound`), `TlbIsCoherent`
(`TlbCoherent`) and the action property `OthersAreUntouched` (`OthersUntouched`) for
page tables of any depth and width, any number of spaces and frames, and a processor
that caches what it likes between two accesses. The invariant `TablesInv` gives every
frame in use a level and says that the tables form a forest: a present entry of a
table leads to a table one level below (`Leads`), which no other entry leads to
(`Unique`), except that the spaces share what the kernel half of `kernel_pml4` leads to
(`Shared`). `OpSound` adds what the operation in progress knows: its range, that its
table is the one the walk for its page reaches (`WalkOK`), that a table being linked
is clear and linked nowhere (`NewOK`), and the pages done (`DoneOK`). Four facts carry
the proof. `WalkExists`: the walk, a function defined by recursion over the levels,
has the value its definition says; the induction is over the least level at which a
claim fails. `WalksMeet`: two walks that come to the same table came through the same
entries, unless they differ only in the root of a kernel page. `SameIndices`: the
indexes of all levels determine the page. So a store changes one page's translation
(`StoreChanges`), and linking an empty table none (`LinkKeeps`). The TLB then stays
coherent because only pages of the operation's range change, and it ends by
invalidating them all.

`VmProofs` proves `FramesAreOnce` (`FramesOnce`) and `RegionsAreSound` (`RegionsSound`)
for any number of frames, spaces, regions and pages and any sequence of calls. Besides
its types `VmAssumption` says that no device's pages are RAM, that addresses of frames
are above the numbers of virtual pages, and that the heap is part of the space. Neither
property is inductive, for three reasons, and each adds a part to the invariant `VmInv`.

- A count of places says nothing of which place it is. `Tagged` says that some function
  gives every address one kind of place (free, page, table, record, ...), with the
  space and page it belongs to; that the list, the spaces and the records are all where
  it says (`Tags`: nothing is in two places); and, while nothing of a device was freed,
  conversely (`Full`: nothing is lost). A step then moves one address, the tags of all
  others stay (`Take`, `SpacesStay`, `RecordsStay`), and `Counts` turns the tags into
  the numbers of `FramesOnce`. `Tags` holds after `released` too, where addresses inside
  frames are on the list: it says that such an address is never behind its own frame
  there, so that the frame cannot be used for something else first.
- That the regions account for the pages needs that they never overlap, which for the
  heap rests on `next_free` and elsewhere on the callers (`Regions`), and that the list
  is finite and complete: `Lists` has for each space a sequence without repetitions that
  follows the links, which `region_insert` extends at its front and `region_remove`
  shortens anywhere (`ChainRemove`). `OnListIs` shows that following the list for as
  many steps as there are records finds them all.
- The operations are several steps: `OpOK` says what is known in the middle of each.
  The range being mapped is vacant, the walk's two pointers are one link apart, and
  `vm_space_destroy` is at the head of its list whenever it begins an iteration, since
  what it frees is the first region, which the walk finds at once.

`HeapProofs` also proves `Moves` (`MoveExact`) and `Compares` (`CompareExact`) of
`ByteRoutines`, for a memory of any size and any bytes. The invariant says how far the loop is:
the bytes done have their value, all others are as before the call
(`HalfMoved`), and `memcmp` has met no difference (`HalfCompared`).
`SourceFresh` is the heart of it: where a turn reads, no earlier turn has
written. It holds going up if the destination lies below the source and going
down if it lies above, which is the choice `memmove` makes.

`AhciProofs` proves `SuccessfulCallsRanOnce` (`SuccessRanOnce`),
`DriverAndHbaApart` (`HbaApart`) and `TransfersAreExact` (`TransfersExact`) for any
number of slots, calls, polls, sectors and buffers and any behaviour of the HBA.
`SuccessRanOnce` alone is far from inductive: the driver's `ci |= 1 << slot` writes
back bits it read earlier, and the HBA may hold a copy of a table that has since
been reused. The invariant follows a command through the hands it passes: the slot
a call has chosen is in PxCI only between its write and its completion (`Hands`),
what tables and the HBA's copy hold (`Tables`), how often the current command ran
(`Runs`), that no bit which is or will be in PxCI leads to the command of a call
that returned 0 (`Spent`), and what holds as long as no call was abandoned
(`Abandoned`, `DiskDurable`). `AhciAssumption` says besides the types that `None`
is no command or number.

`FramebufferProofs` proves `BackendIsSound` (`BackendSound`) and the refinement
`BackendIsAScreen` (`ImplementsScreen`) for a screen of any size, any characters and
any margins. Three arguments carry it. `RoomInQueue` is the pigeonhole principle:
a push adds an item only for a cell that has none, so the array of as many items
as cells never overflows. `Fits` says that the pushes still to be made lead to the
screen the operation promises: each copies a cell that no earlier push has changed.
`ScrollFits` and `RevScrollFits` show it of the orders that the two loops choose,
and `FitsTail` that it survives a push (`Progress`). `FlushExact` says that a flush
draws what is queued and moves the one inverted cell.

`InterruptsProofs` proves `HandlersAreSound` (`HandlersSound`), `StopsAreFaults`
(`StopsOnlyFaulted`) and the action property `InterruptsResume` (`Resumed`) for any
set of exceptions and PIC lines and any number of faults. The invariant says what
`kmain` has set up at each of its stages (`Boot`); that a device interrupt's frame
can only be the lowest, on a stage after `sti` (`Nesting`); and word by word what
lies on the stack while a handler runs (`OnStack`): the processor's frame on an
aligned stack (`Entered`), the error code or the stub's 0, the vector, and the
fifteen registers (`Saved`). `EnteredStack` and `SavedStack` show that the pushes
produce this, `ReturnRestores` that the pops in reverse order undo it.

`DeviceProofs` holds the smaller ones.

- `LayoutsFit` (`LayoutFits`) is for every volume and says for each which entries of
  the FAT are missing. `NoWrap` is the core: a number of
  sectors that the code accepts did not wrap, since `FatSizeAssumption` bounds the
  overhead of a volume and its clusters together by the word (with the code's
  numbers, 524745 against 2^32).
- `TimerIsCalibrated` (`TimerCalibrated`) is for every rate, clock and cost of each
  register access and for both outputs of the PIT, under `TimerSetting`: ten
  milliseconds fit the PIT's 16 bits, and neither a single access nor the wait takes
  half of the APIC's counter. The counter may well stop at 0: it has then passed so
  many counts that their product does not fit (`Elapsed`).
- `ScanIsExact` (`FoundExact`, with `TypeOK`) is for any machine. The invariant says
  that of what lies before the position of the loops everything wanted is recorded,
  in order (`Ordered`, `Complete`), and that `func_limit` belongs to the slot
  (`FuncLimit`); `SkippedUnwanted` shows that functions left out are not wanted.
- `WritesAreConfined` (`WritesConfined`) is for all sets of ports, every slot and every
  number of PRDT entries up to the limit. Areas and tables are ranges of whole numbers,
  so the proof is arithmetic on the shifts of `port_rebase`.
- `PoolsAreSound` (`PoolSound`) and `PoolIsLargeEnough` (the action property
  `PoolSuffices`) are for pools, fonts and framebuffers of every size. The second
  assumes that the pool holds the largest screen within the limits, `LargestFits`;
  `KernelPoolFits` computes that the kernel's does, wherever the pool lies.

- `VolumesAreSound` (`VolumesSound`) and `FormatIsSafe` (the action properties
  `WritesWithin` and `FormattedIsValid`) are for any number of disks, FATs and sectors
  and any failures. While a format runs the invariant says what its one frame holds and
  that every sector before the one written next is right or was given up (`Formatting`);
  across `fat16_init`'s read and check, that the boot sector in memory is the one a
  format wrote (`Checking`). `TargetWithin` bounds the sector addressed in each of the
  three loops; the multiplication in it needs `FatsGrow`.

Only model-checked:

- Liveness (`KmallocReturns`, `OperationsEnd`, `PortReturns`, `ScanEnds`,
  `FatSizeReturns`, `TimerServed`), which is out of the prover's reach.
- The properties of `Terminal`, `Printk` and `Format`. `StateSound` and `ReverseExact`
  are within the prover's reach, but need a lemma for each of some fifty operators that
  a byte can lead to; `EditExact`, `TextExact`, `LogExact` and `DirectivesExact` compare
  recursive definitions, which takes induction over the data.
- `PixelsExact` of `Plot`, whose reference is a picture computed from nonlinear geometry.

## Not modelled

Not modelled, in the modelled components:

- `pci_write_config_dword`, the `ioapic_*` functions, `pic.c` but for
  `pic_disable`, and `tss_set_kernel_stack`: nobody calls them.
- Flag bits of page table entries, and large pages of the boot loader, which
  `map_page` would follow as tables.
- What happens after `frame_alloc` returned 0, since no caller looks at it:
  physical page 0 becomes memory or a table, and the models stop there.
- Of Flanterm: the callback (never set, so queries have no answer), conversion of
  colours to pixel formats, the tables of code page 437 and of widths, the flush
  callback, and `get_dimensions`.
- The register values in a panic's report, and what `serial.c` writes to its port.

Left out for good: stubs (`fs/vfs.c`) and `phys_virt`, which adds a constant.
