------------------------------ MODULE AhciProbe ------------------------------
(***************************************************************************)
(* ahci_init: the scan of PCI configuration space for AHCI controllers     *)
(* (ahci.c, pci.c) and the probe of each one's ports, which gives every    *)
(* implemented port its part of the DMA window at AHCI_BASE.               *)
(*                                                                         *)
(* A function's configuration space is the four bytes of each doubleword   *)
(* the driver reads; a function that is absent answers with all ones.      *)
(* What Ahci.tla details, the stop and start of one port, is one step.     *)
(***************************************************************************)
EXTENDS Integers, Sequences

CONSTANTS Bus, Slot,   \* the buses and slots scanned, 0 up: 256 and 32
          FUNCS,       \* functions of a multi-function device: 8
          AHCI_MAX_CONTROLLERS,
          Port,        \* ports of a controller that may be implemented
          Config       \* configuration spaces a function may have

ProbeAssumption ==
    /\ Bus \in Nat /\ Slot \in Nat /\ FUNCS \in Nat \ {0}
    /\ AHCI_MAX_CONTROLLERS \in Nat /\ Port \subseteq 0..31

VARIABLES pci,        \* configuration space of each <<bus, slot, func>>
          at,         \* the function to look at next, or Done
          func_limit,
          todo,       \* ports of the newest controller still to be probed
          g_abars,    \* <<[at, abar]>>: the controllers found so far
          ports,      \* the <<controller, port>> probed
          count       \* g_ahci.count, set when the scan has ended

vars == <<pci, at, func_limit, todo, g_abars, ports, count>>

Done == <<Bus, 0, 0>>
Function == (0..Bus - 1) \X (0..Slot - 1) \X (0..FUNCS - 1)

-----------------------------------------------------------------------------
(* Configuration space. *)

Ones == <<255, 255, 255, 255>>

pci_read_config_dword(f, offset) == LET r == offset - (offset % 4) IN
    IF r \in DOMAIN pci[f] THEN pci[f][r] ELSE Ones

pci_read_config_byte(f, offset) == pci_read_config_dword(f, offset)[(offset % 4) + 1]

pci_read_config_word(f, offset) ==
    LET d == pci_read_config_dword(f, offset) IN
    IF (offset \div 2) % 2 = 0 THEN d[1] + 256 * d[2] ELSE d[3] + 256 * d[4]

pci_is_ahci_device(f) ==
    /\ pci_read_config_byte(f, 11) = 1
    /\ pci_read_config_byte(f, 10) = 6
    /\ pci_read_config_byte(f, 9) = 1

\* The doubleword after the base address is taken for its high half, whatever
\* the type bits say; an I/O address counts as none.
pci_read_bar64(f, offset) ==
    LET low == pci_read_config_dword(f, offset) IN
    IF low[1] % 2 = 1 THEN <<>>
    ELSE <<low[1] - (low[1] % 16), low[2], low[3], low[4]>> \o pci_read_config_dword(f, offset + 4)

NoAddress(bar) == bar = <<>> \/ \A k \in 1..Len(bar) : bar[k] = 0

PageAligned(bar) == bar[1] = 0 /\ bar[2] % 16 = 0

-----------------------------------------------------------------------------
(* The DMA window. *)

AHCI_BASE == 4194304
WindowSize == 303104    \* 0x4A000, what ahci_init maps

\* Mutant of CommandTable: a page for each port's 32 tables.
CommandTableNarrow(port, slot) == AHCI_BASE + 40 * 1024 + port * 4096 + slot * 256

\* What port_rebase gives a port: command list, received FIS, command tables.
CommandList(port) == AHCI_BASE + port * 1024
ReceivedFis(port) == AHCI_BASE + 32 * 1024 + port * 256
CommandTable(port, slot) == AHCI_BASE + 40 * 1024 + port * 8192 + slot * 256

\* The areas of a port, as <<first, last>>.
Table(port, slot) == <<CommandTable(port, slot), CommandTable(port, slot) + 255>>
Areas(port) ==
    { <<CommandList(port), CommandList(port) + 1023>>,
      <<ReceivedFis(port), ReceivedFis(port) + 255>> }
    \union {Table(port, s) : s \in 0..31}

AHCI_MAX_PRDT_ENTRIES == 8
CmdTblSize == 128 + 8 * 16      \* sizeof(HBA_CMD_TBL): eight PRDT entries
PrdtEntrySize == 16

\* What ahci_read and ahci_write clear when they build a command of n PRDT
\* entries: the table, whose eight entries are counted, and n - 1 more.
Cleared(port, slot, n) ==
    <<CommandTable(port, slot),
      CommandTable(port, slot) + CmdTblSize + (n - 1) * PrdtEntrySize - 1>>

\* ahci_init maps 0x1000 bytes of registers, and the loader's direct map has
\* no device registers: those of ports 30 and 31 are not mapped.
MappedPort(port) == 256 + 128 * (port + 1) <= 4096

-----------------------------------------------------------------------------
(* The scan. *)

\* Mutant of After: an 8-bit bus number wraps before it reaches the limit.
AfterWraps(limit) ==
    LET b == at[1]  s == at[2]  f == at[3] IN
    IF f + 1 < limit THEN <<b, s, f + 1>>
    ELSE IF s + 1 < Slot THEN <<b, s + 1, 0>> ELSE <<(b + 1) % Bus, 0, 0>>

\* The loops' next function; func_limit is 1 again in the next slot.
After(limit) ==
    LET b == at[1]  s == at[2]  f == at[3] IN
    IF f + 1 < limit THEN <<b, s, f + 1>>
    ELSE IF s + 1 < Slot THEN <<b, s + 1, 0>> ELSE <<b + 1, 0, 0>>

Move(limit) ==
    /\ at' = After(limit)
    /\ func_limit' = IF After(limit)[3] = 0 THEN 1 ELSE limit

\* Mutant of Limit: every device is taken to have all functions.
LimitAll(f) == FUNCS

\* func_limit after function f: only function 0's header type counts.
Limit(f) == IF f[3] = 0 /\ pci_read_config_byte(f, 14) >= 128 THEN FUNCS ELSE func_limit

Room == Len(g_abars) < AHCI_MAX_CONTROLLERS

Present(f) == pci_read_config_word(f, 0) # 65535
Usable(f) == pci_is_ahci_device(f) /\ ~NoAddress(pci_read_bar64(f, 36))

\* A function that is absent, no AHCI controller, without a memory address,
\* or one too many, is passed over.
Skip ==
    /\ at # Done /\ todo = {}
    /\ ~Present(at) \/ ~Usable(at) \/ ~Room
    /\ Move(IF Present(at) THEN Limit(at) ELSE func_limit)
    /\ UNCHANGED <<pci, todo, g_abars, ports, count>>

\* A controller is recorded; the ports it implements (pi) are probed next.
Found(pi) ==
    /\ at # Done /\ todo = {}
    /\ Present(at) /\ Usable(at) /\ Room /\ PageAligned(pci_read_bar64(at, 36))
    /\ g_abars' = Append(g_abars, [at |-> at, abar |-> pci_read_bar64(at, 36)])
    /\ todo' = pi
    /\ Move(Limit(at))
    /\ UNCHANGED <<pci, ports, count>>

\* One port of the newest controller: port_rebase, whether or not a device is
\* there.  (Its type, which check_type tells, is recorded and never read.)
Probe(port) ==
    /\ port \in todo /\ (\A p \in todo : port <= p) /\ MappedPort(port)
    /\ ports' = ports \union {<<Len(g_abars), port>>}
    /\ todo' = todo \ {port}
    /\ UNCHANGED <<pci, at, func_limit, g_abars, count>>

\* paging_map_page asserts that the registers begin at a page; the first read
\* of a register that is not mapped is a page fault.  Either is a panic.
Panicked ==
    \/ /\ at # Done /\ todo = {}
       /\ Present(at) /\ Usable(at) /\ Room /\ ~PageAligned(pci_read_bar64(at, 36))
    \/ \E port \in todo : (\A p \in todo : port <= p) /\ ~MappedPort(port)

Panic == Panicked /\ UNCHANGED vars

\* The scan ends, count becomes visible.
Finish ==
    /\ at = Done /\ todo = {} /\ count = 0
    /\ count' = Len(g_abars)
    /\ UNCHANGED <<pci, at, func_limit, todo, g_abars, ports>>

Init ==
    /\ pci \in [Function -> Config]
    /\ at = IF Bus > 0 /\ Slot > 0 THEN <<0, 0, 0>> ELSE Done
    /\ func_limit = 1 /\ todo = {} /\ g_abars = <<>> /\ count = 0
    /\ ports = {}

Next == \/ Skip \/ Finish \/ Panic
        \/ \E pi \in SUBSET Port : Found(pi)
        \/ \E p \in Port : Probe(p)

Spec == Init /\ [][Next]_vars /\ WF_vars(Next)

-----------------------------------------------------------------------------
\* ahci_get_controller and ahci_get_controller_count read what is complete.
Visible == SubSeq(g_abars, 1, count)

\* The scan stays on the buses, and ahci_init writes to no entry past the
\* last of g_abars and of the controllers of g_ahci.
TypeOK ==
    /\ at \in Function \union {Done} /\ func_limit \in {1, FUNCS}
    /\ todo \subseteq Port /\ count \in 0..AHCI_MAX_CONTROLLERS
    /\ Len(g_abars) <= AHCI_MAX_CONTROLLERS
    /\ \A q \in ports : q[1] \in 1..Len(g_abars) /\ q[2] \in Port

\* The functions of the machine the driver should drive, by the rules of PCI:
\* a function other than 0 exists only in a device whose function 0 exists
\* and says so.
First(f) == <<f[1], f[2], 0>>
Exists(f) == /\ Present(First(f)) /\ Present(f)
             /\ f[3] = 0 \/ pci_read_config_byte(First(f), 14) >= 128
Wanted == {f \in Function : Exists(f) /\ Usable(f)}

\* The order of bus, slot and function.
Before(f, g) ==
    \/ f[1] < g[1]
    \/ f[1] = g[1] /\ f[2] < g[2]
    \/ f[1] = g[1] /\ f[2] = g[2] /\ f[3] < g[3]

\* The scan finds the controllers of the machine, all of them, each once and
\* in order, up to AHCI_MAX_CONTROLLERS, whatever the other functions are: one
\* it does not record comes after as many as there is room for.
FoundExact ==
    count > 0 \/ (at = Done /\ todo = {}) =>
        /\ \A k \in 1..Len(g_abars) : g_abars[k].at \in Wanted
        /\ \A j, k \in 1..Len(g_abars) : j < k => Before(g_abars[j].at, g_abars[k].at)
        /\ \A f \in Wanted :
             \/ \E k \in 1..Len(g_abars) : g_abars[k].at = f
             \/ /\ Len(g_abars) = AHCI_MAX_CONTROLLERS
                /\ \A k \in 1..Len(g_abars) : Before(g_abars[k].at, f)

\* Two areas, as <<first, last>>, have a byte in common.
Meet(x, y) == x[1] <= y[2] /\ y[1] <= x[2]

\* The table behind a slot's: the next slot's, or the next port's first.
Following(port, slot) == IF slot < 31 THEN Table(port, slot + 1) ELSE Table(port + 1, 0)

\* Range x lies within range y.
Within(x, y) == y[1] <= x[1] /\ x[2] <= y[2]

\* All areas of ports lie in the window that ahci_init maps.  Two ports have no
\* byte in common, unless they are port i of two controllers, which are given
\* the same areas.  What is written to build a command stays in its slot's table
\* if the command has one PRDT entry, and otherwise enters the table behind it,
\* for slot 31 the next port's, but goes no further.
WritesConfined ==
    LET numbers == {q[2] : q \in ports}
    IN  /\ \A p, r \in numbers : \A x \in Areas(p), y \in Areas(r) :
             /\ Within(y, <<AHCI_BASE, AHCI_BASE + WindowSize - 1>>)
             /\ Meet(x, y) <=> x = y /\ p = r
        /\ \A p \in numbers, s \in 0..31, n \in 1..AHCI_MAX_PRDT_ENTRIES :
             LET cleared == Cleared(p, s, n)
                 behind == Following(p, s)
             IN  /\ Within(cleared, Table(p, s)) <=> n = 1
                 /\ Meet(cleared, behind) <=> n > 1
                 /\ Within(cleared, <<Table(p, s)[1], behind[2]>>)

\* The scan ends, with every port of every controller probed, unless it meets
\* a register it has not mapped or registers that do not begin at a page.
ScanEnds == <>[](Panicked \/ (at = Done /\ todo = {} /\ Len(Visible) = Len(g_abars)))
=============================================================================
