------------------------------- MODULE MCAhci -------------------------------
(***************************************************************************)
(* The AHCI driver: either the scan of ahci_init (AhciProbe) or the life   *)
(* of one port (Ahci) in each behaviour.                                   *)
(*                                                                         *)
(* The port has two slots and three calls: the first two can be abandoned, *)
(* so that the third finds the list full, or a slot completed late, or the *)
(* value read from PxCI out of date.  PRDT: refused (0), one entry, two    *)
(* (the memset reaches the next table), too many (3).  The machine scanned *)
(* has two PCI slots of two functions, each absent, a controller (with or  *)
(* without the multi-function bit, with a memory or an I/O address), or    *)
(* another device; two controllers at most; the last two ports whose       *)
(* registers are mapped, and one whose are not.                            *)
(***************************************************************************)
EXTENDS Ahci, TLC

VARIABLES part, pci, at, func_limit, todo, g_abars, ports, count

probeVars == <<pci, at, func_limit, todo, g_abars, ports, count>>

MCPRDT == {0, 1, 2, 3}

Ones == <<255, 255, 255, 255>>
\* Vendor, class, header type and sixth base address of a function.
Space(class, header, bar) ==
    0 :> <<134, 128, 0, 0>> @@ 8 :> class @@ 12 :> <<0, 0, header, 0>>
      @@ 36 :> bar @@ 40 :> <<0, 0, 0, 0>>

AhciClass == <<0, 1, 6, 1>>
IdeClass == <<0, 128, 1, 1>>
Absent == [r \in {} |-> Ones]

MCConfig == { Absent,
              Space(AhciClass, 0, <<0, 0, 0, 254>>), Space(AhciClass, 128, <<0, 0, 0, 254>>),
              Space(AhciClass, 0, <<1, 192, 0, 0>>), Space(AhciClass, 0, <<0, 2, 0, 254>>),
              Space(IdeClass, 128, <<0, 0, 0, 0>>) }

Scan == INSTANCE AhciProbe WITH
    Bus <- 1, Slot <- 2, FUNCS <- 2, AHCI_MAX_CONTROLLERS <- 2,
    Port <- {28, 29, 30}, Config <- MCConfig

ASSUME Scan!ProbeAssumption

\* What does not move in a behaviour: a port before its bring-up, a machine
\* without controllers whose scan has ended.
IdlePort ==
    LET d == CHOOSE x \in Data : TRUE
    IN  /\ Init /\ ~st /\ ~fre /\ ~err
        /\ mem = [b \in Buf |-> d] /\ disk = [x \in Sector |-> d]
IdleScan ==
    /\ pci = [f \in Scan!Function |-> Absent] /\ at = Scan!Done /\ count = 0
    /\ func_limit = 1 /\ todo = {} /\ g_abars = <<>> /\ ports = {}

MCInit == \/ part = "port" /\ Init /\ IdleScan
          \/ part = "scan" /\ Scan!Init /\ IdlePort

PortStep == part = "port" /\ Next /\ UNCHANGED <<part, probeVars>>
ScanStep == part = "scan" /\ Scan!Next /\ UNCHANGED <<part, vars>>
ScanOver == part = "scan" /\ count > 0 /\ UNCHANGED <<part, vars, probeVars>>

\* The fairness of both specifications.
MCSpec ==
    /\ MCInit /\ [][PortStep \/ ScanStep \/ ScanOver]_<<part, vars, probeVars>>
    /\ WF_vars(PortStep /\ DriverStep) /\ WF_vars(PortStep /\ HbaEngine)
    /\ WF_probeVars(ScanStep)
-----------------------------------------------------------------------------
\* Ahci: whatever the HBA does after bring-up (errors, silence, a full command
\* list), the driver comes back to its caller; and bring-up ends.
PortReturns == part = "port" => DriverReturns

\* AhciProbe: the scan finds the machine's controllers, all of them, each once
\* and in order, up to the limit, and writes past the end of no array.
FoundExact == Scan!FoundExact /\ Scan!TypeOK

\* AhciProbe: what is written for a command stays in the table of its slot and
\* the beginning of the one behind it; the areas of ports are apart.
WritesConfined == Scan!WritesConfined

\* AhciProbe: the scan ends, with every port of every controller probed, or in
\* a panic.
ScanEnds == Scan!ScanEnds
=============================================================================
