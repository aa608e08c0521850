-------------------------------- MODULE Ahci --------------------------------
(***************************************************************************)
(* One AHCI port, kernel/src/storage/ahci.c: the driver's bring-up of the  *)
(* port (port_rebase) and its polled commands (ahci_read, ahci_write),     *)
(* running beside the host bus adapter (HBA), which fetches command        *)
(* tables, moves data by DMA and clears bits of PxCI on its own time.      *)
(*                                                                         *)
(* Every access of the driver to a port register is a step of its own,     *)
(* since the HBA works between them; in particular ci |= 1 << slot is a    *)
(* read and a write.  A spin of 1000000 is MAXSPIN.  The HBA may be        *)
(* arbitrarily slow and may report an error, after which it processes no   *)
(* more commands until ST is cleared, which the driver never does.         *)
(***************************************************************************)
EXTENDS Naturals, FiniteSets

CONSTANTS
    SLOTS,      \* AHCI_MAX_CMD_SLOTS; the slots are 0..SLOTS-1
    MAXPRDT,    \* AHCI_MAX_PRDT_ENTRIES
    MAXSPIN,    \* polls of a register before the driver gives up
    PRDT,       \* (count + 15) / 16 for the counts callers pass
    Sector, Data, Buf,
    MAXCALLS,   \* bound: calls of ahci_read and ahci_write
    None

Slot == 0..SLOTS - 1
Id == 1..MAXCALLS
Cmd == [id : Id, op : {"read", "write"}, sector : Sector, buf : Buf]

\* A command table full of zeros.
Zeroed == [id |-> 0, op |-> "none", sector |-> None, buf |-> None]

ASSUME AhciAssumption ==
    /\ SLOTS \in Nat \ {0} /\ MAXPRDT \in Nat \ {0} /\ MAXSPIN \in Nat
    /\ PRDT \subseteq Nat
    /\ MAXCALLS \in Nat
    /\ None \notin Nat \cup [slot : Slot, cmd : Cmd \cup {Zeroed}, done : BOOLEAN]

VARIABLES
    st, fre, cr, fr,    \* PxCMD: the driver's two bits, the HBA's two
    ci,                 \* PxCI: the slots handed to the HBA
    err,                \* PxIS: an error bit is set
    bsy,                \* PxTFD: BSY or DRQ
    table,              \* the command table of each slot
    mem,                \* the callers' buffers
    cur,                \* the HBA's copy of the command it executes, or None
    halted,             \* the HBA stopped at an error
    disk,
    pc, call, spin,     \* the driver: where it is, its call, the spin counter
    snap,               \* the value of ci it read for ci |= 1 << slot
    ncalls,
    runs,               \* how often the HBA executed each call's command
    result,             \* what each call returned
    shadow,             \* each sector as the last successful write left it, or
                        \* None once a write handed to the HBA returned 1
    lost                \* some call returned with its command still in ci

port == <<st, fre, cr, fr, ci, err, bsy>>
hba == <<cur, halted, disk, runs>>
ghost == <<result, shadow, lost>>
vars == <<port, hba, ghost, table, mem, pc, call, spin, snap, ncalls>>

NoCall == [id |-> 0, op |-> "none", sector |-> None, buf |-> None, n |-> 0, slot |-> None]

Init ==
    /\ st \in BOOLEAN /\ fre \in BOOLEAN /\ cr = st /\ fr = fre
    /\ ci = {} /\ err \in BOOLEAN /\ bsy = FALSE
    /\ table = [s \in Slot |-> Zeroed]
    /\ mem \in [Buf -> Data]
    /\ cur = None /\ halted = FALSE
    /\ disk \in [Sector -> Data] /\ shadow = disk
    /\ pc = "stop_st" /\ call = NoCall /\ spin = 0 /\ snap = {} /\ ncalls = 0
    /\ runs = [i \in Id |-> 0]
    /\ result = [i \in Id |-> None]
    /\ lost = FALSE

Issued == {"poll_ci", "poll_is", "last_tfd"}    \* the command is in the HBA's hands

Goto(from, to) == pc = from /\ pc' = to

---------------------------------------------------------------------------
(* port_rebase: stop_cmd, new lists, start_cmd. *)

StopSt ==
    /\ Goto("stop_st", "stop_fre")
    /\ st' = FALSE
    /\ UNCHANGED <<fre, cr, fr, ci, err, bsy, hba, ghost, table, mem, call, spin, snap, ncalls>>

StopFre ==
    /\ Goto("stop_fre", "stop_wait")
    /\ fre' = FALSE
    /\ UNCHANGED <<st, cr, fr, ci, err, bsy, hba, ghost, table, mem, call, spin, snap, ncalls>>

StopWait ==
    /\ Goto("stop_wait", "rebase")
    /\ ~fr /\ ~cr
    /\ UNCHANGED <<port, hba, ghost, table, mem, call, spin, snap, ncalls>>

\* The list, the received-FIS area and the tables are replaced and zeroed.
Rebase ==
    /\ Goto("rebase", "start_wait")
    /\ table' = [s \in Slot |-> Zeroed]
    /\ err' = FALSE
    /\ UNCHANGED <<st, fre, cr, fr, ci, bsy, hba, ghost, mem, call, spin, snap, ncalls>>

StartWait ==
    /\ Goto("start_wait", "start_fre")
    /\ ~cr
    /\ UNCHANGED <<port, hba, ghost, table, mem, call, spin, snap, ncalls>>

StartFre ==
    /\ Goto("start_fre", "start_st")
    /\ fre' = TRUE
    /\ UNCHANGED <<st, cr, fr, ci, err, bsy, hba, ghost, table, mem, call, spin, snap, ncalls>>

StartSt ==
    /\ Goto("start_st", "idle")
    /\ st' = TRUE
    /\ UNCHANGED <<fre, cr, fr, ci, err, bsy, hba, ghost, table, mem, call, spin, snap, ncalls>>

---------------------------------------------------------------------------
(* ahci_read and ahci_write: one control flow, two commands. *)

\* The call returns; r = 0 is success.
Return(r) ==
    /\ pc' = "idle"
    /\ result' = [result EXCEPT ![call.id] = r]
    /\ shadow' = IF call.op = "write" /\ pc \in Issued
                 THEN [shadow EXCEPT ![call.sector] = IF r = 0 THEN mem[call.buf] ELSE None]
                 ELSE shadow
    /\ lost' = (lost \/ call.slot \in ci)
    /\ UNCHANGED <<call, snap, spin, ncalls>>

\* Entry: a count of 0, or a controller that was not found, is refused (n = 0
\* stands for either), then PxIS and PxSERR are cleared.
Enter(op, x, b, n) ==
    /\ pc = "idle" /\ ncalls < MAXCALLS
    /\ ncalls' = ncalls + 1
    /\ call' = [id |-> ncalls + 1, op |-> op, sector |-> x, buf |-> b, n |-> n, slot |-> None]
    /\ \/ n = 0 /\ pc' = "idle" /\ err' = err /\ result' = [result EXCEPT ![ncalls + 1] = 1]
       \/ n # 0 /\ pc' = "find" /\ err' = FALSE /\ result' = result
    /\ UNCHANGED <<st, fre, cr, fr, ci, bsy, hba, shadow, lost, table, mem, spin, snap>>

\* Mutant of FreeSlot: the slot after the first free one.
SlotAfterFree(s) == (s = 0 \/ s - 1 \notin ci) /\ \A r \in Slot : r < s - 1 => r \in ci

\* find_cmdslot: s is the first slot with its bits in PxSACT (never set: no
\* queued commands) and PxCI clear.
FreeSlot(s) == s \notin ci /\ \A r \in Slot : r < s => r \in ci

NoSlot ==
    /\ pc = "find"
    /\ \A s \in Slot : s \in ci
    /\ Return(1)
    /\ UNCHANGED <<port, hba, table, mem>>

\* Mutant of Built: the table of another slot is built.
BuiltElsewhere(s, n, c) == [r \in Slot |-> IF r = (s + 1) % SLOTS THEN c ELSE table[r]]

\* The tables as building a command of n entries in slot s leaves them: the
\* memset clears (n - 1) entries more than the table has, which is into the
\* next slot's table.
Built(s, n, c) ==
    [r \in Slot |-> IF r = s THEN c
                    ELSE IF r = s + 1 /\ n > 1 THEN Zeroed ELSE table[r]]

\* The slot is found; a command that needs too many entries is refused,
\* else the header and the table are written.
FindBuild(s) ==
    /\ pc = "find"
    /\ FreeSlot(s)
    /\ \/ /\ call.n > MAXPRDT
          /\ Return(1)
          /\ UNCHANGED table
       \/ /\ call.n <= MAXPRDT
          /\ pc' = "tfd"
          /\ call' = [call EXCEPT !.slot = s]
          /\ table' = Built(s, call.n, [id |-> call.id, op |-> call.op,
                                        sector |-> call.sector, buf |-> call.buf])
          /\ spin' = 0
          /\ UNCHANGED <<ghost, snap, ncalls>>
    /\ UNCHANGED <<port, hba, mem>>

WaitIdle ==
    /\ pc = "tfd"
    /\ \/ /\ ~bsy
          /\ pc' = "ci_read"
          /\ UNCHANGED <<call, spin, snap, ncalls, ghost>>
       \/ /\ bsy /\ spin + 1 > MAXSPIN
          /\ Return(1)
       \/ /\ bsy /\ spin + 1 <= MAXSPIN
          /\ spin' = spin + 1
          /\ UNCHANGED <<pc, call, snap, ncalls, ghost>>
    /\ UNCHANGED <<port, hba, table, mem>>

ReadCi ==
    /\ Goto("ci_read", "ci_write")
    /\ snap' = ci
    /\ UNCHANGED <<port, hba, ghost, table, mem, call, spin, ncalls>>

\* A 1 written to a bit of PxCI sets it, a 0 does nothing.
WriteCi ==
    /\ Goto("ci_write", "poll_ci")
    /\ ci' = ci \cup snap \cup {call.slot}
    /\ spin' = 0
    /\ UNCHANGED <<st, fre, cr, fr, err, bsy, hba, ghost, table, mem, call, snap, ncalls>>

\* Mutant of PollCi: the drive is watched instead of the slot's bit.
PollBusy ==
    /\ pc = "poll_ci"
    /\ pc' = IF ~bsy THEN "last_tfd" ELSE "poll_is"
    /\ UNCHANGED <<port, hba, ghost, table, mem, call, spin, snap, ncalls>>

PollCi ==
    /\ pc = "poll_ci"
    /\ pc' = IF call.slot \in ci THEN "poll_is" ELSE "last_tfd"
    /\ UNCHANGED <<port, hba, ghost, table, mem, call, spin, snap, ncalls>>

\* Mutant of PollIs: the counter is not advanced.
PollIsForever ==
    /\ pc = "poll_is"
    /\ \/ err /\ Return(1)
       \/ ~err /\ pc' = "poll_ci" /\ UNCHANGED <<call, spin, snap, ncalls, ghost>>
    /\ UNCHANGED <<port, hba, table, mem>>

PollIs ==
    /\ pc = "poll_is"
    /\ \/ /\ err \/ spin + 1 > MAXSPIN
          /\ Return(1)
       \/ /\ ~err /\ spin + 1 <= MAXSPIN
          /\ pc' = "poll_ci"
          /\ spin' = spin + 1
          /\ UNCHANGED <<call, snap, ncalls, ghost>>
    /\ UNCHANGED <<port, hba, table, mem>>

LastTfd ==
    /\ pc = "last_tfd"
    /\ Return(IF bsy THEN 1 ELSE 0)
    /\ UNCHANGED <<port, hba, table, mem>>

\* Between calls, the owner of a buffer fills it.
CallerFills(b, d) ==
    /\ pc = "idle"
    /\ mem' = [mem EXCEPT ![b] = d]
    /\ UNCHANGED <<port, hba, ghost, table, pc, call, spin, snap, ncalls>>

---------------------------------------------------------------------------
(* The HBA and the drive (external). *)

HbaEngine ==
    /\ cur = None
    /\ \/ cr # st /\ cr' = st /\ fr' = fr
       \/ fr # fre /\ fr' = fre /\ cr' = cr
    /\ UNCHANGED <<st, fre, ci, err, bsy, hba, ghost, table, mem, pc, call, spin, snap, ncalls>>

HbaFetch(s) ==
    /\ cr /\ st /\ ~halted /\ cur = None
    /\ s \in ci
    /\ cur' = [slot |-> s, cmd |-> table[s], done |-> FALSE]
    /\ bsy' = TRUE
    /\ UNCHANGED <<st, fre, cr, fr, ci, err, halted, disk, runs, ghost, table, mem, pc, call,
                   spin, snap, ncalls>>

HbaTransfer ==
    /\ cur # None /\ ~cur.done /\ cur.cmd # Zeroed
    /\ cur' = [cur EXCEPT !.done = TRUE]
    /\ runs' = [runs EXCEPT ![cur.cmd.id] = IF @ < 2 THEN @ + 1 ELSE @]
    /\ \/ /\ cur.cmd.op = "read"
          /\ mem' = [mem EXCEPT ![cur.cmd.buf] = disk[cur.cmd.sector]]
          /\ disk' = disk
       \/ /\ cur.cmd.op = "write"
          /\ disk' = [disk EXCEPT ![cur.cmd.sector] = mem[cur.cmd.buf]]
          /\ mem' = mem
    /\ UNCHANGED <<port, halted, ghost, table, pc, call, spin, snap, ncalls>>

HbaComplete ==
    /\ cur # None /\ cur.done
    /\ ci' = ci \ {cur.slot}
    /\ bsy' = FALSE
    /\ cur' = None
    /\ UNCHANGED <<st, fre, cr, fr, err, halted, disk, runs, ghost, table, mem, pc, call,
                   spin, snap, ncalls>>

HbaError ==
    /\ cur # None
    /\ err' = TRUE
    /\ bsy' = FALSE
    /\ halted' = TRUE
    /\ cur' = None
    /\ UNCHANGED <<st, fre, cr, fr, ci, disk, runs, ghost, table, mem, pc, call, spin, snap, ncalls>>

---------------------------------------------------------------------------

DriverStep ==
    \/ StopSt \/ StopFre \/ StopWait \/ Rebase \/ StartWait \/ StartFre \/ StartSt
    \/ NoSlot \/ (\E s \in Slot : FindBuild(s))
    \/ WaitIdle \/ ReadCi \/ WriteCi \/ PollCi \/ PollIs \/ LastTfd

Caller ==
    \/ \E op \in {"read", "write"}, x \in Sector, b \in Buf, n \in PRDT : Enter(op, x, b, n)
    \/ \E b \in Buf, d \in Data : CallerFills(b, d)

HbaStep == HbaEngine \/ (\E s \in Slot : HbaFetch(s)) \/ HbaTransfer \/ HbaComplete \/ HbaError

Next == DriverStep \/ Caller \/ HbaStep

\* The kernel keeps running, and the HBA follows ST and FRE; it need never
\* complete a command.
Spec == Init /\ [][Next]_vars
FairSpec == Spec /\ WF_vars(DriverStep) /\ WF_vars(HbaEngine)

---------------------------------------------------------------------------
(* Properties. *)

Pc == {"stop_st", "stop_fre", "stop_wait", "rebase", "start_wait", "start_fre", "start_st",
       "idle", "find", "tfd", "ci_read", "ci_write", "poll_ci", "poll_is", "last_tfd"}

(* The types of the state: in particular the spin counters stay within the *)
(* polls the driver allows itself.                                         *)
TypeOK ==
    /\ {st, fre, cr, fr, err, bsy, halted, lost} \subseteq BOOLEAN
    /\ ci \subseteq Slot /\ snap \subseteq Slot
    /\ table \in [Slot -> Cmd \cup {Zeroed}]
    /\ mem \in [Buf -> Data] /\ disk \in [Sector -> Data] /\ shadow \in [Sector -> Data \cup {None}]
    /\ pc \in Pc
    /\ spin \in 0..MAXSPIN
    /\ runs \in [Id -> 0..2] /\ result \in [Id -> {0, 1, None}]

(* The command list, the received-FIS area and the command tables are      *)
(* replaced only while the HBA uses none of them.                          *)
RebaseWhileStopped == pc = "rebase" => ~cr /\ ~fr /\ cur = None

(* A call that returns 0 had its command executed, and exactly once, then  *)
(* and for ever: neither a late completion of another slot nor the         *)
(* read-modify-write of PxCI by a later call makes the HBA run it again.   *)
SuccessRanOnce == \A i \in Id : result[i] = 0 => runs[i] = 1

(* As long as every call returned with its command finished, the HBA works *)
(* on nothing but the command of the call in progress: no DMA reaches a    *)
(* buffer whose ahci_read or ahci_write has returned.                      *)
OnlyCurrentRuns ==
    ~lost /\ cur # None => pc \in Issued /\ cur.cmd # Zeroed /\ cur.cmd.id = call.id

(* The driver rewrites the table of a slot the HBA holds only if a call    *)
(* was abandoned before and the command being built has several entries.   *)
TablesStable ==
    [][\A s \in ci : table'[s] # table[s] => lost /\ call.n > 1]_vars

(* As long as no command was abandoned, the disk holds what the last       *)
(* successful write of each sector stored, also when reads, refused writes *)
(* and writes of other sectors failed.                                     *)
DiskDurable ==
    ~lost => \A x \in Sector :
        disk[x] = shadow[x] \/ shadow[x] = None \/ (pc \in Issued /\ call.op = "write" /\ call.sector = x)

(* A read that returns 0 leaves in its buffer what the last successful     *)
(* write put on the sector, unless a command was abandoned before.         *)
ReadsLastWrite ==
    [][pc = "last_tfd" /\ result'[call.id] = 0 /\ call.op = "read" /\ ~lost
         => shadow[call.sector] \in {None, mem[call.buf]}]_vars

(* Whatever the HBA does after bring-up (errors, silence, a full command   *)
(* list), the driver comes back to its caller; and bring-up ends.          *)
DriverReturns == pc # "idle" ~> pc = "idle"

(* The driver and the HBA stay out of each other's way: structures change  *)
(* only while the HBA is stopped, it works only for the call in progress,  *)
(* and the disk keeps what was written.                                    *)
HbaApart == RebaseWhileStopped /\ OnlyCurrentRuns /\ DiskDurable

(* What the HBA fetches and what the caller gets is what was meant: tables *)
(* it may be reading stay as they are, and reads return what was written.  *)
TransfersExact == TablesStable /\ ReadsLastWrite
=============================================================================
