------------------------------- MODULE Fat16 -------------------------------
(***************************************************************************)
(* FAT16 volumes, kernel/src/fs/fat16.c: fat16_format, which writes boot   *)
(* sector, FATs and root directory one sector at a time, and fat16_init,   *)
(* which reads a boot sector and enters the volume in a list.              *)
(*                                                                         *)
(* Any ahci_write may fail, with or without the sector written; and since  *)
(* a command may have been abandoned (see Ahci), a failed write may also   *)
(* happen later, from a frame that has become someone else's.              *)
(***************************************************************************)
EXTENDS Naturals, Sequences, FiniteSets

CONSTANTS
    Port,
    SizeOf,         \* fat16_compute_fat_size, a function of total_sectors
    RESERVED, FATS, \* 1 and 2
    ROOTSECTORS,    \* sectors of the root directory (32)
    Volumes,        \* boot sectors that disks may start with
    MAXCALLS        \* bound: calls of fat16_init and fat16_format

FORMATID == 1       \* the vol_id fat16_format gives every volume

VARIABLES
    disk,           \* the sectors of each disk before the data area's end
    fat16_volumes,  \* the list of volumes
    op,             \* the call in progress
    frames, blocks, \* frames and heap blocks this code holds
    ret,            \* what the last call returned
    formatted,      \* the parameters of each disk's last format, if that succeeded
    abandoned,      \* sectors a write that failed may still reach
    calls

vars == <<disk, fat16_volumes, op, frames, blocks, ret, formatted, abandoned, calls>>

Total == DOMAIN SizeOf

\* The sectors up to the root directory's end, for the largest FAT, and one
\* of the data area.
Lba == {0} \cup UNION {0..RESERVED + FATS * SizeOf[t] + ROOTSECTORS : t \in Total}

\* The ids are numbers; the last line are facts about powers that the proofs
\* need and the provers do not know.
Fat16Assumption ==
    /\ IsFiniteSet(Port) /\ Total \subseteq Nat /\ SizeOf \in [Total -> Nat]
    /\ RESERVED \in Nat \ {0} /\ FATS \in Nat \ {0}
    /\ ROOTSECTORS \in Nat /\ MAXCALLS \in Nat
    /\ \A b \in Volumes : b.vol_id \in Nat
    /\ 2^3 = 8 /\ 2^9 = 512

\* Contents of a sector.
Old == [kind |-> "old"]
Zeros == [kind |-> "zeros"]
Media == [kind |-> "media"]     \* zeros but for the marker of a FAT's first sector
Junk == [kind |-> "junk"]       \* what a late write finds in the frame
Boot(b) == [kind |-> "boot", bpb |-> b]

Idle == [kind |-> "idle"]

Init ==
    /\ \E v \in [Port -> Volumes] :
          disk = [p \in Port |-> [x \in Lba |-> IF x = 0 THEN Boot(v[p]) ELSE Old]]
    /\ fat16_volumes = <<>>
    /\ op = Idle
    /\ frames = 0 /\ blocks = 0 /\ ret = 0 /\ calls = 0
    /\ formatted = [p \in Port |-> 0]
    /\ abandoned = [p \in Port |-> {}]

\* The call ends with result r.
Return(r) == op' = Idle /\ ret' = r

---------------------------------------------------------------------------
(* fat16_format. *)

\* The boot sector it builds.
Bpb(total, f) ==
    [bps |-> 512, spc |-> 8, rsc |-> RESERVED, num_fats |-> FATS, fat_s |-> f,
     ts16 |-> IF total <= 65535 THEN total ELSE 0,
     ts32 |-> IF total > 65535 THEN total ELSE 0,
     bsig |-> 41, vol_id |-> FORMATID]

fat16_format(p, total) ==
    /\ op = Idle /\ calls < MAXCALLS
    /\ calls' = calls + 1
    /\ \/ SizeOf[total] = 0 /\ Return(2) /\ UNCHANGED <<frames, formatted>>
       \/ SizeOf[total] # 0 /\ Return(3) /\ UNCHANGED <<frames, formatted>>    \* no frame
       \/ /\ SizeOf[total] # 0
          /\ op' = [kind |-> "format", at |-> "boot", p |-> p, f |-> SizeOf[total], i |-> 0,
                    j |-> 0, sector |-> Boot(Bpb(total, SizeOf[total])), total |-> total]
          /\ frames' = frames + 1
          /\ formatted' = [formatted EXCEPT ![p] = 0]
          /\ ret' = ret
    /\ UNCHANGED <<disk, fat16_volumes, blocks, abandoned>>

\* The FAT being written starts at Base.
Base == RESERVED + op.i * op.f

\* The sector the next ahci_write goes to, and what the call returns if that
\* fails.
Target ==
    CASE op.at = "boot"  -> 0
      [] op.at = "first" -> Base
      [] op.at = "rest"  -> Base + op.j
      [] op.at = "root"  -> RESERVED + FATS * op.f + op.i

FailCode == [boot |-> 4, first |-> 5, rest |-> 6, root |-> 7][op.at]

\* The call after a write that succeeded.
Written ==
    CASE op.at = "boot"  -> [op EXCEPT !.at = "first", !.sector = Media]
      [] op.at = "first" -> [op EXCEPT !.at = "rest", !.j = 1, !.sector = Zeros]
      [] op.at = "rest"  -> [op EXCEPT !.j = op.j + 1]
      [] op.at = "root"  -> [op EXCEPT !.i = op.i + 1]

\* Mutant of Writing: the root directory's loop is one too long.
WritingPast ==
    /\ op.kind = "format"
    /\ op.at = "rest" => op.j < op.f
    /\ op.at = "root" => op.i <= ROOTSECTORS

\* There is a sector to write: the loops over a FAT's sectors and over the
\* root directory's have not ended.
Writing ==
    /\ op.kind = "format"
    /\ op.at = "rest" => op.j < op.f
    /\ op.at = "root" => op.i < ROOTSECTORS

WriteOk ==
    /\ Writing
    /\ disk' = [disk EXCEPT ![op.p][Target] = op.sector]
    /\ op' = Written
    /\ UNCHANGED <<fat16_volumes, frames, blocks, ret, formatted, abandoned, calls>>

\* Mutant of WriteFails: the frame is kept.
WriteFailsKeeps ==
    /\ Writing
    /\ disk' \in {disk, [disk EXCEPT ![op.p][Target] = op.sector]}
    /\ abandoned' \in {abandoned, [abandoned EXCEPT ![op.p] = @ \cup {Target}]}
    /\ Return(FailCode)
    /\ UNCHANGED <<fat16_volumes, frames, blocks, formatted, calls>>

WriteFails ==
    /\ Writing
    /\ disk' \in {disk, [disk EXCEPT ![op.p][Target] = op.sector]}
    /\ abandoned' \in {abandoned, [abandoned EXCEPT ![op.p] = @ \cup {Target}]}
    /\ frames' = frames - 1
    /\ Return(FailCode)
    /\ UNCHANGED <<fat16_volumes, blocks, formatted, calls>>

\* A FAT is written: the next one, with the sector as it is, or the root
\* directory.
NextFat ==
    /\ op.kind = "format" /\ op.at = "rest" /\ op.j >= op.f
    /\ op' = IF op.i + 1 < FATS THEN [op EXCEPT !.at = "first", !.i = op.i + 1]
             ELSE [op EXCEPT !.at = "root", !.i = 0, !.sector = Zeros]
    /\ UNCHANGED <<disk, fat16_volumes, frames, blocks, ret, formatted, abandoned, calls>>

FormatEnd ==
    /\ op.kind = "format" /\ op.at = "root" /\ op.i >= ROOTSECTORS
    /\ frames' = frames - 1
    /\ formatted' = [formatted EXCEPT ![op.p] = op.total]
    /\ Return(0)
    /\ UNCHANGED <<disk, fat16_volumes, blocks, abandoned, calls>>

\* A write that was given up reaches the disk after all (external).
LateWrite(p, x) ==
    /\ x \in abandoned[p]
    /\ disk' = [disk EXCEPT ![p][x] = Junk]
    /\ UNCHANGED <<fat16_volumes, op, frames, blocks, ret, formatted, abandoned, calls>>

---------------------------------------------------------------------------
(* fat16_init. *)

PowerOfTwo(n) == \E k \in 0..15 : n = 2^k

\* The boot sector is that of a volume.
fat16_validate(b) ==
    /\ b.bps >= 512 /\ b.bps <= 4096 /\ PowerOfTwo(b.bps)
    /\ PowerOfTwo(b.spc)
    /\ b.rsc >= 1 /\ b.num_fats >= 1 /\ b.fat_s # 0
    /\ b.ts16 # 0 \/ b.ts32 # 0
    /\ b.bsig = 41 /\ b.vol_id # 0

fat16_init(p) ==
    /\ op = Idle /\ calls < MAXCALLS
    /\ calls' = calls + 1
    /\ \/ Return(1) /\ frames' = frames     \* no frame
       \/ op' = [kind |-> "read", p |-> p] /\ frames' = frames + 1 /\ ret' = ret
    /\ UNCHANGED <<disk, fat16_volumes, blocks, formatted, abandoned>>

\* read_fat from ahci_read on: the frame goes back whatever happened.
ReadFat ==
    /\ op.kind = "read"
    /\ frames' = frames - 1
    /\ \/ Return(1) /\ blocks' = blocks     \* ahci_read or kmalloc failed
       \/ /\ op' = [kind |-> "check", p |-> op.p, sector |-> disk[op.p][0]]
          /\ blocks' = blocks + 1
          /\ ret' = ret
    /\ UNCHANGED <<disk, fat16_volumes, formatted, abandoned, calls>>

Valid == op.sector.kind = "boot" /\ fat16_validate(op.sector.bpb)
Known == \E k \in DOMAIN fat16_volumes : fat16_volumes[k] = op.sector.bpb.vol_id

\* Not a volume, already listed, or no memory for the list's node.
Refused ==
    /\ op.kind = "check"
    /\ \/ ~Valid /\ Return(2)
       \/ Valid /\ Known /\ Return(3)
       \/ Valid /\ ~Known /\ Return(4)
    /\ blocks' = blocks - 1
    /\ UNCHANGED <<disk, fat16_volumes, frames, formatted, abandoned, calls>>

\* fat_list_push_back takes a block for the node, then the copy is freed.
Listed ==
    /\ op.kind = "check" /\ Valid /\ ~Known
    /\ fat16_volumes' = Append(fat16_volumes, op.sector.bpb.vol_id)
    /\ Return(0)
    /\ UNCHANGED <<disk, frames, blocks, formatted, abandoned, calls>>

fat_list_free ==
    /\ op = Idle
    /\ blocks' = blocks - Len(fat16_volumes)
    /\ fat16_volumes' = <<>>
    /\ UNCHANGED <<disk, op, frames, ret, formatted, abandoned, calls>>

Next ==
    \/ \E p \in Port : fat16_init(p) \/ \E t \in Total : fat16_format(p, t)
    \/ WriteOk \/ WriteFails \/ NextFat \/ FormatEnd
    \/ ReadFat \/ Refused \/ Listed \/ fat_list_free
    \/ \E p \in Port, x \in Lba : LateWrite(p, x)

Spec == Init /\ [][Next]_vars

---------------------------------------------------------------------------
(* Properties. *)

Sector == {Old, Zeros, Media, Junk} \cup {Boot(v) : v \in Volumes}
          \cup {Boot(Bpb(t, SizeOf[t])) : t \in Total}

(* The types of the state: in particular no sector outside the disk's      *)
(* layout is addressed, and nothing is given back twice.                   *)
TypeOK ==
    /\ disk \in [Port -> [Lba -> Sector]]
    /\ fat16_volumes \in Seq(Nat)
    /\ frames \in 0..1 /\ blocks \in Nat
    /\ ret \in 0..7
    /\ formatted \in [Port -> Total \cup {0}]
    /\ abandoned \in [Port -> SUBSET Lba]
    /\ Writing => Target \in Lba

(* Whatever failed and wherever, between calls no frame is held, and no    *)
(* heap block but those of the list's nodes.                               *)
NothingLeaks == op = Idle => frames = 0 /\ blocks = Len(fat16_volumes)

(* No volume is listed twice, however often disks are formatted, which     *)
(* gives all of them one id, and looked at again.                          *)
VolumesUnique ==
    \A j, k \in DOMAIN fat16_volumes : fat16_volumes[j] = fat16_volumes[k] => j = k

(* When fat16_format has returned 0, the boot sector and every sector from *)
(* the FATs to the root directory's end is as it should be (there are no   *)
(* other reserved sectors: RESERVED is 1), also when earlier formats       *)
(* with other sizes failed half way; only a sector to which a write was    *)
(* given up may differ.  (The second FAT starts with zeros, without the    *)
(* marker, since the sector is cleared once the first FAT began.)          *)
FormatComplete ==
    \A p \in Port : formatted[p] # 0 =>
        LET f == SizeOf[formatted[p]] IN
        \A x \in {0} \cup (RESERVED..RESERVED + FATS * f + ROOTSECTORS - 1) :
            \/ x \in abandoned[p]
            \/ disk[p][x] = IF x = 0 THEN Boot(Bpb(formatted[p], f))
                            ELSE IF x = RESERVED THEN Media ELSE Zeros

(* Nothing writes to the data area, nor to a disk that is not being        *)
(* formatted, unless a write was given up there.                           *)
WritesWithin ==
    [][\A p \in Port, x \in Lba : disk'[p][x] # disk[p][x] =>
          \/ x \in abandoned[p]
          \/ /\ op.kind = "format" /\ op.p = p
             /\ x < RESERVED + FATS * op.f + ROOTSECTORS]_vars

(* A disk that fat16_format has formatted, fat16_init does not reject as   *)
(* no FAT16 volume.                                                        *)
FormattedIsValid ==
    [][op.kind = "check" /\ op' = Idle /\ ret' = 2
          => formatted[op.p] = 0 \/ 0 \in abandoned[op.p]]_vars

(* Between any failures: nothing leaks, no volume is listed twice, and a   *)
(* format that reports success has written every sector it should.         *)
VolumesSound == TypeOK /\ NothingLeaks /\ VolumesUnique /\ FormatComplete

(* Formatting stays within the structures it builds, and builds what       *)
(* fat16_init accepts.                                                     *)
FormatSafe == WritesWithin /\ FormattedIsValid
=============================================================================
