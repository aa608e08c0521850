------------------------------ MODULE MCFat16 ------------------------------
(***************************************************************************)
(* FAT16: either the computation of a FAT's size, or the life of volumes   *)
(* on two disks, in each behaviour.                                        *)
(*                                                                         *)
(* The sizes have the real parameters, except that TLC's integers need a   *)
(* word below 2^31.  Totals: none and too few (the subtraction wraps),     *)
(* both ends of the range FAT16 allows, a stretch in which sizes change,   *)
(* and both sides of the sign bit.                                         *)
(* The volumes have FATs of one and two sectors and a root directory of    *)
(* two; the totals are on both sides of the limit of the 16-bit count, and *)
(* one that is refused.  The disks start with a volume or something else.  *)
(***************************************************************************)
EXTENDS FatSize, Sequences

CONSTANT Port

VARIABLES part, disk, fat16_volumes, op, frames, blocks, ret, formatted,
          abandoned, calls

volVars == <<disk, fat16_volumes, op, frames, blocks, ret, formatted, abandoned,
             calls>>

MCTOTALS ==
    (0..100) \cup (32600..34000) \cup (262000..262600) \cup (523900..525000)
    \cup (WORD \div 2 - 20 .. WORD \div 2 + 60) \cup (WORD - 40 .. WORD - 1)

MCSizeOf == [t \in {100, 65535, 65536} |-> IF t = 100 THEN 0 ELSE t - 65534]

AVolume == [bps |-> 512, spc |-> 4, rsc |-> 1, num_fats |-> 2, fat_s |-> 32,
            ts16 |-> 0, ts32 |-> 70000, bsig |-> 41, vol_id |-> 7]
MCVolumes == {AVolume, [AVolume EXCEPT !.bps = 520]}

Vol == INSTANCE Fat16 WITH
    SizeOf <- MCSizeOf, ROOTSECTORS <- 2, Volumes <- MCVolumes, MAXCALLS <- 3

ASSUME Vol!Fat16Assumption

\* While sizes are computed the disks hold volumes; while volumes change, the
\* computation has returned.
MCInit ==
    \/ part = "size" /\ Init /\ Vol!Init /\ \A p \in Port : disk[p][0].bpb = AVolume
    \/ part = "volumes" /\ Vol!Init /\ total = 0 /\ fat_size = 0 /\ done = TRUE

SizeStep == part = "size" /\ Next /\ UNCHANGED <<part, volVars>>
VolumeStep == part = "volumes" /\ Vol!Next /\ UNCHANGED <<part, vars>>

MCSpec == /\ MCInit /\ [][SizeStep \/ VolumeStep]_<<part, vars, volVars>>
          /\ WF_vars(SizeStep)
-----------------------------------------------------------------------------
\* Fat16: between any failures nothing leaks, no volume is listed twice, and a
\* format that reports success has written every sector it should.
VolumesSound == Vol!VolumesSound

\* Fat16: formatting stays within the structures it builds, and builds what
\* fat16_init accepts.
FormatSafe == Vol!FormatSafe
=============================================================================
